----------------------------- MODULE ResumeInv -----------------------------
(***************************************************************************)
(* The inductive invariants behind NoGap and FileNotAhead, in named parts, *)
(* and behind LossPerCrash of module Resume.  ResumeProofs proves them.    *)
(***************************************************************************)
EXTENDS Resume

(* Every change after a, up to n, is in s. *)
Has(s, a, n) == \A i \in (a + 1)..n : i \in s

(* The pipeline has got every change up to n that it is owed. *)
Got(n) == Has(seen, origin, n)

(* What a position in the hands of a saver, or on disk, says is done. *)
Claim(n) == Got(IF Kind("mongodb") THEN n - 1 ELSE n)

(* Nothing has happened that a restart cannot make up for. *)
Sound == why = {} /\ Exact /\ origin # Unset

(* No saver of a former instance is left. *)
Alone == \A i \in Slots : old[i] = "off"

Starting == pc \in {"create", "created", "copy"}

TypeInv ==
  /\ TypeOK
  /\ head >= 1 /\ nxt >= 1
  /\ IF pc = "send" THEN hand = nxt - 1 /\ hand >= 1 ELSE hand = 0
  /\ pc \notin {"closing", "ended"} => try <= MaxTry

(* Which reader can be where. *)
PlaceInv ==
  /\ pc \in {"trunc", "write"} => Kind("mysql") /\ conf.resume
  /\ pc \in {"create", "created"} => Kind("field") /\ conf.resume
  /\ pc = "copy" => Replica /\ ~Kind("kafka")
  /\ pc = "down" => row = 1 /\ ~wgStuck
  /\ pc = "hung" => ~wgStuck
  /\ Kind("field") /\ conf.resume /\ pc \in {"created", "copy"} => file # Missing
  /\ saver # "off" => pc # "down" /\ ~Starting
  /\ Replica /\ ~Kind("kafka") => origin \in {Unset, 0}

(* What there is to start from when a source has not run. *)
FirstInv ==
  /\ ~conf.resume => file = Missing /\ saver = "off" /\ Alone
  /\ why = {} /\ Exact /\ origin = Unset =>
       /\ file = Missing /\ saver = "off" /\ Alone
       /\ pc \in {"down", "ended", "hung"}
  /\ why = {} /\ Kind("field") /\ file = Missing => saver = "off" /\ Alone

(* Before the stream: what has been copied is as new as the position taken. *)
CopyInv ==
  Sound /\ Starting =>
    /\ nxt - 1 <= head
    /\ mem = IF Kind("mongodb") THEN nxt ELSE nxt - 1
    /\ Kind("field") => Alone
    /\ pc # "copy" => row = 1
    /\ Replica => \A i \in 1..(nxt - 1) : RowOf[i] < row => i \in seen
    /\ ~Replica => Got(nxt - 1)

DiskInv ==
  Sound =>
    /\ file >= 0 => IF Kind("field") /\ pc = "copy" THEN file = mem ELSE Claim(file)
    /\ saver \in {"set", "write"} => Claim(saverPos)
    /\ \A i \in Slots : old[i] # "off" => Claim(oldPos[i])

StreamInv ==
  Sound =>
    /\ Watching => \A i \in (origin + 1)..(nxt - 1) : i \in seen \/ i = hand
    /\ Watching /\ ~Kind("mongodb") => Got(mem)
    /\ saver # "off" => Claim(Position)

RInv ==
  /\ TypeInv /\ PlaceInv /\ FirstInv
  /\ CopyInv /\ DiskInv /\ StreamInv

(* Kafka, which commits what it has not handed over yet: of the changes before
   one that is to be read again, those the pipeline has not got, but for the one
   in hand, are no more than the crashes. *)
Missed(n) == {i \in (origin + 1)..(n - 1) : i \notin seen /\ i # hand}
Few(n)    == Cardinality(Missed(n)) <= crashes

KafkaInv ==
  Kind("kafka") /\ why = {} =>
    IF origin = Unset
    THEN file = Missing /\ saver = "off" /\ Alone /\ pc \in {"down", "ended"}
    ELSE /\ Few(file) /\ Few(committed) /\ Few(mem) /\ Few(nxt)
         /\ saver \in {"set", "write"} => Few(saverPos)
         /\ \A i \in Slots : old[i] # "off" => Few(oldPos[i])
=============================================================================
