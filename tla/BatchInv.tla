------------------------------ MODULE BatchInv ------------------------------
(***************************************************************************)
(* The inductive invariant behind the theorems about BatchWriter, in named *)
(* parts.  BatchProofs proves it.                                          *)
(***************************************************************************)
EXTENDS BatchWriter

(* A write has all its fields. *)
Written(r) ==
  r = [st |-> r.st, slice |-> r.slice, read |-> r.read, got |-> r.got,
       todo |-> r.todo, failed |-> r.failed, batch |-> r.batch]

(* w is a sequence of writes; arrays are not empty. *)
ShapeInv ==
  /\ Len(w) \in Nat /\ w = [k \in 1..Len(w) |-> w[k]]
  /\ \A k \in DOMAIN w : Written(w[k])
  /\ \A a \in DOMAIN heap : Len(heap[a]) > 0

(* Run waits for the last write, which was given what is in the cache. *)
Waits == pc \in {"wait", "final"}
WaitInv ==
  /\ Waits => w # <<>> /\ w[Len(w)].batch = Content(cacheList)
  /\ pc = "wait" => (expired <=> Len(w) \in late)
  /\ pc = "final" => Len(w) \notin late

(* A write that is not late is the last one, or has returned. *)
Current(k) == k = Len(w) /\ Waits
TurnInv ==
  \A k \in DOMAIN w :
    /\ k \notin late => Current(k) \/ w[k].st = "ret" \/ pc = "crash"
    /\ w[k].st \in {"begin", "connect", "ret"} => w[k].todo = {}

(* It has read what it was given; while at work it reads the cache, which does
   not change meanwhile, through a client that Run does not take away. *)
ReadInv ==
  \A k \in DOMAIN w \ late :
    /\ IsPrefix(w[k].read, w[k].batch)
    /\ w[k].st = "call" => w[k].read = w[k].batch
    /\ Current(k) =>
         /\ w[k].st \in {"connect", "gather", "call"} => w[k].slice = cacheList
         /\ w[k].st \in {"begin", "connect"} => w[k].read = <<>>
         /\ w[k].st \in {"gather", "call"} => client

CrashInv == pc = "crash" => \E k \in late : w[k].todo # {} /\ NoClient(k)

LimitInv == limit > 0 /\ (pc = "select" => cacheList.len < limit)

BInv ==
  TypeOK /\ ShapeInv /\ WaitInv /\ TurnInv /\ ReadInv /\ CrashInv /\ LimitInv /\ BatchesPartition

(* A step of write k: the other writes, Run and the arrays stay. *)
Kept(k) ==
  /\ pc # "crash" /\ w' = [w EXCEPT ![k] = w'[k]] /\ Written(w'[k])
  /\ UNCHANGED <<Writer, pc, taken, exitF, limit, timer, cacheList, expired, heap, late>>

-----------------------------------------------------------------------------
(* What is left of a write, and what it has done: behind FailuresCounted and
   InOrder. *)

Left(r) == r.got \cup r.todo

(* An op that is gathered, unless Release has dropped DocumentSetMap, and one that
   is sent then. *)
Mapped(n) == Writer = "elasticsearch" \/ n \notin Unmapped
Sendable(n) == Mapped(n) /\ ~(Writer = "mongodb" /\ n \in Unsplit)

(* The positions left were read; what was gathered and sent apart from them may
   have failed. *)
LeftOK(r) ==
  /\ Left(r) \subseteq DOMAIN r.read /\ r.got \cap r.todo = {}
  /\ r.failed \in Nat /\ Len(r.read) <= r.slice.len
  /\ r.st \in {"begin", "connect"} => Left(r) = {} /\ r.failed = 0 /\ r.read = <<>>
  /\ r.st \in {"call", "ret"} => r.got = {}
  /\ r.st = "call" => Len(r.read) = r.slice.len
  /\ IF r.st = "ret" THEN Left(r) = {} /\ r.failed <= r.slice.len
     ELSE r.failed + Cardinality(Left(r)) <= Len(r.read)

LeftInv ==
  /\ released => pc \in {"release", "end", "crash"}
  /\ \A k \in DOMAIN w : LeftOK(w[k])

(* Of a batch in time, what a write is done with and did not take effect is in
   its "failed"; what Run has finished with is in the counter. *)
Uncounted == IF Writer = "mongodb" THEN Unmapped \cup Unsplit ELSE {}
Done(r) == IF r.st = "ret" THEN DOMAIN r.batch ELSE DOMAIN r.read \ Left(r)
Failures(r, good) == {i \in Done(r) : r.batch[i] \notin good}
Good == applied \cup Uncounted

FailInv == \A k \in DOMAIN w \ late : Cardinality(Failures(w[k], Good)) <= w[k].failed

Lost == InBatches(Finished \ late) \ Good
LostInv == FailedDeliveryCount \in Nat /\ Cardinality(Lost) <= FailedDeliveryCount

(* What took effect was sent, by a write in time unless a late one has read it;
   in time, what is left goes after what was sent. *)
Sent(r) == {i \in DOMAIN r.read \ Left(r) : Sendable(r.read[i])}

AppliedInv ==
  \A m \in applied \ ReadLate :
    \E k \in DOMAIN w \ late : \E i \in Sent(w[k]) : m = w[k].read[i]

SentOK(r) ==
  /\ \A i \in Left(r) : Mapped(r.read[i])
  /\ \A i \in r.todo, j \in r.got : i < j
  /\ \A i \in Left(r), j \in Sent(r) :
       Sendable(r.read[i]) => j < i \/ GoesFirst(r.read[j], r.read[i])

SentInv == \A k \in DOMAIN w \ late : SentOK(w[k])

(* Together with BInv. *)
EffectInv == LeftInv /\ FailInv /\ LostInv /\ AppliedInv /\ SentInv
=============================================================================
