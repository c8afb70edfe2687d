------------------------- MODULE BatchEffectProofs -------------------------
(***************************************************************************)
(* Proofs about what the writes of module BatchWriter do to the database:  *)
(* no failure is lost from the counter, and ops take effect in their order *)
(* (EffectInv of BatchInv is the inductive invariant, beside the one that  *)
(* BatchProofs proves).                                                    *)
(*                                                                         *)
(* The lemmas named ...Leaves say what each step does to the positions a   *)
(* write has gathered and not sent; then each part of the invariant has a  *)
(* lemma, first about two records, a write before and after its step.      *)
(***************************************************************************)
EXTENDS BatchProofs, FiniteSetTheorems

USE DEF run

-----------------------------------------------------------------------------
(* What each step does to what is left of a write *)

LEMMA BeginLeaves ==
  ASSUME ShapeInv, NEW k \in DOMAIN w, WriteBegin(k)
  PROVE  /\ w'[k].got = w[k].got /\ w'[k].todo = w[k].todo /\ w'[k].failed = w[k].failed
         /\ w'[k].st = "ret" => cacheList.len = 0
         /\ UNCHANGED <<applied, released, FailedDeliveryCount>>
  <1>1. Written(w[k]) /\ w = [j \in 1..Len(w) |-> w[j]]
    BY DEF ShapeInv
  <1> QED
    BY <1>1 DEF WriteBegin, Written

LEMMA ConnectLeaves ==
  ASSUME ShapeInv, NEW k \in DOMAIN w, WriteConnect(k)
  PROVE  /\ w'[k].got = w[k].got /\ w'[k].todo = w[k].todo
         /\ w'[k].failed = (IF w'[k].st = "ret" THEN w[k].slice.len ELSE w[k].failed)
         /\ UNCHANGED <<applied, released, FailedDeliveryCount>>
  <1>1. Written(w[k]) /\ w = [j \in 1..Len(w) |-> w[j]]
    BY DEF ShapeInv
  <1> QED
    BY <1>1 DEF WriteConnect, Written, Set

(* The op at the next position is gathered, or passed over. *)
Gathers(r, q, n) ==
  LET i == Len(r.read) + 1
  IN  /\ r.todo = {} /\ q.read = Append(r.read, n) /\ q.failed = r.failed
      /\ \/ q.got = r.got \cup {i} /\ q.todo = {} /\ ~Closes(r, n)
         \/ q.got = {i} /\ q.todo = r.got

Passes(r, q, n) ==
  /\ r.todo = {} /\ q.read = Append(r.read, n) /\ q.got = r.got /\ q.todo = {}
  /\ q.failed = (IF Writer = "mongodb" THEN r.failed ELSE r.failed + 1)

LEMMA GatherLeaves ==
  ASSUME ShapeInv, NEW k \in DOMAIN w, WriteGather(k)
  PROVE  LET n == heap[w[k].slice.arr][Len(w[k].read) + 1]
         IN  /\ \/ Mapped(n) /\ Gathers(w[k], w'[k], n)
                \/ (~Mapped(n) \/ released) /\ Passes(w[k], w'[k], n)
             /\ UNCHANGED <<applied, released, FailedDeliveryCount>>
  <1> DEFINE i == Len(w[k].read) + 1
             n == heap[w[k].slice.arr][i]
             ok == Writer = "elasticsearch" \/ (n \notin Unmapped /\ ~released)
             closes == ok /\ Closes(w[k], n)
  <1>1. Written(w[k]) /\ w = [j \in 1..Len(w) |-> w[j]]
    BY DEF ShapeInv
  <1>2. /\ w[k].todo = {} /\ UNCHANGED <<applied, released, FailedDeliveryCount>>
        /\ w' = [w EXCEPT ![k].read = Append(@, n),
                          ![k].got = IF ~ok THEN @ ELSE IF closes THEN {i} ELSE @ \cup {i},
                          ![k].todo = IF closes THEN w[k].got ELSE @,
                          ![k].failed = IF ok \/ Writer = "mongodb" THEN @ ELSE @ + 1]
    BY DEF WriteGather
  <1> HIDE DEF n, ok, closes, i
  <1>3. /\ w'[k].read = Append(w[k].read, n)
        /\ w'[k].got = (IF ~ok THEN w[k].got ELSE IF closes THEN {i} ELSE w[k].got \cup {i})
        /\ w'[k].todo = (IF closes THEN w[k].got ELSE w[k].todo)
        /\ w'[k].failed = (IF ok \/ Writer = "mongodb" THEN w[k].failed ELSE w[k].failed + 1)
    BY <1>1, <1>2 DEF Written
  <1>4. CASE ok
    <2>1. Mapped(n)
      BY <1>4 DEF Mapped, ok
    <2>2. Gathers(w[k], w'[k], n)
      BY <1>2, <1>3, <1>4 DEF Gathers, closes, i
    <2> QED
      BY <1>2, <2>1, <2>2 DEF n, i
  <1>5. CASE ~ok
    <2>1. ~Mapped(n) \/ released
      BY <1>5 DEF Mapped, ok
    <2>2. Passes(w[k], w'[k], n)
      BY <1>2, <1>3, <1>5 DEF Passes, closes
    <2> QED
      BY <1>2, <2>1, <2>2 DEF n, i
  <1> QED
    BY <1>4, <1>5

LEMMA GatheredLeaves ==
  ASSUME ShapeInv, NEW k \in DOMAIN w, WriteGathered(k)
  PROVE  /\ w[k].todo = {} /\ w'[k].got = {} /\ w'[k].todo = w[k].got
         /\ w'[k].failed = w[k].failed
         /\ UNCHANGED <<applied, released, FailedDeliveryCount>>
  <1>1. Written(w[k]) /\ w = [j \in 1..Len(w) |-> w[j]]
    BY DEF ShapeInv
  <1> QED
    BY <1>1 DEF WriteGathered, Written

(* The positions of r at F are sent and reported as failed. *)
Sends(r, q, F) ==
  LET sent == NextCall(r)
  IN  /\ F \subseteq sent /\ q.got = r.got /\ q.todo = r.todo \ sent
      /\ q.failed = r.failed + Cardinality(F)
      /\ applied \subseteq applied'
      /\ \A i \in sent \ F : r.read[i] \in applied'
      /\ \A m \in applied' \ applied : \E i \in sent : m = r.read[i]

LEMMA CallLeaves ==
  ASSUME ShapeInv, NEW k \in DOMAIN w, WriteCall(k)
  PROVE  /\ \E F \in SUBSET NextCall(w[k]) : Sends(w[k], w'[k], F)
         /\ UNCHANGED <<released, FailedDeliveryCount>>
  <1>1. Written(w[k]) /\ w = [j \in 1..Len(w) |-> w[j]]
    BY DEF ShapeInv
  <1>2. PICK F \in SUBSET NextCall(w[k]) :
          /\ \E G \in SUBSET F :
               applied' = applied \cup {w[k].read[i] : i \in (NextCall(w[k]) \ F) \cup G}
          /\ w' = [w EXCEPT ![k].todo = @ \ NextCall(w[k]), ![k].failed = @ + Cardinality(F)]
    BY DEF WriteCall
  <1>3. /\ w'[k].got = w[k].got /\ w'[k].todo = w[k].todo \ NextCall(w[k])
        /\ w'[k].failed = w[k].failed + Cardinality(F)
    BY <1>1, <1>2 DEF Written
  <1>4. UNCHANGED <<released, FailedDeliveryCount>>
    BY DEF WriteCall
  <1>5. Sends(w[k], w'[k], F)
    BY <1>2, <1>3 DEF Sends
  <1> QED
    BY <1>4, <1>5

LEMMA ReturnLeaves ==
  ASSUME ShapeInv, NEW k \in DOMAIN w, WriteReturn(k)
  PROVE  /\ w[k].todo = {} /\ w'[k].got = w[k].got /\ w'[k].todo = {}
         /\ w'[k].failed = w[k].failed
         /\ UNCHANGED <<applied, released, FailedDeliveryCount>>
  <1>1. Written(w[k]) /\ w = [j \in 1..Len(w) |-> w[j]]
    BY DEF ShapeInv
  <1> QED
    BY <1>1 DEF WriteReturn, Written, Set

LEMMA SkipLeaves ==
  ASSUME ShapeInv, NEW k \in DOMAIN w, WriteSkip(k)
  PROVE  /\ Writer = "mongodb" /\ w'[k].got = w[k].got
         /\ w'[k].todo = w[k].todo \ Skipped(w[k]) /\ w'[k].failed = w[k].failed
         /\ UNCHANGED <<applied, released, FailedDeliveryCount>>
  <1>1. Written(w[k]) /\ w = [j \in 1..Len(w) |-> w[j]]
    BY DEF ShapeInv
  <1> QED
    BY <1>1 DEF WriteSkip, Written

(* A call sends some of what is left to send. *)
LEMMA CallWithin ==
  ASSUME TypeOK, NEW r
  PROVE  /\ NextCall(r) \subseteq r.todo
         /\ Writer = "mongodb" => \A i \in NextCall(r) : r.read[i] \notin Unsplit
  <1>1. Writer \in {"mongodb", "elasticsearch", "clickhouse"}
    BY BatchAssumption DEF TypeOK
  <1> QED
    BY <1>1 DEF NextCall, Split, Turn, OfType, First

(* So is what is passed over. *)
LEMMA SkipWithin ==
  ASSUME NEW r
  PROVE  Skipped(r) \subseteq r.todo /\ \A i \in Skipped(r) : r.read[i] \in Unsplit
  BY DEF Skipped, Split, Turn, OfType

-----------------------------------------------------------------------------
(* What is left of a write was read, and a write counts no op twice *)

LEMMA LeftFinite ==
  ASSUME NEW r, r.read \in Seq(0..MaxOps), LeftOK(r)
  PROVE  /\ Len(r.read) \in Nat /\ DOMAIN r.read = 1..Len(r.read)
         /\ IsFiniteSet(Left(r)) /\ Cardinality(Left(r)) \in Nat
         /\ \A S \in SUBSET Left(r) : IsFiniteSet(S) /\ Cardinality(S) \in Nat
  <1>1. Len(r.read) \in Nat /\ DOMAIN r.read = 1..Len(r.read)
    OBVIOUS
  <1>2. IsFiniteSet(1..Len(r.read))
    BY <1>1, FS_Interval
  <1>3. IsFiniteSet(Left(r))
    BY <1>1, <1>2, FS_Subset DEF LeftOK
  <1>4. \A S \in SUBSET Left(r) : IsFiniteSet(S)
    BY <1>3, FS_Subset
  <1> QED
    BY <1>1, <1>3, <1>4, FS_CardinalityType

(* The op a write gathers next is one of the channel, or an empty slot. *)
LEMMA GatherReads ==
  ASSUME TypeOK, NEW k \in DOMAIN w, WriteGather(k)
  PROVE  heap[w[k].slice.arr][Len(w[k].read) + 1] \in 0..MaxOps
  <1>1. /\ w[k].read \in Seq(0..MaxOps) /\ Fits(w[k].slice, heap)
        /\ heap \in Seq(Seq(0..MaxOps))
    BY DEF TypeOK
  <1>2. Len(w[k].read) + 1 <= w[k].slice.len
    BY DEF WriteGather
  <1>3. Len(w[k].read) + 1 \in 1..w[k].slice.len
    BY <1>1, <1>2 DEF Fits
  <1>4. /\ w[k].slice.arr \in 1..Len(heap)
        /\ Len(w[k].read) + 1 \in 1..Len(heap[w[k].slice.arr])
    BY <1>1, <1>3, SliceSeq
  <1>5. heap[w[k].slice.arr] \in Seq(0..MaxOps)
    BY <1>1, <1>4
  <1> QED
    BY <1>4, <1>5, ElementOfSeq

LEMMA GatherLeft ==
  ASSUME NEW r, NEW q, NEW n \in 0..MaxOps, LeftOK(r), r.read \in Seq(0..MaxOps),
         r.slice.len \in Nat, r.st = "gather", Len(r.read) + 1 <= r.slice.len,
         q.st = "gather", q.slice = r.slice, Gathers(r, q, n) \/ Passes(r, q, n)
  PROVE  LeftOK(q)
  <1>1. /\ Len(r.read) \in Nat /\ DOMAIN r.read = 1..Len(r.read)
        /\ IsFiniteSet(Left(r)) /\ Cardinality(Left(r)) \in Nat
    BY LeftFinite
  <1>2. /\ Len(q.read) = Len(r.read) + 1
        /\ DOMAIN q.read = 1..(Len(r.read) + 1)
    BY DEF Gathers, Passes
  <1>3. /\ Left(r) \subseteq 1..Len(r.read) /\ r.failed \in Nat
        /\ r.failed + Cardinality(Left(r)) <= Len(r.read)
    BY <1>1 DEF LeftOK
  <1>4. Left(r) \subseteq DOMAIN q.read /\ Len(r.read) + 1 \in DOMAIN q.read
    BY <1>1, <1>2, <1>3
  <1>5. CASE Gathers(r, q, n)
    <2>1. Left(q) = Left(r) \cup {Len(r.read) + 1} /\ q.got \cap q.todo = {}
      <3>1. r.got \subseteq 1..Len(r.read) /\ Len(r.read) + 1 \notin r.got
        BY <1>1, <1>3 DEF Left
      <3> QED
        BY <1>5, <3>1 DEF Gathers, Left
    <2>2. Len(r.read) + 1 \notin Left(r)
      BY <1>1, <1>3
    <2>3. Cardinality(Left(q)) = Cardinality(Left(r)) + 1
      BY <1>1, <2>1, <2>2, FS_AddElement
    <2>4. q.failed = r.failed
      BY <1>5 DEF Gathers
    <2>5. q.failed + Cardinality(Left(q)) <= Len(q.read)
      BY <1>1, <1>2, <1>3, <2>3, <2>4
    <2> QED
      BY <1>2, <1>3, <1>4, <2>1, <2>4, <2>5 DEF LeftOK
  <1>6. CASE Passes(r, q, n)
    <2>1. q.got = r.got /\ q.todo = r.todo /\ q.failed \in {r.failed, r.failed + 1}
      BY <1>6 DEF Passes
    <2>2. Left(q) = Left(r) /\ q.got \cap q.todo = {}
      BY <2>1 DEF Left, LeftOK
    <2>3. q.failed \in Nat /\ q.failed + Cardinality(Left(q)) <= Len(q.read)
      BY <1>1, <1>2, <1>3, <2>1, <2>2
    <2> QED
      BY <1>2, <1>4, <2>2, <2>3 DEF LeftOK
  <1> QED
    BY <1>5, <1>6

(* A write that has not read yet. *)
LEMMA NothingLeft ==
  ASSUME NEW r, NEW q, LeftOK(r), r.st \in {"begin", "connect"}, q.slice.len \in Nat,
         q.read = r.read, q.got = r.got, q.todo = r.todo,
         \/ q.st = "ret" /\ q.failed \in {r.failed, q.slice.len}
         \/ q.st \in {"connect", "gather"} /\ q.failed = r.failed
  PROVE  LeftOK(q)
  <1>1. /\ q.got = {} /\ q.todo = {} /\ q.read = <<>> /\ r.failed = 0
        /\ Left(q) = {} /\ Len(q.read) = 0
    BY DEF LeftOK, Left
  <1>2. Cardinality(Left(q)) = 0
    BY <1>1, FS_EmptySet
  <1> QED
    BY <1>1, <1>2 DEF LeftOK

LEMMA CallLeft ==
  ASSUME TypeOK, NEW r, NEW q, LeftOK(r), r.read \in Seq(0..MaxOps), r.st # "ret",
         q.st = r.st, q.slice = r.slice, q.read = r.read,
         NEW F \in SUBSET NextCall(r), Sends(r, q, F)
  PROVE  /\ LeftOK(q) /\ Left(q) = Left(r) \ NextCall(r)
         /\ IsFiniteSet(F) /\ Cardinality(F) \in Nat
  <1> DEFINE sent == NextCall(r)
  <1>1. sent \subseteq r.todo
    BY CallWithin
  <1>2. /\ q.got = r.got /\ q.todo = r.todo \ sent /\ q.failed = r.failed + Cardinality(F)
    BY DEF Sends
  <1> HIDE DEF sent
  <1>3. Left(q) = Left(r) \ sent
    BY <1>1, <1>2 DEF Left, LeftOK
  <1>4. /\ IsFiniteSet(Left(r)) /\ Cardinality(Left(r)) \in Nat /\ Len(r.read) \in Nat
        /\ \A S \in SUBSET Left(r) : IsFiniteSet(S) /\ Cardinality(S) \in Nat
    BY LeftFinite
  <1>5. sent \in SUBSET Left(r) /\ F \in SUBSET sent /\ F \in SUBSET Left(r)
    BY <1>1 DEF Left, sent
  <1>6. /\ IsFiniteSet(sent) /\ Cardinality(sent) \in Nat
        /\ IsFiniteSet(F) /\ Cardinality(F) \in Nat
    BY <1>4, <1>5
  <1>7. Cardinality(F) <= Cardinality(sent)
    BY <1>5, <1>6, FS_Subset
  <1>8. Cardinality(Left(q)) = Cardinality(Left(r)) - Cardinality(sent)
    <2>1. Left(r) \cap sent = sent
      BY <1>5
    <2> QED
      BY <1>3, <1>4, <2>1, FS_Difference
  <1>9. r.failed \in Nat /\ r.failed + Cardinality(Left(r)) <= Len(r.read)
    BY DEF LeftOK
  <1>10. q.failed \in Nat /\ q.failed + Cardinality(Left(q)) <= Len(q.read)
    BY <1>2, <1>4, <1>6, <1>7, <1>8, <1>9
  <1>11. Left(q) \subseteq DOMAIN q.read /\ q.got \cap q.todo = {}
    BY <1>2, <1>3 DEF LeftOK
  <1>12. /\ q.st \in {"begin", "connect"} => Left(q) = {} /\ q.failed = 0 /\ q.read = <<>>
    <2>1. ASSUME q.st \in {"begin", "connect"}
          PROVE  Left(r) = {} /\ r.failed = 0 /\ r.read = <<>>
      BY <2>1 DEF LeftOK
    <2>2. Left(r) = {} => F = {}
      BY <1>5
    <2>3. Left(r) = {} /\ r.failed = 0 => q.failed = 0
      <3>1. Left(r) = {} => Cardinality(F) = 0
        BY <2>2, FS_EmptySet
      <3> QED
        BY <1>2, <3>1
    <2> QED
      BY <1>3, <2>1, <2>3
  <1>13. LeftOK(q)
    BY <1>2, <1>10, <1>11, <1>12 DEF LeftOK
  <1> QED
    BY <1>3, <1>6, <1>13 DEF sent

LEMMA SkipLeft ==
  ASSUME NEW r, NEW q, LeftOK(r), r.read \in Seq(0..MaxOps), r.st # "ret",
         q.st = r.st, q.slice = r.slice, q.read = r.read, q.got = r.got,
         q.todo = r.todo \ Skipped(r), q.failed = r.failed
  PROVE  LeftOK(q) /\ Left(q) = Left(r) \ Skipped(r)
  <1>1. Left(q) = Left(r) \ Skipped(r)
    BY SkipWithin DEF Left, LeftOK
  <1>2. /\ IsFiniteSet(Left(r)) /\ Cardinality(Left(r)) \in Nat /\ Len(r.read) \in Nat
    BY LeftFinite
  <1>3. Cardinality(Left(q)) <= Cardinality(Left(r)) /\ Cardinality(Left(q)) \in Nat
    BY <1>1, <1>2, FS_Subset, FS_CardinalityType
  <1>4. r.failed \in Nat /\ r.failed + Cardinality(Left(r)) <= Len(r.read)
    BY DEF LeftOK
  <1>5. q.failed \in Nat /\ q.failed + Cardinality(Left(q)) <= Len(q.read)
    BY <1>2, <1>3, <1>4
  <1>6. Left(q) \subseteq DOMAIN q.read /\ q.got \cap q.todo = {}
    BY <1>1 DEF LeftOK
  <1>7. LeftOK(q)
    BY <1>1, <1>5, <1>6 DEF LeftOK
  <1> QED
    BY <1>1, <1>7

(* Release comes after the last write of Run. *)
LEMMA ReleaseStep ==
  ASSUME ShapeInv, LeftInv, [Next]_vars
  PROVE  released' => pc' \in {"release", "end", "crash"}
  <1>1. CASE UNCHANGED vars
    BY <1>1 DEF vars, LeftInv
  <1>2. CASE Take \/ TakeReadDone \/ Tick \/ StartWrite \/ Expire \/ Select \/ End
    BY <1>2 DEF LeftInv, Take, TakeReadDone, Tick, StartWrite, Expire, Select, SelectDone,
       SelectTimeout, End, FinalWrite, RunRelease, RunEnd
  <1>3. ASSUME NEW k \in DOMAIN w, Write(k), ~WritePanics(k)
        PROVE  UNCHANGED <<released, pc>>
    <2>1. Kept(k)
      BY <1>3, WriteKept
    <2> QED
      BY <1>3, <2>1, BeginLeaves, ConnectLeaves, GatherLeaves, GatheredLeaves, CallLeaves,
         SkipLeaves, ReturnLeaves DEF Write, Kept
  <1>4. ASSUME NEW k \in DOMAIN w, WritePanics(k)
        PROVE  pc' = "crash"
    BY <1>4 DEF WritePanics
  <1> QED
    BY <1>1, <1>2, <1>3, <1>4 DEF Next, LeftInv

LEMMA LeftStep ==
  ASSUME TypeOK, ShapeInv, WaitInv, LeftInv, [Next]_vars
  PROVE  \A k \in DOMAIN w' : LeftOK(w'[k])
  <1> USE DEF LeftInv
  <1>1. CASE UNCHANGED vars
    BY <1>1 DEF vars
  <1>2. CASE Take \/ TakeReadDone \/ Tick \/ Expire \/ Select \/ RunRelease \/ RunEnd
    <2>1. w' = w
      BY <1>2 DEF Take, TakeReadDone, Tick, Expire, Select, SelectDone, SelectTimeout,
         RunRelease, RunEnd
    <2> QED
      BY <2>1
  <1>3. CASE StartWrite \/ FinalWrite
    <2>1. /\ DOMAIN w' = 1..Len(w') /\ DOMAIN w = 1..Len(w) /\ Len(w') = Len(w) + 1
          /\ Len(w) \in Nat /\ \A j \in DOMAIN w : w'[j] = w[j]
          /\ w'[Len(w')] = NewWrite(Content(cacheList))
      BY <1>3, StartShape DEF StartWrite, FinalWrite
    <2>2. LeftOK(NewWrite(Content(cacheList)))
      BY FS_EmptySet DEF NewWrite, LeftOK, Left
    <2> QED
      BY <2>1, <2>2
  <1>4. ASSUME NEW k \in DOMAIN w, Write(k), ~WritePanics(k)
        PROVE  \A j \in DOMAIN w' : LeftOK(w'[j])
    <2>1. /\ DOMAIN w' = DOMAIN w /\ \A j \in DOMAIN w \ {k} : w'[j] = w[j]
      BY <1>4, WriteKept, KeptShape
    <2>2. /\ w[k].read \in Seq(0..MaxOps) /\ w[k].slice.len \in Nat /\ LeftOK(w[k])
          /\ cacheList.len \in Nat
      BY DEF TypeOK, Fits
    <2>3. CASE WriteBegin(k)
      <3>1. /\ w[k].st = "begin" /\ w'[k].slice = cacheList /\ w'[k].st \in {"ret", "connect"}
            /\ w'[k].read = w[k].read /\ w'[k].todo = w[k].todo /\ w'[k].got = w[k].got
            /\ w'[k].failed = w[k].failed
        BY <2>3, WriteBeginFields, BeginLeaves
      <3>2. LeftOK(w'[k])
        BY <2>2, <3>1, NothingLeft
      <3> QED
        BY <2>1, <3>2
    <2>4. CASE WriteConnect(k)
      <3>1. /\ w[k].st = "connect" /\ w'[k].slice = w[k].slice
            /\ w'[k].st \in {"gather", "ret"} /\ w'[k].read = w[k].read
            /\ w'[k].todo = w[k].todo /\ w'[k].got = w[k].got
            /\ w'[k].failed = (IF w'[k].st = "ret" THEN w[k].slice.len ELSE w[k].failed)
        BY <2>4, WriteConnectFields, ConnectLeaves
      <3>2. LeftOK(w'[k])
        BY <2>2, <3>1, NothingLeft
      <3> QED
        BY <2>1, <3>2
    <2>5. CASE WriteGather(k)
      <3>1. PICK n \in 0..MaxOps : Gathers(w[k], w'[k], n) \/ Passes(w[k], w'[k], n)
        BY <2>5, GatherReads, GatherLeaves
      <3>2. LeftOK(w'[k])
        BY <2>2, <2>5, <3>1, WriteGatherFields, GatherLeft
      <3> QED
        BY <2>1, <3>2
    <2>6. CASE WriteGathered(k)
      <3>1. /\ w'[k].st = "call" /\ w'[k].slice = w[k].slice /\ w'[k].read = w[k].read
            /\ w[k].st = "gather" /\ Len(w[k].read) = w[k].slice.len
        BY <2>6, WriteGatheredFields
      <3>2. /\ w'[k].got = {} /\ w'[k].todo = w[k].got /\ w[k].todo = {}
            /\ w'[k].failed = w[k].failed
        BY <2>6, GatheredLeaves
      <3>3. Left(w'[k]) = Left(w[k])
        BY <3>2 DEF Left
      <3>4. LeftOK(w'[k])
        BY <2>2, <3>1, <3>2, <3>3 DEF LeftOK
      <3> QED
        BY <2>1, <3>4
    <2>7. CASE WriteCall(k)
      <3>1. PICK F \in SUBSET NextCall(w[k]) : Sends(w[k], w'[k], F)
        BY <2>7, CallLeaves
      <3>2. w[k].st # "ret"
        BY <2>7, WriteCallFields DEF LeftOK, Left
      <3>3. LeftOK(w'[k])
        BY <2>2, <2>7, <3>1, <3>2, WriteCallFields, CallLeft
      <3> QED
        BY <2>1, <3>3
    <2>8. CASE WriteReturn(k)
      <3>1. /\ w'[k].st = "ret" /\ w'[k].slice = w[k].slice /\ w'[k].read = w[k].read
            /\ w[k].st = "call"
        BY <2>8, WriteReturnFields
      <3>2. /\ w[k].todo = {} /\ w'[k].got = w[k].got /\ w'[k].todo = {}
              /\ w'[k].failed = w[k].failed
        BY <2>8, ReturnLeaves
      <3>3. Left(w'[k]) = Left(w[k]) /\ w[k].got = {} /\ Left(w[k]) = {}
        BY <2>2, <3>1, <3>2 DEF Left, LeftOK
      <3>4. w[k].failed \in Nat /\ w[k].failed <= w[k].slice.len
        BY <2>2, <3>1, <3>3, FS_EmptySet DEF LeftOK
      <3>5. LeftOK(w'[k])
        BY <2>2, <3>1, <3>2, <3>3, <3>4 DEF LeftOK, Left
      <3> QED
        BY <2>1, <3>5
    <2>9. CASE WriteSkip(k)
      <3>1. w[k].st # "ret"
        BY <2>2, <2>9, WriteSkipFields DEF LeftOK, Left
      <3>2. LeftOK(w'[k])
        BY <2>2, <2>9, <3>1, WriteSkipFields, SkipLeaves, SkipLeft
      <3> QED
        BY <2>1, <3>2
    <2> QED
      BY <1>4, <2>3, <2>4, <2>5, <2>6, <2>7, <2>8, <2>9 DEF Write
  <1>5. ASSUME NEW k \in DOMAIN w, WritePanics(k)
        PROVE  \A j \in DOMAIN w' : LeftOK(w'[j])
    BY <1>5 DEF WritePanics
  <1> QED
    BY <1>1, <1>2, <1>3, <1>4, <1>5 DEF Next, End

-----------------------------------------------------------------------------
(* The failures of a write in time are in its "failed" *)

Typed(r) == r.read \in Seq(0..MaxOps) /\ r.batch \in Seq(0..MaxOps)

LEMMA FailuresFinite ==
  ASSUME NEW r, Typed(r), NEW good
  PROVE  /\ IsFiniteSet(Failures(r, good)) /\ Cardinality(Failures(r, good)) \in Nat
  <1>1. /\ Len(r.read) \in Nat /\ DOMAIN r.read = 1..Len(r.read)
        /\ Len(r.batch) \in Nat /\ DOMAIN r.batch = 1..Len(r.batch)
    BY DEF Typed
  <1>2. IsFiniteSet(DOMAIN r.read) /\ IsFiniteSet(DOMAIN r.batch)
    BY <1>1, FS_Interval
  <1>3. Failures(r, good) \subseteq DOMAIN r.read \/ Failures(r, good) \subseteq DOMAIN r.batch
    BY DEF Failures, Done
  <1>4. IsFiniteSet(Failures(r, good))
    BY <1>2, <1>3, FS_Subset
  <1> QED
    BY <1>4, FS_CardinalityType

(* Failures grow by what is reported. *)
LEMMA FailuresGrow ==
  ASSUME NEW r, NEW q, Typed(r), Typed(q), NEW good, NEW better,
         NEW F, IsFiniteSet(F), Failures(q, better) \subseteq Failures(r, good) \cup F,
         r.failed \in Nat, Cardinality(Failures(r, good)) <= r.failed,
         q.failed = r.failed + Cardinality(F)
  PROVE  Cardinality(Failures(q, better)) <= q.failed
  <1> DEFINE f == Failures(r, good)
             g == Failures(q, better)
  <1>1. /\ IsFiniteSet(f) /\ Cardinality(f) \in Nat /\ Cardinality(g) \in Nat
        /\ Cardinality(f) <= r.failed /\ g \subseteq f \cup F
    BY FailuresFinite
  <1> HIDE DEF f, g
  <1>2. Cardinality(F) \in Nat
    BY FS_CardinalityType
  <1>3. /\ IsFiniteSet(f \cup F)
        /\ Cardinality(f \cup F) = Cardinality(f) + Cardinality(F) - Cardinality(f \cap F)
    BY <1>1, FS_Union
  <1>4. Cardinality(f \cap F) \in Nat
    BY <1>1, FS_Intersection, FS_CardinalityType
  <1>5. Cardinality(g) <= Cardinality(f \cup F)
    BY <1>1, <1>3, FS_Subset
  <1>6. Cardinality(g) <= q.failed
    BY <1>1, <1>2, <1>3, <1>4, <1>5
  <1> QED
    BY <1>6 DEF g

(* A write in time that has not returned is the one Run waits for. *)
LEMMA AtWork ==
  ASSUME TypeOK, WaitInv, TurnInv, ReadInv, LeftInv, pc # "crash",
         NEW k \in DOMAIN w \ late, w[k].st # "ret"
  PROVE  /\ Current(k) /\ k = Len(w) /\ ~released
         /\ Len(w[k].batch) = cacheList.len
         /\ w[k].st \in {"connect", "gather", "call"} => w[k].slice = cacheList
         /\ IsPrefix(w[k].read, w[k].batch)
         /\ Len(w[k].read) <= Len(w[k].batch)
         /\ \A i \in DOMAIN w[k].read : i \in DOMAIN w[k].batch /\ w[k].read[i] = w[k].batch[i]
  <1>1. Current(k) /\ k = Len(w) /\ Waits
    BY DEF TurnInv, Current
  <1>2. ~released
    BY <1>1 DEF LeftInv, Waits
  <1>3. Len(w[k].batch) = cacheList.len
    BY <1>1, CacheSeq DEF WaitInv
  <1>4. /\ IsPrefix(w[k].read, w[k].batch)
        /\ w[k].read \in Seq(0..MaxOps) /\ w[k].batch \in Seq(0..MaxOps)
    BY DEF ReadInv, TypeOK
  <1>5. /\ Len(w[k].read) <= Len(w[k].batch)
        /\ \A i \in 1..Len(w[k].read) : w[k].read[i] = w[k].batch[i]
    BY <1>4, PrefixPoints
  <1>6. \A i \in DOMAIN w[k].read : i \in DOMAIN w[k].batch /\ w[k].read[i] = w[k].batch[i]
    BY <1>4, <1>5
  <1> QED
    BY <1>1, <1>2, <1>3, <1>4, <1>5, <1>6 DEF ReadInv

(* The op at the next position is one of the batch. *)
LEMMA GatherOwn ==
  ASSUME TypeOK, TypeOK', ShapeInv, WaitInv, TurnInv, ReadInv, LeftInv,
         NEW k \in DOMAIN w \ late, WriteGather(k)
  PROVE  LET n == heap[w[k].slice.arr][Len(w[k].read) + 1]
         IN  /\ Len(w[k].read) + 1 \in DOMAIN w[k].batch
             /\ w[k].batch[Len(w[k].read) + 1] = n
             /\ \/ Mapped(n) /\ Gathers(w[k], w'[k], n)
                \/ ~Mapped(n) /\ Passes(w[k], w'[k], n)
  <1> DEFINE n == heap[w[k].slice.arr][Len(w[k].read) + 1]
  <1>1. pc # "crash" /\ w[k].st # "ret"
    BY DEF WriteGather
  <1>2. ~released
    BY <1>1, AtWork
  <1>3. IsPrefix(w'[k].read, w'[k].batch) /\ w'[k].batch = w[k].batch /\ n \in 0..MaxOps
        /\ w'[k].read = Append(w[k].read, n)
    BY GatherPrefix, GatherReads, WriteGatherFields
  <1> HIDE DEF n
  <1>4. w[k].read \in Seq(0..MaxOps) /\ w[k].batch \in Seq(0..MaxOps)
    BY DEF TypeOK
  <1>5. /\ Append(w[k].read, n) \in Seq(0..MaxOps)
        /\ Len(Append(w[k].read, n)) = Len(w[k].read) + 1 /\ Len(w[k].read) \in Nat
        /\ Append(w[k].read, n)[Len(w[k].read) + 1] = n
    BY <1>3, <1>4
  <1>6. /\ Len(w[k].read) + 1 <= Len(w[k].batch)
        /\ Append(w[k].read, n)[Len(w[k].read) + 1] = w[k].batch[Len(w[k].read) + 1]
    <2>1. IsPrefix(Append(w[k].read, n), w[k].batch)
      BY <1>3
    <2>2. /\ Len(Append(w[k].read, n)) <= Len(w[k].batch)
          /\ \A i \in 1..Len(Append(w[k].read, n)) : Append(w[k].read, n)[i] = w[k].batch[i]
      BY <1>4, <1>5, <2>1, PrefixPoints
    <2> QED
      BY <1>5, <2>2
  <1>7. Len(w[k].read) + 1 \in DOMAIN w[k].batch /\ w[k].batch[Len(w[k].read) + 1] = n
    BY <1>4, <1>5, <1>6
  <1> QED
    BY <1>2, <1>7, GatherLeaves DEF n

(* What a write in time is done with, after its next step. *)
LEMMA FailWrite ==
  ASSUME TypeOK, TypeOK', ShapeInv, WaitInv, TurnInv, ReadInv, LeftInv, FailInv,
         NEW k \in DOMAIN w \ late, Write(k), ~WritePanics(k)
  PROVE  Cardinality(Failures(w'[k], Good')) <= w'[k].failed
  <1> DEFINE r == w[k]
             q == w'[k]
  <1>1. /\ pc # "crash" /\ Kept(k) /\ q.batch = r.batch /\ DOMAIN w' = DOMAIN w
    BY WriteKept, KeptShape DEF Kept
  <1>2. /\ Typed(r) /\ Typed(q) /\ LeftOK(r) /\ r.failed \in Nat
        /\ Cardinality(Failures(r, Good)) <= r.failed
    BY <1>1 DEF TypeOK, Typed, FailInv, LeftInv, LeftOK
  <1>3. Uncounted' = Uncounted
    BY <1>1 DEF Kept, Uncounted
  <1>4. r.st # "ret" => /\ Len(r.batch) = cacheList.len
                        /\ r.st \in {"connect", "gather", "call"} => r.slice = cacheList
                        /\ \A i \in DOMAIN r.read : i \in DOMAIN r.batch /\ r.read[i] = r.batch[i]
    BY <1>1, AtWork
  <1>5. /\ Len(r.batch) \in Nat /\ DOMAIN r.batch = 1..Len(r.batch)
        /\ Len(r.read) \in Nat /\ DOMAIN r.read = 1..Len(r.read)
    BY <1>2 DEF Typed
  <1>13. ASSUME NEW F, IsFiniteSet(F), Failures(q, Good') \subseteq Failures(r, Good) \cup F,
                q.failed = r.failed + Cardinality(F)
         PROVE  Cardinality(Failures(q, Good')) <= q.failed
    <2> HIDE DEF r, q
    <2> QED
      BY <1>2, <1>13, FailuresGrow
  <1>6. ASSUME Good' = Good, Failures(q, Good) \subseteq Failures(r, Good), q.failed = r.failed
        PROVE  Cardinality(Failures(q, Good')) <= q.failed
    <2>1. IsFiniteSet({}) /\ Cardinality({}) = 0
      BY FS_EmptySet
    <2>2. q.failed = r.failed + Cardinality({})
      BY <1>2, <1>6, <2>1
    <2>3. Failures(q, Good') \subseteq Failures(r, Good) \cup {}
      BY <1>6
    <2> HIDE DEF r, q
    <2> QED
      BY <1>13, <2>1, <2>2, <2>3
  <1>7. CASE WriteBegin(k)
    <2>1. /\ r.st = "begin" /\ q.read = r.read /\ q.st \in {"ret", "connect"}
          /\ q.failed = r.failed /\ applied' = applied
          /\ q.got = r.got /\ q.todo = r.todo /\ (q.st = "ret" => cacheList.len = 0)
      BY <1>7, WriteBeginFields, BeginLeaves
    <2>2. r.read = <<>>
      BY <1>2, <2>1 DEF LeftOK
    <2>3. Done(q) = {}
      BY <1>1, <1>4, <1>5, <2>1, <2>2 DEF Done
    <2>4. Failures(q, Good) = {} /\ Good' = Good
      BY <1>3, <2>1, <2>3 DEF Failures, Good
    <2> QED
      BY <1>6, <2>1, <2>4
  <1>8. CASE WriteConnect(k)
    <2>1. /\ r.st = "connect" /\ q.read = r.read /\ q.st \in {"gather", "ret"}
          /\ q.got = r.got /\ q.todo = r.todo /\ applied' = applied
          /\ q.failed = (IF q.st = "ret" THEN r.slice.len ELSE r.failed)
      BY <1>8, WriteConnectFields, ConnectLeaves
    <2>2. r.read = <<>> /\ Good' = Good
      BY <1>2, <1>3, <2>1 DEF LeftOK, Good
    <2>3. CASE q.st = "gather"
      <3>1. Done(q) = {}
        BY <2>1, <2>2, <2>3 DEF Done
      <3> QED
        BY <1>6, <2>1, <2>2, <2>3, <3>1 DEF Failures
    <2>4. CASE q.st = "ret"
      <3>1. Failures(q, Good) \subseteq 1..Len(r.batch)
        BY <1>1, <1>5, <2>4 DEF Failures, Done
      <3>2. /\ IsFiniteSet(1..Len(r.batch))
            /\ Cardinality(1..Len(r.batch)) = Len(r.batch)
        BY <1>5, FS_Interval
      <3>3. Cardinality(Failures(q, Good)) <= Len(r.batch)
        BY <3>1, <3>2, FS_Subset
      <3>4. q.failed = Len(r.batch)
        BY <1>4, <2>1, <2>4
      <3> QED
        BY <2>2, <3>3, <3>4
    <2> QED
      BY <2>1, <2>3, <2>4
  <1>9. CASE WriteGather(k)
    <2> DEFINE i == Len(r.read) + 1
    <2>1. PICK n \in 0..MaxOps :
            /\ i \in DOMAIN r.batch /\ r.batch[i] = n
            /\ \/ Mapped(n) /\ Gathers(r, q, n)
               \/ ~Mapped(n) /\ Passes(r, q, n)
      BY <1>9, GatherReads, GatherOwn
    <2>2. /\ r.st = "gather" /\ q.st = "gather" /\ applied' = applied
      BY <1>9, WriteGatherFields, GatherLeaves
    <2>3. Good' = Good
      BY <1>3, <2>2 DEF Good
    <2>4. DOMAIN Append(r.read, n) = DOMAIN r.read \cup {i}
      BY <1>2, <1>5, <2>1 DEF Typed
    <2>5. Left(r) \subseteq DOMAIN r.read /\ i \notin DOMAIN r.read
      BY <1>2, <1>5 DEF LeftOK
    <2>6. CASE Gathers(r, q, n)
      <3>1. Left(q) = Left(r) \cup {i} /\ q.read = Append(r.read, n) /\ q.failed = r.failed
        BY <2>6 DEF Gathers, Left
      <3>2. Done(q) = Done(r)
        BY <2>2, <2>4, <2>5, <3>1 DEF Done
      <3>3. Failures(q, Good) = Failures(r, Good)
        BY <1>1, <3>2 DEF Failures
      <3> QED
        BY <1>6, <2>3, <3>1, <3>3
    <2>7. CASE ~Mapped(n) /\ Passes(r, q, n)
      <3>1. /\ Left(q) = Left(r) /\ q.read = Append(r.read, n)
            /\ q.failed = (IF Writer = "mongodb" THEN r.failed ELSE r.failed + 1)
        BY <2>7 DEF Passes, Left
      <3>2. Done(q) = Done(r) \cup {i}
        BY <2>2, <2>4, <2>5, <3>1 DEF Done
      <3>3. Failures(q, Good) \subseteq Failures(r, Good) \cup {i}
        BY <1>1, <3>2 DEF Failures
      <3>4. CASE Writer = "mongodb"
        <4>1. n \in Good
          BY <2>7, <3>4 DEF Mapped, Good, Uncounted
        <4>2. Failures(q, Good) \subseteq Failures(r, Good)
          BY <1>1, <2>1, <3>3, <4>1 DEF Failures
        <4> QED
          BY <1>6, <2>3, <3>1, <3>4, <4>2
      <3>5. CASE Writer # "mongodb"
        <4>1. IsFiniteSet({i}) /\ Cardinality({i}) = 1
          BY FS_Singleton
        <4>2. q.failed = r.failed + Cardinality({i})
          BY <3>1, <3>5, <4>1
        <4>3. Failures(q, Good') \subseteq Failures(r, Good) \cup {i}
          BY <2>3, <3>3
        <4> QED
          BY <1>13, <4>1, <4>2, <4>3
      <3> QED
        BY <3>4, <3>5
    <2> QED
      BY <2>1, <2>6, <2>7
  <1>10. CASE WriteGathered(k)
    <2>1. /\ r.st = "gather" /\ q.st = "call" /\ q.read = r.read
          /\ r.todo = {} /\ q.got = {} /\ q.todo = r.got
          /\ q.failed = r.failed /\ applied' = applied
      BY <1>10, WriteGatheredFields, GatheredLeaves
    <2>2. Done(q) = Done(r)
      BY <2>1 DEF Done, Left
    <2>3. Failures(q, Good) = Failures(r, Good) /\ Good' = Good
      BY <1>1, <1>3, <2>1, <2>2 DEF Failures, Good
    <2> QED
      BY <1>6, <2>1, <2>3
  <1>11. CASE WriteCall(k)
    <2>1. PICK F \in SUBSET NextCall(r) : Sends(r, q, F)
      BY <1>11, CallLeaves
    <2>2. q.read = r.read /\ q.st = r.st /\ q.slice = r.slice /\ r.st # "ret"
      BY <1>2, <1>11, WriteCallFields DEF LeftOK, Left
    <2>3. Left(q) = Left(r) \ NextCall(r) /\ IsFiniteSet(F)
      BY <1>2, <2>1, <2>2, CallLeft DEF Typed
    <2>4. Left(r) \subseteq DOMAIN r.read
      BY <1>2 DEF LeftOK
    <2>5. /\ applied \subseteq applied' /\ q.failed = r.failed + Cardinality(F)
          /\ \A i \in NextCall(r) \ F : r.read[i] \in applied'
      BY <2>1 DEF Sends
    <2>6. Done(q) \subseteq Done(r) \cup (NextCall(r) \cap DOMAIN r.read)
      BY <2>2, <2>3 DEF Done
    <2>7. \A i \in (NextCall(r) \cap DOMAIN r.read) \ F : r.batch[i] \in applied'
      BY <1>4, <2>2, <2>5
    <2>8. Failures(q, Good') \subseteq Failures(r, Good) \cup F
      BY <1>1, <1>3, <2>5, <2>6, <2>7 DEF Failures, Good
    <2>9. q.failed = r.failed + Cardinality(F)
      BY <2>5
    <2> QED
      BY <1>13, <2>3, <2>8, <2>9
  <1>12. CASE WriteReturn(k)
    <2>1. /\ r.st = "call" /\ q.st = "ret" /\ q.read = r.read
          /\ r.todo = {} /\ q.got = r.got /\ q.todo = {}
          /\ q.failed = r.failed /\ applied' = applied
      BY <1>12, WriteReturnFields, ReturnLeaves
    <2>2. r.read = r.batch /\ Left(r) = {}
      BY <1>2, <2>1 DEF ReadInv, LeftOK, Left
    <2>3. Done(q) = Done(r)
      BY <1>1, <2>1, <2>2 DEF Done
    <2>4. Failures(q, Good) = Failures(r, Good) /\ Good' = Good
      BY <1>1, <1>3, <2>1, <2>3 DEF Failures, Good
    <2> QED
      BY <1>6, <2>1, <2>4
  <1>14. CASE WriteSkip(k)
    <2>1. /\ q.read = r.read /\ q.st = r.st /\ q.slice = r.slice /\ r.st # "ret"
          /\ q.got = r.got /\ q.todo = r.todo \ Skipped(r)
          /\ q.failed = r.failed /\ applied' = applied /\ Writer = "mongodb"
      BY <1>2, <1>14, WriteSkipFields, SkipLeaves DEF LeftOK, Left
    <2>2. Left(q) = Left(r) \ Skipped(r) /\ Left(r) \subseteq DOMAIN r.read
      BY <1>2, <2>1, SkipLeft DEF Typed, LeftOK
    <2>3. Done(q) \subseteq Done(r) \cup (Skipped(r) \cap DOMAIN r.read)
      BY <2>1, <2>2 DEF Done
    <2>4. \A i \in Skipped(r) \cap DOMAIN r.read : r.batch[i] \in Good
      BY <1>4, <2>1, SkipWithin DEF Good, Uncounted
    <2>5. Failures(q, Good) \subseteq Failures(r, Good) /\ Good' = Good
      BY <1>1, <1>3, <2>1, <2>3, <2>4 DEF Failures, Good
    <2> QED
      BY <1>6, <2>1, <2>5
  <1> QED
    BY <1>7, <1>8, <1>9, <1>10, <1>11, <1>12, <1>14 DEF Write

(* The steps of Run that start no write, and a panic, leave the writes as they
   are. *)
Runs == Take \/ TakeReadDone \/ Tick \/ Expire \/ Select \/ RunRelease \/ RunEnd

LEMMA ThreeKinds ==
  ASSUME [Next]_vars
  PROVE  \/ Runs \/ UNCHANGED vars \/ (\E k \in DOMAIN w : WritePanics(k))
         \/ StartWrite \/ FinalWrite
         \/ \E k \in DOMAIN w : Write(k) /\ ~WritePanics(k)
  BY DEF Next, Runs, End

LEMMA RunKeeps ==
  ASSUME Runs \/ UNCHANGED vars \/ (\E k \in DOMAIN w : WritePanics(k))
  PROVE  /\ UNCHANGED <<w, applied, Writer>> /\ late \subseteq late'
         /\ late' # late => Expire
  <1>1. CASE Runs
    BY <1>1 DEF Runs, Take, TakeReadDone, Tick, Expire, Select, SelectDone, SelectTimeout,
       RunRelease, RunEnd
  <1>2. CASE UNCHANGED vars
    BY <1>2 DEF vars
  <1>3. CASE \E k \in DOMAIN w : WritePanics(k)
    BY <1>3 DEF WritePanics
  <1> QED
    BY <1>1, <1>2, <1>3

LEMMA StartKeeps ==
  ASSUME ShapeInv, StartWrite \/ FinalWrite
  PROVE  /\ Len(w') = Len(w) + 1 /\ DOMAIN w' = 1..Len(w') /\ DOMAIN w = 1..Len(w)
         /\ Len(w) \in Nat
         /\ \A j \in DOMAIN w : w'[j] = w[j]
         /\ w'[Len(w')] = NewWrite(Content(cacheList))
         /\ UNCHANGED <<applied, Writer, late, FailedDeliveryCount>>
  BY StartShape DEF StartWrite, FinalWrite

(* What took effect stays so. *)
LEMMA WriteGrows ==
  ASSUME ShapeInv, NEW k \in DOMAIN w, Write(k), ~WritePanics(k)
  PROVE  applied \subseteq applied' /\ UNCHANGED <<released, FailedDeliveryCount>>
  BY BeginLeaves, ConnectLeaves, GatherLeaves, GatheredLeaves, CallLeaves, SkipLeaves,
     ReturnLeaves DEF Write, Sends

LEMMA FailStep ==
  ASSUME TypeOK, TypeOK', ShapeInv, WaitInv, TurnInv, ReadInv, LeftInv, FailInv, [Next]_vars
  PROVE  FailInv'
  <1>1. ASSUME Runs \/ UNCHANGED vars \/ (\E k \in DOMAIN w : WritePanics(k))
        PROVE  FailInv'
    <2>1. UNCHANGED <<w, applied, Writer>> /\ late \subseteq late'
      BY <1>1, RunKeeps
    <2> QED
      BY <2>1 DEF FailInv, Failures, Done, Left, Good, Uncounted
  <1>2. ASSUME StartWrite \/ FinalWrite
        PROVE  FailInv'
    <2>1. /\ DOMAIN w' = 1..Len(w') /\ DOMAIN w = 1..Len(w) /\ Len(w') = Len(w) + 1
          /\ Len(w) \in Nat /\ \A j \in DOMAIN w : w'[j] = w[j]
          /\ w'[Len(w')] = NewWrite(Content(cacheList))
          /\ UNCHANGED <<applied, Writer, late>>
      BY <1>2, StartKeeps
    <2>2. Good' = Good
      BY <2>1 DEF Good, Uncounted
    <2>3. Failures(NewWrite(Content(cacheList)), Good) = {}
      BY DEF NewWrite, Failures, Done
    <2>4. Cardinality({}) = 0
      BY FS_EmptySet
    <2>5. Cardinality(Failures(w'[Len(w')], Good')) <= w'[Len(w')].failed
      <3>1. w'[Len(w')].failed = 0
        BY <2>1 DEF NewWrite
      <3>2. Cardinality(Failures(w'[Len(w')], Good')) = 0
        BY <2>1, <2>2, <2>3, <2>4
      <3> QED
        BY <3>1, <3>2
    <2>6. \A j \in DOMAIN w \ late : Cardinality(Failures(w'[j], Good')) <= w'[j].failed
      BY <2>1, <2>2 DEF FailInv
    <2> QED
      BY <2>1, <2>5, <2>6 DEF FailInv
  <1>3. ASSUME NEW k \in DOMAIN w, Write(k), ~WritePanics(k)
        PROVE  FailInv'
    <2>1. /\ DOMAIN w' = DOMAIN w /\ \A j \in DOMAIN w \ {k} : w'[j] = w[j]
          /\ late' = late /\ Writer' = Writer
      BY <1>3, WriteKept, KeptShape DEF Kept
    <2>2. Good \subseteq Good'
      BY <1>3, <2>1, WriteGrows DEF Good, Uncounted
    <2>3. ASSUME NEW j \in DOMAIN w \ late, j # k
          PROVE  Cardinality(Failures(w'[j], Good')) <= w'[j].failed
      <3> DEFINE r == w[j]
      <3>1. /\ Typed(r) /\ r.failed \in Nat /\ w'[j] = r
            /\ Cardinality(Failures(r, Good)) <= r.failed
        BY <2>1, <2>3 DEF TypeOK, Typed, FailInv, LeftInv, LeftOK
      <3>2. Failures(r, Good') \subseteq Failures(r, Good)
        BY <2>2 DEF Failures
      <3>3. /\ IsFiniteSet(Failures(r, Good))
            /\ Cardinality(Failures(r, Good)) \in Nat /\ Cardinality(Failures(r, Good')) \in Nat
        BY <3>1, FailuresFinite
      <3>4. Cardinality(Failures(r, Good')) <= Cardinality(Failures(r, Good))
        BY <3>2, <3>3, FS_Subset
      <3>5. Cardinality(Failures(r, Good')) <= r.failed
        BY <3>1, <3>3, <3>4
      <3> QED
        BY <3>1, <3>5
    <2>4. k \notin late => Cardinality(Failures(w'[k], Good')) <= w'[k].failed
      BY <1>3, FailWrite
    <2> QED
      BY <2>1, <2>3, <2>4 DEF FailInv
  <1> QED
    BY <1>1, <1>2, <1>3, ThreeKinds

-----------------------------------------------------------------------------
(* What Run has finished with and was lost is in its counter *)

LEMMA BatchesFinite ==
  ASSUME TypeOK, NEW K \in SUBSET DOMAIN w
  PROVE  InBatches(K) \subseteq 0..MaxOps /\ IsFiniteSet(InBatches(K))
  <1>1. \A k \in K : w[k].batch \in Seq(0..MaxOps)
    BY DEF TypeOK
  <1>2. ASSUME NEW s \in Seq(0..MaxOps)
        PROVE  ToSet(s) \subseteq 0..MaxOps
    <2>1. \A i \in 1..Len(s) : s[i] \in 0..MaxOps
      BY ElementOfSeq
    <2>2. DOMAIN s = 1..Len(s)
      OBVIOUS
    <2> QED
      BY <2>1, <2>2 DEF ToSet
  <1>3. InBatches(K) \subseteq 0..MaxOps
    BY <1>1, <1>2 DEF InBatches
  <1>4. IsFiniteSet(0..MaxOps)
    BY MaxOpsNat, FS_Interval
  <1> QED
    BY <1>3, <1>4, FS_Subset

LEMMA FinishedThere ==
  ASSUME ShapeInv
  PROVE  Finished \subseteq DOMAIN w /\ DOMAIN w = 1..Len(w) /\ Len(w) \in Nat
  <1>1. Len(w) \in Nat /\ DOMAIN w = 1..Len(w)
    BY DEF ShapeInv
  <1> QED
    BY <1>1 DEF Finished

LEMMA LostFinite ==
  ASSUME TypeOK, ShapeInv
  PROVE  IsFiniteSet(Lost)
  BY BatchesFinite, FinishedThere, FS_Subset DEF Lost

(* Less is lost. *)
LEMMA LostLess ==
  ASSUME TypeOK, ShapeInv, LostInv, NEW S \in SUBSET Lost
  PROVE  Cardinality(S) <= FailedDeliveryCount
  <1>1. /\ Cardinality(S) <= Cardinality(Lost) /\ Cardinality(Lost) \in Nat
        /\ Cardinality(S) \in Nat
    BY LostFinite, FS_Subset, FS_CardinalityType
  <1> QED
    BY <1>1 DEF LostInv

(* The ops of a returned write that were lost. *)
LEMMA LostOfWrite ==
  ASSUME NEW r, Typed(r), r.st = "ret", NEW good
  PROVE  /\ IsFiniteSet(ToSet(r.batch) \ good)
         /\ Cardinality(ToSet(r.batch) \ good) <= Cardinality(Failures(r, good))
  <1> DEFINE F == Failures(r, good)
             f == [i \in F |-> r.batch[i]]
             T == ToSet(r.batch) \ good
  <1>1. F = {i \in DOMAIN r.batch : r.batch[i] \notin good}
    BY DEF Failures, Done
  <1>2. IsFiniteSet(F)
    BY FailuresFinite
  <1>3. f \in Surjection(F, T)
    <2>1. \A i \in F : f[i] \in T
      BY <1>1 DEF ToSet
    <2>2. \A t \in T : \E i \in F : f[i] = t
      BY <1>1 DEF ToSet
    <2> QED
      BY <2>1, <2>2 DEF Surjection
  <1> HIDE DEF F, f, T
  <1>4. IsFiniteSet(T) /\ Cardinality(T) <= Cardinality(F)
    BY <1>2, <1>3, FS_Surjection
  <1> QED
    BY <1>4 DEF F, T

LEMMA LostSelect ==
  ASSUME TypeOK, ShapeInv, WaitInv, LeftInv, FailInv, LostInv, Select
  PROVE  LostInv'
  <1> DEFINE n == Len(w)
  <1>1. /\ pc = "wait" /\ pc' = "select" /\ UNCHANGED <<w, late, applied, Writer>>
        /\ w[n].st = "ret" \/ expired
        /\ \/ FailedDeliveryCount' = FailedDeliveryCount + w[n].failed
           \/ expired /\ FailedDeliveryCount' = FailedDeliveryCount + cacheList.len
    BY DEF Select, SelectDone, SelectTimeout
  <1>2. /\ n \in DOMAIN w /\ DOMAIN w = 1..n /\ n \in Nat
        /\ expired <=> n \in late
    BY <1>1, EmptySeq DEF ShapeInv, WaitInv, Waits
  <1>3. /\ w[n].failed \in Nat /\ cacheList.len \in Nat /\ FailedDeliveryCount \in Nat
        /\ Typed(w[n])
    BY <1>2 DEF LeftInv, LeftOK, TypeOK, Fits, LostInv, Typed
  <1>4. /\ Finished = 1..(n - 1) /\ Finished' = 1..n /\ Good' = Good
        /\ Lost' = InBatches(Finished' \ late) \ Good
    BY <1>1, <1>2 DEF Finished, Good, Uncounted, Lost, InBatches
  <1>5. FailedDeliveryCount' \in Nat /\ FailedDeliveryCount' >= FailedDeliveryCount
    BY <1>1, <1>3
  <1>6. Cardinality(Lost) \in Nat /\ IsFiniteSet(Lost)
    BY LostFinite, FS_CardinalityType
  <1>7. CASE n \in late
    <2>1. Finished' \ late = Finished \ late
      BY <1>2, <1>4, <1>7
    <2>2. Lost' = Lost
      BY <1>4, <2>1 DEF Lost
    <2> QED
      BY <1>3, <1>5, <1>6, <2>2 DEF LostInv
  <1>8. CASE n \notin late
    <2>1. w[n].st = "ret" /\ FailedDeliveryCount' = FailedDeliveryCount + w[n].failed
      BY <1>1, <1>2, <1>8
    <2>2. Finished' \ late = (Finished \ late) \cup {n}
      BY <1>2, <1>4, <1>8
    <2> DEFINE T == ToSet(w[n].batch) \ Good
    <2>3. Lost' = Lost \cup T
      BY <1>4, <2>2 DEF Lost, InBatches
    <2>4. /\ IsFiniteSet(T) /\ Cardinality(T) <= Cardinality(Failures(w[n], Good))
          /\ Cardinality(Failures(w[n], Good)) \in Nat
          /\ Cardinality(Failures(w[n], Good)) <= w[n].failed
      BY <1>2, <1>3, <1>8, <2>1, LostOfWrite, FailuresFinite DEF FailInv
    <2> HIDE DEF T
    <2>5. Cardinality(T) \in Nat
      BY <2>4, FS_CardinalityType
    <2>6. /\ Cardinality(Lost \cup T)
             = Cardinality(Lost) + Cardinality(T) - Cardinality(Lost \cap T)
          /\ Cardinality(Lost \cap T) \in Nat
      BY <1>6, <2>4, FS_Union, FS_Intersection, FS_CardinalityType
    <2>7. Cardinality(Lost) <= FailedDeliveryCount
      BY DEF LostInv
    <2>8. Cardinality(Lost \cup T) <= FailedDeliveryCount'
      BY <1>3, <1>6, <2>1, <2>4, <2>5, <2>6, <2>7
    <2> QED
      BY <1>5, <2>3, <2>8 DEF LostInv
  <1> QED
    BY <1>7, <1>8

(* But for Select no step finishes with a batch. *)
LEMMA LostOther ==
  ASSUME TypeOK, ShapeInv, LostInv, FailedDeliveryCount' = FailedDeliveryCount,
         Finished' \subseteq Finished, \A j \in Finished : w'[j].batch = w[j].batch,
         late \subseteq late', Good \subseteq Good'
  PROVE  LostInv'
  <1>1. Lost' \subseteq Lost
    BY DEF Lost, InBatches
  <1>2. ASSUME NEW S, S = Lost'
        PROVE  Cardinality(S) <= FailedDeliveryCount
    BY <1>1, <1>2, LostLess
  <1> QED
    BY <1>2 DEF LostInv

LEMMA LostStep ==
  ASSUME TypeOK, ShapeInv, WaitInv, LeftInv, FailInv, LostInv, [Next]_vars
  PROVE  LostInv'
  <1>0. Finished \subseteq DOMAIN w /\ DOMAIN w = 1..Len(w) /\ Len(w) \in Nat
    BY FinishedThere
  <1>1. ASSUME Runs \/ UNCHANGED vars \/ (\E k \in DOMAIN w : WritePanics(k))
        PROVE  LostInv'
    <2>1. UNCHANGED <<w, applied, Writer>> /\ late \subseteq late' /\ Good' = Good
      BY <1>1, RunKeeps DEF Good, Uncounted
    <2>2. CASE Select
      BY <2>2, LostSelect
    <2>3. CASE Take \/ TakeReadDone \/ Tick \/ Expire \/ RunRelease \/ RunEnd
      <3>1. /\ FailedDeliveryCount' = FailedDeliveryCount
            /\ pc \in {"select", "flush"} <=> pc' \in {"select", "flush"}
        BY <2>3 DEF Take, TakeReadDone, Tick, Expire, RunRelease, RunEnd
      <3>2. Finished' = Finished
        BY <2>1, <3>1 DEF Finished
      <3> QED
        BY <2>1, <3>1, <3>2, LostOther
    <2>4. CASE UNCHANGED vars
      <3>1. Finished' = Finished /\ FailedDeliveryCount' = FailedDeliveryCount
        BY <2>4 DEF vars, Finished
      <3> QED
        BY <2>1, <3>1, LostOther
    <2>5. CASE \E k \in DOMAIN w : WritePanics(k)
      <3>1. pc' = "crash" /\ FailedDeliveryCount' = FailedDeliveryCount
        BY <2>5 DEF WritePanics
      <3>2. Finished' \subseteq Finished
        BY <1>0, <2>1, <3>1 DEF Finished
      <3> QED
        BY <2>1, <3>1, <3>2, LostOther
    <2> QED
      BY <1>1, <2>2, <2>3, <2>4, <2>5 DEF Runs
  <1>2. ASSUME StartWrite \/ FinalWrite
        PROVE  LostInv'
    <2>1. /\ Len(w') = Len(w) + 1 /\ Len(w) \in Nat /\ \A j \in DOMAIN w : w'[j] = w[j]
          /\ UNCHANGED <<applied, Writer, late, FailedDeliveryCount>>
      BY <1>2, StartKeeps
    <2>2. pc \in {"select", "flush"} /\ pc' \notin {"select", "flush"}
      BY <1>2 DEF StartWrite, FinalWrite
    <2>3. Finished' = Finished
      BY <1>0, <2>1, <2>2 DEF Finished
    <2>4. Good' = Good
      BY <2>1 DEF Good, Uncounted
    <2> QED
      BY <1>0, <2>1, <2>3, <2>4, LostOther
  <1>3. ASSUME NEW k \in DOMAIN w, Write(k), ~WritePanics(k)
        PROVE  LostInv'
    <2>1. /\ Len(w') = Len(w) /\ DOMAIN w' = DOMAIN w /\ \A j \in DOMAIN w \ {k} : w'[j] = w[j]
          /\ late' = late /\ Writer' = Writer /\ pc' = pc /\ w'[k].batch = w[k].batch
      BY <1>3, WriteKept, KeptShape DEF Kept
    <2>2. Good \subseteq Good' /\ FailedDeliveryCount' = FailedDeliveryCount
      BY <1>3, <2>1, WriteGrows DEF Good, Uncounted
    <2>3. Finished' = Finished
      BY <2>1 DEF Finished
    <2> QED
      BY <1>0, <2>1, <2>2, <2>3, LostOther
  <1> QED
    BY <1>1, <1>2, <1>3, ThreeKinds

-----------------------------------------------------------------------------
(* What a write in time has sent goes before what it has left *)

LEMMA ReadTypes ==
  ASSUME TypeOK, BatchesPartition, ReadInv, pc # "crash", NEW k \in DOMAIN w \ late,
         NEW i \in DOMAIN w[k].read
  PROVE  OptionType[w[k].read[i]] \in {"insert", "update", "delete"}
  <1>1. /\ w[k].read \in Seq(0..MaxOps) /\ w[k].batch \in Seq(0..MaxOps)
        /\ IsPrefix(w[k].read, w[k].batch)
    BY DEF TypeOK, ReadInv
  <1>2. i \in DOMAIN w[k].batch /\ w[k].read[i] = w[k].batch[i]
    BY <1>1, PrefixPoints
  <1>3. w[k].read[i] \in InBatches(DOMAIN w)
    BY <1>2 DEF InBatches, ToSet
  <1>4. w[k].read[i] \in 1..taken
    BY <1>3 DEF BatchesPartition
  <1>5. w[k].read[i] \in 1..Len(OptionType)
    BY <1>4, MaxOpsNat DEF TypeOK, MaxOps
  <1> QED
    BY <1>5, BatchAssumption, ElementOfSeq

LEMMA GatherSent ==
  ASSUME NEW r, NEW q, NEW n \in 0..MaxOps, LeftOK(r), SentOK(r), r.read \in Seq(0..MaxOps),
         (Mapped(n) /\ Gathers(r, q, n)) \/ (~Mapped(n) /\ Passes(r, q, n))
  PROVE  /\ SentOK(q) /\ Sent(r) \subseteq Sent(q)
         /\ DOMAIN r.read \subseteq DOMAIN q.read
         /\ \A j \in DOMAIN r.read : q.read[j] = r.read[j]
  <1> DEFINE i == Len(r.read) + 1
  <1>1. /\ Len(r.read) \in Nat /\ DOMAIN r.read = 1..Len(r.read)
        /\ Left(r) \subseteq DOMAIN r.read
    BY DEF LeftOK
  <1>2. /\ q.read = Append(r.read, n) /\ DOMAIN q.read = 1..i /\ q.read[i] = n
        /\ \A j \in DOMAIN r.read : q.read[j] = r.read[j]
    BY <1>1 DEF Gathers, Passes
  <1>3. /\ DOMAIN q.read = DOMAIN r.read \cup {i} /\ i \notin DOMAIN r.read
        /\ \A j \in DOMAIN r.read : j < i /\ j \in Int
    BY <1>1, <1>2
  <1>4. CASE Mapped(n) /\ Gathers(r, q, n)
    <2>1. Left(q) = Left(r) \cup {i}
      BY <1>4 DEF Gathers, Left
    <2>2. Sent(q) = Sent(r)
      BY <1>1, <1>2, <1>3, <2>1 DEF Sent
    <2>3. \A j \in Left(q) : Mapped(q.read[j])
      BY <1>1, <1>2, <1>4, <2>1 DEF SentOK
    <2>4. \A j \in q.todo, l \in q.got : j < l
      BY <1>1, <1>3, <1>4 DEF Gathers, Left
    <2>5. \A j \in Left(q), l \in Sent(q) :
            Sendable(q.read[j]) => l < j \/ GoesFirst(q.read[l], q.read[j])
      <3>1. Sent(r) \subseteq DOMAIN r.read
        BY DEF Sent
      <3>2. \A l \in Sent(r) : l < i
        BY <1>3, <3>1
      <3>3. \A j \in Left(r), l \in Sent(r) :
              Sendable(q.read[j]) => l < j \/ GoesFirst(q.read[l], q.read[j])
        BY <1>1, <1>2, <3>1 DEF SentOK
      <3> QED
        BY <2>1, <2>2, <3>2, <3>3
    <2> QED
      BY <1>2, <1>3, <2>2, <2>3, <2>4, <2>5 DEF SentOK
  <1>5. CASE ~Mapped(n) /\ Passes(r, q, n)
    <2>1. Left(q) = Left(r) /\ q.todo = {}
      BY <1>5 DEF Passes, Left
    <2>2. Sent(q) = Sent(r)
      BY <1>2, <1>3, <1>5, <2>1 DEF Sent, Sendable
    <2>3. \A j \in Left(q), l \in Sent(q) :
            Sendable(q.read[j]) => l < j \/ GoesFirst(q.read[l], q.read[j])
      BY <1>1, <1>2, <2>1, <2>2 DEF SentOK, Sent
    <2>4. \A j \in Left(q) : Mapped(q.read[j])
      BY <1>1, <1>2, <2>1 DEF SentOK
    <2> QED
      BY <1>2, <1>3, <2>1, <2>2, <2>3, <2>4 DEF SentOK
  <1> QED
    BY <1>4, <1>5

(* The order of the calls. *)
LEMMA CallOrder ==
  ASSUME TypeOK, NEW r, NEW i \in r.todo \ NextCall(r), NEW j \in NextCall(r),
         i \in Int, j \in Int, j \in r.todo,
         Sendable(r.read[i]),
         \A l \in r.todo : OptionType[r.read[l]] \in {"insert", "update", "delete"}
  PROVE  j < i \/ GoesFirst(r.read[j], r.read[i])
  <1>1. Writer \in {"mongodb", "elasticsearch", "clickhouse"}
    BY BatchAssumption DEF TypeOK
  <1>2. /\ OptionType[r.read[i]] \in {"insert", "update", "delete"}
        /\ OptionType[r.read[j]] \in {"insert", "update", "delete"}
    OBVIOUS
  <1>3. ASSUME NEW S, NextCall(r) = First(S), i \in S
        PROVE  j < i
    <2>1. j <= i /\ j # i
      BY <1>3 DEF First
    <2> QED
      BY <2>1
  <1>4. CASE Writer = "mongodb"
    <2>1. CASE OfType(r, "insert") # {}
      <3>1. NextCall(r) = {l \in OfType(r, "insert") : r.read[l] \notin Unsplit}
        BY <1>4, <2>1 DEF NextCall, Split, Turn
      <3>2. OptionType[r.read[j]] = "insert" /\ OptionType[r.read[i]] # "insert"
        BY <1>4, <3>1 DEF OfType, Sendable
      <3> QED
        BY <1>2, <1>4, <3>2 DEF GoesFirst
    <2>2. CASE OfType(r, "insert") = {} /\ OfType(r, "update") # {}
      <3>1. NextCall(r) = First(Split(r)) /\ Turn(r) = OfType(r, "update")
        BY <1>4, <2>2 DEF NextCall, Turn
      <3>2. OptionType[r.read[j]] = "update" /\ OptionType[r.read[i]] # "insert"
        BY <2>2, <3>1 DEF First, Split, OfType
      <3>3. OptionType[r.read[i]] = "update" => i \in Split(r)
        BY <1>4, <3>1 DEF OfType, Split, Sendable
      <3>4. OptionType[r.read[i]] = "delete" => GoesFirst(r.read[j], r.read[i])
        BY <1>4, <3>2 DEF GoesFirst
      <3> QED
        BY <1>2, <1>3, <3>1, <3>2, <3>3, <3>4
    <2>3. CASE OfType(r, "insert") = {} /\ OfType(r, "update") = {}
      <3>1. NextCall(r) = First(Split(r)) /\ i \in Split(r)
        BY <1>4, <2>3 DEF NextCall, Split, Turn, Sendable
      <3> QED
        BY <1>3, <3>1
    <2> QED
      BY <2>1, <2>2, <2>3
  <1>5. CASE Writer # "mongodb"
    <2>1. NextCall(r) = First(r.todo)
      BY <1>1, <1>5 DEF NextCall
    <2> QED
      BY <1>3, <2>1
  <1> QED
    BY <1>4, <1>5

LEMMA CallSent ==
  ASSUME TypeOK, NEW r, NEW q, LeftOK(r), SentOK(r), r.read \in Seq(0..MaxOps),
         q.read = r.read, q.todo = r.todo \ NextCall(r), q.got = r.got,
         Left(q) = Left(r) \ NextCall(r),
         \A l \in DOMAIN r.read : OptionType[r.read[l]] \in {"insert", "update", "delete"}
  PROVE  SentOK(q) /\ Sent(r) \subseteq Sent(q) /\ NextCall(r) \subseteq Sent(q)
  <1>1. /\ NextCall(r) \subseteq r.todo /\ r.todo \subseteq Left(r)
        /\ Left(r) \subseteq DOMAIN r.read /\ \A l \in DOMAIN r.read : l \in Int
    BY CallWithin DEF LeftOK, Left
  <1>2. Sent(q) = Sent(r) \cup NextCall(r)
    BY <1>1, CallWithin DEF Sent, SentOK, Sendable
  <1>3. ASSUME NEW i \in Left(q), NEW j \in Sent(q), Sendable(q.read[i])
        PROVE  j < i \/ GoesFirst(q.read[j], q.read[i])
    <2>1. CASE j \in Sent(r)
      BY <1>3, <2>1 DEF SentOK
    <2>2. CASE j \in NextCall(r) /\ i \in r.got
      BY <1>1, <2>2 DEF SentOK
    <2>3. CASE j \in NextCall(r) /\ i \in r.todo
      <3>1. i \in r.todo \ NextCall(r) /\ j \in r.todo /\ i \in Int /\ j \in Int
        BY <1>1, <2>3
      <3>2. \A l \in r.todo : OptionType[r.read[l]] \in {"insert", "update", "delete"}
        BY <1>1
      <3> QED
        BY <1>3, <2>3, <3>1, <3>2, CallOrder
    <2> QED
      BY <1>2, <2>1, <2>2, <2>3 DEF Left
  <1>4. (\A i \in Left(q) : Mapped(q.read[i])) /\ \A i \in q.todo, j \in q.got : i < j
    BY DEF SentOK
  <1> QED
    BY <1>2, <1>3, <1>4 DEF SentOK

(* What is passed over would not have been sent. *)
LEMMA SkipSent ==
  ASSUME NEW r, NEW q, LeftOK(r), SentOK(r), q.read = r.read, Writer = "mongodb",
         q.todo = r.todo \ Skipped(r), q.got = r.got, Left(q) = Left(r) \ Skipped(r)
  PROVE  SentOK(q) /\ Sent(r) \subseteq Sent(q)
  <1>1. Sent(q) = Sent(r)
    BY SkipWithin DEF Sent, Sendable
  <1> QED
    BY <1>1 DEF SentOK

(* The other steps of a write leave together what is left. *)
LEMMA SameSent ==
  ASSUME NEW r, NEW q, SentOK(r), q.read = r.read,
         \/ q.got = r.got /\ q.todo = r.todo
         \/ q.got = {} /\ q.todo = r.got /\ r.todo = {}
  PROVE  SentOK(q) /\ Sent(r) \subseteq Sent(q)
  <1>1. Left(q) = Left(r)
    BY DEF Left
  <1>2. Sent(q) = Sent(r)
    BY <1>1 DEF Sent
  <1>3. \A i \in q.todo, j \in q.got : i < j
    BY DEF SentOK
  <1> QED
    BY <1>1, <1>2, <1>3 DEF SentOK

(* A step of a write in time. *)
LEMMA SentWrite ==
  ASSUME TypeOK, TypeOK', ShapeInv, WaitInv, TurnInv, ReadInv, BatchesPartition, LeftInv, SentInv,
         NEW k \in DOMAIN w \ late, Write(k), ~WritePanics(k)
  PROVE  /\ SentOK(w'[k]) /\ Sent(w[k]) \subseteq Sent(w'[k])
         /\ \A i \in DOMAIN w[k].read : w'[k].read[i] = w[k].read[i]
         /\ \A m \in applied' \ applied : \E i \in Sent(w'[k]) : m = w'[k].read[i]
  <1>1. /\ LeftOK(w[k]) /\ SentOK(w[k]) /\ w[k].read \in Seq(0..MaxOps)
    BY DEF LeftInv, SentInv, TypeOK
  <1>2. CASE WriteBegin(k)
    BY <1>1, <1>2, WriteBeginFields, BeginLeaves, SameSent
  <1>3. CASE WriteConnect(k)
    BY <1>1, <1>3, WriteConnectFields, ConnectLeaves, SameSent
  <1>4. CASE WriteGather(k)
    <2>1. PICK n \in 0..MaxOps :
            \/ Mapped(n) /\ Gathers(w[k], w'[k], n)
            \/ ~Mapped(n) /\ Passes(w[k], w'[k], n)
      BY <1>4, GatherReads, GatherOwn
    <2>2. applied' = applied
      BY <1>4, GatherLeaves
    <2> QED
      BY <1>1, <2>1, <2>2, GatherSent
  <1>5. CASE WriteGathered(k)
    BY <1>1, <1>5, WriteGatheredFields, GatheredLeaves, SameSent
  <1>6. CASE WriteCall(k)
    <2>1. PICK F \in SUBSET NextCall(w[k]) : Sends(w[k], w'[k], F)
      BY <1>6, CallLeaves
    <2>2. /\ w'[k].read = w[k].read /\ w'[k].st = w[k].st /\ w'[k].slice = w[k].slice
          /\ w[k].st # "ret" /\ pc # "crash"
      BY <1>1, <1>6, WriteCallFields DEF LeftOK, Left, WriteCall
    <2>3. Left(w'[k]) = Left(w[k]) \ NextCall(w[k])
      BY <1>1, <2>1, <2>2, CallLeft
    <2>4. \A i \in DOMAIN w[k].read : OptionType[w[k].read[i]] \in {"insert", "update", "delete"}
      BY <2>2, ReadTypes
    <2>5. /\ w'[k].todo = w[k].todo \ NextCall(w[k]) /\ w'[k].got = w[k].got
          /\ \A m \in applied' \ applied : \E i \in NextCall(w[k]) : m = w[k].read[i]
      BY <2>1 DEF Sends
    <2>6. /\ SentOK(w'[k]) /\ Sent(w[k]) \subseteq Sent(w'[k])
          /\ NextCall(w[k]) \subseteq Sent(w'[k])
      BY <1>1, <2>2, <2>3, <2>4, <2>5, CallSent
    <2> QED
      BY <2>2, <2>5, <2>6
  <1>7. CASE WriteReturn(k)
    BY <1>1, <1>7, WriteReturnFields, ReturnLeaves, SameSent
  <1>8. CASE WriteSkip(k)
    <2>1. /\ w'[k].read = w[k].read /\ w'[k].st = w[k].st /\ w'[k].slice = w[k].slice
          /\ w[k].st # "ret"
      BY <1>1, <1>8, WriteSkipFields DEF LeftOK, Left
    <2>2. /\ w'[k].todo = w[k].todo \ Skipped(w[k]) /\ w'[k].got = w[k].got
          /\ w'[k].failed = w[k].failed /\ Writer = "mongodb" /\ applied' = applied
      BY <1>8, SkipLeaves
    <2>3. Left(w'[k]) = Left(w[k]) \ Skipped(w[k])
      BY <1>1, <2>1, <2>2, SkipLeft
    <2> QED
      BY <1>1, <2>1, <2>2, <2>3, SkipSent
  <1> QED
    BY <1>2, <1>3, <1>4, <1>5, <1>6, <1>7, <1>8 DEF Write

LEMMA SentStep ==
  ASSUME TypeOK, TypeOK', ShapeInv, WaitInv, TurnInv, ReadInv, BatchesPartition, LeftInv, SentInv,
         [Next]_vars
  PROVE  SentInv'
  <1>1. ASSUME Runs \/ UNCHANGED vars \/ (\E k \in DOMAIN w : WritePanics(k))
        PROVE  SentInv'
    <2>1. UNCHANGED <<w, Writer>> /\ late \subseteq late'
      BY <1>1, RunKeeps
    <2> QED
      BY <2>1 DEF SentInv, SentOK, Sent, Left, Mapped, Sendable, GoesFirst
  <1>2. ASSUME StartWrite \/ FinalWrite
        PROVE  SentInv'
    <2>1. /\ DOMAIN w' = 1..Len(w') /\ DOMAIN w = 1..Len(w) /\ Len(w') = Len(w) + 1
          /\ Len(w) \in Nat /\ \A j \in DOMAIN w : w'[j] = w[j]
          /\ w'[Len(w')] = NewWrite(Content(cacheList))
          /\ UNCHANGED <<Writer, late>>
      BY <1>2, StartKeeps
    <2>3. SentOK(NewWrite(Content(cacheList)))
      BY DEF NewWrite, SentOK, Sent, Left
    <2>4. \A j \in DOMAIN w' \ late' : SentOK(w'[j])
      BY <2>1, <2>3 DEF SentInv
    <2> QED
      BY <2>1, <2>4 DEF SentInv, SentOK, Sent, Left, Mapped, Sendable, GoesFirst
  <1>3. ASSUME NEW k \in DOMAIN w, Write(k), ~WritePanics(k)
        PROVE  SentInv'
    <2>1. /\ DOMAIN w' = DOMAIN w /\ \A j \in DOMAIN w \ {k} : w'[j] = w[j]
          /\ late' = late /\ Writer' = Writer
      BY <1>3, WriteKept, KeptShape DEF Kept
    <2>2. k \notin late => SentOK(w'[k])
      BY <1>3, SentWrite
    <2>3. \A j \in DOMAIN w' \ late' : SentOK(w'[j])
      BY <2>1, <2>2 DEF SentInv
    <2> QED
      BY <2>1, <2>3 DEF SentInv, SentOK, Sent, Left, Mapped, Sendable, GoesFirst
  <1> QED
    BY <1>1, <1>2, <1>3, ThreeKinds

(* What any write has read stays read; what its call applies it has read. *)
LEMMA ReadGrows ==
  ASSUME TypeOK, ShapeInv, NEW k \in DOMAIN w, Write(k), ~WritePanics(k)
  PROVE  ToSet(w[k].read) \subseteq ToSet(w'[k].read)
  <1>1. w'[k].read = w[k].read \/ \E n \in 0..MaxOps : w'[k].read = Append(w[k].read, n)
    BY WriteBeginFields, WriteConnectFields, WriteGatherFields, WriteGatheredFields,
       WriteCallFields, WriteSkipFields, WriteReturnFields, GatherReads DEF Write
  <1>2. w[k].read \in Seq(0..MaxOps)
    BY DEF TypeOK
  <1>3. ASSUME NEW n \in 0..MaxOps, NEW s \in Seq(0..MaxOps)
        PROVE  ToSet(s) \subseteq ToSet(Append(s, n))
    <2>1. /\ DOMAIN s \subseteq DOMAIN Append(s, n)
          /\ \A i \in DOMAIN s : Append(s, n)[i] = s[i]
      OBVIOUS
    <2> QED
      BY <2>1 DEF ToSet
  <1> QED
    BY <1>1, <1>2, <1>3

LEMMA AppliesRead ==
  ASSUME TypeOK, ShapeInv, LeftInv, NEW k \in DOMAIN w, Write(k), ~WritePanics(k),
         NEW m \in applied' \ applied
  PROVE  m \in ToSet(w'[k].read)
  <1>1. WriteCall(k)
    BY BeginLeaves, ConnectLeaves, GatherLeaves, GatheredLeaves, SkipLeaves, ReturnLeaves
       DEF Write
  <1>2. PICK i \in NextCall(w[k]) : m = w[k].read[i]
    BY <1>1, CallLeaves DEF Sends
  <1>3. i \in DOMAIN w[k].read
    BY <1>2, CallWithin DEF LeftInv, LeftOK, Left
  <1> QED
    BY <1>1, <1>2, <1>3, WriteCallFields DEF ToSet

LEMMA LateThere ==
  ASSUME TypeOK
  PROVE  late \subseteq DOMAIN w
  BY DEF TypeOK

LEMMA AppliedStep ==
  ASSUME TypeOK, TypeOK', ShapeInv, WaitInv, TurnInv, ReadInv, BatchesPartition, LeftInv, SentInv,
         AppliedInv, [Next]_vars
  PROVE  AppliedInv'
  <1>1. ASSUME Runs \/ UNCHANGED vars \/ (\E k \in DOMAIN w : WritePanics(k))
        PROVE  AppliedInv'
    <2>1. UNCHANGED <<w, applied, Writer>> /\ late \subseteq late'
      BY <1>1, RunKeeps
    <2>2. ReadLate \subseteq ReadLate'
      BY <2>1 DEF ReadLate
    <2>3. ASSUME NEW m \in applied \ ReadLate'
          PROVE  \E k \in DOMAIN w \ late' : \E i \in Sent(w[k]) : m = w[k].read[i]
      <3>1. PICK k \in DOMAIN w \ late : \E i \in Sent(w[k]) : m = w[k].read[i]
        BY <2>2, <2>3 DEF AppliedInv
      <3>2. m \in ToSet(w[k].read)
        BY <3>1 DEF Sent, ToSet
      <3>3. k \notin late'
        BY <2>1, <2>3, <3>2 DEF ReadLate
      <3> QED
        BY <3>1, <3>3
    <2> QED
      BY <2>1, <2>3 DEF AppliedInv, Sent, Left, Mapped, Sendable
  <1>2. ASSUME StartWrite \/ FinalWrite
        PROVE  AppliedInv'
    <2>1. /\ DOMAIN w' = 1..Len(w') /\ DOMAIN w = 1..Len(w) /\ Len(w') = Len(w) + 1
          /\ Len(w) \in Nat /\ \A j \in DOMAIN w : w'[j] = w[j]
          /\ UNCHANGED <<applied, Writer, late>>
      BY <1>2, StartKeeps
    <2>2. late \subseteq DOMAIN w
      BY DEF TypeOK
    <2>3. ReadLate' = ReadLate
      BY <2>1, <2>2 DEF ReadLate
    <2>4. \A m \in applied \ ReadLate :
            \E k \in DOMAIN w' \ late : \E i \in Sent(w'[k]) : m = w'[k].read[i]
      BY <2>1 DEF AppliedInv
    <2> QED
      BY <2>1, <2>3, <2>4 DEF AppliedInv, Sent, Left, Mapped, Sendable
  <1>3. ASSUME NEW k \in DOMAIN w, Write(k), ~WritePanics(k)
        PROVE  AppliedInv'
    <2>1. /\ DOMAIN w' = DOMAIN w /\ \A j \in DOMAIN w \ {k} : w'[j] = w[j]
          /\ late' = late /\ Writer' = Writer
      BY <1>3, WriteKept, KeptShape DEF Kept
    <2>2. ToSet(w[k].read) \subseteq ToSet(w'[k].read)
      BY <1>3, ReadGrows
    <2>3. ReadLate \subseteq ReadLate'
      BY <2>1, <2>2, LateThere DEF ReadLate
    <2>4. ASSUME NEW m \in applied \ ReadLate
          PROVE  \E j \in DOMAIN w \ late : \E i \in Sent(w'[j]) : m = w'[j].read[i]
      <3>1. PICK j \in DOMAIN w \ late : \E i \in Sent(w[j]) : m = w[j].read[i]
        BY <2>4 DEF AppliedInv
      <3>2. CASE j = k
        <4>1. /\ Sent(w[k]) \subseteq Sent(w'[k])
              /\ \A i \in DOMAIN w[k].read : w'[k].read[i] = w[k].read[i]
          BY <1>3, <3>1, <3>2, SentWrite
        <4>2. Sent(w[k]) \subseteq DOMAIN w[k].read
          BY DEF Sent
        <4> QED
          BY <3>1, <3>2, <4>1, <4>2
      <3> QED
        BY <2>1, <3>1, <3>2
    <2>5. ASSUME NEW m \in applied' \ applied, m \notin ReadLate'
          PROVE  \E j \in DOMAIN w \ late : \E i \in Sent(w'[j]) : m = w'[j].read[i]
      <3>1. k \notin late
        <4>1. m \in ToSet(w'[k].read)
          BY <1>3, <2>5, AppliesRead
        <4> QED
          BY <2>1, <2>5, <4>1 DEF ReadLate
      <3> QED
        BY <1>3, <2>5, <3>1, SentWrite
    <2> QED
      BY <2>1, <2>3, <2>4, <2>5 DEF AppliedInv, Sent, Left, Mapped, Sendable
  <1> QED
    BY <1>1, <1>2, <1>3, ThreeKinds

-----------------------------------------------------------------------------
(* Nothing has been written. *)
LEMMA InitEffects ==
  ASSUME Init
  PROVE  EffectInv
  <1> DEFINE e == <<>>
  <1>1. /\ w = e /\ Len(e) = 0 /\ DOMAIN e = {} /\ applied = {} /\ late = {}
        /\ released = FALSE /\ pc = "select" /\ FailedDeliveryCount = 0
    BY DEF Init
  <1> HIDE DEF e
  <1>2. LeftInv /\ FailInv /\ SentInv /\ AppliedInv
    BY <1>1 DEF LeftInv, FailInv, SentInv, AppliedInv
  <1>3. LostInv
    <2>1. Lost = {}
      BY <1>1 DEF Lost, Finished, InBatches
    <2>2. Cardinality({}) = 0
      BY FS_EmptySet
    <2> QED
      BY <1>1, <2>1, <2>2 DEF LostInv
  <1> QED
    BY <1>2, <1>3 DEF EffectInv

(* What a write has left and done, what is in the counter, and what has taken
   effect, in every state. *)
THEOREM EffectInvariance == Spec => []EffectInv
  <1>1. BInv /\ BInv' /\ EffectInv /\ [Next]_vars => EffectInv'
    <2> SUFFICES ASSUME BInv, BInv', EffectInv, [Next]_vars
                 PROVE  EffectInv'
      OBVIOUS
    <2>1. /\ TypeOK /\ ShapeInv /\ WaitInv /\ TurnInv /\ ReadInv /\ BatchesPartition
          /\ TypeOK'
      BY DEF BInv
    <2>2. LeftInv /\ FailInv /\ LostInv /\ AppliedInv /\ SentInv
      BY DEF EffectInv
    <2>3. LeftInv'
      BY <2>1, <2>2, ReleaseStep, LeftStep DEF LeftInv
    <2>4. FailInv' /\ LostInv'
      BY <2>1, <2>2, FailStep, LostStep
    <2>5. AppliedInv' /\ SentInv'
      BY <2>1, <2>2, AppliedStep, SentStep
    <2> QED
      BY <2>3, <2>4, <2>5 DEF EffectInv
  <1>2. Init => EffectInv
    BY InitEffects
  <1> QED
    BY <1>1, <1>2, Invariance, PTL DEF Spec

(* Of the batches Run has finished with in time, every op that never took effect
   is in the counter, though a call may fail for some of its ops or apply ops it
   reports as failed; but for those MongoDB has no document set for, or one whose
   name it cannot split (mongodb_writer.go:125-136, 186-190, 223-226, 257-260,
   279-282). *)
THEOREM FailuresInCounter == Spec => []FailuresCounted
  <1>1. BInv /\ EffectInv => FailuresCounted
    <2> SUFFICES ASSUME BInv, EffectInv
                 PROVE  FailuresCounted
      OBVIOUS
    <2>1. Cardinality(Lost) <= FailedDeliveryCount
      BY DEF EffectInv, LostInv
    <2>2. ASSUME NEW k \in DOMAIN w
          PROVE  w[k].failed <= w[k].slice.len
      <3> DEFINE r == w[k]
      <3>1. LeftOK(r) /\ r.read \in Seq(0..MaxOps) /\ r.slice.len \in Nat
        BY DEF EffectInv, LeftInv, BInv, TypeOK, Fits
      <3> HIDE DEF r
      <3>2. Len(r.read) \in Nat /\ Cardinality(Left(r)) \in Nat
        BY <3>1, LeftFinite
      <3>3. r.failed <= r.slice.len
        BY <3>1, <3>2 DEF LeftOK
      <3> QED
        BY <3>3 DEF r
    <2> QED
      BY <2>1, <2>2 DEF FailuresCounted, Lost, Good, Uncounted
  <1> QED
    BY <1>1, Invariance, EffectInvariance, PTL

(* The step of a write in time: what it applies comes after what has been
   applied, unless MongoDB puts it first. *)
LEMMA OrderStep ==
  ASSUME BInv, EffectInv, NEW k \in DOMAIN w, WriteCall(k),
         NEW n \in applied' \ (applied \cup ReadLate), NEW m \in applied \ ReadLate
  PROVE  m <= n \/ Overtakes(m, n)
  <1>1. /\ TypeOK /\ ShapeInv /\ WaitInv /\ TurnInv /\ ReadInv /\ BatchesPartition
        /\ LeftInv /\ AppliedInv /\ SentInv
    BY DEF BInv, EffectInv
  <1>2. PICK i \in NextCall(w[k]) : n = w[k].read[i]
    BY <1>1, CallLeaves DEF Sends
  <1>3. i \in Left(w[k]) /\ i \in DOMAIN w[k].read
    BY <1>1, <1>2, CallWithin DEF LeftInv, LeftOK, Left
  <1>4. k \notin late
    BY <1>2, <1>3 DEF ReadLate, ToSet
  <1>5. PICK l \in DOMAIN w \ late : \E j \in Sent(w[l]) : m = w[l].read[j]
    BY <1>1 DEF AppliedInv
  <1>6. PICK j \in Sent(w[l]) : m = w[l].read[j]
    BY <1>5
  <1>7. \A p \in DOMAIN w \ late : \A h \in DOMAIN w[p].read :
          /\ h \in DOMAIN w[p].batch /\ w[p].read[h] = w[p].batch[h]
          /\ w[p].batch[h] \in 0..MaxOps
    <2> SUFFICES ASSUME NEW p \in DOMAIN w \ late, NEW h \in DOMAIN w[p].read
                 PROVE  /\ h \in DOMAIN w[p].batch /\ w[p].read[h] = w[p].batch[h]
                        /\ w[p].batch[h] \in 0..MaxOps
      OBVIOUS
    <2>1. /\ w[p].read \in Seq(0..MaxOps) /\ w[p].batch \in Seq(0..MaxOps)
          /\ IsPrefix(w[p].read, w[p].batch)
      BY <1>1 DEF TypeOK, ReadInv
    <2>2. h \in 1..Len(w[p].batch) /\ w[p].read[h] = w[p].batch[h]
      BY <2>1, PrefixPoints
    <2>3. w[p].batch[h] \in 0..MaxOps
      BY <2>1, <2>2, ElementOfSeq
    <2> QED
      BY <2>1, <2>2, <2>3
  <1>8. /\ i \in DOMAIN w[k].batch /\ n = w[k].batch[i] /\ n \in 0..MaxOps
        /\ j \in DOMAIN w[l].batch /\ m = w[l].batch[j] /\ m \in 0..MaxOps
    BY <1>2, <1>3, <1>4, <1>5, <1>6, <1>7 DEF Sent
  <1>9. k = Len(w) /\ DOMAIN w = 1..Len(w) /\ Len(w) \in Nat /\ pc # "crash"
    <2>1. w[k].st # "ret" /\ pc # "crash"
      BY <1>1, <1>3 DEF WriteCall, LeftInv, LeftOK
    <2> QED
      BY <1>1, <1>4, <2>1 DEF TurnInv, Current, ShapeInv
  <1>10. CASE l < k
    <2>1. Before(w[l].batch, w[k].batch)
      BY <1>1, <1>9, <1>10 DEF BatchesPartition
    <2>2. m < n
      BY <1>8, <2>1 DEF Before
    <2> QED
      BY <1>8, <2>2
  <1>11. CASE l = k
    <2>1. CASE j < i
      <3>1. Ascends(w[k].batch)
        BY <1>1, <1>9 DEF BatchesPartition
      <3>2. m < n
        BY <1>8, <1>11, <2>1, <3>1 DEF Ascends
      <3> QED
        BY <1>8, <3>2
    <2>2. CASE GoesFirst(m, n)
      <3>1. {m, n} \subseteq ToSet(w[k].batch)
        BY <1>8, <1>11 DEF ToSet
      <3> QED
        BY <2>2, <3>1 DEF Overtakes
    <2>3. j < i \/ GoesFirst(m, n)
      <3>1. Sendable(w[k].read[i])
        BY <1>1, <1>2, <1>3, <1>4, CallWithin DEF SentInv, SentOK, Sendable
      <3> QED
        BY <1>1, <1>2, <1>3, <1>4, <1>6, <1>11, <3>1 DEF SentInv, SentOK
    <2> QED
      BY <2>1, <2>2, <2>3
  <1>12. l \in 1..k
    BY <1>5, <1>9
  <1> QED
    BY <1>9, <1>10, <1>11, <1>12

(* Ops take effect in the order of the channel, within a batch and across the
   batches, but for those a write past its deadline has read; MongoDB alone lets
   an op overtake one of its own batch, and of an earlier kind
   (mongodb_writer.go:221-300, clickhouse_wirter.go:237-272). *)
THEOREM BatchInOrder == Spec => InOrder
  <1>1. BInv /\ EffectInv /\ [Next]_vars
        => [\A n \in applied' \ (applied \cup ReadLate) : \A m \in applied \ ReadLate :
              m <= n \/ Overtakes(m, n)]_vars
    <2> SUFFICES ASSUME BInv, EffectInv, [Next]_vars,
                        NEW n \in applied' \ (applied \cup ReadLate),
                        NEW m \in applied \ ReadLate
                 PROVE  m <= n \/ Overtakes(m, n)
      OBVIOUS
    <2>1. ShapeInv
      BY DEF BInv
    <2>2. PICK k \in DOMAIN w : Write(k) /\ ~WritePanics(k)
      BY <2>1, ThreeKinds, RunKeeps, StartKeeps
    <2>3. WriteCall(k)
      BY <2>1, <2>2, BeginLeaves, ConnectLeaves, GatherLeaves, GatheredLeaves, SkipLeaves,
         ReturnLeaves DEF Write
    <2> QED
      BY <2>3, OrderStep
  <1> QED
    BY <1>1, Invariance, EffectInvariance, PTL DEF Spec, InOrder
=============================================================================
