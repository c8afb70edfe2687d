---------------------------- MODULE WriterProofs ----------------------------
(***************************************************************************)
(* Proofs about WriterRun, for any number of messages and table changes.   *)
(***************************************************************************)
EXTENDS WriterRun, FiniteSetTheorems, TLAPS

(* What holds besides the types and OnlyLateOverlap: nothing is ahead of the
   message in hand, and a deadline that has passed is on record. *)
TakenInv ==
  /\ \A n \in Ops : w[n] # "none" => n <= taken
  /\ \A i \in DOMAIN target : target[i] <= taken
  /\ pc = "wait" /\ expired => taken \in late
  /\ pc = "ddl" => taken \in Ops

WInv == TypeOK /\ OnlyLateOverlap /\ TakenInv

LEMMA OpsNat == MaxOps \in Nat /\ \A n \in Ops : n \in Nat
BY WriterAssumption DEF Ops

LEMMA WInvInit == Init => WInv
<1> SUFFICES ASSUME Init PROVE WInv
  OBVIOUS
<1>1. TypeOK
  <2>1. /\ w \in [Ops -> {"none", "begin", "exec", "retry", "err", "ret"}]
        /\ failedOf \in [Ops -> {0, 1}]
    BY DEF Init
  <2>2. taken \in 0..MaxOps /\ FailedDeliveryCount \in Nat
    BY OpsNat DEF Init
  <2>3. target \in Seq(Ops) /\ late \subseteq Ops
    BY DEF Init
  <2> QED
    BY <2>1, <2>2, <2>3 DEF Init, TypeOK
<1>2. OnlyLateOverlap
  BY DEF Init, OnlyLateOverlap, Active
<1>3. TakenInv
  BY DEF Init, TakenInv
<1> QED
  BY <1>1, <1>2, <1>3 DEF WInv

LEMMA AppendKeeps ==
  ASSUME NEW s \in Seq(Ops), NEW n \in Ops
  PROVE  /\ Append(s, n) \in Seq(Ops)
         /\ Append(s, n) # s
         /\ Append(s, n)[Len(s) + 1] = n
         /\ \A i \in DOMAIN Append(s, n) :
              (i \in DOMAIN s /\ Append(s, n)[i] = s[i]) \/ Append(s, n)[i] = n
OBVIOUS

(* A statement of message n is added, or none: no message of target is ahead. *)
LEMMA GrowsWithin ==
  ASSUME NEW s \in Seq(Ops), NEW n \in Ops, NEW t \in {s, Append(s, n)},
         NEW k \in Nat, n <= k, \A i \in DOMAIN s : s[i] <= k
  PROVE  t \in Seq(Ops) /\ \A i \in DOMAIN t : t[i] <= k
<1>1. CASE t = s
  BY <1>1
<1>2. CASE t = Append(s, n)
  <2>1. t \in Seq(Ops)
    BY <1>2, AppendKeeps
  <2>2. ASSUME NEW i \in DOMAIN t PROVE t[i] <= k
    <3>1. (i \in DOMAIN s /\ t[i] = s[i]) \/ t[i] = n
      BY <1>2, <2>2, AppendKeeps
    <3> QED
      BY <3>1
  <2> QED
    BY <2>1, <2>2
<1> QED
  BY <1>1, <1>2

(* Appending different messages makes different sequences. *)
LEMMA AppendOne ==
  ASSUME NEW s \in Seq(Ops), NEW m \in Ops, NEW n \in Ops, Append(s, m) = Append(s, n)
  PROVE  m = n
BY AppendKeeps

LEMMA WInvStep == WInv /\ [Next]_vars => WInv'
<1> SUFFICES ASSUME WInv, [Next]_vars PROVE WInv'
  OBVIOUS
<1> USE OpsNat DEF WInv, TypeOK, TakenInv, OnlyLateOverlap, Active
<1>1. CASE TakeOp
  <2>1. taken + 1 \in Ops /\ taken' = taken + 1 /\ taken \in Nat
    BY <1>1 DEF TakeOp, Ops
  <2>2. w' \in [Ops -> {"none", "begin", "exec", "retry", "err", "ret"}]
    BY <1>1, <2>1 DEF TakeOp
  <2>3. TypeOK'
    <3>1. taken' \in 0..MaxOps /\ taken' \in Ops /\ w'[taken'] # "none"
      BY <1>1, <2>1 DEF TakeOp, Ops
    <3> QED
      BY <1>1, <2>2, <3>1 DEF TakeOp
  <2>4. OnlyLateOverlap'
    BY <1>1, <2>1 DEF TakeOp
  <2>5. TakenInv'
    BY <1>1, <2>1 DEF TakeOp, Ops
  <2> QED
    BY <2>3, <2>4, <2>5
<1>2. CASE TakeDdl
  <2>1. taken + 1 \in Ops /\ taken' = taken + 1 /\ taken \in Nat
    BY <1>2, WriterAssumption DEF TakeDdl, Ops
  <2>2. taken' \in 0..MaxOps /\ taken' \in Ops /\ pc' = "ddl"
    BY <1>2, <2>1 DEF TakeDdl, Ops
  <2>3. UNCHANGED <<exitF, expired, w, failedOf, client, released, errC,
                    FailedDeliveryCount, target, late>>
    BY <1>2 DEF TakeDdl
  <2>4. TypeOK'
    BY <2>2, <2>3
  <2>5. OnlyLateOverlap'
    BY <1>2, <2>3 DEF TakeDdl
  <2>6. TakenInv'
    <3>1. \A n \in Ops : w[n] # "none" => n <= taken + 1
      BY <2>1
    <3>2. \A i \in DOMAIN target : target[i] \in Nat /\ target[i] <= taken + 1
      BY <2>1
    <3> QED
      BY <2>1, <2>2, <2>3, <3>1, <3>2
  <2> QED
    BY <2>4, <2>5, <2>6
<1>3. CASE TakeReadDone
  BY <1>3 DEF TakeReadDone
<1>4. CASE Ddl
  <2>1. target' \in {target, Append(target, taken)}
    BY <1>4 DEF Ddl
  <2>2. FailedDeliveryCount' \in Nat
    <3>1. FailedDeliveryCount \in Nat
      OBVIOUS
    <3> HIDE DEF WInv, TypeOK, TakenInv, OnlyLateOverlap, Active
    <3>2. FailedDeliveryCount' \in {FailedDeliveryCount, FailedDeliveryCount + 1}
      BY <1>4 DEF Ddl
    <3> QED
      BY <3>1, <3>2
  <2>3. client' \in BOOLEAN
    BY <1>4 DEF Ddl
  <2>4. taken \in Ops /\ taken \in Nat
    BY <1>4 DEF Ddl
  <2>5. target' \in Seq(Ops) /\ \A i \in DOMAIN target' : target'[i] <= taken
    <3>1. /\ target \in Seq(Ops) /\ \A i \in DOMAIN target : target[i] <= taken
          /\ taken <= taken
      BY <2>4
    <3> HIDE DEF WInv, TypeOK, TakenInv, OnlyLateOverlap, Active
    <3> QED
      BY <2>1, <2>4, <3>1, GrowsWithin
  <2>6. /\ pc = "ddl" /\ pc' = "loop"
        /\ UNCHANGED <<taken, exitF, expired, w, failedOf, released, errC, late>>
    BY <1>4 DEF Ddl
  <2>7. TypeOK'
    BY <2>2, <2>3, <2>5, <2>6
  <2>8. OnlyLateOverlap'
    BY <2>6
  <2>9. TakenInv'
    BY <2>5, <2>6
  <2> QED
    BY <2>7, <2>8, <2>9
<1>5. CASE Expire
  BY <1>5 DEF Expire
<1>6. CASE Select
  <2>1. /\ pc = "wait" /\ pc' = "loop" /\ (w[taken] = "ret" \/ taken \in late)
        /\ UNCHANGED <<taken, exitF, expired, w, failedOf, client, released, errC, target, late>>
    BY <1>6 DEF Select, SelectDone, SelectTimeout
  <2>2. FailedDeliveryCount' \in Nat
    <3>1. CASE SelectDone
      <4>1. failedOf[taken] \in {0, 1}
        BY <2>1
      <4> QED
        BY <3>1, <4>1 DEF SelectDone
    <3>2. CASE SelectTimeout
      BY <3>2 DEF SelectTimeout
    <3> QED
      BY <1>6, <3>1, <3>2 DEF Select
  <2> QED
    BY <2>1, <2>2
<1>7. CASE RunRelease \/ RunEnd
  BY <1>7 DEF RunRelease, RunEnd
<1>8. ASSUME NEW n \in Ops, Write(n) PROVE WInv'
  <2>1. CASE WriteConnect(n)
    BY <2>1 DEF WriteConnect
  <2>2. CASE WriteExec(n) \/ WriteRetry(n)
    <3>1. /\ Active(n)
          /\ \E st \in {"err", "ret", "retry"} : w' = [w EXCEPT ![n] = st]
          /\ target' \in {target, Append(target, n)} /\ client' \in BOOLEAN
          /\ UNCHANGED <<pc, taken, exitF, expired, failedOf, released, errC,
                         FailedDeliveryCount, late>>
      BY <2>2 DEF WriteExec, WriteRetry
    <3>2. n <= taken
      BY <3>1
    <3>3. target' \in Seq(Ops) /\ \A i \in DOMAIN target' : target'[i] <= taken
      <4>1. /\ target \in Seq(Ops) /\ \A i \in DOMAIN target : target[i] <= taken
            /\ taken \in Nat
        OBVIOUS
      <4> HIDE DEF WInv, TypeOK, TakenInv, OnlyLateOverlap, Active
      <4> QED
        BY <3>1, <3>2, <4>1, GrowsWithin
    <3>4. TypeOK'
      BY <3>1, <3>3
    <3>5. OnlyLateOverlap'
      BY <3>1
    <3>6. TakenInv'
      BY <3>1, <3>2, <3>3
    <3> QED
      BY <3>4, <3>5, <3>6
  <2>3. CASE WriteReport(n)
    BY <2>3 DEF WriteReport
  <2> QED
    BY <1>8, <2>1, <2>2, <2>3 DEF Write
<1>9. CASE UNCHANGED vars
  BY <1>9 DEF vars
<1> QED
  BY <1>1, <1>2, <1>3, <1>4, <1>5, <1>6, <1>7, <1>8, <1>9 DEF Next

THEOREM WriterInvariance == Spec => []WInv
BY WInvInit, WInvStep, PTL DEF Spec

(* The variables of a writer keep their types (mysql_writer.go:60-116). *)
THEOREM WriterTypeCorrect == Spec => []TypeOK
BY WriterInvariance, PTL DEF WInv

(* However slow the target is, writes overlap only with writes that have missed
   their deadline (mysql_writer.go:95-115). *)
THEOREM WritesOverlapOnlyLate == Spec => []OnlyLateOverlap
BY WriterInvariance, PTL DEF WInv

(* The statements take effect in the order of the channel, those of writes that
   have missed their deadline excepted (mysql_writer.go:72-116). *)
THEOREM WritesInOrder == Spec => InOrder
<1>1. ASSUME WInv, [Next]_vars, NEW n \in Ops,
             target' = Append(target, n), n \notin late, NEW m \in Applied
      PROVE  m <= n
  <2>1. target \in Seq(Ops) /\ target' # target
    BY <1>1, AppendKeeps DEF WInv, TypeOK
  <2>2. m <= taken
    BY <1>1 DEF Applied, WInv, TakenInv
  <2>3. CASE Ddl
    <3>1. target' = Append(target, taken) /\ taken \in Ops
      <4>1. taken \in Ops
        BY <1>1, <2>3 DEF Ddl, WInv, TakenInv
      <4>2. target' = Append(target, taken)
        BY <2>1, <2>3 DEF Ddl
      <4> QED
        BY <4>1, <4>2
    <3>2. taken = n
      BY <1>1, <2>1, <3>1, AppendOne
    <3> QED
      BY <2>2, <3>2
  <2>4. ASSUME NEW k \in Ops, WriteExec(k) \/ WriteRetry(k) PROVE m <= n
    <3>1. target' = Append(target, k) /\ Active(k)
      BY <2>1, <2>4 DEF WriteExec, WriteRetry, Active
    <3>2. k = n
      BY <1>1, <2>1, <3>1, AppendOne
    <3>3. n = taken
      BY <1>1, <3>1, <3>2 DEF WInv, OnlyLateOverlap
    <3> QED
      BY <2>2, <3>3
  <2>5. CASE TakeOp \/ TakeDdl \/ TakeReadDone \/ Expire \/ Select \/ RunRelease \/ RunEnd
    BY <2>1, <2>5 DEF TakeOp, TakeDdl, TakeReadDone, Expire, Select, SelectDone,
         SelectTimeout, RunRelease, RunEnd
  <2>6. ASSUME NEW k \in Ops, WriteConnect(k) \/ WriteReport(k) PROVE m <= n
    BY <2>1, <2>6 DEF WriteConnect, WriteReport
  <2>7. CASE UNCHANGED vars
    BY <2>1, <2>7 DEF vars
  <2> QED
    BY <1>1, <2>3, <2>4, <2>5, <2>6, <2>7 DEF Next, Write
<1>2. WInv /\ [Next]_vars =>
        [\A n \in Ops :
           target' = Append(target, n) /\ n \notin late => \A m \in Applied : m <= n]_vars
  BY <1>1
<1> QED
  BY <1>2, WriterInvariance, PTL DEF Spec, InOrder

-----------------------------------------------------------------------------
(* The failures counted *)

(* The messages Run has finished with in time that never took effect. *)
Lost == {n \in Finished : n \notin Applied /\ n \notin late}

(* A write that has returned has taken effect or will be counted; the counter
   lies between the lost messages and the messages finished. *)
ReturnedInv == \A n \in Ops : w[n] = "ret" => n \in Applied \/ failedOf[n] = 1

CountInv ==
  /\ ReturnedInv
  /\ Cardinality(Lost) <= FailedDeliveryCount
  /\ FailedDeliveryCount <= Cardinality(Finished)

LEMMA InitialSegment ==
  ASSUME NEW k \in Nat
  PROVE  /\ IsFiniteSet(1..k) /\ Cardinality(1..k) = k
         /\ 1..(k + 1) = 1..k \cup {k + 1} /\ k + 1 \notin 1..k
<1>1. IsFiniteSet(1..k)
  BY FS_Interval
<1>2. Cardinality(1..k) = k
  BY FS_Interval
<1>3. 1..(k + 1) = 1..k \cup {k + 1} /\ k + 1 \notin 1..k
  OBVIOUS
<1> QED
  BY <1>1, <1>2, <1>3

(* At most one more element makes the cardinality at most one larger. *)
LEMMA OneMore ==
  ASSUME NEW S, IsFiniteSet(S), NEW x, NEW T, T \subseteq S \cup {x}
  PROVE  /\ IsFiniteSet(T) /\ Cardinality(T) \in Nat /\ Cardinality(S) \in Nat
         /\ Cardinality(T) <= Cardinality(S) + 1
         /\ T \subseteq S => Cardinality(T) <= Cardinality(S)
<1>1. IsFiniteSet(S \cup {x}) /\ Cardinality(S) \in Nat
  BY FS_AddElement, FS_CardinalityType
<1>2. Cardinality(S \cup {x}) <= Cardinality(S) + 1
  BY <1>1, FS_AddElement
<1>3. IsFiniteSet(T) /\ Cardinality(T) <= Cardinality(S \cup {x})
  BY <1>1, FS_Subset
<1>4. Cardinality(T) \in Nat /\ Cardinality(S \cup {x}) \in Nat
  BY <1>1, <1>3, FS_CardinalityType
<1>5. T \subseteq S => Cardinality(T) <= Cardinality(S)
  BY FS_Subset
<1> QED
  BY <1>1, <1>2, <1>3, <1>4, <1>5

(* The messages finished are the first ones; the one in hand is the next. *)
LEMMA FinishedIs ==
  ASSUME WInv
  PROVE  /\ IsFiniteSet(Finished) /\ Finished \subseteq Ops
         /\ pc \in {"wait", "ddl"} =>
              /\ 1..taken = Finished \cup {taken}
              /\ Cardinality(1..taken) = Cardinality(Finished) + 1
<1>1. taken \in Nat /\ taken <= MaxOps /\ (pc \in {"wait", "ddl"} => taken \in Ops)
  BY OpsNat DEF WInv, TypeOK, TakenInv
<1>2. CASE pc \in {"wait", "ddl"}
  <2>1. taken \in Ops /\ taken - 1 \in Nat /\ Finished = 1..(taken - 1)
    BY <1>1, <1>2, OpsNat DEF Finished, Ops
  <2>2. /\ IsFiniteSet(1..(taken - 1)) /\ Cardinality(1..(taken - 1)) = taken - 1
        /\ 1..((taken - 1) + 1) = 1..(taken - 1) \cup {(taken - 1) + 1}
    BY <2>1, InitialSegment
  <2>3. (taken - 1) + 1 = taken
    BY <1>1
  <2>4. Cardinality(1..taken) = taken
    BY <1>1, InitialSegment
  <2>5. Finished \subseteq Ops
    BY <1>1, <2>1, OpsNat DEF Ops
  <2> QED
    BY <1>1, <2>1, <2>2, <2>3, <2>4, <2>5
<1>3. CASE pc \notin {"wait", "ddl"}
  <2>1. Finished = 1..taken
    BY <1>3 DEF Finished
  <2>2. IsFiniteSet(Finished)
    BY <1>1, <2>1, InitialSegment
  <2>3. Finished \subseteq Ops
    BY <1>1, <2>1, OpsNat DEF Ops
  <2> QED
    BY <1>3, <2>2, <2>3
<1> QED
  BY <1>2, <1>3

LEMMA LostFinite ==
  ASSUME WInv
  PROVE  /\ IsFiniteSet(Lost) /\ Cardinality(Lost) \in Nat
         /\ Cardinality(Finished) \in Nat /\ FailedDeliveryCount \in Nat
<1>1. IsFiniteSet(Finished) /\ Lost \subseteq Finished
  BY FinishedIs DEF Lost
<1>2. IsFiniteSet(Lost)
  BY <1>1, FS_Subset
<1> QED
  BY <1>1, <1>2, FS_CardinalityType DEF WInv, TypeOK

(* A step that finishes no message and touches no counter. *)
LEMMA QuietStep ==
  ASSUME WInv, CountInv, ReturnedInv', Finished' = Finished, Applied \subseteq Applied',
         late \subseteq late', FailedDeliveryCount' = FailedDeliveryCount
  PROVE  CountInv'
<1>1. Lost' \subseteq Lost
  BY DEF Lost
<1>2. Cardinality(Lost') <= Cardinality(Lost) /\ Cardinality(Lost') \in Nat
  BY <1>1, LostFinite, OneMore
<1> QED
  BY <1>2, LostFinite DEF CountInv

(* A step that finishes the message in hand: a message that is lost is counted. *)
LEMMA FinishStep ==
  ASSUME WInv, CountInv, ReturnedInv', pc \in {"wait", "ddl"}, pc' = "loop",
         taken' = taken, Applied \subseteq Applied', late' = late,
         FailedDeliveryCount' \in {FailedDeliveryCount, FailedDeliveryCount + 1},
         \/ FailedDeliveryCount' = FailedDeliveryCount + 1
         \/ taken \in Applied' \cup late
  PROVE  CountInv'
<1>1. Finished' = 1..taken
  BY DEF Finished
<1>2. /\ Finished' = Finished \cup {taken}
      /\ Cardinality(Finished') = Cardinality(Finished) + 1
  BY <1>1, FinishedIs
<1>3. Lost' \subseteq Lost \cup {taken}
  BY <1>2 DEF Lost
<1>4. taken \in Applied' \cup late => Lost' \subseteq Lost
  BY <1>2 DEF Lost
<1>5. /\ Cardinality(Lost') \in Nat /\ Cardinality(Lost') <= Cardinality(Lost) + 1
      /\ Lost' \subseteq Lost => Cardinality(Lost') <= Cardinality(Lost)
  BY <1>3, LostFinite, OneMore
<1>6. Cardinality(Lost') <= FailedDeliveryCount'
  BY <1>4, <1>5, LostFinite DEF CountInv
<1>7. FailedDeliveryCount' <= Cardinality(Finished')
  BY <1>2, LostFinite DEF CountInv
<1> QED
  BY <1>6, <1>7 DEF CountInv

LEMMA AppliedGrows ==
  ASSUME target \in Seq(Ops), NEW n \in Ops, target' \in {target, Append(target, n)}
  PROVE  Applied \subseteq Applied' /\ (target' = Append(target, n) => n \in Applied')
<1>1. CASE target' = target
  <2>1. Applied' = Applied
    BY <1>1 DEF Applied
  <2> QED
    BY <1>1, <2>1, AppendKeeps
<1>2. CASE target' = Append(target, n)
  <2>1. \A i \in DOMAIN target : i \in DOMAIN target' /\ target'[i] = target[i]
    BY <1>2
  <2>2. Len(target) + 1 \in DOMAIN target' /\ target'[Len(target) + 1] = n
    BY <1>2
  <2> QED
    BY <2>1, <2>2 DEF Applied
<1> QED
  BY <1>1, <1>2

LEMMA CountInit == Init => CountInv
<1> SUFFICES ASSUME Init PROVE CountInv
  OBVIOUS
<1>1. Finished = {} /\ Lost = {} /\ FailedDeliveryCount = 0
  BY DEF Init, Finished, Lost
<1>2. ReturnedInv
  BY DEF Init, ReturnedInv
<1> QED
  BY <1>1, <1>2, FS_EmptySet DEF CountInv

LEMMA CountStep == WInv /\ CountInv /\ [Next]_vars => CountInv'
<1> SUFFICES ASSUME WInv, CountInv, [Next]_vars PROVE CountInv'
  OBVIOUS
<1> USE DEF CountInv
<1>1. /\ taken \in Nat /\ (pc = "wait" => taken \in Ops) /\ (pc = "ddl" => taken \in Ops)
      /\ target \in Seq(Ops) /\ FailedDeliveryCount \in Nat
      /\ w \in [Ops -> {"none", "begin", "exec", "retry", "err", "ret"}]
      /\ failedOf \in [Ops -> {0, 1}]
  BY OpsNat DEF WInv, TypeOK, TakenInv
<1>2. CASE TakeOp \/ TakeDdl
  <2>1. /\ Finished' = Finished /\ target' = target /\ late' = late
        /\ FailedDeliveryCount' = FailedDeliveryCount /\ failedOf' = failedOf
        /\ \A n \in Ops : w'[n] = "ret" => w[n] = "ret"
    <3>1. Finished = 1..taken /\ Finished' = 1..((taken + 1) - 1) /\ (taken + 1) - 1 = taken
      BY <1>1, <1>2 DEF TakeOp, TakeDdl, Finished
    <3>2. \A n \in Ops : w'[n] = "ret" => w[n] = "ret"
      BY <1>1, <1>2 DEF TakeOp, TakeDdl
    <3> QED
      BY <1>2, <3>1, <3>2 DEF TakeOp, TakeDdl
  <2>2. Applied' = Applied
    BY <2>1 DEF Applied
  <2>3. ReturnedInv'
    BY <2>1, <2>2 DEF ReturnedInv
  <2> QED
    BY <2>1, <2>2, <2>3, QuietStep
<1>3. CASE TakeReadDone \/ Expire \/ RunRelease \/ RunEnd \/ UNCHANGED vars
  <2>1. /\ Finished' = Finished /\ target' = target /\ late \subseteq late'
        /\ FailedDeliveryCount' = FailedDeliveryCount /\ failedOf' = failedOf /\ w' = w
    BY <1>3 DEF TakeReadDone, Expire, RunRelease, RunEnd, vars, Finished
  <2>2. Applied' = Applied
    BY <2>1 DEF Applied
  <2>3. ReturnedInv'
    BY <2>1, <2>2 DEF ReturnedInv
  <2> QED
    BY <2>1, <2>2, <2>3, QuietStep
<1>4. CASE Ddl
  <2>1. /\ pc = "ddl" /\ pc' = "loop" /\ taken' = taken /\ late' = late
        /\ w' = w /\ failedOf' = failedOf /\ target' \in {target, Append(target, taken)}
        /\ FailedDeliveryCount' \in {FailedDeliveryCount, FailedDeliveryCount + 1}
        /\ \/ FailedDeliveryCount' = FailedDeliveryCount + 1
           \/ target' = Append(target, taken)
    BY <1>4 DEF Ddl
  <2>2. Applied \subseteq Applied' /\ (target' = Append(target, taken) => taken \in Applied')
    BY <1>1, <2>1, AppliedGrows
  <2>3. ReturnedInv'
    BY <2>1, <2>2 DEF ReturnedInv
  <2> QED
    BY <2>1, <2>2, <2>3, FinishStep
<1>5. CASE Select
  <2>1. /\ pc = "wait" /\ pc' = "loop" /\ taken' = taken /\ late' = late
        /\ w' = w /\ failedOf' = failedOf /\ target' = target
    BY <1>5 DEF Select, SelectDone, SelectTimeout
  <2>2. Applied' = Applied
    BY <2>1 DEF Applied
  <2>3. ReturnedInv'
    BY <2>1, <2>2 DEF ReturnedInv
  <2>4. /\ FailedDeliveryCount' \in {FailedDeliveryCount, FailedDeliveryCount + 1}
        /\ \/ FailedDeliveryCount' = FailedDeliveryCount + 1
           \/ taken \in Applied \cup late
    <3>1. CASE SelectTimeout
      BY <3>1 DEF SelectTimeout
    <3>2. CASE SelectDone
      <4>1. taken \in Ops /\ failedOf[taken] \in {0, 1}
        BY <1>1, <2>1
      <4>2. FailedDeliveryCount' = FailedDeliveryCount + failedOf[taken]
        BY <3>2 DEF SelectDone
      <4>3. CASE failedOf[taken] = 1
        BY <4>2, <4>3
      <4>4. CASE failedOf[taken] = 0
        <5>1. w[taken] = "ret" \/ taken \in late
          BY <2>1, <3>2 DEF SelectDone, WInv, TakenInv
        <5>2. taken \in Applied \cup late
          BY <4>1, <4>4, <5>1 DEF ReturnedInv
        <5>3. FailedDeliveryCount' = FailedDeliveryCount
          BY <1>1, <4>2, <4>4
        <5> QED
          BY <5>2, <5>3
      <4> QED
        BY <4>1, <4>3, <4>4
    <3> QED
      BY <1>5, <3>1, <3>2 DEF Select
  <2> QED
    BY <2>1, <2>2, <2>3, <2>4, FinishStep
<1>6. ASSUME NEW n \in Ops, Write(n) PROVE CountInv'
  <2>1. /\ pc' = pc /\ taken' = taken /\ late' = late
        /\ FailedDeliveryCount' = FailedDeliveryCount
        /\ target' \in {target, Append(target, n)}
    BY <1>6 DEF Write, WriteConnect, WriteExec, WriteRetry, WriteReport
  <2>2. Applied \subseteq Applied' /\ (target' = Append(target, n) => n \in Applied')
    BY <1>1, <2>1, AppliedGrows
  <2>3. Finished' = Finished
    BY <2>1 DEF Finished
  <2>4. /\ \A m \in Ops : m # n => w'[m] = w[m] /\ failedOf'[m] = failedOf[m]
        /\ w'[n] = "ret" => target' = Append(target, n) \/ failedOf'[n] = 1
    BY <1>1, <1>6 DEF Write, WriteConnect, WriteExec, WriteRetry, WriteReport
  <2>5. ReturnedInv'
    BY <2>2, <2>4 DEF ReturnedInv
  <2> QED
    BY <2>1, <2>2, <2>3, <2>5, QuietStep
<1> QED
  BY <1>2, <1>3, <1>4, <1>5, <1>6 DEF Next

LEMMA CountInvariance == Spec => []CountInv
<1>1. Init => CountInv
  BY CountInit
<1>2. WInv /\ CountInv /\ [Next]_vars => CountInv'
  BY CountStep
<1> QED
  BY <1>1, <1>2, WriterInvariance, PTL DEF Spec

(* No failure goes uncounted and none is counted twice: the messages finished in
   time that never took effect are in the counter, and the counter is never ahead
   of the messages finished (mysql_writer.go:96-109). *)
THEOREM FailuresAreCounted == Spec => []FailuresCounted
<1>1. CountInv => FailuresCounted
  BY DEF CountInv, FailuresCounted, Lost
<1> QED
  BY <1>1, CountInvariance, PTL
=============================================================================
