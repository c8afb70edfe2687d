----------------------------- MODULE WriterRun -----------------------------
(***************************************************************************)
(* One target that writes op by op: Run and Write of                       *)
(* datalink/terms/mysql_writer.go (the plaintext, Kafka, RabbitMQ, empty   *)
(* and error writers share the loop).  Run hands each op to a goroutine of *)
(* its own that calls Write, and waits for it or for a deadline; nothing   *)
(* stops a Write that has missed its deadline.  A table change (DDL) is    *)
(* executed by Run itself.                                                 *)
(*                                                                         *)
(* The database is outside: a call to it may succeed, fail, lose its       *)
(* connection after or before the statement took effect, or never return.  *)
(* The error recorder receives whatever is sent on a channel that is not   *)
(* nil (Task: it outlives every target).                                   *)
(*                                                                         *)
(* Left out: the map of table structures.  A Write past its deadline that  *)
(* looks up a structure while a table change, or another Write, works on   *)
(* the map (mysql_writer.go:363-380, 427) may panic; that ends the process *)
(* and with it everything described here.                                  *)
(***************************************************************************)
EXTENDS Naturals, Sequences, FiniteSets

CONSTANTS
  MaxOps,   \* bound: messages the pipeline sends, numbered in their order
  DdlOps    \* those of them that are table changes

ASSUME WriterAssumption == MaxOps \in Nat /\ DdlOps \subseteq 1..MaxOps

Ops == 1..MaxOps

VARIABLES
  pc,        \* Run: receiving, waiting for a Write, in a DDL, ending
  taken,     \* messages received so far; the last one is in hand
  exitF,
  expired,   \* the deadline of the op in hand has passed
  w,         \* w[n]: the goroutine that writes message n
  failedOf,  \* the variable "failed" of that goroutine's closure
  client,    \* a connection is open
  released,  \* Release has closed the client and dropped DocumentSetMap
  errC,      \* the error channel is not nil
  FailedDeliveryCount,
  target,    \* history: the statements that took effect, in order
  late       \* history: the messages whose deadline passed

vars == <<pc, taken, exitF, expired, w, failedOf, client, released, errC,
          FailedDeliveryCount, target, late>>

Init ==
  /\ pc = "loop" /\ taken = 0 /\ exitF = FALSE /\ expired = FALSE
  /\ w = [n \in Ops |-> "none"] /\ failedOf = [n \in Ops |-> 0]
  /\ client = FALSE /\ released = FALSE /\ errC = TRUE
  /\ FailedDeliveryCount = 0 /\ target = <<>> /\ late = {}

-----------------------------------------------------------------------------
(* Run *)

(* Variant: the op in hand is numbered before it is received. *)
TakeOpBehind ==
  /\ pc = "loop" /\ ~exitF /\ taken < MaxOps /\ taken + 1 \notin DdlOps
  /\ taken' = taken /\ w' = [w EXCEPT ![taken + 1] = "begin"]
  /\ pc' = "wait" /\ expired' = FALSE
  /\ UNCHANGED <<exitF, failedOf, client, released, errC,
                 FailedDeliveryCount, target, late>>

(* An op is received: its deadline is set and its goroutine started. *)
TakeOp ==
  /\ pc = "loop" /\ ~exitF /\ taken < MaxOps /\ taken + 1 \notin DdlOps
  /\ taken' = taken + 1 /\ w' = [w EXCEPT ![taken + 1] = "begin"]
  /\ pc' = "wait" /\ expired' = FALSE
  /\ UNCHANGED <<exitF, failedOf, client, released, errC,
                 FailedDeliveryCount, target, late>>

TakeDdl ==
  /\ pc = "loop" /\ ~exitF /\ taken + 1 \in DdlOps
  /\ taken' = taken + 1 /\ pc' = "ddl"
  /\ UNCHANGED <<exitF, expired, w, failedOf, client, released, errC,
                 FailedDeliveryCount, target, late>>

TakeReadDone ==
  /\ pc = "loop" /\ ~exitF
  /\ exitF' = TRUE
  /\ UNCHANGED <<pc, taken, expired, w, failedOf, client, released, errC,
                 FailedDeliveryCount, target, late>>

(* alterTableStruct: no deadline; a failure is counted and reported, also when
   only the answer was lost. *)
Ddl ==
  /\ pc = "ddl" /\ pc' = "loop"
  /\ \/ /\ target' = Append(target, taken) /\ client' = TRUE
        /\ FailedDeliveryCount' \in {FailedDeliveryCount, FailedDeliveryCount + 1}
     \/ /\ FailedDeliveryCount' = FailedDeliveryCount + 1
        /\ UNCHANGED target /\ client' \in {client, TRUE}
  /\ UNCHANGED <<taken, exitF, expired, w, failedOf, released, errC, late>>

(* Variant: the deadline only ends the context of a Write that has returned. *)
ExpireReturned ==
  /\ pc = "wait" /\ ~expired /\ w[taken] = "ret"
  /\ expired' = TRUE /\ late' = late \cup {taken}
  /\ UNCHANGED <<pc, taken, exitF, w, failedOf, client, released, errC,
                 FailedDeliveryCount, target>>

Expire ==
  /\ pc = "wait" /\ ~expired
  /\ expired' = TRUE /\ late' = late \cup {taken}
  /\ UNCHANGED <<pc, taken, exitF, w, failedOf, client, released, errC,
                 FailedDeliveryCount, target>>

(* Variant: Run does not wait for the goroutine it has started. *)
SelectNoWait ==
  /\ pc = "wait"
  /\ FailedDeliveryCount' = FailedDeliveryCount + failedOf[taken]
  /\ pc' = "loop"
  /\ UNCHANGED <<taken, exitF, expired, w, failedOf, client, released, errC,
                 target, late>>

(* ctx.Done: cancelled by the goroutine that has written, or expired.  Run
   counts what "failed" holds at that moment. *)
SelectDone ==
  /\ pc = "wait" /\ (w[taken] = "ret" \/ expired)
  /\ FailedDeliveryCount' = FailedDeliveryCount + failedOf[taken]
  /\ pc' = "loop"
  /\ UNCHANGED <<taken, exitF, expired, w, failedOf, client, released, errC,
                 target, late>>

(* time.After, ready as soon as the context has expired: select may take it. *)
SelectTimeout ==
  /\ pc = "wait" /\ expired
  /\ FailedDeliveryCount' = FailedDeliveryCount + 1
  /\ pc' = "loop"
  /\ UNCHANGED <<taken, exitF, expired, w, failedOf, client, released, errC,
                 target, late>>

(* The loop ends: exitWG.Done and Release, then errC = nil. *)
RunRelease ==
  /\ pc = "loop" /\ exitF
  /\ pc' = "release" /\ client' = FALSE /\ released' = TRUE
  /\ UNCHANGED <<taken, exitF, expired, w, failedOf, errC,
                 FailedDeliveryCount, target, late>>

RunEnd ==
  /\ pc = "release"
  /\ pc' = "end" /\ errC' = FALSE
  /\ UNCHANGED <<taken, exitF, expired, w, failedOf, client, released,
                 FailedDeliveryCount, target, late>>

-----------------------------------------------------------------------------
(* The goroutine that writes message n *)

(* clientInstance (the connection there is, after four hours a ping first, or a
   new one), then the look-up of the document set, which fails once it has been
   dropped. *)
WriteConnect(n) ==
  /\ w[n] = "begin"
  /\ \/ ~released /\ w' = [w EXCEPT ![n] = "exec"] /\ client' = TRUE
     \/ w' = [w EXCEPT ![n] = "err"] /\ client' \in {client, TRUE}
  /\ UNCHANGED <<pc, taken, exitF, expired, failedOf, released, errC,
                 FailedDeliveryCount, target, late>>

(* The columns of the table are looked up and the statement is executed; a
   connection lost on the way does not tell whether it took effect. *)
WriteExec(n) ==
  /\ w[n] = "exec"
  /\ \/ w' = [w EXCEPT ![n] = "ret"] /\ target' = Append(target, n)
     \/ w' = [w EXCEPT ![n] = "retry"] /\ target' \in {target, Append(target, n)}
     \/ w' = [w EXCEPT ![n] = "err"] /\ UNCHANGED target
  /\ UNCHANGED <<pc, taken, exitF, expired, failedOf, client, released, errC,
                 FailedDeliveryCount, late>>

(* After ErrBadConn: a new connection and the same statement again. *)
WriteRetry(n) ==
  /\ w[n] = "retry"
  /\ \/ w' = [w EXCEPT ![n] = "ret"] /\ target' = Append(target, n) /\ client' = TRUE
     \/ w' = [w EXCEPT ![n] = "err"] /\ target' = Append(target, n) /\ client' = TRUE
     \/ w' = [w EXCEPT ![n] = "err"] /\ UNCHANGED target /\ client' \in {client, TRUE}
  /\ UNCHANGED <<pc, taken, exitF, expired, failedOf, released, errC,
                 FailedDeliveryCount, late>>

(* Variant: the context is cancelled before "failed" is assigned. *)
WriteReportUnassigned(n) ==
  /\ w[n] = "err" /\ errC
  /\ w' = [w EXCEPT ![n] = "ret"]
  /\ UNCHANGED <<pc, taken, exitF, expired, failedOf, client, released, errC,
                 FailedDeliveryCount, target, late>>

(* The error is received by the recorder, "failed" assigned, the context
   cancelled.  On a nil channel the goroutine stays for ever. *)
WriteReport(n) ==
  /\ w[n] = "err" /\ errC
  /\ w' = [w EXCEPT ![n] = "ret"] /\ failedOf' = [failedOf EXCEPT ![n] = 1]
  /\ UNCHANGED <<pc, taken, exitF, expired, client, released, errC,
                 FailedDeliveryCount, target, late>>

-----------------------------------------------------------------------------
Write(n) == WriteConnect(n) \/ WriteExec(n) \/ WriteRetry(n) \/ WriteReport(n)

Select == SelectDone \/ SelectTimeout

Next ==
  \/ TakeOp \/ TakeDdl \/ TakeReadDone \/ Ddl \/ Expire \/ Select
  \/ RunRelease \/ RunEnd
  \/ \E n \in Ops : Write(n)

Spec == Init /\ [][Next]_vars

(* Timers fire and Run is scheduled; the database owes no answer. *)
FairSpec ==
  Spec /\ WF_vars(Expire) /\ WF_vars(Select) /\ WF_vars(RunRelease) /\ WF_vars(RunEnd)

-----------------------------------------------------------------------------
(* Properties *)

Active(n) == w[n] \in {"begin", "exec", "retry", "err"}

(* The messages Run has finished with. *)
Finished == IF pc \in {"wait", "ddl"} THEN 1..(taken - 1) ELSE 1..taken

Applied == {target[i] : i \in DOMAIN target}

(* The variables hold values of their types. *)
TypeOK ==
  /\ pc \in {"loop", "wait", "ddl", "release", "end"}
  /\ taken \in 0..MaxOps /\ (pc = "wait" => taken \in Ops /\ w[taken] # "none")
  /\ exitF \in BOOLEAN /\ expired \in BOOLEAN
  /\ w \in [Ops -> {"none", "begin", "exec", "retry", "err", "ret"}]
  /\ failedOf \in [Ops -> {0, 1}]
  /\ client \in BOOLEAN /\ released \in BOOLEAN /\ errC \in BOOLEAN
  /\ FailedDeliveryCount \in Nat
  /\ target \in Seq(Ops) /\ late \subseteq Ops

(* Writes overlap only with writes that have missed their deadline: an op
   whose deadline has not passed is being written only while Run waits for it
   (mysql_writer.go:95-115). *)
OnlyLateOverlap ==
  \A n \in Ops : Active(n) /\ n \notin late => pc = "wait" /\ n = taken

(* The target sees the ops in the order of the channel: one that takes effect
   after a later one has missed its deadline (mysql_writer.go:72-116). *)
InOrder ==
  [][\A n \in Ops :
       target' = Append(target, n) /\ n \notin late => \A m \in Applied : m <= n]_vars

(* No failure goes uncounted and none is counted twice: of the messages Run has
   finished in time, those that never took effect are in the counter
   (mysql_writer.go:96-109). *)
FailuresCounted ==
  /\ Cardinality({n \in Finished : n \notin Applied /\ n \notin late}) <= FailedDeliveryCount
  /\ FailedDeliveryCount <= Cardinality(Finished)

(* Run always comes back to its channel, though the database may never answer:
   the pipeline is not blocked by a target, unless by a table change, which has
   no deadline (mysql_writer.go:85, 104-115). *)
ReceivesAgain == []<>(pc \in {"loop", "end", "ddl"})
=============================================================================
