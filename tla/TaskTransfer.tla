---------------------------- MODULE TaskTransfer ----------------------------
(***************************************************************************)
(* Task implements Transfer: the refinement mapping, and the invariant that*)
(* the step simulation needs beside TaskInv.                               *)
(***************************************************************************)
EXTENDS TaskInv

(* A source that has not left imp.Run yet, or whose goroutine is still to come. *)
OpenReaders == {r \in Readers : rpc[r] \in {"null", "launched", "run", "send", "report"}}
ToldWriters == {w \in Writers : WriterTold(w)}

T == INSTANCE Transfer WITH
       Sources <- Readers, Targets <- Writers, Aliases <- Aliases,
       open <- OpenReaders, owed <- owed, got <- got,
       told <- ToldWriters, over <- released

(* The task keeps the promise of Transfer (task.go:407-484, 633-655). *)
ImplementsTransfer == T!Spec

-----------------------------------------------------------------------------
(* What has been received or is in hand was routed. *)
OwedInv == Received \subseteq owed /\ InHand \subseteq owed

(* A document that waits to be sent is younger than all that was routed. *)
FreshInv ==
  \A x \in owed : /\ x[2] <= emitted[x[1]]
                  /\ rpc[x[1]] = "send" => x[2] < emitted[x[1]]

(* What was received of a source comes before what is in hand of it. *)
EarlierInv ==
  pipe = "route" =>
    \A y \in Received : y[1] = doc[1] => y[2] < doc[2] \/ (y[2] = doc[2] /\ y[3] < next)

TransferInv == OwedInv /\ FreshInv /\ EarlierInv
=============================================================================
