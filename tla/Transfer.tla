------------------------------ MODULE Transfer ------------------------------
(***************************************************************************)
(* What a task promises, whatever its goroutines do: the documents of its  *)
(* sources are worked on one at a time, the ops made from one reach        *)
(* targets in order and once each, no target is told that the reading is   *)
(* done before every source has ended and every op has been received, and  *)
(* the task lets go of its channels when all targets have been told.       *)
(* TaskTransfer shows that Task implements it.                             *)
(***************************************************************************)
EXTENDS Integers

CONSTANTS Sources, Targets, Aliases

VARIABLES
  open,   \* the sources that may still have something to say
  owed,   \* the items some target has to receive
  got,    \* got[w]: the items target w has received
  told,   \* the targets that know that the reading is done
  over    \* the task has let go of its channels

vars == <<open, owed, got, told, over>>

(* Source, number of the document, place among its results, alias. *)
Items == Sources \X Nat \X Nat \X Aliases

Received == UNION {got[w] : w \in Targets}

(* The order in which the items of one source are read and made. *)
Before(x, y) == x[1] = y[1] /\ (x[2] < y[2] \/ (x[2] = y[2] /\ x[3] < y[3]))

Init ==
  /\ open = Sources /\ owed = {} /\ got = [w \in Targets |-> {}]
  /\ told = {} /\ over = FALSE

(* A later document of an open source becomes some items; all earlier ones have
   been received. *)
Route(s) ==
  /\ s \in open /\ owed \subseteq Received
  /\ owed \subseteq owed'
  /\ \A x \in owed' \ owed : x \in Items /\ x[1] = s
  /\ \A x \in owed' \ owed, y \in owed : y[1] = s => y[2] < x[2]
  /\ UNCHANGED <<open, got, told, over>>

(* A target receives the first of the items that wait. *)
Deliver(w) ==
  /\ w \notin told
  /\ \E x \in owed \ Received :
       /\ \A y \in owed \ Received : x = y \/ Before(x, y)
       /\ got' = [got EXCEPT ![w] = @ \cup {x}]
  /\ UNCHANGED <<open, owed, told, over>>

Finish(s) ==
  /\ s \in open /\ open' = open \ {s}
  /\ UNCHANGED <<owed, got, told, over>>

Tell(w) ==
  /\ open = {} /\ owed \subseteq Received
  /\ w \notin told /\ told' = told \cup {w}
  /\ UNCHANGED <<open, owed, got, over>>

LetGo ==
  /\ told = Targets /\ over' = TRUE
  /\ UNCHANGED <<open, owed, got, told>>

Next ==
  \/ \E s \in Sources : Route(s) \/ Finish(s)
  \/ \E w \in Targets : Deliver(w) \/ Tell(w)
  \/ LetGo

Spec == Init /\ [][Next]_vars
=============================================================================
