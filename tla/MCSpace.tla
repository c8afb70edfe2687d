------------------------------- MODULE MCSpace -------------------------------
(***************************************************************************)
(* Instances of Space for TLC.  Ops m and n belong to the main set A, op r *)
(* is related to both, op d deletes.  Space a is as it should be, space c  *)
(* has lifetime 0.                                                         *)
(***************************************************************************)
EXTENDS Space

CONSTANTS a, c, m, n, r, d, A, R

(* Two main ops that want the same related op; two spaces that take ops from
   one channel; a layer type that cannot be packed; an op that no space keeps. *)
MCTasks ==
  {[spaces |-> {a},    ops |-> {m, n, r}, save |-> TRUE,  known |-> TRUE],
   [spaces |-> {a, c}, ops |-> {m, r},    save |-> FALSE, known |-> TRUE],
   [spaces |-> {a},    ops |-> {m, r},    save |-> FALSE, known |-> FALSE],
   [spaces |-> {a},    ops |-> {d},       save |-> FALSE, known |-> TRUE]}

MCDocumentSet == [o \in Ops |-> IF o \in {m, n} THEN A ELSE R]
MCMainSet == [s \in Spaces |-> A]
MCWheres == [s \in Spaces |-> <<[set |-> R, match |-> {<<m, r>>, <<n, r>>} \cap (Ops \X Ops)]>>]
=============================================================================
