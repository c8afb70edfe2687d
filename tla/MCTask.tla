------------------------------- MODULE MCTask -------------------------------
(***************************************************************************)
(* Instances of Task for TLC.  Model values name the sources, targets and  *)
(* aliases; a cfg chooses how many of each.                                *)
(***************************************************************************)
EXTENDS TaskTransfer

CONSTANTS r1, r2, w1, w2, a1, a2, a3

(* Two targets in configuration order; w2 alone when there is only one. *)
MCTargetIndex == [w \in Writers |-> IF w = w1 THEN 1 ELSE 2]

(* Each alias is mapped by one target, a3 by none. *)
MCDisjoint == [w \in Writers |-> IF w = w1 THEN {a1} ELSE {a2}]

(* A document that becomes nothing, one op, two ops for one target with an
   unmapped one between them, or one op for each target. *)
MCFlowResults == {<<>>, <<a1>>, <<a2, a3, a2>>, <<a1, a2>>}

(* Every document is one op for the first target. *)
MCFlowOne == {<<a1>>}
=============================================================================
