--------------------------- MODULE MCBatchWriter ---------------------------
(* Model values for BatchWriter. *)
EXTENDS BatchWriter

MCMixed == <<"insert", "update", "delete", "insert">>
MCTwo == <<"insert", "insert">>
=============================================================================
