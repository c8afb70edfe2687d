------------------------------- MODULE MCLoop -------------------------------
(***************************************************************************)
(* Instances of Loop for TLC: the tasks, the HTTP requests, the socket.    *)
(***************************************************************************)
EXTENDS Loop

CONSTANTS t1, t2, t3, s1
=============================================================================
