---------------------------- MODULE MCWorkerPool ----------------------------
(***************************************************************************)
(* Slots for TLC: two in one pool, as app.go:100 sets it up, and one in a  *)
(* pool of its own, as another process with its own id would have it.      *)
(***************************************************************************)
EXTENDS WorkerPool

CONSTANTS s1, s2, s3, shared, own

OnePool == [s \in Slot |-> shared]
TwoPools == [s \in Slot |-> IF s = s3 THEN own ELSE shared]
=============================================================================
