------------------------------ MODULE MCPgStore ------------------------------
(***************************************************************************)
(* Two tasks, one of them scheduled by the completion of the other, two    *)
(* workers and two or three sessions.                                      *)
(***************************************************************************)
EXTENDS PgInvariant

CONSTANTS t1, t2
=============================================================================
