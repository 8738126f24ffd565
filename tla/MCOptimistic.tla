----------------------------- MODULE MCOptimistic -----------------------------
(***************************************************************************)
(* The activity a, with two attempts, beside the timer c, both with a      *)
(* compensation: reports, timers, recoveries and a cancellation of one run *)
(* whose calls interleave.                                                 *)
(***************************************************************************)
EXTENDS OptimisticEngine, RunProperties

CONSTANTS a, c

NoDeps == [s \in Step |-> {}]
TwoAttempts == [s \in Step |-> IF s = a THEN 2 ELSE 1]
TimerWithoutQueue == [s \in Step |-> IF s = c THEN NoQueue ELSE "default"]
DefaultQueue == [s \in Step |-> "default"]
WorkersOnDefault == [w \in Worker |-> "default"]
=============================================================================
