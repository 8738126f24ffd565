----------------------------- MODULE MCRunEngine -----------------------------
(***************************************************************************)
(* Small workflows for TLC.  A definition that a configuration does not    *)
(* give a shape of its own has no dependencies, one attempt per step and   *)
(* one queue for everything.                                               *)
(***************************************************************************)
EXTENDS RunInvariant

CONSTANTS a, b, c, d

\* The workers poll the same queue, so they can be exchanged.
SymWorkers == Permutations(Worker)

NoDeps == [s \in Step |-> {}]
OneAttempt == [s \in Step |-> 1]
DefaultQueue == [s \in Step |-> "default"]
WorkersOnDefault == [w \in Worker |-> "default"]

\* Diamond: the activity a and the timer c start together, b needs both.
\* The timer has no queue of its own, its compensation has one.
DiamondDeps == [s \in Step |-> IF s = b THEN {a, c} ELSE {}]
DiamondAttempts == [s \in Step |-> IF s = a THEN 2 ELSE 1]
DiamondQueue == [s \in Step |-> IF s = c THEN NoQueue ELSE "default"]
DiamondCompQueue == [s \in Step |-> IF s = c THEN "default" ELSE NoQueue]

\* Join and split: c and d both need both a and b.
JoinDeps == [s \in Step |-> IF s \in {c, d} THEN {a, b} ELSE {}]
=============================================================================
