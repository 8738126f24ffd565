------------------------------- MODULE Backoff -------------------------------
(***************************************************************************)
(* Retry policies: what Normalize makes of one, and how long the retry     *)
(* after a given attempt waits (BackoffForAttempt).  Durations are natural *)
(* numbers; zero stands for everything that is not positive.               *)
(***************************************************************************)
EXTENDS Naturals

CONSTANTS
    DefaultInitial,  \* 250 ms in the code
    DefaultMax       \* 5 s in the code

ASSUME BackoffAssumption ==
    /\ DefaultInitial \in Nat \ {0} /\ DefaultMax \in Nat
    /\ DefaultInitial <= DefaultMax

Policy == [attempts : Nat, initial : Nat, max : Nat]

OrDefault(n, default) == IF n = 0 THEN default ELSE n

\* A maximum below the initial backoff is replaced, not raised to it.
Normalize(p) ==
    LET initial == OrDefault(p.initial, DefaultInitial)
    IN  [attempts |-> OrDefault(p.attempts, 1),
         initial  |-> initial,
         max      |-> IF p.max < initial THEN DefaultMax ELSE p.max]

\* Fault: the backoff is doubled without a look at the maximum.
BackoffUncapped(p, n) ==
    LET backoff[i \in Nat] ==
          IF i <= 1 THEN Normalize(p).initial ELSE 2 * backoff[i - 1]
    IN  backoff[n]

BackoffForAttempt(p, n) ==
    LET policy == Normalize(p)
        backoff[i \in Nat] ==
          IF i <= 1 THEN policy.initial
          ELSE IF 2 * backoff[i - 1] >= policy.max THEN policy.max
          ELSE 2 * backoff[i - 1]
    IN  backoff[n]
=============================================================================
