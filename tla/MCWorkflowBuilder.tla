-------------------------- MODULE MCWorkflowBuilder --------------------------
(***************************************************************************)
(* Every graph of dependencies over three ids, one of which may never be   *)
(* put, and each check of a step failing once.                             *)
(***************************************************************************)
EXTENDS WorkflowBuilder

CONSTANTS a, b, c

AnActivity(i, deps) ==
    [id |-> i, kind |-> "activity", filled |-> TRUE, queue |-> NoQueue, deps |-> deps,
     retry |-> [attempts |-> 3, initial |-> 0, max |-> 6]]

\* A maximum below the first backoff; a first backoff above the default maximum.
Others ==
    {[AnActivity(a, {b}) EXCEPT !.retry = [attempts |-> 4, initial |-> 3, max |-> 2]],
     [AnActivity(b, {}) EXCEPT !.retry = [attempts |-> 2, initial |-> 30, max |-> 25]],
     [AnActivity(c, {}) EXCEPT !.kind = "timer", !.retry = [attempts |-> 0, initial |-> 1, max |-> 1]],
     [AnActivity(c, {a}) EXCEPT !.kind = "timer", !.filled = FALSE],
     [AnActivity(a, {}) EXCEPT !.filled = FALSE],
     [AnActivity(b, {a}) EXCEPT !.kind = "unsupported"]}

Inputs == {AnActivity(i, deps) : i \in ID, deps \in SUBSET ID} \cup Others
=============================================================================
