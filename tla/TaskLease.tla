------------------------------ MODULE TaskLease ------------------------------
(***************************************************************************)
(* What one task promises to those who work on it, whatever run it belongs *)
(* to: it is handed out to one worker id at a time, only that id reports   *)
(* on it, it is handed out again only as a new attempt and never more than *)
(* Attempts times, and once ended it stays as it is.                       *)
(*                                                                         *)
(* RunEngine implements this for every task of a run (TasksKeepLeases in   *)
(* RunProperties); WorkerPool is built on it.                              *)
(***************************************************************************)
EXTENDS Naturals

CONSTANTS
    Worker,    \* worker ids
    None,      \* no worker
    Attempts   \* how often the task may be handed out

VARIABLE task  \* the row of the task: its status, attempt and owner

Status == {"none", "available", "leased", "completed", "failed", "cancelled"}

Waiting(n) == [status |-> "available", attempt |-> n, owner |-> None]

Ended(status) == [status |-> status, attempt |-> task.attempt, owner |-> None]

\* Fault: a report is taken from whoever makes it.
HeldByAnyone(w) == task.status = "leased"

HeldBy(w) == task.status = "leased" /\ task.owner = w

\* A task of a run may be there from the start, or not yet.
Init == task \in {[status |-> "none", attempt |-> 0, owner |-> None], Waiting(1)}

Schedule == task.status = "none" /\ task' = Waiting(1)

Lease(w) ==
    /\ task.status = "available"
    /\ task' = [status |-> "leased", attempt |-> task.attempt, owner |-> w]

Complete(w) == HeldBy(w) /\ task' = Ended("completed")

Retry(w) ==
    /\ HeldBy(w)
    /\ task.attempt < Attempts
    /\ task' = Waiting(task.attempt + 1)

Fail(w) == HeldBy(w) /\ task' = Ended("failed")

\* A timer completes without ever being leased.
Fire == task.status = "available" /\ task' = Ended("completed")

Cancel == task.status \in {"available", "leased"} /\ task' = Ended("cancelled")

Next ==
    \/ Schedule
    \/ \E w \in Worker : Lease(w) \/ Complete(w) \/ Retry(w) \/ Fail(w)
    \/ Fire
    \/ Cancel

Spec == Init /\ [][Next]_task
=============================================================================
