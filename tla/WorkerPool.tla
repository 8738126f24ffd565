------------------------------ MODULE WorkerPool ------------------------------
(***************************************************************************)
(* The slots of the worker pools of one process (internal/worker) around   *)
(* one activity task.  A slot leases the task, runs its handler beside a   *)
(* goroutine that renews the lease, and reports what came of it.  Slots    *)
(* of one pool share the pool's worker id.                                 *)
(*                                                                         *)
(* The task itself is the one of TaskLease, which the engine implements;   *)
(* here it is available from the start and the clock, the sweep, a         *)
(* cancellation and a restart may interfere at any time.  Renewals do not  *)
(* touch the task, only whether its lease has expired.                     *)
(***************************************************************************)
EXTENDS Naturals

CONSTANTS
    Slot,          \* the goroutines that execute tasks
    Worker,        \* worker ids
    WorkerID,      \* WorkerID[s]: the id of the pool of slot s
    None,          \* no worker
    Attempts       \* the task's retry limit

ASSUME WorkerPoolAssumption ==
    /\ WorkerID \in [Slot -> Worker]
    /\ None \notin Worker
    /\ Attempts \in Nat \ {0}

VARIABLES
    task,       \* the row of the task, see TaskLease
    expired,    \* whether lease_expires_at has passed
    sweep,      \* the owner of the expired lease the sweep has seen, or None
    slots,      \* what each slot does
    late        \* ids whose heartbeat was under way when the handler returned

vars == <<task, expired, sweep, slots, late>>

Task == INSTANCE TaskLease

Report == {"complete", "retry", "final"}

\* lost: a heartbeat failed, so the handler's context was cancelled.
Execution ==
    [pc : {"idle", "running", "returned"}, attempt : 0..Attempts, lost : BOOLEAN,
     report : Report]

Idle == [pc |-> "idle", attempt |-> 0, lost |-> FALSE, report |-> "final"]

Init ==
    /\ task = Task!Waiting(1)
    /\ expired = FALSE
    /\ sweep = None
    /\ slots = [s \in Slot |-> Idle]
    /\ late = {}

(***************************************************************************)
(* loop and execute.                                                       *)
(***************************************************************************)
LeaseTask(s) ==
    /\ slots[s].pc = "idle"
    /\ Task!Lease(WorkerID[s])
    /\ expired' = FALSE
    /\ slots' = [slots EXCEPT ![s] = [Idle EXCEPT !.pc = "running", !.attempt = task.attempt]]
    /\ UNCHANGED <<sweep, late>>

\* Fault: an execution whose heartbeat is refused carries on.
HeartbeatIgnored(s) ==
    /\ slots[s].pc = "running"
    /\ expired' = IF Task!HeldBy(WorkerID[s]) THEN FALSE ELSE expired
    /\ UNCHANGED <<task, sweep, slots, late>>

\* The store renews for whoever has the owner's id, and refuses anyone else.
Heartbeat(s) ==
    /\ slots[s].pc = "running"
    /\ ~slots[s].lost
    /\ IF Task!HeldBy(WorkerID[s])
         THEN expired' = FALSE /\ UNCHANGED slots
         ELSE slots' = [slots EXCEPT ![s].lost = TRUE] /\ UNCHANGED expired
    /\ UNCHANGED <<task, sweep, late>>

\* Any error of the store counts as a lost lease.
HeartbeatError(s) ==
    /\ slots[s].pc = "running"
    /\ ~slots[s].lost
    /\ slots' = [slots EXCEPT ![s].lost = TRUE]
    /\ UNCHANGED <<task, expired, sweep, late>>

\* Fault: the error of a cancelled context is nobody's report.
UnknownReport(outcome, lost) == IF outcome = "ok" THEN "complete" ELSE outcome

\* What is reported of a handler's outcome.  A success under a lost lease is
\* turned into the heartbeat's error, which is retryable; a handler that gives
\* up because its context was cancelled has failed for good.
ReportOf(outcome, lost) ==
    CASE outcome = "ok"        -> IF lost THEN "retry" ELSE "complete"
      [] outcome = "cancelled" -> "final"
      [] OTHER                 -> outcome

Return(s) ==
    /\ slots[s].pc = "running"
    /\ \E outcome \in {"ok", "retry", "final"} \cup (IF slots[s].lost THEN {"cancelled"} ELSE {}) :
         slots' = [slots EXCEPT ![s].pc = "returned",
                                ![s].report = ReportOf(outcome, slots[s].lost)]
    /\ \/ UNCHANGED late
       \/ ~slots[s].lost /\ late' = late \cup {WorkerID[s]}
    /\ UNCHANGED <<task, expired, sweep>>

LateHeartbeat(w) ==
    /\ w \in late
    /\ late' = late \ {w}
    /\ expired' = IF Task!HeldBy(w) THEN FALSE ELSE expired
    /\ UNCHANGED <<task, sweep, slots>>

\* What the engine makes of a failure, if it takes it at all.
FailTask(w, retryable) ==
    IF retryable /\ task.attempt < Attempts THEN Task!Retry(w) ELSE Task!Fail(w)

\* The engine takes the report, or refuses it because the lease is lost, or gives
\* up on it after five version conflicts; the slot logs that and goes on.
SendReport(s) ==
    /\ slots[s].pc = "returned"
    /\ slots' = [slots EXCEPT ![s] = Idle]
    /\ \/ slots[s].report = "complete" /\ Task!Complete(WorkerID[s])
       \/ slots[s].report # "complete" /\ FailTask(WorkerID[s], slots[s].report = "retry")
       \/ UNCHANGED task
    /\ UNCHANGED <<expired, sweep, late>>

(***************************************************************************)
(* Everything else that happens to the task.                               *)
(***************************************************************************)
Expire ==
    /\ task.status = "leased"
    /\ ~expired
    /\ expired' = TRUE
    /\ UNCHANGED <<task, sweep, slots, late>>

RecoverExpiredLease ==
    /\ sweep = None
    /\ task.status = "leased"
    /\ expired
    /\ sweep' = task.owner
    /\ UNCHANGED <<task, expired, slots, late>>

FailExpiredLease ==
    /\ sweep # None
    /\ sweep' = None
    /\ IF Task!HeldBy(sweep) THEN FailTask(sweep, TRUE) ELSE UNCHANGED task
    /\ UNCHANGED <<expired, slots, late>>

CancelRun ==
    /\ Task!Cancel
    /\ UNCHANGED <<expired, sweep, slots, late>>

\* The process stops with all its slots and its sweep; only the row is left.
Restart ==
    /\ slots' = [s \in Slot |-> Idle]
    /\ sweep' = None
    /\ late' = {}
    /\ UNCHANGED <<task, expired>>

Next ==
    \/ \E s \in Slot :
         \/ LeaseTask(s)
         \/ Heartbeat(s)
         \/ HeartbeatError(s)
         \/ Return(s)
         \/ SendReport(s)
    \/ \E w \in Worker : LateHeartbeat(w)
    \/ Expire
    \/ RecoverExpiredLease
    \/ FailExpiredLease
    \/ CancelRun
    \/ Restart

Spec == Init /\ [][Next]_vars

\* A slot's goroutine renews at every tick for as long as the handler runs.
\* No handler is assumed to return, and no store to answer without an error.
Fairness == \A s \in Slot : WF_vars(Heartbeat(s))

FairSpec == Spec /\ Fairness

-----------------------------------------------------------------------------
(* The type of every variable of the slots and of the task.                *)
PoolTypeOK ==
    /\ task \in [status : Task!Status, attempt : 1..Attempts, owner : Worker \cup {None}]
    /\ expired \in BOOLEAN
    /\ sweep \in Worker \cup {None}
    /\ slots \in [Slot -> Execution]
    /\ late \subseteq Worker

(***************************************************************************)
(* No two executions under way are of the same attempt, however leases     *)
(* were recovered and whoever shares an id.                                *)
(***************************************************************************)
Busy(s) == slots[s].pc # "idle"

AttemptsApart ==
    \A s, r \in Slot : Busy(s) /\ Busy(r) /\ slots[s].attempt = slots[r].attempt => s = r

(***************************************************************************)
(* docs/google-interview-walkthrough.md:113: the worker "treats lease loss *)
(* and cancellation as first-class runtime conditions".  So a report that  *)
(* changes the task is made by the execution that holds its lease, never   *)
(* by an earlier one whose lease was recovered.  The slots of one pool do  *)
(* not keep to this.                                                       *)
(***************************************************************************)
ReportTaken(s) == slots[s].pc = "returned" /\ slots'[s].pc = "idle" /\ task' # task

ReportsAreOwn ==
    [][\A s \in Slot : ReportTaken(s) => slots[s].attempt = task.attempt]_vars

(***************************************************************************)
(* What they keep to: a report that changes the task is made by the        *)
(* execution that holds its lease, or else by an earlier one in a slot     *)
(* whose pool has other slots.  A slot with an id of its own, and so a     *)
(* pool of one slot, never takes another's lease for its own, whatever was *)
(* recovered, renewed late or restarted meanwhile.                         *)
(***************************************************************************)
SharesID(s) == \E r \in Slot \ {s} : WorkerID[r] = WorkerID[s]

StrayReportsAreShared ==
    [][\A s \in Slot : ReportTaken(s) =>
          \/ slots[s].attempt = task.attempt
          \/ slots[s].attempt < task.attempt /\ SharesID(s)]_vars

(***************************************************************************)
(* An execution that has lost its lease while the handler runs finds out,  *)
(* and cancels the handler, unless that returns first, or another slot of  *)
(* the same pool gets the lease before the next heartbeat.                 *)
(***************************************************************************)
HasLostLease(s) ==
    /\ slots[s].pc = "running"
    /\ ~(task.status = "leased" /\ task.attempt = slots[s].attempt)

LostLeaseNoticed ==
    \A s \in Slot :
        HasLostLease(s) ~> \/ slots[s].lost \/ slots[s].pc # "running"
                           \/ SharesID(s) /\ Task!HeldBy(WorkerID[s])
=============================================================================
