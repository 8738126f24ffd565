------------------------------ MODULE RunEngine ------------------------------
(***************************************************************************)
(* One run of a workflow, from the commit of StartRun on: the run row, the *)
(* task rows and the history in the store, changed by the engine's         *)
(* commands, by workers that lease, heartbeat and report, by the clock and *)
(* by the maintenance loop.                                                *)
(*                                                                         *)
(* Every command is one step here: the store commits its batch only if the *)
(* run's version is the one it loaded, and a command that lost the race is *)
(* run again from a new load.                                              *)
(*                                                                         *)
(* A worker is a client of the engine that may report success or failure   *)
(* of any task whose lease its id holds, at any time, or never: crashed,   *)
(* slow and stuck workers are the behaviours in which it does not.         *)
(***************************************************************************)
EXTENDS Engine

CONSTANTS
    WorkerQueue,     \* WorkerQueue[w]: the queue the pool with id w polls
    MaxHeartbeats    \* bound of the model: heartbeats recorded in one history

ASSUME RunEngineAssumption ==
    /\ DOMAIN WorkerQueue = Worker
    /\ MaxHeartbeats \in Nat

VARIABLES
    run,      \* the row of the run: its status and failure
    rows,     \* the rows of the tasks
    history,  \* the rows of history_events, in sequence order
    state,    \* what Replay derives from run and history: see ReplayDerivesState
    due,      \* the tasks whose available_at or lease_expires_at has passed
    sweep     \* the expired lease that the maintenance loop is about to fail

vars == <<run, rows, history, state, due, sweep>>

NoSweep == [task |-> None, owner |-> None]

(***************************************************************************)
(* AppendRunChanges: one transaction writes the run row, the events and    *)
(* the task rows.  A task inserted for an activity is available at once, a *)
(* timer or a retry only after its delay; the deadline of any other row    *)
(* that the batch touches no longer matters.                               *)
(***************************************************************************)
DueAfter(cmd) ==
    (due \ cmd.mutated) \cup
    {t \in cmd.mutated : /\ cmd.state.tasks[t].status = "available"
                         /\ cmd.state.tasks[t].attempt = 1
                         /\ ~IsTimer(t)}

AppendRunChanges(cmd) ==
    /\ run' = [status |-> cmd.state.status, failure |-> cmd.state.failure]
    /\ history' = history \o cmd.events
    /\ rows' = [t \in TaskID |-> IF t \in cmd.mutated
                                   THEN UpdateTaskRecord(cmd.state.tasks[t])
                                   ELSE rows[t]]
    /\ state' = Reload(cmd.state)
    /\ due' = DueAfter(cmd)

\* StartRun creates the run, its first events and its root tasks together.
Init ==
    LET cmd == StartRun
    IN  /\ run = [status |-> cmd.state.status, failure |-> cmd.state.failure]
        /\ history = cmd.events
        /\ rows = [t \in TaskID |-> UpdateTaskRecord(cmd.state.tasks[t])]
        /\ state = cmd.state
        /\ due = {t \in cmd.mutated : ~IsTimer(t)}
        /\ sweep = NoSweep

(***************************************************************************)
(* Store operations of the workers: they write the task row and one event, *)
(* without a look at the run.                                              *)
(***************************************************************************)
LeaseTask(w, t) ==
    /\ rows[t].status = "available"
    /\ ~IsTimer(t)
    /\ QueueOf(t) = WorkerQueue[w]
    /\ t \in due
    /\ rows' = [rows EXCEPT ![t].status = "leased", ![t].owner = w]
    /\ history' = Append(history, TaskEvent("task.leased", t, w))
    /\ state' = ApplyEvent(state, TaskEvent("task.leased", t, w))
    /\ due' = due \ {t}
    /\ UNCHANGED <<run, sweep>>

\* An expired lease that nobody recovered yet can still be renewed.
HeartbeatTask(w, t) ==
    /\ rows[t].status = "leased"
    /\ rows[t].owner = w
    /\ Len(SelectSeq(history, LAMBDA e : e.type = "task.heartbeat")) < MaxHeartbeats
    /\ history' = Append(history, TaskEvent("task.heartbeat", t, w))
    /\ state' = ApplyEvent(state, TaskEvent("task.heartbeat", t, w))
    /\ due' = due \ {t}
    /\ UNCHANGED <<run, rows, sweep>>

(***************************************************************************)
(* Reports of the workers, cancellation, timers.                           *)
(***************************************************************************)
CompleteTask(w, t) ==
    /\ Holds(state, t, w)
    /\ AppendRunChanges(CompleteTaskOnce(state, t, w))
    /\ UNCHANGED sweep

FailTask(w, t) ==
    /\ Holds(state, t, w)
    /\ \E retryable \in BOOLEAN : AppendRunChanges(FailTaskOnce(state, t, w, retryable))
    /\ UNCHANGED sweep

\* Fault: a run that is over can be cancelled.
CancelAnyRun ==
    /\ AppendRunChanges(CancelRunOnce(state))
    /\ UNCHANGED sweep

CancelRun ==
    /\ ~Terminal(run.status)
    /\ AppendRunChanges(CancelRunOnce(state))
    /\ UNCHANGED sweep

FireTimer(t) ==
    /\ IsTimer(t)
    /\ state.tasks[t].status = "available"
    /\ t \in due
    /\ AppendRunChanges(FireTimerOnce(state, t))
    /\ UNCHANGED sweep

(***************************************************************************)
(* Lease recovery.  The check and the failure are two separate loads: the  *)
(* failure is reported in the name of the owner that the check saw, and    *)
(* does not look at the deadline again.                                    *)
(***************************************************************************)
RecoverExpiredLease(t) ==
    /\ sweep = NoSweep
    /\ state.tasks[t].status = "leased"
    /\ t \in due
    /\ sweep' = [task |-> t, owner |-> state.tasks[t].owner]
    /\ UNCHANGED <<run, rows, history, state, due>>

FailExpiredLease ==
    /\ sweep # NoSweep
    /\ sweep' = NoSweep
    /\ IF Holds(state, sweep.task, sweep.owner)
         THEN AppendRunChanges(FailTaskOnce(state, sweep.task, sweep.owner, TRUE))
         ELSE UNCHANGED <<run, rows, history, state, due>>

\* The process stops between the two, or the failure is given up after five
\* version conflicts: the store is all that is left.
Restart ==
    /\ sweep # NoSweep
    /\ sweep' = NoSweep
    /\ UNCHANGED <<run, rows, history, state, due>>

\* The clock passes the deadline of a waiting or leased task.
Tick(t) ==
    /\ Open(state.tasks[t].status)
    /\ t \notin due
    /\ due' = due \cup {t}
    /\ UNCHANGED <<run, rows, history, state, sweep>>

Next ==
    \/ \E w \in Worker, t \in TaskID :
         \/ LeaseTask(w, t)
         \/ HeartbeatTask(w, t)
         \/ CompleteTask(w, t)
         \/ FailTask(w, t)
    \/ \E t \in TaskID :
         \/ FireTimer(t)
         \/ RecoverExpiredLease(t)
         \/ Tick(t)
    \/ CancelRun
    \/ FailExpiredLease
    \/ Restart

Spec == Init /\ [][Next]_vars

(***************************************************************************)
(* What keeps happening in a process that runs: the pools poll their queue *)
(* and the maintenance loop sweeps, again and again, and time passes.  No  *)
(* worker is assumed to ever report or renew a lease, and nobody to cancel.*)
(* The sweep may be cut short by a restart, but not every time: hence      *)
(* strong fairness for its second half.                                    *)
(***************************************************************************)
Fairness ==
    /\ WF_vars(\E w \in Worker, t \in TaskID : LeaseTask(w, t))
    /\ WF_vars(\E t \in TaskID : FireTimer(t))
    /\ WF_vars(\E t \in TaskID : RecoverExpiredLease(t))
    /\ WF_vars(\E t \in TaskID : Tick(t))
    /\ SF_vars(FailExpiredLease)

FairSpec == Spec /\ Fairness

-----------------------------------------------------------------------------
(* The type of every variable of the run's store and of its clients.       *)
TypeOK ==
    /\ run \in [status : RunStatus, failure : Failure]
    /\ rows \in [TaskID -> TaskState]
    /\ history \in Seq(Event)
    /\ state \in RunState
    /\ due \subseteq TaskID
    /\ sweep \in [task : TaskID, owner : Worker \cup {None}] \cup {NoSweep}
=============================================================================
