---------------------------- MODULE RunProperties ----------------------------
(***************************************************************************)
(* What is expected of a run.  The first part holds; the second part says  *)
(* what the documentation promises and the code does not keep.             *)
(***************************************************************************)
EXTENDS RunEngine

\* Where the events of one task are, and whether one of some types precedes i.
EventsOf(t) == {i \in DOMAIN history : history[i].task = t}

Recorded(types, t, i) ==
    \E j \in 1..(i - 1) : history[j].type \in types /\ history[j].task = t

CompletionType == {"task.completed", "timer.fired"}

IsCompensationScheduled(i) ==
    history[i].type = "task.scheduled" /\ ~IsForward(history[i].task)

(***************************************************************************)
(* Replaying the stored history from the stored run row gives the state    *)
(* that the engine had in memory when it committed, up to a failure it set *)
(* by assignment: nothing else that a command decided is lost.             *)
(***************************************************************************)
ReplayDerivesState == state = Replay(run.failure, history)

(***************************************************************************)
(* The query-optimised views agree with the history: the status in the run *)
(* row, the task rows the workers poll, and the per-step status all follow *)
(* from the replayed tasks.  Leases and heartbeats write rows without      *)
(* replaying, reports write them from a replay.                            *)
(***************************************************************************)
ViewsAgree ==
    /\ run.status = state.status
    /\ \A t \in TaskID : rows[t] = UpdateTaskRecord(state.tasks[t])
    /\ \A s \in Step : state.forward[s] = state.tasks[Forward(s)].status

(***************************************************************************)
(* The life of every task, as the history tells it: scheduled once, leased *)
(* only when waiting, renewed and reported only by the worker that holds   *)
(* the lease, retried only after a failure, and silent once it has ended.  *)
(***************************************************************************)
MayFollow(type) ==
    CASE type \in {"task.scheduled", "task.retry_scheduled"} ->
           {"task.leased", "task.cancelled", "timer.fired"}
      [] type \in {"task.leased", "task.heartbeat"} ->
           {"task.heartbeat", "task.completed", "task.failed", "task.cancelled"}
      [] type = "task.failed" -> {"task.retry_scheduled"}
      [] OTHER -> {}

TaskLifeCycle ==
    \A t \in TaskID : \A i \in EventsOf(t) :
        LET e == history[i] IN
        \/ e.type = "task.scheduled" /\ \A j \in EventsOf(t) : i <= j
        \/ \E j \in EventsOf(t) :
             /\ j < i
             /\ \A k \in EventsOf(t) : k <= j \/ i <= k
             /\ e.type \in MayFollow(history[j].type)
             /\ e.type \in {"task.heartbeat", "task.completed", "task.failed"}
                  => e.worker = history[j].worker
             /\ e.type = "timer.fired" => IsTimer(t)

(***************************************************************************)
(* Every task of a run keeps the promises of TaskLease to its workers: the *)
(* step that any command, lease, sweep or cancellation makes of a task row *)
(* is one that TaskLease allows, and most rows it leaves alone.            *)
(***************************************************************************)
AttemptsOf(t) == IF IsForward(t) THEN MaxAttempts[StepOf(t)] ELSE 1

OneTask(t) == INSTANCE TaskLease WITH task <- rows[t], Attempts <- AttemptsOf(t)

TasksKeepLeases ==
    /\ \A t \in TaskID : OneTask(t)!Init
    /\ [][\A t \in TaskID : OneTask(t)!Next \/ rows'[t] = rows[t]]_rows

\* The steps that the run has begun to undo.
Undoing == {s \in Step : rows[Compensation(s)].status # "none"}

(***************************************************************************)
(* A run keeps the promises of Saga to its client: whatever reports come   *)
(* late, whatever is cancelled and however compensations interleave with   *)
(* forward steps, each commit moves the status of the run, the order of    *)
(* its completed steps and its compensations together, as Saga allows.     *)
(***************************************************************************)
RunSaga == INSTANCE Saga WITH
    status    <- run.status,
    done      <- state.completedOrder,
    undoing   <- Undoing,
    cancelled <- state.cancelRequested

ImplementsSaga == RunSaga!Spec

(***************************************************************************)
(* A task is handed out at most MaxAttempts times, a compensation once,    *)
(* whatever mix of failures, expired leases and recoveries ends a lease.   *)
(***************************************************************************)
LeasesBounded ==
    \A t \in TaskID :
        Cardinality({i \in EventsOf(t) : history[i].type = "task.leased"}) <= AttemptsOf(t)

(***************************************************************************)
(* No step is scheduled before all the steps it depends on have an output, *)
(* and none has an output it did not get from its own forward task.        *)
(***************************************************************************)
DependenciesRespected ==
    \A s \in Step :
        /\ rows[Forward(s)].status # "none" => Deps[s] \subseteq state.outputs
        /\ s \in state.outputs <=> rows[Forward(s)].status = "completed"

(***************************************************************************)
(* A run that is not over has a task that is waiting or leased: there is   *)
(* always something that a worker, the clock or the sweep can move.        *)
(***************************************************************************)
NoStuckRun == ~Terminal(run.status) => \E t \in TaskID : Open(rows[t].status)

(***************************************************************************)
(* Once a cancellation is recorded no forward task is waiting or leased,   *)
(* and none ever will be again: only compensations run.                    *)
(***************************************************************************)
CancelStopsForwardWork ==
    state.cancelRequested => \A s \in Step : ~Open(rows[Forward(s)].status)

(***************************************************************************)
(* A completed run completed every step, and undid none.                   *)
(***************************************************************************)
CompletedMeansAllDone ==
    run.status = "completed" =>
        \A s \in Step : /\ rows[Forward(s)].status = "completed"
                        /\ rows[Compensation(s)].status = "none"

(***************************************************************************)
(* A cancelled run leaves nothing open, and started the compensation of    *)
(* every step that had completed.                                          *)
(***************************************************************************)
CancelledMeansUnwinding ==
    run.status = "cancelled" =>
        /\ \A t \in TaskID : ~Open(rows[t].status)
        /\ \A s \in Compensable \cap state.outputs :
             rows[Compensation(s)].status # "none"

(***************************************************************************)
(* A compensation is scheduled only in a run that has begun to compensate, *)
(* for a compensable step that completed, and never while a compensable    *)
(* step that completed later is left untouched: the local form of reverse  *)
(* completion order.                                                       *)
(***************************************************************************)
UnwindOrder ==
    \A i \in DOMAIN history : IsCompensationScheduled(i) =>
        LET s == StepOf(history[i].task) IN
        /\ s \in Compensable
        /\ Recorded({"run.compensating"}, None, i)
        /\ \E j \in 1..(i - 1) :
             /\ history[j].type \in CompletionType
             /\ history[j].task = Forward(s)
             /\ \A k \in (j + 1)..(i - 1), r \in Compensable :
                  /\ history[k].type \in CompletionType
                  /\ history[k].task = Forward(r)
                  => Recorded({"task.scheduled"}, Compensation(r), i)

(***************************************************************************)
(* A run that completed or was cancelled never changes again: no lease, no *)
(* heartbeat, no late report and no sweep touches its rows or its history. *)
(***************************************************************************)
SettledRunIsFinal ==
    [][run.status \in {"completed", "cancelled"} => UNCHANGED <<run, rows, history>>]_vars

(***************************************************************************)
(* Every run ends: whatever the workers do or fail to do, it comes to a    *)
(* terminal status with no task left waiting or leased, for good.          *)
(***************************************************************************)
EventuallySettled ==
    <>[](Terminal(run.status) /\ \A t \in TaskID : ~Open(rows[t].status))

-----------------------------------------------------------------------------
(***************************************************************************)
(* docs/architecture.md:110 has compensations scheduled "one compensation  *)
(* task at a time".  A forward task that fails while the run is already    *)
(* compensating starts a second one.                                       *)
(***************************************************************************)
OneCompensationAtATime ==
    \A s, r \in Step :
        Open(rows[Compensation(s)].status) /\ Open(rows[Compensation(r)].status) => s = r

(***************************************************************************)
(* README.md:49 has the "terminal workflow status" recorded in the         *)
(* history.  It is not terminal: a run that was recorded as failed becomes *)
(* compensating again when a forward task that nobody cancelled fails      *)
(* late, after another one completed late.                                 *)
(***************************************************************************)
TerminalIsFinal == [][Terminal(run.status) => run.status' = run.status]_vars

(***************************************************************************)
(* README.md:61: a workflow that fails after partial success "unwinds      *)
(* completed steps in reverse completion order"; docs/architecture.md:110  *)
(* says the same of a cancelled one.  When a run has ended so and nothing  *)
(* of it is open, the compensation of a completed step may never have been *)
(* scheduled (it completed after the failure), or may have been cancelled  *)
(* while in flight.                                                        *)
(***************************************************************************)
EndedRunUnwound ==
    (run.status \in {"failed", "cancelled"} /\ \A t \in TaskID : ~Open(rows[t].status)) =>
        \A s \in Compensable \cap state.outputs :
            rows[Compensation(s)].status \notin {"none", "cancelled"}
=============================================================================
