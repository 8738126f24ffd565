------------------------------- MODULE Engine -------------------------------
(***************************************************************************)
(* The orchestration service (internal/engine/service.go) as functions.    *)
(* Every command loads a run, replays it, applies its own events and the   *)
(* scheduling they entail to the state in memory, and hands the store one  *)
(* batch: the new run summary, the events and the task mutations.          *)
(*                                                                         *)
(* The record such a command works on is                                   *)
(*   state    the RunState in memory,                                      *)
(*   events   the events made so far, in order,                            *)
(*   mutated  the tasks whose rows the batch inserts or updates.           *)
(***************************************************************************)
EXTENDS Reducer

Loaded(st) == [state |-> st, events |-> <<>>, mutated |-> {}]

\* makeEvent and applyEvent: an event is recorded and applied at once.
Emit(l, e) ==
    [l EXCEPT !.state = ApplyEvent(@, e), !.events = Append(@, e)]

Mutate(l, T) == [l EXCEPT !.mutated = @ \cup T]

\* The events of one type for a set of tasks; their order is immaterial.
TaskEvents(type, T) ==
    LET q == SetToSeq(T) IN [i \in DOMAIN q |-> TaskEvent(type, q[i], None)]

ScheduleTasks(l, T) ==
    Mutate([l EXCEPT !.state = ApplyTasksScheduled(@, T),
                     !.events = @ \o TaskEvents("task.scheduled", T)], T)

\* Faults: the cancelled tasks miss the history, or their rows.
CancelTasksUnrecorded(l, T) ==
    Mutate([l EXCEPT !.state = ApplyTasksCancelled(@, T)], T)

CancelTasksWithoutRows(l, T) ==
    [l EXCEPT !.state = ApplyTasksCancelled(@, T),
              !.events = @ \o TaskEvents("task.cancelled", T)]

CancelTasks(l, T) ==
    Mutate([l EXCEPT !.state = ApplyTasksCancelled(@, T),
                     !.events = @ \o TaskEvents("task.cancelled", T)], T)

(***************************************************************************)
(* What the scheduling decisions look at.                                  *)
(***************************************************************************)
\* Fault: one completed dependency is enough.
SomeDependencyCompleted(st, s) == Deps[s] = {} \/ Deps[s] \cap st.outputs # {}

DependenciesCompleted(st, s) == Deps[s] \subseteq st.outputs

ReadySteps(st) ==
    {s \in Step : /\ st.tasks[Forward(s)].status = "none"
                  /\ st.forward[s] \notin {"completed", "cancelled", "failed"}
                  /\ DependenciesCompleted(st, s)}

AllForwardCompleted(st) == \A s \in Step : st.forward[s] = "completed"

HasOpenForwardTasks(st) == \E s \in Step : Open(st.tasks[Forward(s)].status)

HasOpenCompensationTasks(st) ==
    \E s \in Step : Open(st.tasks[Compensation(s)].status)

\* The positions in the completion order whose step still has to be undone.
Unwindable(st) ==
    {i \in DOMAIN st.completedOrder :
        st.completedOrder[i] \in Compensable \ (st.compScheduled \cup st.compCompleted)}

\* Fault: the search runs forwards.
FirstCompensationStep(st) ==
    st.completedOrder[CHOOSE i \in Unwindable(st) : \A j \in Unwindable(st) : i <= j]

\* The search runs backwards, so it finds the step that completed last.
NextCompensationStep(st) ==
    st.completedOrder[CHOOSE i \in Unwindable(st) : \A j \in Unwindable(st) : j <= i]

(***************************************************************************)
(* The decisions taken after a command's own events.                       *)
(***************************************************************************)
ScheduleForwardReady(l) == ScheduleTasks(l, {Forward(s) : s \in ReadySteps(l.state)})

FinishRunWithoutCompensation(l) ==
    IF l.state.cancelRequested
      THEN Emit(l, RunEvent("run.cancelled", None))
      ELSE Emit(l, RunEvent("run.failed", l.state.failure))

NewCompensationTask(l) ==
    ScheduleTasks(l, {Compensation(NextCompensationStep(l.state))})

\* Fault: the last compensation does not finish the run.
AdvanceCompensationOnly(l) ==
    IF ~HasOpenCompensationTasks(l.state) /\ Unwindable(l.state) # {}
      THEN NewCompensationTask(l)
      ELSE l

\* Fault: only the step that completed last is undone.
AdvanceToTheEnd(l) ==
    IF HasOpenCompensationTasks(l.state) THEN l ELSE FinishRunWithoutCompensation(l)

AdvanceCompensation(l) ==
    IF HasOpenCompensationTasks(l.state) THEN l
    ELSE IF Unwindable(l.state) # {} THEN NewCompensationTask(l)
    ELSE FinishRunWithoutCompensation(l)

\* Fault: a cancelled run finishes at once.
CompensateFailuresOnly(l) ==
    IF Unwindable(l.state) # {} /\ ~l.state.cancelRequested
      THEN NewCompensationTask(Emit(l, RunEvent("run.compensating", l.state.failure)))
      ELSE FinishRunWithoutCompensation(l)

BeginCompensationOrFinish(l) ==
    LET reason == IF l.state.cancelRequested THEN None ELSE l.state.failure
    IN  IF Unwindable(l.state) # {}
          THEN NewCompensationTask(Emit(l, RunEvent("run.compensating", reason)))
          ELSE FinishRunWithoutCompensation(l)

\* Fault: a run is completed as soon as no forward task is open.
PostProcessWhenIdle(l) ==
    LET scheduled == ScheduleForwardReady(l)
    IN  IF l.state.compensating THEN AdvanceCompensation(l)
        ELSE IF ~HasOpenForwardTasks(scheduled.state)
          THEN Emit(scheduled, RunEvent("run.completed", None))
          ELSE scheduled

PostProcess(l) ==
    LET scheduled == ScheduleForwardReady(l)
    IN  IF l.state.compensating THEN AdvanceCompensation(l)
        ELSE IF /\ AllForwardCompleted(scheduled.state)
                /\ ~HasOpenForwardTasks(scheduled.state)
          THEN Emit(scheduled, RunEvent("run.completed", None))
          ELSE scheduled

(***************************************************************************)
(* The commands, each on the state its load replayed.                      *)
(***************************************************************************)
StartRun ==
    ScheduleForwardReady(Emit(Loaded(InitialState(None)),
                              RunEvent("workflow.started", None)))

\* Fault: whoever reports is taken for the owner.
HoldsUnchecked(st, t, w) == st.tasks[t].status = "leased"

\* An activity task is reported on by the worker that holds its lease.
Holds(st, t, w) == st.tasks[t].status = "leased" /\ st.tasks[t].owner = w

CompleteTaskOnce(st, t, w) ==
    PostProcess(Mutate(Emit(Loaded(st), TaskEvent("task.completed", t, w)), {t}))

\* Fault: the attempts are counted from zero.
CanRetryOnceMore(st, t, retryable) ==
    /\ IsForward(t)
    /\ retryable
    /\ ~st.cancelRequested
    /\ st.tasks[t].attempt <= MaxAttempts[StepOf(t)]

CanRetry(st, t, retryable) ==
    /\ IsForward(t)
    /\ retryable
    /\ ~st.cancelRequested
    /\ st.tasks[t].attempt < MaxAttempts[StepOf(t)]

\* A failure that ends the task is set on the run in memory, by assignment:
\* no event carries it unless the decision that follows makes one that does.
FailTaskOnce(st, t, w, retryable) ==
    LET failed == Mutate(Emit(Loaded(st), TaskEvent("task.failed", t, w)), {t})
    IN  IF CanRetry(st, t, retryable)
          THEN Emit(failed, RetryEvent(t, st.tasks[t].attempt + 1))
          ELSE BeginCompensationOrFinish([failed EXCEPT !.state.failure = t])

FireTimerOnce(st, t) ==
    PostProcess(Mutate(Emit(Loaded(st), TaskEvent("timer.fired", t, None)), {t}))

\* Fault: only the tasks nobody has leased are cancelled.
CancelWaitingTasks(st) ==
    LET requested == Emit(Loaded(st), RunEvent("run.cancel_requested", None))
    IN  BeginCompensationOrFinish(
          CancelTasks(requested, {t \in TaskID : st.tasks[t].status = "available"}))

CancelRunOnce(st) ==
    LET requested == Emit(Loaded(st), RunEvent("run.cancel_requested", None))
        open == {t \in TaskID : Open(st.tasks[t].status)}
    IN  BeginCompensationOrFinish(CancelTasks(requested, open))

\* What the next load makes of a command's state: the failure in memory only
\* survives where no event of the history sets one.
Reload(st) == [st EXCEPT !.failure = IF st.logged = None THEN @ ELSE st.logged]

\* Fault: the owner stays in the row of a task that has ended.
UpdateTaskRecordUncleared(task) == task

\* The row of a task: a task that is not leased has no owner.
UpdateTaskRecord(task) ==
    [task EXCEPT !.owner = IF task.status = "leased" THEN @ ELSE None]
=============================================================================
