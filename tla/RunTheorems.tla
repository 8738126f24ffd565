----------------------------- MODULE RunTheorems -----------------------------
(***************************************************************************)
(* The safety properties of a run as theorems, for every workflow, every   *)
(* set of workers and any number of heartbeats: each is a consequence of   *)
(* the inductive invariant IInv.  And every task of a run implements       *)
(* TaskLease: what the commands do to one task row is what that module     *)
(* allows.                                                                 *)
(***************************************************************************)
EXTENDS RunInvariantProofs

-----------------------------------------------------------------------------
\* A row shows the status of its task.
LEMMA RowStatus ==
    ASSUME IInv
    PROVE  /\ \A t \in TaskID : rows[t].status = state.tasks[t].status
           /\ run.status = state.status
           /\ \A s \in Step : /\ rows[Forward(s)].status = ForwardStatus(state, s)
                              /\ rows[Compensation(s)].status = CompensationStatus(state, s)
<1>1. ASSUME NEW t \in TaskID PROVE rows[t].status = state.tasks[t].status
  <2>1. state.tasks[t] \in TaskState
    BY DEF IInv, TypeOK, RunState
  <2>2. rows[t] = UpdateTaskRecord(state.tasks[t])
    BY DEF IInv, ViewsAgree
  <2> QED BY <2>1, <2>2 DEF UpdateTaskRecord, TaskState
<1>2. run.status = state.status
  BY DEF IInv, ViewsAgree
<1> QED BY <1>1, <1>2, TaskIDFacts DEF ForwardStatus, CompensationStatus

\* The run row, the task rows and the replayed state never diverge.
THEOREM ViewsStayInAgreement == Spec => []ViewsAgree
<1>1. IInv => ViewsAgree
  BY DEF IInv
<1> QED BY <1>1, Invariant, PTL

\* No step starts before its dependencies have produced their outputs.
THEOREM DependenciesAreRespected == Spec => []DependenciesRespected
<1>1. IInv => DependenciesRespected
  <2> SUFFICES ASSUME IInv PROVE DependenciesRespected
    OBVIOUS
  <2> QED BY RowStatus DEF IInv, Consistent, DependenciesRespected
<1> QED BY <1>1, Invariant, PTL

\* A run that is not over has a task that is waiting or leased.
THEOREM RunsAreNeverStuck == Spec => []NoStuckRun
<1>1. IInv => NoStuckRun
  <2> SUFFICES ASSUME IInv, ~Terminal(run.status)
               PROVE  \E t \in TaskID : Open(rows[t].status)
    BY DEF NoStuckRun
  <2>1. state.status \in {"running", "compensating"}
    BY RowStatus DEF IInv, TypeOK, RunState, RunStatus, Terminal, StatusInv
  <2>2. HasOpenForwardTasks(state) \/ HasOpenCompensationTasks(state)
    BY <2>1 DEF IInv, StatusInv, RunningInv, CompensatingInv
  <2>3. \E s \in Step : \/ Open(state.tasks[Forward(s)].status)
                        \/ Open(state.tasks[Compensation(s)].status)
    BY <2>2 DEF HasOpenForwardTasks, HasOpenCompensationTasks
  <2> QED BY <2>3, RowStatus, TaskIDFacts
<1> QED BY <1>1, Invariant, PTL

\* After a cancellation no forward task is ever waiting or leased again.
THEOREM CancellationStopsForwardWork == Spec => []CancelStopsForwardWork
<1>1. IInv => CancelStopsForwardWork
  <2> SUFFICES ASSUME IInv, state.cancelRequested, NEW s \in Step
               PROVE  ~Open(rows[Forward(s)].status)
    BY DEF CancelStopsForwardWork
  <2>1. ~HasOpenForwardTasks(state)
    BY DEF IInv, StatusInv, CancelInv
  <2> QED BY <2>1, RowStatus, TaskIDFacts DEF HasOpenForwardTasks
<1> QED BY <1>1, Invariant, PTL

\* A completed run completed every step and undid none.
THEOREM CompletedRunsAreDone == Spec => []CompletedMeansAllDone
<1>1. IInv => CompletedMeansAllDone
  <2> SUFFICES ASSUME IInv, run.status = "completed", NEW s \in Step
               PROVE  /\ rows[Forward(s)].status = "completed"
                      /\ rows[Compensation(s)].status = "none"
    BY DEF CompletedMeansAllDone
  <2>1. AllForwardCompleted(state) /\ ~state.compensating
    BY RowStatus DEF IInv, StatusInv, CompletedInv
  <2>2. ForwardStatus(state, s) = "completed"
    BY <2>1 DEF AllForwardCompleted, IInv, Consistent
  <2>3. CompensationStatus(state, s) = "none"
    BY <2>1 DEF IInv, Consistent
  <2> QED BY <2>2, <2>3, RowStatus
<1> QED BY <1>1, Invariant, PTL

\* A cancelled run leaves nothing open, and nothing completed untouched.
THEOREM CancelledRunsAreUnwound == Spec => []CancelledMeansUnwinding
<1>1. IInv => CancelledMeansUnwinding
  <2> SUFFICES ASSUME IInv, run.status = "cancelled"
               PROVE  /\ \A t \in TaskID : ~Open(rows[t].status)
                      /\ \A s \in Compensable \cap state.outputs :
                           rows[Compensation(s)].status # "none"
    BY DEF CancelledMeansUnwinding
  <2>1. /\ ~HasOpenForwardTasks(state)
        /\ ~HasOpenCompensationTasks(state)
        /\ Unwindable(state) = {}
    BY RowStatus DEF IInv, StatusInv, CancelInv
  <2>2. ASSUME NEW t \in TaskID PROVE ~Open(rows[t].status)
    <3>1. StepOf(t) \in Step /\ (t = Forward(StepOf(t)) \/ t = Compensation(StepOf(t)))
      BY TaskIDFacts
    <3> QED BY <2>1, <3>1, RowStatus DEF HasOpenForwardTasks, HasOpenCompensationTasks
  <2>3. ASSUME NEW s \in Compensable \cap state.outputs
        PROVE  rows[Compensation(s)].status # "none"
    <3>1. s \in Step
      BY WorkflowAssumption
    <3>2. s \in ToSet(state.completedOrder)
      BY DEF IInv, Consistent
    <3>3. PICK i \in DOMAIN state.completedOrder : state.completedOrder[i] = s
      BY <3>2 DEF ToSet
    <3>4. s \in state.compScheduled \cup state.compCompleted
      BY <2>1, <3>3 DEF Unwindable
    <3>5. CompensationStatus(state, s) # "none"
      BY <3>1, <3>4 DEF IInv, Consistent
    <3> QED BY <3>1, <3>5, RowStatus
  <2> QED BY <2>2, <2>3
<1> QED BY <1>1, Invariant, PTL

\* A settled run has no open task, so no step is left that could touch it.
LEMMA SettledStep ==
    ASSUME IInv, [Next]_vars, run.status \in {"completed", "cancelled"}
    PROVE  UNCHANGED <<run, rows, history>>
<1>1. ASSUME NEW t \in TaskID PROVE ~Open(state.tasks[t].status)
  <2>1. Open(state.tasks[t].status) => state.status \in {"running", "compensating", "failed"}
    BY OpenTaskFacts DEF IInv, TypeOK
  <2> QED BY <2>1, RowStatus
<1>2. \A t \in TaskID, w \in Worker \cup {None} : ~Holds(state, t, w)
  BY <1>1 DEF Holds, Open
<1>3. \A w \in Worker, t \in TaskID :
        /\ ~LeaseTask(w, t)
        /\ ~HeartbeatTask(w, t)
        /\ ~CompleteTask(w, t)
        /\ ~FailTask(w, t)
  BY <1>1, <1>2, RowStatus DEF LeaseTask, HeartbeatTask, CompleteTask, FailTask, Open
<1>4. \A t \in TaskID : ~FireTimer(t)
  BY <1>1 DEF FireTimer, Open
<1>5. ~CancelRun
  BY DEF CancelRun, Terminal
<1>6. FailExpiredLease => UNCHANGED <<run, rows, history>>
  <2>1. sweep # NoSweep => sweep.task \in TaskID /\ sweep.owner \in Worker \cup {None}
    BY DEF IInv, TypeOK
  <2> QED BY <1>2, <2>1 DEF FailExpiredLease
<1> QED BY <1>3, <1>4, <1>5, <1>6 DEF Next, RecoverExpiredLease, Tick, Restart, vars

\* A completed or cancelled run, its tasks and its history never change again.
THEOREM SettledRunsAreFinal == Spec => SettledRunIsFinal
<1>1. IInv /\ [Next]_vars =>
        [run.status \in {"completed", "cancelled"} => UNCHANGED <<run, rows, history>>]_vars
  BY SettledStep
<1> QED BY <1>1, Invariant, PTL DEF Spec, SettledRunIsFinal

-----------------------------------------------------------------------------
(***************************************************************************)
(* The decisions that end a command touch no task that has been scheduled  *)
(* before.                                                                 *)
(***************************************************************************)
Fresh == [status |-> "available", attempt |-> 1, owner |-> None]

OnlySchedules(new, st) ==
    \A x \in TaskID : \/ new.tasks[x] = st.tasks[x]
                      \/ st.tasks[x].status = "none" /\ new.tasks[x] = Fresh

\* A step whose compensation exists is marked, so it is not chosen again.
Marked(st) ==
    \A s \in Step : CompensationStatus(st, s) # "none" => s \in st.compScheduled

LEMMA NewTasksOnly ==
    ASSUME NEW st \in RunState, NEW T \in SUBSET TaskID,
           \A x \in T : st.tasks[x].status = "none"
    PROVE  OnlySchedules(ApplyTasksScheduled(st, T), st)
BY ScheduledEffect DEF JustScheduled, OnlySchedules, Fresh

LEMMA FinishSchedules ==
    ASSUME NEW l \in Batch
    PROVE  OnlySchedules(FinishRunWithoutCompensation(l).state, l.state)
<1>1. l.state \in RunState /\ l.state.failure \in Failure
  BY DEF Batch, RunState
<1>2. FinishRunWithoutCompensation(l).state =
        IF l.state.cancelRequested THEN Finish(l.state, "cancelled")
                                   ELSE ApplyRunFailed(l.state, l.state.failure)
  BY BatchEffect, RunEventDispatch DEF FinishRunWithoutCompensation
<1> QED BY <1>1, <1>2, RunEventEffect DEF RunEnded, SameTasks, OnlySchedules

LEMMA NewCompensationSchedules ==
    ASSUME NEW l \in Batch, Marked(l.state), Unwindable(l.state) # {}
    PROVE  OnlySchedules(NewCompensationTask(l).state, l.state)
<1> DEFINE r == NextCompensationStep(l.state)
<1>1. l.state \in RunState
  BY DEF Batch
<1>2. r \in Step /\ r \notin l.state.compScheduled
  BY <1>1, NextCompensationStepFacts
<1>3. NewCompensationTask(l).state = ApplyTasksScheduled(l.state, {Compensation(r)})
  BY BatchEffect DEF NewCompensationTask
<1> HIDE DEF r
<1>4. l.state.tasks[Compensation(r)].status = "none" /\ Compensation(r) \in TaskID
  BY <1>2, TaskIDFacts DEF Marked, CompensationStatus
<1> QED BY <1>1, <1>3, <1>4, NewTasksOnly

LEMMA BeginCompensationSchedules ==
    ASSUME NEW l \in Batch, Marked(l.state)
    PROVE  OnlySchedules(BeginCompensationOrFinish(l).state, l.state)
<1> DEFINE reason == IF l.state.cancelRequested THEN None ELSE l.state.failure
           begun == Emit(l, RunEvent("run.compensating", reason))
<1>1. reason \in Failure /\ l.state \in RunState
  BY DEF Batch, RunState, Failure
<1>2. begun \in Batch
  BY <1>1, EmitRunEventType DEF RunEventType
<1>3. begun.state = ApplyRunCompensating(l.state, reason)
  BY BatchEffect, RunEventDispatch
<1> HIDE DEF begun, reason
<1>4. RunUnwinding(begun.state, l.state)
  BY <1>1, <1>3, RunEventEffect
<1>5. /\ Marked(begun.state)
      /\ Unwindable(begun.state) = Unwindable(l.state)
  BY <1>4, SameTasksFacts DEF RunUnwinding, SameTasks, Marked, CompensationStatus
<1>6. CASE Unwindable(l.state) # {}
  <2>1. OnlySchedules(NewCompensationTask(begun).state, begun.state)
    BY <1>2, <1>5, <1>6, NewCompensationSchedules
  <2>2. OnlySchedules(NewCompensationTask(begun).state, l.state)
    BY <1>4, <2>1 DEF RunUnwinding, SameTasks, OnlySchedules
  <2> QED BY <1>6, <2>2 DEF BeginCompensationOrFinish, begun, reason
<1>7. CASE Unwindable(l.state) = {}
  BY <1>7, FinishSchedules DEF BeginCompensationOrFinish
<1> QED BY <1>6, <1>7

LEMMA PostProcessSchedules ==
    ASSUME NEW l \in Batch, Marked(l.state)
    PROVE  OnlySchedules(PostProcess(l).state, l.state)
<1> DEFINE T == {Forward(s) : s \in ReadySteps(l.state)}
           scheduled == ScheduleForwardReady(l)
           done == Emit(scheduled, RunEvent("run.completed", None))
<1>1. OnlySchedules(AdvanceCompensation(l).state, l.state)
  BY NewCompensationSchedules, FinishSchedules DEF AdvanceCompensation, OnlySchedules
<1>2. /\ l.state \in RunState
      /\ T \in SUBSET TaskID
      /\ \A x \in T : l.state.tasks[x].status = "none"
  BY TaskIDFacts DEF ReadySteps, Batch
<1>3. scheduled.state = ApplyTasksScheduled(l.state, T)
  BY BatchEffect DEF ScheduleForwardReady
<1>4. scheduled \in Batch
  BY ScheduleForwardReadyType
<1>5. done.state = Finish(scheduled.state, "completed")
  BY <1>4, BatchEffect, RunEventDispatch
<1>6. PostProcess(l) \in {AdvanceCompensation(l), scheduled, done}
  BY DEF PostProcess
<1> HIDE DEF T, scheduled, done
<1>7. OnlySchedules(scheduled.state, l.state)
  BY <1>2, <1>3, NewTasksOnly
<1>8. done.state.tasks = scheduled.state.tasks
  <2>1. scheduled.state \in RunState /\ None \in Failure
    BY <1>4 DEF Batch, Failure
  <2> QED BY <1>5, <2>1, RunEventEffect DEF RunEnded, SameTasks
<1>9. OnlySchedules(done.state, l.state)
  BY <1>7, <1>8 DEF OnlySchedules
<1> QED BY <1>1, <1>6, <1>7, <1>9

-----------------------------------------------------------------------------
(***************************************************************************)
(* The commands: the task they are about becomes what they say, and others *)
(* are left alone or scheduled.                                            *)
(***************************************************************************)
TaskBecomes(new, st, t, task) ==
    /\ new.tasks[t] = task
    /\ \A x \in TaskID \ {t} : \/ new.tasks[x] = st.tasks[x]
                               \/ st.tasks[x].status = "none" /\ new.tasks[x] = Fresh

\* A report on a task, before the decision that follows it.
LEMMA ReportTasks ==
    ASSUME NEW st \in RunState, NEW t \in TaskID, NEW task, NEW new, task.status # "none",
           st.tasks[t].status # "none", Marked(st),
           new.tasks = [st.tasks EXCEPT ![t] = task],
           new.compScheduled = st.compScheduled
    PROVE  /\ Marked(new)
           /\ \A later : OnlySchedules(later, new) => TaskBecomes(later, st, t, task)
<1>1. \A x \in TaskID : new.tasks[x] = IF x = t THEN task ELSE st.tasks[x]
  BY DEF RunState
<1>2. Marked(new)
  BY <1>1, TaskIDFacts DEF Marked, CompensationStatus
<1> QED BY <1>1, <1>2 DEF OnlySchedules, TaskBecomes

Reported(task, status, w) == [task EXCEPT !.status = status, !.owner = w]

LEMMA CompletedEvent ==
    ASSUME NEW st \in RunState, NEW t \in TaskID, NEW w \in Worker \cup {None}
    PROVE  /\ ApplyTaskCompleted(st, t, w).tasks =
                [st.tasks EXCEPT ![t] = Reported(st.tasks[t], "completed", w)]
           /\ ApplyTaskCompleted(st, t, w).compScheduled = st.compScheduled
BY DEF ApplyTaskCompleted, RecordOutput, SetTask, RunState, Reported

LEMMA FailedEvent ==
    ASSUME NEW st \in RunState, NEW t \in TaskID, NEW w \in Worker \cup {None}
    PROVE  /\ ApplyTaskFailed(st, t, w).tasks =
                [st.tasks EXCEPT ![t] = Reported(st.tasks[t], "failed", w)]
           /\ ApplyTaskFailed(st, t, w).compScheduled = st.compScheduled
BY DEF ApplyTaskFailed, SetTask, RunState, Reported

LEMMA TimerEvent ==
    ASSUME NEW st \in RunState, NEW t \in TaskID
    PROVE  /\ ApplyTimerFired(st, t).tasks =
                [st.tasks EXCEPT ![t] = [st.tasks[t] EXCEPT !.status = "completed"]]
           /\ ApplyTimerFired(st, t).compScheduled = st.compScheduled
BY DEF ApplyTimerFired, RecordOutput, SetTask, RunState

LEMMA CompleteTaskRows ==
    ASSUME NEW st \in RunState, Marked(st), NEW t \in TaskID, NEW w \in Worker,
           st.tasks[t].status = "leased"
    PROVE  TaskBecomes(CompleteTaskOnce(st, t, w).state, st, t,
                       Reported(st.tasks[t], "completed", w))
<1> DEFINE e == TaskEvent("task.completed", t, w)
           l == Mutate(Emit(Loaded(st), e), {t})
           task == Reported(st.tasks[t], "completed", w)
<1>1. Loaded(st) \in Batch /\ Loaded(st).state = st
  BY LoadedType DEF Loaded
<1>2. Emit(Loaded(st), e) \in Batch /\ l \in Batch
  BY <1>1, EmitTaskEventType, MutateType
<1>3. l.state = ApplyTaskCompleted(st, t, w)
  BY <1>1, <1>2, BatchEffect, TaskEventDispatch
<1>4. CompleteTaskOnce(st, t, w) = PostProcess(l)
  BY DEF CompleteTaskOnce
<1>5. task.status # "none"
  BY DEF RunState, TaskState, Reported
<1> HIDE DEF l, task
<1>6. /\ l.state.tasks = [st.tasks EXCEPT ![t] = task]
      /\ l.state.compScheduled = st.compScheduled
  <2>1. task = Reported(st.tasks[t], "completed", w)
    BY DEF task
  <2>2. w \in Worker \cup {None}
    OBVIOUS
  <2>3. /\ ApplyTaskCompleted(st, t, w).tasks =
             [st.tasks EXCEPT ![t] = Reported(st.tasks[t], "completed", w)]
        /\ ApplyTaskCompleted(st, t, w).compScheduled = st.compScheduled
    BY <2>2, CompletedEvent
  <2> QED BY <1>3, <2>1, <2>3
<1>7. Marked(l.state) /\ \A later : OnlySchedules(later, l.state) => TaskBecomes(later, st, t, task)
  BY <1>5, <1>6, ReportTasks
<1> QED BY <1>2, <1>4, <1>7, PostProcessSchedules DEF task

LEMMA FireTimerRows ==
    ASSUME NEW st \in RunState, Marked(st), NEW t \in TaskID, st.tasks[t].status = "available"
    PROVE  TaskBecomes(FireTimerOnce(st, t).state, st, t,
                       [st.tasks[t] EXCEPT !.status = "completed"])
<1> DEFINE e == TaskEvent("timer.fired", t, None)
           l == Mutate(Emit(Loaded(st), e), {t})
           task == [st.tasks[t] EXCEPT !.status = "completed"]
<1>1. Loaded(st) \in Batch /\ Loaded(st).state = st
  BY LoadedType DEF Loaded
<1>2. Emit(Loaded(st), e) \in Batch /\ l \in Batch
  BY <1>1, EmitTaskEventType, MutateType
<1>3. l.state = ApplyTimerFired(st, t)
  BY <1>1, <1>2, BatchEffect, TaskEventDispatch
<1>4. FireTimerOnce(st, t) = PostProcess(l)
  BY DEF FireTimerOnce
<1>5. task.status # "none"
  BY DEF RunState, TaskState
<1> HIDE DEF l, task
<1>6. /\ l.state.tasks = [st.tasks EXCEPT ![t] = task]
      /\ l.state.compScheduled = st.compScheduled
  BY <1>3, TimerEvent DEF task
<1>7. Marked(l.state) /\ \A later : OnlySchedules(later, l.state) => TaskBecomes(later, st, t, task)
  BY <1>5, <1>6, ReportTasks
<1> QED BY <1>2, <1>4, <1>7, PostProcessSchedules DEF task

\* A failed task waits again if it can be retried, and has ended otherwise.
Retried(st, t) == [status |-> "available", attempt |-> st.tasks[t].attempt + 1, owner |-> None]

LEMMA FailTaskRows ==
    ASSUME NEW st \in RunState, Marked(st), NEW t \in TaskID, NEW w \in Worker \cup {None},
           NEW retryable \in BOOLEAN, st.tasks[t].status = "leased"
    PROVE  TaskBecomes(FailTaskOnce(st, t, w, retryable).state, st, t,
                       IF CanRetry(st, t, retryable)
                         THEN Retried(st, t)
                         ELSE Reported(st.tasks[t], "failed", w))
<1> DEFINE e == TaskEvent("task.failed", t, w)
           failed == Mutate(Emit(Loaded(st), e), {t})
           task == Reported(st.tasks[t], "failed", w)
           n == st.tasks[t].attempt + 1
           retried == Emit(failed, RetryEvent(t, n))
           ended == [failed EXCEPT !.state.failure = t]
<1>1. Loaded(st) \in Batch /\ Loaded(st).state = st
  BY LoadedType DEF Loaded
<1>2. Emit(Loaded(st), e) \in Batch /\ failed \in Batch
  BY <1>1, EmitTaskEventType, MutateType
<1>3. failed.state = ApplyTaskFailed(st, t, w)
  BY <1>1, <1>2, BatchEffect, TaskEventDispatch
<1>4. FailTaskOnce(st, t, w, retryable) =
        IF CanRetry(st, t, retryable) THEN retried ELSE BeginCompensationOrFinish(ended)
  BY DEF FailTaskOnce
<1>5. task.status # "none" /\ Retried(st, t).status # "none"
  BY DEF RunState, TaskState, Retried, Reported
<1>6. Retried(st, t) = [status |-> "available", attempt |-> n, owner |-> None]
  BY DEF Retried
<1> HIDE DEF failed, task, n
<1>7. /\ failed.state.tasks = [st.tasks EXCEPT ![t] = task]
      /\ failed.state.compScheduled = st.compScheduled
      /\ failed.state \in RunState
  <2>1. failed.state \in RunState
    BY <1>2 DEF Batch
  <2>2. task = Reported(st.tasks[t], "failed", w)
    BY DEF task
  <2>3. /\ ApplyTaskFailed(st, t, w).tasks =
             [st.tasks EXCEPT ![t] = Reported(st.tasks[t], "failed", w)]
        /\ ApplyTaskFailed(st, t, w).compScheduled = st.compScheduled
    BY FailedEvent
  <2> QED BY <1>3, <2>1, <2>2, <2>3
<1>8. CASE CanRetry(st, t, retryable)
  <2>1. retried.state = SetTask(failed.state, t, Retried(st, t))
    BY <1>2, <1>6, BatchEffect, RetryEventDispatch DEF ApplyTaskRetryScheduled
  <2> HIDE DEF retried
  <2>2. retried.state.tasks = [failed.state.tasks EXCEPT ![t] = Retried(st, t)]
    BY <1>7, <2>1 DEF SetTask, RunState
  <2>3. \A x \in TaskID : retried.state.tasks[x] =
                            IF x = t THEN Retried(st, t) ELSE st.tasks[x]
    BY <1>7, <2>2 DEF RunState
  <2> QED BY <1>4, <1>8, <2>3 DEF TaskBecomes
<1>9. CASE ~CanRetry(st, t, retryable)
  <2>1. /\ ended \in Batch
        /\ ended.state.tasks = failed.state.tasks
        /\ ended.state.compScheduled = failed.state.compScheduled
    BY <1>2 DEF Batch, RunState, Failure
  <2> HIDE DEF ended
  <2>2. Marked(ended.state) /\ \A later : OnlySchedules(later, ended.state)
                                             => TaskBecomes(later, st, t, task)
    BY <1>5, <1>7, <2>1, ReportTasks
  <2> QED BY <1>4, <1>9, <2>1, <2>2, BeginCompensationSchedules DEF task
<1> QED BY <1>8, <1>9

\* A cancellation ends every open task; a compensation may follow.
LEMMA CancelRunRows ==
    ASSUME NEW st \in RunState, Marked(st), NEW x \in TaskID
    PROVE  LET later == CancelRunOnce(st).state.tasks[x] IN
           \/ Open(st.tasks[x].status) /\ later = Reported(st.tasks[x], "cancelled", None)
           \/ ~Open(st.tasks[x].status) /\ later = st.tasks[x]
           \/ st.tasks[x].status = "none" /\ later = Fresh
<1> DEFINE requested == Emit(Loaded(st), RunEvent("run.cancel_requested", None))
           open == {t \in TaskID : Open(st.tasks[t].status)}
           l == CancelTasks(requested, open)
<1>1. Loaded(st) \in Batch /\ Loaded(st).state = st /\ None \in Failure
  BY LoadedType DEF Loaded, Failure
<1>2. requested \in Batch
  BY <1>1, EmitRunEventType DEF RunEventType
<1>3. requested.state = ApplyRunCancelRequested(st)
  BY <1>1, BatchEffect, RunEventDispatch
<1>4. l \in Batch /\ requested.state \in RunState
  BY <1>2, CancelTasksType DEF Batch
<1>5. l.state = ApplyTasksCancelled(requested.state, open)
  BY <1>2, BatchEffect
<1>6. CancelRunOnce(st) = BeginCompensationOrFinish(l)
  BY DEF CancelRunOnce
<1>7. SameTasks(requested.state, st)
  BY <1>1, <1>3, RunEventEffect DEF RunCancelling
<1>8. /\ open \in SUBSET TaskID
      /\ \A t \in TaskID : t \in open <=> Open(st.tasks[t].status)
  OBVIOUS
<1> HIDE DEF requested, open, l
<1>9. JustCancelled(l.state, requested.state, open)
  BY <1>4, <1>5, <1>8, CancelledEffect
<1>10. \A t \in TaskID : l.state.tasks[t] = IF Open(st.tasks[t].status)
                                              THEN Reported(st.tasks[t], "cancelled", None)
                                              ELSE st.tasks[t]
  BY <1>7, <1>8, <1>9 DEF JustCancelled, SameTasks, Reported
<1>11. l.state.compScheduled = st.compScheduled
  BY <1>7, <1>9 DEF JustCancelled, SameMarks, SameTasks
<1>12. Marked(l.state)
  <2>1. ASSUME NEW s \in Step, CompensationStatus(l.state, s) # "none"
        PROVE  CompensationStatus(st, s) # "none"
    BY <1>10, <2>1, TaskIDFacts DEF CompensationStatus, Open
  <2> QED BY <1>11, <2>1 DEF Marked
<1>13. OnlySchedules(CancelRunOnce(st).state, l.state)
  BY <1>4, <1>6, <1>12, BeginCompensationSchedules
<1>14. Reported(st.tasks[x], "cancelled", None).status = "cancelled"
  BY DEF RunState, TaskState, Reported
<1> QED BY <1>10, <1>13, <1>14 DEF OnlySchedules

-----------------------------------------------------------------------------
(***************************************************************************)
(* The rows: each step of a run, seen from one task.                       *)
(***************************************************************************)
\* The row of a task in each of the states a task can be in.
LEMMA RowOf ==
    ASSUME NEW task \in TaskState
    PROVE  /\ UpdateTaskRecord(task).status = task.status
           /\ UpdateTaskRecord(task).attempt = task.attempt
           /\ task.status = "leased" => UpdateTaskRecord(task).owner = task.owner
BY DEF UpdateTaskRecord, TaskState

RowEnded(old, status) == [status |-> status, attempt |-> old.attempt, owner |-> None]

LEMMA RowOfReported ==
    ASSUME NEW task \in TaskState, NEW status \in {"completed", "failed", "cancelled"},
           NEW w \in Worker \cup {None}
    PROVE  UpdateTaskRecord(Reported(task, status, w)) = RowEnded(task, status)
<1> DEFINE reported == Reported(task, status, w)
<1>1. status \in TaskStatus
  BY DEF TaskStatus
<1>2. /\ reported \in TaskState
      /\ reported.status = status
      /\ reported.attempt = task.attempt
  BY <1>1 DEF TaskState, Reported
<1>3. UpdateTaskRecord(reported) = [reported EXCEPT !.owner = None]
  BY <1>2 DEF UpdateTaskRecord
<1> HIDE DEF reported
<1>4. [reported EXCEPT !.owner = None] =
        [status |-> reported.status, attempt |-> reported.attempt, owner |-> None]
  BY <1>2 DEF TaskState
<1> QED BY <1>2, <1>3, <1>4 DEF RowEnded, reported

LEMMA RowOfFresh == UpdateTaskRecord(Fresh) = Fresh
BY DEF UpdateTaskRecord, Fresh

\* The ways a row can change, and that they are the steps of TaskLease.
RowChange(t, old, new) ==
    \/ new = old
    \/ old.status = "none" /\ new = Fresh
    \/ \E w \in Worker :
         /\ old.status = "available"
         /\ new = [status |-> "leased", attempt |-> old.attempt, owner |-> w]
    \/ /\ old.status = "leased"
       /\ old.owner \in Worker
       /\ \/ new \in {RowEnded(old, "completed"), RowEnded(old, "failed")}
          \/ /\ old.attempt < AttemptsOf(t)
             /\ new = [status |-> "available", attempt |-> old.attempt + 1, owner |-> None]
    \/ old.status = "available" /\ new = RowEnded(old, "completed")
    \/ Open(old.status) /\ new = RowEnded(old, "cancelled")

LEMMA RowSteps ==
    ASSUME NEW t \in TaskID, RowChange(t, rows[t], rows'[t])
    PROVE  OneTask(t)!Next \/ rows'[t] = rows[t]
<1> DEFINE old == rows[t]
           new == rows'[t]
<1>1. CASE old.status = "none" /\ new = Fresh
  BY <1>1 DEF Fresh, OneTask!Next, OneTask!Schedule, OneTask!Waiting
<1>2. CASE \E w \in Worker :
             /\ old.status = "available"
             /\ new = [status |-> "leased", attempt |-> old.attempt, owner |-> w]
  BY <1>2 DEF OneTask!Next, OneTask!Lease
<1>3. ASSUME old.status = "leased", old.owner \in Worker,
             \/ new \in {RowEnded(old, "completed"), RowEnded(old, "failed")}
             \/ /\ old.attempt < AttemptsOf(t)
                /\ new = [status |-> "available", attempt |-> old.attempt + 1, owner |-> None]
      PROVE  OneTask(t)!Next
  BY <1>3 DEF RowEnded, OneTask!Next, OneTask!Complete, OneTask!Fail, OneTask!Retry,
              OneTask!HeldBy, OneTask!Ended, OneTask!Waiting
<1>4. CASE old.status = "available" /\ new = RowEnded(old, "completed")
  BY <1>4 DEF RowEnded, OneTask!Next, OneTask!Fire, OneTask!Ended
<1>5. CASE Open(old.status) /\ new = RowEnded(old, "cancelled")
  BY <1>5 DEF RowEnded, Open, OneTask!Next, OneTask!Cancel, OneTask!Ended
<1> QED BY <1>1, <1>2, <1>3, <1>4, <1>5 DEF RowChange

\* A lease has an owner; TaskLease itself keeps that true.
LeasesHaveOwners == \A t \in TaskID : rows[t].status = "leased" => rows[t].owner \in Worker

\* What the invariant says of one task and its row.
LEMMA RowFacts ==
    ASSUME IInv, LeasesHaveOwners, NEW t \in TaskID
    PROVE  /\ state.tasks[t] \in TaskState
           /\ rows[t] = UpdateTaskRecord(state.tasks[t])
           /\ rows[t].status = state.tasks[t].status
           /\ rows[t].attempt = state.tasks[t].attempt
           /\ rows[t].status = "leased" =>
                state.tasks[t].owner = rows[t].owner /\ state.tasks[t].owner \in Worker
<1>1. state.tasks[t] \in TaskState /\ rows[t] = UpdateTaskRecord(state.tasks[t])
  BY DEF IInv, TypeOK, RunState, ViewsAgree
<1> QED BY <1>1, RowOf DEF LeasesHaveOwners

\* A commit that makes one task what a report says changes the rows likewise.
LEMMA CommittedRows ==
    ASSUME IInv, LeasesHaveOwners, NEW cmd, AppendRunChanges(cmd),
           NEW t \in TaskID, NEW task, TaskBecomes(cmd.state, state, t, task),
           RowChange(t, rows[t], UpdateTaskRecord(task)),
           NEW x \in TaskID
    PROVE  RowChange(x, rows[x], rows'[x])
<1>1. rows'[x] = IF x \in cmd.mutated THEN UpdateTaskRecord(cmd.state.tasks[x]) ELSE rows[x]
  BY DEF AppendRunChanges
<1>2. CASE x \notin cmd.mutated
  BY <1>1, <1>2 DEF RowChange
<1>3. CASE x = t
  BY <1>1, <1>2, <1>3 DEF TaskBecomes
<1>4. CASE x \in cmd.mutated /\ x # t
  BY <1>1, <1>4, RowFacts, RowOfFresh DEF TaskBecomes, RowChange
<1> QED BY <1>2, <1>3, <1>4

\* A failure, in the name of the worker that holds the lease.
LEMMA FailedRows ==
    ASSUME IInv, LeasesHaveOwners, NEW t \in TaskID, NEW w \in Worker \cup {None},
           NEW retryable \in BOOLEAN, Holds(state, t, w),
           AppendRunChanges(FailTaskOnce(state, t, w, retryable)),
           NEW x \in TaskID
    PROVE  RowChange(x, rows[x], rows'[x])
<1> DEFINE task == IF CanRetry(state, t, retryable)
                     THEN Retried(state, t)
                     ELSE Reported(state.tasks[t], "failed", w)
<1>1. state \in RunState /\ Marked(state) /\ state.tasks[t].status = "leased"
  BY DEF IInv, TypeOK, Consistent, Marked, Holds
<1>2. TaskBecomes(FailTaskOnce(state, t, w, retryable).state, state, t, task)
  BY <1>1, FailTaskRows
<1>3. /\ rows[t].status = "leased"
      /\ rows[t].owner \in Worker
      /\ rows[t].attempt = state.tasks[t].attempt
      /\ state.tasks[t] \in TaskState
  BY <1>1, RowFacts
<1>4. CASE CanRetry(state, t, retryable)
  <2>1. UpdateTaskRecord(Retried(state, t)) =
          [status |-> "available", attempt |-> rows[t].attempt + 1, owner |-> None]
    BY <1>3 DEF Retried, UpdateTaskRecord
  <2>2. rows[t].attempt < AttemptsOf(t)
    BY <1>3, <1>4 DEF CanRetry, AttemptsOf
  <2>3. RowChange(t, rows[t], UpdateTaskRecord(task))
    BY <1>3, <1>4, <2>1, <2>2 DEF RowChange
  <2> QED BY <1>2, <2>3, CommittedRows
<1>5. CASE ~CanRetry(state, t, retryable)
  <2>1. UpdateTaskRecord(Reported(state.tasks[t], "failed", w)) = RowEnded(rows[t], "failed")
    BY <1>3, RowOfReported DEF RowEnded
  <2>2. RowChange(t, rows[t], UpdateTaskRecord(task))
    BY <1>3, <1>5, <2>1 DEF RowChange
  <2> QED BY <1>2, <2>2, CommittedRows
<1> QED BY <1>4, <1>5

LEMMA RowsChange ==
    ASSUME IInv, LeasesHaveOwners, [Next]_vars, NEW x \in TaskID
    PROVE  RowChange(x, rows[x], rows'[x])
<1>1. state \in RunState /\ Marked(state)
  BY DEF IInv, TypeOK, Consistent, Marked
<1>2. ASSUME NEW w \in Worker, NEW t \in TaskID, LeaseTask(w, t)
      PROVE  RowChange(x, rows[x], rows'[x])
  <2>1. rows \in [TaskID -> TaskState] /\ rows[t] \in TaskState
    BY DEF IInv, TypeOK
  <2>2. rows' = [rows EXCEPT ![t].status = "leased", ![t].owner = w] /\ rows[t].status = "available"
    BY <1>2 DEF LeaseTask
  <2>3. rows'[t] = [status |-> "leased", attempt |-> rows[t].attempt, owner |-> w]
    BY <2>1, <2>2 DEF TaskState
  <2>4. x # t => rows'[x] = rows[x]
    BY <2>1, <2>2
  <2> QED BY <2>2, <2>3, <2>4 DEF RowChange
<1>3. ASSUME NEW w \in Worker, NEW t \in TaskID, CompleteTask(w, t)
      PROVE  RowChange(x, rows[x], rows'[x])
  <2>1. state.tasks[t].status = "leased"
    BY <1>3 DEF CompleteTask, Holds
  <2>2. TaskBecomes(CompleteTaskOnce(state, t, w).state, state, t,
                    Reported(state.tasks[t], "completed", w))
    BY <1>1, <2>1, CompleteTaskRows
  <2>3. UpdateTaskRecord(Reported(state.tasks[t], "completed", w)) = RowEnded(rows[t], "completed")
    BY RowFacts, RowOfReported DEF RowEnded
  <2>4. rows[t].status = "leased" /\ rows[t].owner \in Worker
    BY <2>1, RowFacts
  <2>5. RowChange(t, rows[t], UpdateTaskRecord(Reported(state.tasks[t], "completed", w)))
    BY <2>3, <2>4 DEF RowChange
  <2> QED BY <1>3, <2>2, <2>5, CommittedRows DEF CompleteTask
<1>4. ASSUME NEW w \in Worker, NEW t \in TaskID, FailTask(w, t)
      PROVE  RowChange(x, rows[x], rows'[x])
  BY <1>4, FailedRows DEF FailTask
<1>5. CASE FailExpiredLease
  <2>1. sweep # NoSweep => sweep.task \in TaskID /\ sweep.owner \in Worker \cup {None}
    BY DEF IInv, TypeOK
  <2>2. CASE Holds(state, sweep.task, sweep.owner)
    BY <1>5, <2>1, <2>2, FailedRows DEF FailExpiredLease
  <2>3. CASE ~Holds(state, sweep.task, sweep.owner)
    BY <1>5, <2>3 DEF FailExpiredLease, RowChange
  <2> QED BY <2>2, <2>3
<1>6. ASSUME NEW t \in TaskID, FireTimer(t)
      PROVE  RowChange(x, rows[x], rows'[x])
  <2> DEFINE task == [state.tasks[t] EXCEPT !.status = "completed"]
  <2>1. state.tasks[t].status = "available"
    BY <1>6 DEF FireTimer
  <2>2. TaskBecomes(FireTimerOnce(state, t).state, state, t, task)
    BY <1>1, <2>1, FireTimerRows
  <2>3. task \in TaskState /\ task.status = "completed" /\ task.attempt = rows[t].attempt
    BY RowFacts DEF TaskState, TaskStatus
  <2> HIDE DEF task
  <2>4. UpdateTaskRecord(task) = RowEnded(rows[t], "completed")
    BY <2>3 DEF UpdateTaskRecord, TaskState, RowEnded
  <2>5. RowChange(t, rows[t], UpdateTaskRecord(task))
    BY <2>1, <2>4, RowFacts DEF RowChange
  <2> QED BY <1>6, <2>2, <2>5, CommittedRows DEF FireTimer
<1>7. CASE CancelRun
  <2> DEFINE later == CancelRunOnce(state).state.tasks[x]
  <2>1. rows'[x] = rows[x] \/ rows'[x] = UpdateTaskRecord(later)
    BY <1>7 DEF CancelRun, AppendRunChanges
  <2>2. \/ Open(state.tasks[x].status) /\ later = Reported(state.tasks[x], "cancelled", None)
        \/ later = state.tasks[x]
        \/ state.tasks[x].status = "none" /\ later = Fresh
    BY <1>1, CancelRunRows
  <2> HIDE DEF later
  <2>3. UpdateTaskRecord(Reported(state.tasks[x], "cancelled", None)) = RowEnded(rows[x], "cancelled")
    BY RowFacts, RowOfReported DEF RowEnded
  <2> QED BY <2>1, <2>2, <2>3, RowFacts, RowOfFresh DEF RowChange
<1>8. \A w \in Worker, t \in TaskID :
        HeartbeatTask(w, t) \/ RecoverExpiredLease(t) \/ Tick(t) => rows' = rows
  BY DEF HeartbeatTask, RecoverExpiredLease, Tick
<1>9. ASSUME \E t \in TaskID : RecoverExpiredLease(t) \/ Tick(t) PROVE rows' = rows
  BY <1>9 DEF RecoverExpiredLease, Tick
<1>10. Restart \/ UNCHANGED vars => rows' = rows
  BY DEF Restart, vars
<1>11. rows' = rows => RowChange(x, rows[x], rows'[x])
  BY DEF RowChange
<1> QED BY <1>2, <1>3, <1>4, <1>5, <1>6, <1>7, <1>8, <1>9, <1>10, <1>11 DEF Next

LEMMA OwnersKept ==
    ASSUME IInv, LeasesHaveOwners, [Next]_vars
    PROVE  LeasesHaveOwners'
<1> SUFFICES ASSUME NEW x \in TaskID, rows'[x].status = "leased"
             PROVE  rows'[x].owner \in Worker
  BY DEF LeasesHaveOwners
<1>1. RowChange(x, rows[x], rows'[x])
  BY RowsChange
<1>2. CASE rows'[x] = rows[x]
  BY <1>2 DEF LeasesHaveOwners
<1>3. CASE \E w \in Worker : rows'[x] = [status |-> "leased", attempt |-> rows[x].attempt, owner |-> w]
  BY <1>3
<1>4. /\ Fresh.status # "leased"
      /\ \A status \in {"completed", "failed", "cancelled"} : RowEnded(rows[x], status).status # "leased"
      /\ \A n : [status |-> "available", attempt |-> n, owner |-> None].status # "leased"
  BY DEF Fresh, RowEnded
<1> QED BY <1>1, <1>2, <1>3, <1>4 DEF RowChange

\* The tasks of a new run are those of StartRun: some roots wait, others do not exist.
LEMMA FirstRows ==
    ASSUME Init, NEW x \in TaskID
    PROVE  rows[x] \in {NoTask, Fresh}
<1> DEFINE l == Emit(Loaded(InitialState(None)), RunEvent("workflow.started", None))
           T == {Forward(s) : s \in ReadySteps(l.state)}
<1>1. InitialState(None) \in RunState /\ None \in Failure
  BY InitialStateType DEF Failure
<1>2. Loaded(InitialState(None)) \in Batch
  BY <1>1, LoadedType
<1>3. l \in Batch
  BY <1>1, <1>2, EmitRunEventType DEF RunEventType
<1>4. l.state = ApplyWorkflowStarted(InitialState(None))
  BY <1>2, BatchEffect, RunEventDispatch DEF Loaded
<1>5. StartRun.state = ApplyTasksScheduled(l.state, T)
  BY <1>3, BatchEffect DEF StartRun, ScheduleForwardReady
<1>6. T \in SUBSET TaskID /\ l.state \in RunState
  BY <1>3, TaskIDFacts DEF ReadySteps, Batch
<1>7. l.state.tasks[x] = NoTask
  BY <1>4 DEF ApplyWorkflowStarted, InitialState
<1> HIDE DEF l, T
<1>8. StartRun.state.tasks[x] \in {NoTask, Fresh}
  BY <1>5, <1>6, <1>7, ScheduledEffect DEF JustScheduled, Fresh
<1>9. UpdateTaskRecord(NoTask) = NoTask
  BY DEF UpdateTaskRecord, NoTask
<1>10. rows[x] = UpdateTaskRecord(StartRun.state.tasks[x])
  BY DEF Init
<1> QED BY <1>8, <1>9, <1>10, RowOfFresh

(***************************************************************************)
(* A run implements TaskLease for every one of its tasks: whatever command *)
(* commits, it does to each task row only what TaskLease allows.           *)
(***************************************************************************)
THEOREM RunImplementsTaskLease == Spec => TasksKeepLeases
<1>1. Init => LeasesHaveOwners
  BY FirstRows DEF LeasesHaveOwners, NoTask, Fresh
<1>2. IInv /\ LeasesHaveOwners /\ [Next]_vars => LeasesHaveOwners'
  BY OwnersKept
<1>3. Init => \A t \in TaskID : OneTask(t)!Init
  BY FirstRows DEF OneTask!Init, OneTask!Waiting, NoTask, Fresh
<1>4. IInv /\ LeasesHaveOwners /\ [Next]_vars
        => [\A t \in TaskID : OneTask(t)!Next \/ rows'[t] = rows[t]]_rows
  BY RowsChange, RowSteps
<1>5. Spec => []LeasesHaveOwners
  BY <1>1, <1>2, Invariant, PTL DEF Spec
<1> QED BY <1>3, <1>4, <1>5, Invariant, PTL DEF Spec, TasksKeepLeases
-----------------------------------------------------------------------------
(***************************************************************************)
(* What the decisions do to the run as its client sees it: the status, the *)
(* completed steps and the compensations that have begun.                  *)
(***************************************************************************)
Left(order, marks) == {i \in DOMAIN order : order[i] \in Compensable \ marks}

\* Of what is left, the step that completed last is marked.
Began(order, old, new) ==
    \E i \in Left(order, old) :
        /\ \A j \in Left(order, old) : j <= i
        /\ new = old \cup {order[i]}

\* From what a decision is taken on, st, to what it leaves, new.
SameRun(new, st) ==
    /\ new.completedOrder = st.completedOrder
    /\ new.cancelRequested = st.cancelRequested

Undid(new, st) ==
    /\ SameRun(new, st)
    /\ Began(st.completedOrder, st.compScheduled, new.compScheduled)

Stopped(new, st) ==
    /\ SameRun(new, st)
    /\ Left(st.completedOrder, st.compScheduled) = {}
    /\ new.compScheduled = st.compScheduled
    /\ new.compensating = st.compensating
    /\ new.status = IF st.cancelRequested THEN "cancelled" ELSE "failed"

\* Unwinding is under way only once some compensation exists.
Started(st) == st.compensating => st.compScheduled # {}

LEMMA UnwindableIsLeft ==
    ASSUME NEW st, st.compCompleted \subseteq st.compScheduled
    PROVE  Unwindable(st) = Left(st.completedOrder, st.compScheduled)
<1>1. st.compScheduled \cup st.compCompleted = st.compScheduled
  OBVIOUS
<1> QED BY <1>1 DEF Unwindable, Left

\* The search backwards finds the last step that is left.
LEMMA NextIsLast ==
    ASSUME NEW st \in RunState, Unwindable(st) # {}
    PROVE  \E i \in Unwindable(st) : /\ \A j \in Unwindable(st) : j <= i
                                     /\ NextCompensationStep(st) = st.completedOrder[i]
<1>1. st.completedOrder \in Seq(Step)
  BY DEF RunState
<1>2. Len(st.completedOrder) \in Nat /\ DOMAIN st.completedOrder = 1..Len(st.completedOrder)
  BY <1>1, LenProperties
<1>3. Unwindable(st) \subseteq 1..Len(st.completedOrder)
  BY <1>2 DEF Unwindable
<1>4. \E i \in Unwindable(st) : \A j \in Unwindable(st) : j <= i
  BY <1>2, <1>3, LastPosition
<1> DEFINE i == CHOOSE i \in Unwindable(st) : \A j \in Unwindable(st) : j <= i
<1>5. i \in Unwindable(st) /\ \A j \in Unwindable(st) : j <= i
  BY <1>4
<1>6. NextCompensationStep(st) = st.completedOrder[i]
  BY DEF NextCompensationStep
<1> QED BY <1>5, <1>6

LEMMA NewCompensationUndoes ==
    ASSUME NEW l \in Batch, l.state.compCompleted \subseteq l.state.compScheduled,
           Unwindable(l.state) # {}
    PROVE  LET new == NewCompensationTask(l).state IN
           /\ Undid(new, l.state)
           /\ new.status = l.state.status
           /\ new.compScheduled # {}
<1> DEFINE st == l.state
           r == NextCompensationStep(st)
           T == {Compensation(r)}
           new == NewCompensationTask(l).state
<1>1. st \in RunState
  BY DEF Batch
<1>2. r \in Step
  BY <1>1, NextCompensationStepFacts
<1>3. new = ApplyTasksScheduled(st, T)
  BY BatchEffect DEF NewCompensationTask
<1>4. PICK i \in Unwindable(st) : /\ \A j \in Unwindable(st) : j <= i
                                  /\ r = st.completedOrder[i]
  BY <1>1, NextIsLast
<1>5. Unwindable(st) = Left(st.completedOrder, st.compScheduled)
  BY UnwindableIsLeft
<1> HIDE DEF r
<1>6. T \in SUBSET TaskID /\ {s \in Step : Compensation(s) \in T} = {r}
  <2>1. T \in SUBSET TaskID
    BY <1>2, TaskIDFacts
  <2>2. \A s \in Step : Compensation(s) \in T <=> s = r
    BY <1>2, TaskIDFacts
  <2> QED BY <1>2, <2>1, <2>2
<1> HIDE DEF T, new
<1>7. JustScheduled(new, st, T)
  BY <1>1, <1>3, <1>6, ScheduledEffect
<1>8. /\ new.compScheduled = st.compScheduled \cup {r}
      /\ SameRun(new, st)
      /\ new.status = st.status
  BY <1>6, <1>7 DEF JustScheduled, SameRun
<1>9. Began(st.completedOrder, st.compScheduled, new.compScheduled)
  BY <1>4, <1>5, <1>8 DEF Began
<1> QED BY <1>8, <1>9 DEF Undid, new

LEMMA FinishStops ==
    ASSUME NEW l \in Batch, l.state.compCompleted \subseteq l.state.compScheduled,
           Unwindable(l.state) = {}
    PROVE  Stopped(FinishRunWithoutCompensation(l).state, l.state)
<1> DEFINE new == FinishRunWithoutCompensation(l).state
<1>1. l.state \in RunState /\ l.state.failure \in Failure
  BY DEF Batch, RunState
<1>2. new = IF l.state.cancelRequested THEN Finish(l.state, "cancelled")
                                       ELSE ApplyRunFailed(l.state, l.state.failure)
  BY BatchEffect, RunEventDispatch DEF FinishRunWithoutCompensation
<1> HIDE DEF new
<1>3. RunEnded(new, l.state, IF l.state.cancelRequested THEN "cancelled" ELSE "failed")
  <2>1. CASE l.state.cancelRequested
    BY <1>1, <1>2, <2>1, RunEventEffect
  <2>2. CASE ~l.state.cancelRequested
    BY <1>1, <1>2, <2>2, RunEventEffect
  <2> QED BY <2>1, <2>2
<1>4. Left(l.state.completedOrder, l.state.compScheduled) = {}
  BY UnwindableIsLeft
<1> QED BY <1>3, <1>4 DEF RunEnded, SameTasks, SameRun, Stopped, new

LEMMA BeginCompensationUnwinds ==
    ASSUME NEW l \in Batch, l.state.compCompleted \subseteq l.state.compScheduled
    PROVE  LET new == BeginCompensationOrFinish(l).state IN
           \/ Undid(new, l.state) /\ new.status = "compensating" /\ new.compScheduled # {}
           \/ Stopped(new, l.state)
<1> DEFINE reason == IF l.state.cancelRequested THEN None ELSE l.state.failure
           begun == Emit(l, RunEvent("run.compensating", reason))
<1>1. reason \in Failure /\ l.state \in RunState
  BY DEF Batch, RunState, Failure
<1>2. begun \in Batch
  BY <1>1, EmitRunEventType DEF RunEventType
<1>3. begun.state = ApplyRunCompensating(l.state, reason)
  BY BatchEffect, RunEventDispatch
<1> HIDE DEF begun, reason
<1>4. RunUnwinding(begun.state, l.state)
  BY <1>1, <1>3, RunEventEffect
<1>5. Unwindable(begun.state) = Unwindable(l.state)
  BY <1>4, SameTasksFacts DEF RunUnwinding
<1>6. CASE Unwindable(l.state) # {}
  <2> DEFINE new == NewCompensationTask(begun).state
  <2>1. begun.state.compCompleted \subseteq begun.state.compScheduled
    BY <1>4 DEF RunUnwinding, SameTasks
  <2>2. Undid(new, begun.state) /\ new.status = "compensating" /\ new.compScheduled # {}
    BY <1>2, <1>4, <1>5, <1>6, <2>1, NewCompensationUndoes DEF RunUnwinding
  <2>3. BeginCompensationOrFinish(l).state = new
    BY <1>6 DEF BeginCompensationOrFinish, begun, reason
  <2> HIDE DEF new
  <2>4. Undid(new, l.state)
    BY <1>4, <2>2 DEF RunUnwinding, SameTasks, Undid, SameRun
  <2> QED BY <2>2, <2>3, <2>4
<1>7. CASE Unwindable(l.state) = {}
  BY <1>7, FinishStops DEF BeginCompensationOrFinish
<1> QED BY <1>6, <1>7

\* After a completion: forward steps as long as nothing is undone, then compensations.
LEMMA PostProcessForward ==
    ASSUME NEW l \in Batch, ~l.state.compensating
    PROVE  LET new == PostProcess(l).state IN
           /\ SameRun(new, l.state)
           /\ new.compScheduled = l.state.compScheduled
           /\ new.compensating = l.state.compensating
           /\ new.status \in {l.state.status, "completed"}
<1> DEFINE T == {Forward(s) : s \in ReadySteps(l.state)}
           scheduled == ScheduleForwardReady(l)
           done == Emit(scheduled, RunEvent("run.completed", None))
<1>1. l.state \in RunState /\ T \in SUBSET TaskID
  BY TaskIDFacts DEF ReadySteps, Batch
<1>2. scheduled.state = ApplyTasksScheduled(l.state, T)
  BY BatchEffect DEF ScheduleForwardReady
<1>3. scheduled \in Batch
  BY ScheduleForwardReadyType
<1>4. done.state = Finish(scheduled.state, "completed")
  BY <1>3, BatchEffect, RunEventDispatch
<1>5. PostProcess(l) \in {scheduled, done}
  BY DEF PostProcess
<1>6. {s \in Step : Compensation(s) \in T} = {}
  BY TaskIDFacts DEF ReadySteps
<1> HIDE DEF T, scheduled, done
<1>7. JustScheduled(scheduled.state, l.state, T)
  BY <1>1, <1>2, ScheduledEffect
<1>8. /\ SameRun(scheduled.state, l.state)
      /\ scheduled.state.compScheduled = l.state.compScheduled
      /\ scheduled.state.compensating = l.state.compensating
      /\ scheduled.state.status = l.state.status
  BY <1>6, <1>7 DEF JustScheduled, SameRun
<1>9. RunEnded(done.state, scheduled.state, "completed")
  <2>1. scheduled.state \in RunState /\ None \in Failure
    BY <1>3 DEF Batch, Failure
  <2> QED BY <1>4, <2>1, RunEventEffect
<1>10. /\ SameRun(done.state, l.state)
       /\ done.state.compScheduled = l.state.compScheduled
       /\ done.state.compensating = l.state.compensating
       /\ done.state.status = "completed"
  BY <1>8, <1>9 DEF RunEnded, SameTasks, SameRun
<1> QED BY <1>5, <1>8, <1>10

LEMMA PostProcessUnwinding ==
    ASSUME NEW l \in Batch, l.state.compCompleted \subseteq l.state.compScheduled,
           l.state.compensating
    PROVE  LET new == PostProcess(l).state IN
           \/ HasOpenCompensationTasks(l.state) /\ new = l.state
           \/ Undid(new, l.state) /\ new.status = l.state.status /\ new.compScheduled # {}
           \/ Stopped(new, l.state)
<1>1. PostProcess(l) = AdvanceCompensation(l)
  BY DEF PostProcess
<1> QED BY <1>1, NewCompensationUndoes, FinishStops DEF AdvanceCompensation
-----------------------------------------------------------------------------
(***************************************************************************)
(* The commands, seen likewise: each is a step of Saga, or changes nothing *)
(* that Saga speaks of.                                                    *)
(***************************************************************************)
StepCompleted(new, st, s) ==
    /\ ~st.cancelRequested
    /\ s \notin ToSet(st.completedOrder)
    /\ Deps[s] \subseteq ToSet(st.completedOrder)
    /\ new.completedOrder = Append(st.completedOrder, s)
    /\ new.cancelRequested = st.cancelRequested
    /\ \/ /\ st.status = "running"
          /\ new.status = IF ToSet(new.completedOrder) = Step THEN "completed" ELSE "running"
          /\ new.compScheduled = st.compScheduled
       \/ /\ st.status \in {"compensating", "failed"}
          /\ new.status = st.status
          /\ new.compScheduled = st.compScheduled
       \/ /\ st.status = "failed"
          /\ st.compScheduled # {}
          /\ Began(new.completedOrder, st.compScheduled, new.compScheduled)
          /\ new.status = st.status

RunFailed(new, st) ==
    /\ st.status \in {"running", "compensating", "failed"}
    /\ (Undid(new, st) /\ new.status = "compensating") \/ Stopped(new, st)

StepUndone(new, st) ==
    /\ st.status \in {"compensating", "failed"}
    /\ st.compScheduled # {}
    /\ (Undid(new, st) /\ new.status = st.status) \/ Stopped(new, st)

RunCancelled(new, st) ==
    /\ st.status \in {"running", "compensating"}
    /\ new.cancelRequested
    /\ new.completedOrder = st.completedOrder
    /\ \/ /\ Began(st.completedOrder, st.compScheduled, new.compScheduled)
          /\ new.status = "compensating"
       \/ /\ Left(st.completedOrder, st.compScheduled) = {}
          /\ new.compScheduled = st.compScheduled
          /\ new.status = "cancelled"

Unmoved(new, st) ==
    /\ SameRun(new, st)
    /\ new.status = st.status
    /\ new.compScheduled = st.compScheduled

SagaStep(new, st) ==
    \/ \E s \in Step : StepCompleted(new, st, s)
    \/ RunFailed(new, st)
    \/ StepUndone(new, st)
    \/ RunCancelled(new, st)
    \/ Unmoved(new, st)

\* A report on a task, before the decision that follows it.
SameUnwinding(new, st) ==
    /\ new.status = st.status
    /\ new.compScheduled = st.compScheduled
    /\ new.cancelRequested = st.cancelRequested
    /\ new.compensating = st.compensating

Noted(new, st, t) ==
    /\ SameUnwinding(new, st)
    /\ IF IsForward(t)
         THEN /\ StepOf(t) \notin ToSet(st.completedOrder) =>
                   new.completedOrder = Append(st.completedOrder, StepOf(t))
              /\ new.compCompleted = st.compCompleted
         ELSE /\ new.completedOrder = st.completedOrder
              /\ new.compCompleted = st.compCompleted \cup {StepOf(t)}

LEMMA CompletionNoted ==
    ASSUME NEW st \in RunState, NEW t \in TaskID, NEW w \in Worker \cup {None}
    PROVE  /\ Noted(ApplyTaskCompleted(st, t, w), st, t)
           /\ IsForward(t) => Noted(ApplyTimerFired(st, t), st, t)
<1> DEFINE RecordedIn(new, old) ==
             /\ SameUnwinding(new, old)
             /\ StepOf(t) \notin ToSet(old.completedOrder) =>
                  new.completedOrder = Append(old.completedOrder, StepOf(t))
             /\ new.compCompleted = old.compCompleted
<1>1. ASSUME NEW task \in TaskState
      PROVE  RecordedIn(RecordOutput(SetTask(st, t, task), StepOf(t)), st)
  <2> DEFINE set == SetTask(st, t, task)
  <2>1. set \in RunState /\ SameMarks(set, st)
    BY SetTaskType, SetTaskEffect
  <2> HIDE DEF set
  <2>2. RecordedIn(RecordOutput(set, StepOf(t)), set)
    BY <2>1 DEF RecordOutput, RunState, SameUnwinding
  <2> QED BY <2>1, <2>2 DEF SameMarks, SameUnwinding, set
<1>2. ASSUME NEW task \in TaskState, ~IsForward(t)
      PROVE  Noted([SetTask(st, t, task) EXCEPT !.compCompleted = @ \cup {StepOf(t)}], st, t)
  <2> DEFINE set == SetTask(st, t, task)
  <2>1. set \in RunState /\ SameMarks(set, st)
    BY SetTaskType, SetTaskEffect
  <2> HIDE DEF set
  <2> QED BY <1>2, <2>1 DEF RunState, SameMarks, SameUnwinding, Noted, set
<1>3. /\ [st.tasks[t] EXCEPT !.status = "completed", !.owner = w] \in TaskState
      /\ [st.tasks[t] EXCEPT !.status = "completed"] \in TaskState
  <2>1. st.tasks[t] \in TaskState /\ "completed" \in TaskStatus
    BY DEF RunState, TaskStatus
  <2> QED BY <2>1, TaskUpdate
<1> QED BY <1>1, <1>2, <1>3 DEF ApplyTaskCompleted, ApplyTimerFired, Noted

\* A forward task reports its completion.
LEMMA ForwardCompletes ==
    ASSUME NEW st \in RunState, Consistent(st), StatusInv(st), Started(st),
           NEW t \in TaskID, IsForward(t), Open(st.tasks[t].status),
           NEW l \in Batch, Noted(l.state, st, t),
           \A x \in TaskID \ {t} : l.state.tasks[x] = st.tasks[x],
           NEW new, new = PostProcess(l).state,
           Consistent(new), StatusInv(new),
           \A x \in TaskID \ {t} : new.tasks[x] = st.tasks[x] \/ st.tasks[x].status = "none"
    PROVE  StepCompleted(new, st, StepOf(t)) /\ Started(new)
<1> DEFINE s == StepOf(t)
<1>1. s \in Step /\ t = Forward(s)
  BY TaskIDFacts
<1> HIDE DEF s
<1>2. /\ st.status \in {"running", "compensating", "failed"}
      /\ ~st.cancelRequested
  BY OpenTaskFacts
<1>3. ForwardStatus(st, s) \notin {"none", "completed", "failed"}
  BY <1>1 DEF ForwardStatus, Open
<1>4. s \notin ToSet(st.completedOrder) /\ Deps[s] \subseteq ToSet(st.completedOrder)
  BY <1>1, <1>3 DEF Consistent
<1>5. /\ SameUnwinding(l.state, st)
      /\ l.state.completedOrder = Append(st.completedOrder, s)
      /\ l.state.compCompleted = st.compCompleted
  BY <1>4 DEF Noted, s
<1>6. l.state.compCompleted \subseteq l.state.compScheduled
  <2>1. st.compCompleted \subseteq Step
    BY DEF RunState
  <2>2. st.compCompleted \subseteq st.compScheduled
    BY <2>1 DEF Consistent
  <2> QED BY <1>5, <2>2 DEF SameUnwinding
<1>7. HasOpenCompensationTasks(l.state) <=> HasOpenCompensationTasks(st)
  <2>1. \A r \in Step : l.state.tasks[Compensation(r)] = st.tasks[Compensation(r)]
    BY TaskIDFacts
  <2> QED BY <2>1 DEF HasOpenCompensationTasks
<1>8. AllForwardCompleted(new) <=> ToSet(new.completedOrder) = Step
  <2>1. AllForwardCompleted(new) <=> \A r \in Step : r \in ToSet(new.completedOrder)
    BY DEF AllForwardCompleted, Consistent
  <2>2. ToSet(new.completedOrder) \subseteq Step
    <3>1. PostProcess(l) \in Batch
      BY PostProcessType
    <3>2. new.completedOrder \in Seq(Step)
      BY <3>1 DEF Batch, RunState
    <3> QED BY <3>2 DEF ToSet
  <2> QED BY <2>1, <2>2
<1>9. CASE st.status = "running"
  <2>1. ~st.compensating
    BY <1>9 DEF StatusInv, RunningInv
  <2>2. /\ SameRun(new, l.state)
        /\ new.compScheduled = l.state.compScheduled
        /\ new.compensating = l.state.compensating
        /\ new.status \in {l.state.status, "completed"}
    BY <1>5, <2>1, PostProcessForward DEF SameUnwinding
  <2>3. new.status = "running" => ~AllForwardCompleted(new)
    <3> SUFFICES ASSUME new.status = "running" PROVE ~AllForwardCompleted(new)
      OBVIOUS
    <3>1. PICK r \in Step : Open(ForwardStatus(new, r))
      BY DEF StatusInv, RunningInv, HasOpenForwardTasks, ForwardStatus
    <3>2. new.forward[r] # "completed"
      BY <3>1 DEF Consistent, Open
    <3> QED BY <3>2 DEF AllForwardCompleted
  <2>4. new.status = "completed" => AllForwardCompleted(new)
    BY DEF StatusInv, CompletedInv
  <2>5. new.status = IF ToSet(new.completedOrder) = Step THEN "completed" ELSE "running"
    BY <1>5, <1>8, <1>9, <2>2, <2>3, <2>4 DEF SameUnwinding
  <2> QED BY <1>2, <1>4, <1>5, <1>9, <2>1, <2>2, <2>5
          DEF SameRun, SameUnwinding, StepCompleted, Started, s
<1>10. CASE st.status # "running" /\ ~st.compensating
  <2>1. st.status = "failed"
    BY <1>2, <1>10 DEF StatusInv, CompensatingInv
  <2>2. /\ SameRun(new, l.state)
        /\ new.compScheduled = l.state.compScheduled
        /\ new.compensating = l.state.compensating
        /\ new.status \in {l.state.status, "completed"}
    BY <1>5, <1>10, PostProcessForward DEF SameUnwinding
  <2>3. PICK r \in Step : ForwardStatus(st, r) = "failed"
    BY <1>10, <2>1 DEF StatusInv, FailedInv, SomeForwardFailed
  <2>4. ForwardStatus(new, r) = "failed"
    <3>1. Forward(r) \in TaskID \ {t}
      BY <1>1, <1>3, <2>3, TaskIDFacts
    <3> QED BY <2>3, <3>1 DEF ForwardStatus
  <2>5. new.status # "completed"
    BY <2>4 DEF StatusInv, CompletedInv, AllForwardCompleted, Consistent
  <2> QED BY <1>2, <1>4, <1>5, <1>10, <2>1, <2>2, <2>5
          DEF SameRun, SameUnwinding, StepCompleted, Started, s
<1>11. CASE st.status # "running" /\ st.compensating
  <2>1. st.status \in {"compensating", "failed"} /\ st.compScheduled # {}
    BY <1>2, <1>11 DEF Started
  <2>2. st.status = "compensating" => HasOpenCompensationTasks(l.state)
    BY <1>7 DEF StatusInv, CompensatingInv
  <2>3. \/ new = l.state
        \/ /\ ~HasOpenCompensationTasks(l.state)
           /\ \/ Undid(new, l.state) /\ new.status = l.state.status /\ new.compScheduled # {}
              \/ Stopped(new, l.state)
    <3>1. l.state.compensating
      BY <1>5, <1>11 DEF SameUnwinding
    <3>2. CASE HasOpenCompensationTasks(l.state)
      BY <3>1, <3>2 DEF PostProcess, AdvanceCompensation
    <3>3. CASE ~HasOpenCompensationTasks(l.state)
      BY <1>6, <3>1, <3>3, PostProcessUnwinding
    <3> QED BY <3>2, <3>3
  <2>4. CASE new = l.state
    BY <1>2, <1>4, <1>5, <2>1, <2>4 DEF SameUnwinding, StepCompleted, Started, s
  <2>5. CASE /\ ~HasOpenCompensationTasks(l.state)
             /\ Undid(new, l.state) /\ new.status = l.state.status /\ new.compScheduled # {}
    <3>1. st.status = "failed"
      BY <2>1, <2>2, <2>5
    <3>2. /\ new.completedOrder = Append(st.completedOrder, s)
          /\ new.cancelRequested = st.cancelRequested
          /\ Began(new.completedOrder, st.compScheduled, new.compScheduled)
      BY <1>5, <2>5 DEF Undid, SameRun, SameUnwinding
    <3> QED BY <1>2, <1>4, <1>5, <2>1, <2>5, <3>1, <3>2
            DEF SameUnwinding, StepCompleted, Started, s
  <2>6. CASE ~HasOpenCompensationTasks(l.state) /\ Stopped(new, l.state)
    <3>1. st.status = "failed"
      BY <2>1, <2>2, <2>6
    <3> QED BY <1>2, <1>4, <1>5, <2>1, <2>6, <3>1
            DEF Stopped, SameRun, SameUnwinding, StepCompleted, Started, s
  <2> QED BY <2>3, <2>4, <2>5, <2>6
<1> QED BY <1>9, <1>10, <1>11
\* A compensation reports its completion.
LEMMA CompensationCompletes ==
    ASSUME NEW st \in RunState, Consistent(st), StatusInv(st), Started(st),
           NEW t \in TaskID, ~IsForward(t), Open(st.tasks[t].status),
           NEW l \in Batch, Noted(l.state, st, t),
           NEW new, new = PostProcess(l).state
    PROVE  /\ StepUndone(new, st) \/ Unmoved(new, st)
           /\ Started(new)
<1>1. StepOf(t) \in Step /\ t = Compensation(StepOf(t))
  BY TaskIDFacts
<1>2. /\ st.status \in {"compensating", "failed"}
      /\ st.compensating
      /\ StepOf(t) \in st.compScheduled
  <2>1. st.status \in {"running", "compensating", "failed"} /\ st.compensating
    BY OpenTaskFacts
  <2>2. st.status # "running"
    BY <2>1 DEF StatusInv, RunningInv
  <2>3. StepOf(t) \in st.compScheduled
    BY <1>1 DEF Consistent, CompensationStatus, Open
  <2> QED BY <2>1, <2>2, <2>3
<1>3. /\ SameUnwinding(l.state, st)
      /\ l.state.completedOrder = st.completedOrder
      /\ l.state.compCompleted = st.compCompleted \cup {StepOf(t)}
  BY DEF Noted
<1>4. l.state.compCompleted \subseteq l.state.compScheduled
  <2>1. st.compCompleted \subseteq Step
    BY DEF RunState
  <2>2. st.compCompleted \subseteq st.compScheduled
    BY <2>1 DEF Consistent
  <2> QED BY <1>2, <1>3, <2>2 DEF SameUnwinding
<1>5. \/ new = l.state
      \/ Undid(new, l.state) /\ new.status = l.state.status /\ new.compScheduled # {}
      \/ Stopped(new, l.state)
  <2>1. l.state.compensating
    BY <1>2, <1>3 DEF SameUnwinding
  <2> QED BY <1>4, <2>1, PostProcessUnwinding
<1>6. CASE new = l.state
  BY <1>2, <1>3, <1>6 DEF SameUnwinding, Unmoved, SameRun, Started
<1>7. CASE Undid(new, l.state) /\ new.status = l.state.status /\ new.compScheduled # {}
  BY <1>2, <1>3, <1>7 DEF SameUnwinding, StepUndone, Undid, SameRun, Started
<1>8. CASE Stopped(new, l.state)
  BY <1>2, <1>3, <1>8 DEF SameUnwinding, StepUndone, Stopped, SameRun, Started
<1> QED BY <1>5, <1>6, <1>7, <1>8

LEMMA CompleteTaskMoves ==
    ASSUME NEW st \in RunState, Consistent(st), StatusInv(st), Started(st),
           NEW t \in TaskID, NEW w \in Worker, st.tasks[t].status = "leased"
    PROVE  LET new == CompleteTaskOnce(st, t, w).state IN SagaStep(new, st) /\ Started(new)
<1> DEFINE e == TaskEvent("task.completed", t, w)
           l == Mutate(Emit(Loaded(st), e), {t})
           new == CompleteTaskOnce(st, t, w).state
<1>1. Loaded(st) \in Batch /\ Loaded(st).state = st
  BY LoadedType DEF Loaded
<1>2. Emit(Loaded(st), e) \in Batch /\ l \in Batch
  BY <1>1, EmitTaskEventType, MutateType
<1>3. l.state = ApplyTaskCompleted(st, t, w)
  BY <1>1, <1>2, BatchEffect, TaskEventDispatch
<1>4. new = PostProcess(l).state
  BY DEF CompleteTaskOnce
<1>5. Open(st.tasks[t].status) /\ Marked(st)
  BY DEF Open, Consistent, Marked
<1>6. Consistent(new) /\ StatusInv(new)
  BY <1>5, CompleteTaskSound DEF Sound
<1>7. \A x \in TaskID \ {t} : new.tasks[x] = st.tasks[x] \/ st.tasks[x].status = "none"
  <2> DEFINE task == Reported(st.tasks[t], "completed", w)
  <2>1. TaskBecomes(new, st, t, task)
    BY <1>5, CompleteTaskRows
  <2> HIDE DEF task, new
  <2> QED BY <2>1 DEF TaskBecomes
<1> HIDE DEF l, new
<1>8. Noted(l.state, st, t)
  BY <1>3, CompletionNoted
<1>9. \A x \in TaskID \ {t} : l.state.tasks[x] = st.tasks[x]
  BY <1>3, ReportEffect DEF TaskReported
<1>10. CASE IsForward(t)
  <2>1. StepCompleted(new, st, StepOf(t)) /\ Started(new)
    BY <1>2, <1>4, <1>5, <1>6, <1>7, <1>8, <1>9, <1>10, ForwardCompletes
  <2> QED BY <2>1, TaskIDFacts DEF SagaStep, new
<1>11. CASE ~IsForward(t)
  <2>1. (StepUndone(new, st) \/ Unmoved(new, st)) /\ Started(new)
    BY <1>2, <1>4, <1>5, <1>8, <1>11, CompensationCompletes
  <2> QED BY <2>1 DEF SagaStep, new
<1> QED BY <1>10, <1>11

LEMMA FireTimerMoves ==
    ASSUME NEW st \in RunState, Consistent(st), StatusInv(st), Started(st),
           NEW t \in TaskID, IsTimer(t), st.tasks[t].status = "available"
    PROVE  LET new == FireTimerOnce(st, t).state IN SagaStep(new, st) /\ Started(new)
<1> DEFINE e == TaskEvent("timer.fired", t, None)
           l == Mutate(Emit(Loaded(st), e), {t})
           new == FireTimerOnce(st, t).state
<1>1. Loaded(st) \in Batch /\ Loaded(st).state = st
  BY LoadedType DEF Loaded
<1>2. Emit(Loaded(st), e) \in Batch /\ l \in Batch
  BY <1>1, EmitTaskEventType, MutateType
<1>3. l.state = ApplyTimerFired(st, t)
  BY <1>1, <1>2, BatchEffect, TaskEventDispatch
<1>4. new = PostProcess(l).state
  BY DEF FireTimerOnce
<1>5. Open(st.tasks[t].status) /\ Marked(st) /\ IsForward(t)
  BY DEF Open, Consistent, Marked, IsTimer
<1>6. Consistent(new) /\ StatusInv(new)
  BY <1>5, FireTimerSound DEF Sound
<1>7. \A x \in TaskID \ {t} : new.tasks[x] = st.tasks[x] \/ st.tasks[x].status = "none"
  <2> DEFINE task == [st.tasks[t] EXCEPT !.status = "completed"]
  <2>1. TaskBecomes(new, st, t, task)
    BY <1>5, FireTimerRows
  <2> HIDE DEF task, new
  <2> QED BY <2>1 DEF TaskBecomes, Fresh
<1> HIDE DEF l, new
<1>8. Noted(l.state, st, t)
  BY <1>3, <1>5, CompletionNoted
<1>9. \A x \in TaskID \ {t} : l.state.tasks[x] = st.tasks[x]
  BY <1>3, ReportEffect DEF TaskReported
<1>10. StepCompleted(new, st, StepOf(t)) /\ Started(new)
  BY <1>2, <1>4, <1>5, <1>6, <1>7, <1>8, <1>9, ForwardCompletes
<1> QED BY <1>10, TaskIDFacts DEF SagaStep, new

\* A failure that can be retried moves nothing; another one unwinds the run.
LEMMA FailTaskMoves ==
    ASSUME NEW st \in RunState, Consistent(st), StatusInv(st), Started(st),
           NEW t \in TaskID, NEW w \in Worker \cup {None}, NEW retryable \in BOOLEAN,
           st.tasks[t].status = "leased"
    PROVE  LET new == FailTaskOnce(st, t, w, retryable).state IN
           SagaStep(new, st) /\ Started(new)
<1> DEFINE e == TaskEvent("task.failed", t, w)
           failed == Mutate(Emit(Loaded(st), e), {t})
           n == st.tasks[t].attempt + 1
           task == [st.tasks[t] EXCEPT !.status = "failed", !.owner = w]
           again == [status |-> "available", attempt |-> n, owner |-> None]
           retried == Emit(failed, RetryEvent(t, n))
           ended == [failed EXCEPT !.state.failure = t]
<1>1. Loaded(st) \in Batch /\ Loaded(st).state = st
  BY LoadedType DEF Loaded
<1>2. Emit(Loaded(st), e) \in Batch /\ failed \in Batch /\ failed.state \in RunState
  BY <1>1, EmitTaskEventType, MutateType DEF Batch
<1>3. failed.state = SetTask(st, t, task)
  <2>1. failed.state = ApplyTaskFailed(st, t, w)
    BY <1>1, <1>2, BatchEffect, TaskEventDispatch
  <2> QED BY <2>1 DEF ApplyTaskFailed
<1>4. FailTaskOnce(st, t, w, retryable) =
        IF CanRetry(st, t, retryable) THEN retried ELSE BeginCompensationOrFinish(ended)
  BY DEF FailTaskOnce
<1>5. task \in TaskState /\ again \in TaskState
  <2>1. st.tasks[t] \in TaskState
    BY DEF RunState
  <2>2. n \in Nat
    BY <2>1 DEF TaskState
  <2>3. "failed" \in TaskStatus /\ "available" \in TaskStatus
    BY DEF TaskStatus
  <2>4. task \in TaskState
    BY <2>1, <2>3, TaskUpdate
  <2> HIDE DEF n
  <2>5. again \in TaskState
    BY <2>2, <2>3 DEF TaskState
  <2> QED BY <2>4, <2>5
<1>6. retried.state = SetTask(failed.state, t, again)
  BY <1>2, BatchEffect, RetryEventDispatch DEF ApplyTaskRetryScheduled
<1>7. /\ ended \in Batch
      /\ SameMarks(ended.state, failed.state)
  BY <1>2 DEF Batch, RunState, Failure, SameMarks
<1> HIDE DEF failed, task, again, retried, ended
<1>8. SameMarks(failed.state, st) /\ SameMarks(retried.state, failed.state)
  BY <1>2, <1>3, <1>5, <1>6, SetTaskEffect
<1>9. CASE CanRetry(st, t, retryable)
  <2>1. Unmoved(retried.state, st) /\ Started(retried.state)
    BY <1>8 DEF SameMarks, Unmoved, SameRun, Started
  <2> QED BY <1>4, <1>9, <2>1 DEF SagaStep
<1>10. CASE ~CanRetry(st, t, retryable)
  <2> DEFINE new == BeginCompensationOrFinish(ended).state
  <2>1. SameMarks(ended.state, st)
    BY <1>7, <1>8 DEF SameMarks
  <2>2. ended.state.compCompleted \subseteq ended.state.compScheduled
    <3>1. st.compCompleted \subseteq Step
      BY DEF RunState
    <3>2. st.compCompleted \subseteq st.compScheduled
      BY <3>1 DEF Consistent
    <3> QED BY <2>1, <3>2 DEF SameMarks
  <2>3. \/ Undid(new, ended.state) /\ new.status = "compensating" /\ new.compScheduled # {}
        \/ Stopped(new, ended.state)
    BY <1>7, <2>2, BeginCompensationUnwinds
  <2>4. st.status \in {"running", "compensating", "failed"}
    BY OpenTaskFacts DEF Open
  <2>5. FailTaskOnce(st, t, w, retryable).state = new
    BY <1>4, <1>10
  <2> HIDE DEF new
  <2>6. CASE Undid(new, ended.state) /\ new.status = "compensating" /\ new.compScheduled # {}
    BY <2>1, <2>4, <2>5, <2>6 DEF SameMarks, Undid, SameRun, RunFailed, SagaStep, Started
  <2>7. CASE Stopped(new, ended.state)
    BY <2>1, <2>4, <2>5, <2>7 DEF SameMarks, Stopped, SameRun, RunFailed, SagaStep, Started
  <2> QED BY <2>3, <2>6, <2>7
<1> QED BY <1>9, <1>10

LEMMA CancelRunMoves ==
    ASSUME NEW st \in RunState, Consistent(st), StatusInv(st), Started(st), ~Terminal(st.status)
    PROVE  LET new == CancelRunOnce(st).state IN SagaStep(new, st) /\ Started(new)
<1> DEFINE requested == Emit(Loaded(st), RunEvent("run.cancel_requested", None))
           open == {t \in TaskID : Open(st.tasks[t].status)}
           l == CancelTasks(requested, open)
           new == CancelRunOnce(st).state
<1>1. Loaded(st) \in Batch /\ Loaded(st).state = st /\ None \in Failure
  BY LoadedType DEF Loaded, Failure
<1>2. requested \in Batch
  BY <1>1, EmitRunEventType DEF RunEventType
<1>3. requested.state = ApplyRunCancelRequested(st)
  BY <1>1, BatchEffect, RunEventDispatch
<1>4. l \in Batch /\ requested.state \in RunState
  BY <1>2, CancelTasksType DEF Batch
<1>5. l.state = ApplyTasksCancelled(requested.state, open)
  BY <1>2, BatchEffect
<1>6. new = BeginCompensationOrFinish(l).state
  BY DEF CancelRunOnce
<1>7. RunCancelling(requested.state, st)
  BY <1>1, <1>3, RunEventEffect
<1>8. open \in SUBSET TaskID
  OBVIOUS
<1> HIDE DEF requested, open, l, new
<1>9. SameMarks(l.state, requested.state)
  <2>1. JustCancelled(l.state, requested.state, open)
    BY <1>4, <1>5, <1>8, CancelledEffect
  <2> QED BY <2>1 DEF JustCancelled
<1>10. /\ l.state.cancelRequested
       /\ l.state.compensating = st.compensating
       /\ l.state.completedOrder = st.completedOrder
       /\ l.state.compScheduled = st.compScheduled
       /\ l.state.compCompleted = st.compCompleted
  BY <1>7, <1>9 DEF RunCancelling, SameTasks, SameMarks
<1>11. l.state.compCompleted \subseteq l.state.compScheduled
  <2>1. st.compCompleted \subseteq Step
    BY DEF RunState
  <2>2. st.compCompleted \subseteq st.compScheduled
    BY <2>1 DEF Consistent
  <2> QED BY <1>10, <2>2
<1>12. \/ Undid(new, l.state) /\ new.status = "compensating" /\ new.compScheduled # {}
       \/ Stopped(new, l.state)
  BY <1>4, <1>6, <1>11, BeginCompensationUnwinds
<1>13. st.status \in {"running", "compensating"}
  BY DEF Terminal, RunState, RunStatus, StatusInv
<1>14. CASE Undid(new, l.state) /\ new.status = "compensating" /\ new.compScheduled # {}
  BY <1>10, <1>13, <1>14 DEF Undid, SameRun, RunCancelled, SagaStep, Started, new
<1>15. CASE Stopped(new, l.state)
  BY <1>10, <1>13, <1>15 DEF Stopped, SameRun, RunCancelled, SagaStep, Started, new
<1> QED BY <1>12, <1>14, <1>15
-----------------------------------------------------------------------------
(***************************************************************************)
(* The steps of a run.                                                     *)
(***************************************************************************)
\* The compensation marks of the state are the compensations in the rows.
LEMMA UndoingIsMarked ==
    ASSUME NEW st \in RunState, Consistent(st), NEW r,
           \A t \in TaskID : r[t] = UpdateTaskRecord(st.tasks[t])
    PROVE  {s \in Step : r[Compensation(s)].status # "none"} = st.compScheduled
<1>1. ASSUME NEW s \in Step
      PROVE  s \in st.compScheduled <=> r[Compensation(s)].status # "none"
  <2>1. Compensation(s) \in TaskID /\ st.tasks[Compensation(s)] \in TaskState
    BY TaskIDFacts DEF RunState
  <2>2. r[Compensation(s)].status = CompensationStatus(st, s)
    BY <2>1, RowOf DEF CompensationStatus
  <2> QED BY <2>2 DEF Consistent
<1>2. st.compScheduled \subseteq Step
  BY DEF RunState
<1> QED BY <1>1, <1>2

LEMMA CommitMoves ==
    ASSUME TypeOK, NEW cmd \in Batch, AppendRunChanges(cmd),
           SagaStep(cmd.state, state), Started(cmd.state)
    PROVE  SagaStep(state', state) /\ Started(state')
<1>1. state' = Reload(cmd.state) /\ cmd.state \in RunState
  BY DEF AppendRunChanges, Batch
<1>2. /\ state'.status = cmd.state.status
      /\ state'.completedOrder = cmd.state.completedOrder
      /\ state'.compScheduled = cmd.state.compScheduled
      /\ state'.cancelRequested = cmd.state.cancelRequested
      /\ state'.compensating = cmd.state.compensating
  BY <1>1 DEF Reload, RunState
<1>3. Started(state')
  BY <1>2 DEF Started
<1>4. ASSUME NEW s \in Step, StepCompleted(cmd.state, state, s)
      PROVE  StepCompleted(state', state, s)
  BY <1>2, <1>4 DEF StepCompleted
<1>5. RunFailed(cmd.state, state) => RunFailed(state', state)
  BY <1>2 DEF RunFailed, Undid, Stopped, SameRun
<1>6. StepUndone(cmd.state, state) => StepUndone(state', state)
  BY <1>2 DEF StepUndone, Undid, Stopped, SameRun
<1>7. RunCancelled(cmd.state, state) => RunCancelled(state', state)
  BY <1>2 DEF RunCancelled
<1>8. Unmoved(cmd.state, state) => Unmoved(state', state)
  BY <1>2 DEF Unmoved, SameRun
<1> QED BY <1>3, <1>4, <1>5, <1>6, <1>7, <1>8 DEF SagaStep

LEMMA RunMoves ==
    ASSUME IInv, Started(state), [Next]_vars
    PROVE  SagaStep(state', state) /\ Started(state')
<1>1. TypeOK /\ state \in RunState /\ Consistent(state) /\ StatusInv(state)
  BY DEF IInv, TypeOK
<1>2. SameMarks(state', state) => SagaStep(state', state) /\ Started(state')
  BY DEF SameMarks, SagaStep, Unmoved, SameRun, Started
<1>3. ASSUME NEW w \in Worker, NEW t \in TaskID, LeaseTask(w, t)
      PROVE  SameMarks(state', state)
  <2> DEFINE task == [state.tasks[t] EXCEPT !.status = "leased", !.owner = w]
  <2>1. task \in TaskState
    <3>1. state.tasks[t] \in TaskState /\ "leased" \in TaskStatus
      BY <1>1 DEF RunState, TaskStatus
    <3> QED BY <3>1, TaskUpdate
  <2>2. state' = SetTask(state, t, task)
    <3>1. state' = ApplyTaskLeased(state, t, w)
      BY <1>3, TaskEventDispatch DEF LeaseTask
    <3> QED BY <3>1 DEF ApplyTaskLeased
  <2> HIDE DEF task
  <2> QED BY <1>1, <2>1, <2>2, SetTaskEffect
<1>4. ASSUME NEW w \in Worker, NEW t \in TaskID, HeartbeatTask(w, t)
      PROVE  SameMarks(state', state)
  <2>1. state' = ApplyTaskHeartbeat(state, t, w)
    BY <1>4, TaskEventDispatch DEF HeartbeatTask
  <2> QED BY <1>1, <2>1 DEF ApplyTaskHeartbeat, RunState, SameMarks
<1>5. ASSUME NEW w \in Worker, NEW t \in TaskID, CompleteTask(w, t)
      PROVE  SagaStep(state', state) /\ Started(state')
  BY <1>1, <1>5, CompleteTaskType, CompleteTaskMoves, CommitMoves DEF CompleteTask, Holds
<1>6. ASSUME NEW w \in Worker, NEW t \in TaskID, FailTask(w, t)
      PROVE  SagaStep(state', state) /\ Started(state')
  BY <1>1, <1>6, FailTaskType, FailTaskMoves, CommitMoves DEF FailTask, Holds
<1>7. ASSUME NEW t \in TaskID, FireTimer(t)
      PROVE  SagaStep(state', state) /\ Started(state')
  BY <1>1, <1>7, FireTimerType, FireTimerMoves, CommitMoves DEF FireTimer
<1>8. ASSUME CancelRun
      PROVE  SagaStep(state', state) /\ Started(state')
  <2>1. ~Terminal(state.status)
    BY <1>8, RowStatus DEF CancelRun
  <2> QED BY <1>1, <1>8, <2>1, CancelRunType, CancelRunMoves, CommitMoves DEF CancelRun
<1>9. ASSUME FailExpiredLease
      PROVE  SagaStep(state', state) /\ Started(state')
  <2>1. CASE Holds(state, sweep.task, sweep.owner)
    <3>1. sweep.task \in TaskID /\ sweep.owner \in Worker \cup {None}
      BY <1>1, <1>9 DEF FailExpiredLease, TypeOK
    <3>2. state.tasks[sweep.task].status = "leased"
      BY <2>1 DEF Holds
    <3>3. AppendRunChanges(FailTaskOnce(state, sweep.task, sweep.owner, TRUE))
      BY <1>9, <2>1 DEF FailExpiredLease
    <3> QED BY <1>1, <3>1, <3>2, <3>3, FailTaskType, FailTaskMoves, CommitMoves
  <2>2. CASE ~Holds(state, sweep.task, sweep.owner)
    BY <1>2, <1>9, <2>2 DEF FailExpiredLease, SameMarks
  <2> QED BY <2>1, <2>2
<1>10. ASSUME UNCHANGED state PROVE SameMarks(state', state)
  BY <1>10 DEF SameMarks
<1>11. ASSUME NEW t \in TaskID, RecoverExpiredLease(t) \/ Tick(t) PROVE UNCHANGED state
  BY <1>11 DEF RecoverExpiredLease, Tick
<1>12. Restart \/ UNCHANGED vars => UNCHANGED state
  BY DEF Restart, vars
<1> QED BY <1>2, <1>3, <1>4, <1>5, <1>6, <1>7, <1>8, <1>9, <1>10, <1>11, <1>12 DEF Next

\* The steps, in the words of Saga.
LEMMA SagaView ==
    ASSUME TypeOK, ViewsAgree, Consistent(state), TypeOK', ViewsAgree', Consistent(state')
    PROVE  /\ run.status = state.status /\ run'.status = state'.status
           /\ Undoing = state.compScheduled /\ Undoing' = state'.compScheduled
<1>1. run.status = state.status /\ run'.status = state'.status
  BY DEF ViewsAgree
<1>2. state \in RunState /\ state' \in RunState
  BY DEF TypeOK
<1>3. Undoing = state.compScheduled
  BY <1>2, UndoingIsMarked DEF Undoing, ViewsAgree
<1>4. Undoing' = state'.compScheduled
  <2>1. \A t \in TaskID : rows'[t] = UpdateTaskRecord(state'.tasks[t])
    BY DEF ViewsAgree
  <2> QED BY <1>2, <2>1, UndoingIsMarked DEF Undoing
<1> QED BY <1>1, <1>3, <1>4

LEMMA SagaMoves ==
    ASSUME /\ run.status = state.status
           /\ run'.status = state'.status
           /\ Undoing = state.compScheduled
           /\ Undoing' = state'.compScheduled,
           SagaStep(state', state)
    PROVE  [RunSaga!Next]_(RunSaga!vars)
<1>1. ASSUME NEW order PROVE RunSaga!ToSet(order) = ToSet(order)
  BY DEF RunSaga!ToSet, ToSet
<1>2. ASSUME NEW order PROVE RunSaga!ToUndo(order) = Left(order, state.compScheduled)
  BY DEF RunSaga!ToUndo, Left
<1>3. ASSUME NEW order, Began(order, state.compScheduled, state'.compScheduled)
      PROVE  RunSaga!Undo(order)
  BY <1>2, <1>3 DEF RunSaga!Undo, Began
<1>4. ASSUME Undid(state', state)
      PROVE  /\ RunSaga!Undo(state.completedOrder)
             /\ state'.completedOrder = state.completedOrder
             /\ state'.cancelRequested = state.cancelRequested
  BY <1>3, <1>4 DEF Undid, SameRun
<1>5. ASSUME Stopped(state', state)
      PROVE  /\ RunSaga!Stop(state.completedOrder)
             /\ state'.completedOrder = state.completedOrder
             /\ state'.cancelRequested = state.cancelRequested
  BY <1>2, <1>5 DEF RunSaga!Stop, Stopped, SameRun
<1>6. ASSUME NEW s \in Step, StepCompleted(state', state, s)
      PROVE  RunSaga!Complete(s)
  BY <1>1, <1>3, <1>6 DEF RunSaga!Complete, StepCompleted
<1>7. RunFailed(state', state) => RunSaga!Fail
  BY <1>4, <1>5 DEF RunSaga!Fail, RunSaga!Unwind, RunFailed
<1>8. StepUndone(state', state) => RunSaga!Undone
  BY <1>4, <1>5 DEF RunSaga!Undone, StepUndone
<1>9. RunCancelled(state', state) => RunSaga!Cancel
  BY <1>2, <1>3 DEF RunSaga!Cancel, RunSaga!Unwind, RunSaga!Stop, RunCancelled
<1>10. Unmoved(state', state) => UNCHANGED RunSaga!vars
  BY DEF Unmoved, SameRun, RunSaga!vars
<1> QED BY <1>6, <1>7, <1>8, <1>9, <1>10 DEF SagaStep, RunSaga!Next

\* A new run has nothing behind it.
LEMMA FirstState ==
    ASSUME Init
    PROVE  /\ RunSaga!Init
           /\ Started(state)
<1> DEFINE l == Emit(Loaded(InitialState(None)), RunEvent("workflow.started", None))
           T == {Forward(s) : s \in ReadySteps(l.state)}
<1>1. InitialState(None) \in RunState /\ None \in Failure
  BY InitialStateType DEF Failure
<1>2. Loaded(InitialState(None)) \in Batch
  BY <1>1, LoadedType
<1>3. l \in Batch
  BY <1>1, <1>2, EmitRunEventType DEF RunEventType
<1>4. l.state = ApplyWorkflowStarted(InitialState(None))
  BY <1>2, BatchEffect, RunEventDispatch DEF Loaded
<1>5. StartRun.state = ApplyTasksScheduled(l.state, T)
  BY <1>3, BatchEffect DEF StartRun, ScheduleForwardReady
<1>6. T \in SUBSET TaskID /\ l.state \in RunState
  BY <1>3, TaskIDFacts DEF ReadySteps, Batch
<1>7. {s \in Step : Compensation(s) \in T} = {}
  BY TaskIDFacts DEF ReadySteps
<1>8. /\ l.state.status = "running"
      /\ l.state.completedOrder = <<>>
      /\ l.state.compScheduled = {}
      /\ l.state.cancelRequested = FALSE
      /\ l.state.compensating = FALSE
  BY <1>4 DEF ApplyWorkflowStarted, InitialState
<1> HIDE DEF l, T
<1>9. JustScheduled(StartRun.state, l.state, T)
  BY <1>5, <1>6, ScheduledEffect
<1>10. /\ state.status = "running"
       /\ state.completedOrder = <<>>
       /\ state.compScheduled = {}
       /\ state.cancelRequested = FALSE
       /\ state.compensating = FALSE
  BY <1>7, <1>8, <1>9 DEF JustScheduled, Init
<1>11. TypeOK /\ ViewsAgree /\ Consistent(state)
  BY InitInvariant DEF IInv
<1>12. run.status = state.status /\ Undoing = state.compScheduled
  BY <1>11, UndoingIsMarked DEF TypeOK, ViewsAgree, Undoing
<1> QED BY <1>10, <1>12 DEF RunSaga!Init, Started

(***************************************************************************)
(* A run implements Saga: whatever report, sweep, timer or cancellation    *)
(* commits, the run as a whole does only what Saga allows.                 *)
(***************************************************************************)
THEOREM RunImplementsSaga == Spec => ImplementsSaga
<1>1. Init => RunSaga!Init /\ Started(state)
  BY FirstState
<1>2. IInv /\ Started(state) /\ [Next]_vars => Started(state)'
  BY RunMoves
<1>3. IInv /\ IInv' /\ Started(state) /\ [Next]_vars => [RunSaga!Next]_(RunSaga!vars)
  <2> SUFFICES ASSUME IInv, IInv', Started(state), [Next]_vars
               PROVE  [RunSaga!Next]_(RunSaga!vars)
    OBVIOUS
  <2>1. SagaStep(state', state)
    BY RunMoves
  <2>2. /\ TypeOK /\ ViewsAgree /\ Consistent(state)
        /\ TypeOK' /\ ViewsAgree' /\ Consistent(state')
    BY DEF IInv
  <2> QED BY <2>1, <2>2, SagaView, SagaMoves
<1>4. Spec => []Started(state)
  BY <1>1, <1>2, Invariant, PTL DEF Spec
<1> QED BY <1>1, <1>3, <1>4, Invariant, PTL DEF Spec, ImplementsSaga, RunSaga!Spec
=============================================================================
