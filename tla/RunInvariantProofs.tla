------------------------- MODULE RunInvariantProofs -------------------------
(***************************************************************************)
(* A run is well typed and the invariant of RunInvariant is inductive, for *)
(* every workflow, every set of workers and any number of heartbeats.      *)
(***************************************************************************)
EXTENDS RunInvariant, SequenceTheorems, FiniteSetTheorems, TLAPS

-----------------------------------------------------------------------------
(***************************************************************************)
(* Facts about the reducer and the engine's commands: each event type      *)
(* keeps the state well typed, and a command on a well typed state makes a *)
(* well typed batch.                                                       *)
(***************************************************************************)
\* Both phases of a step are tasks, and a task is one of the two.
LEMMA TaskIDFacts ==
    /\ \A s \in Step : Forward(s) \in TaskID /\ Compensation(s) \in TaskID
    /\ \A s \in Step : StepOf(Forward(s)) = s /\ StepOf(Compensation(s)) = s
    /\ \A s \in Step : IsForward(Forward(s)) /\ ~IsForward(Compensation(s))
    /\ \A t \in TaskID : StepOf(t) \in Step
    /\ \A t \in TaskID : IsForward(t) => t = Forward(StepOf(t))
    /\ \A t \in TaskID : ~IsForward(t) => t = Compensation(StepOf(t))
  BY DEF TaskID, Phase, Forward, Compensation, StepOf, IsForward

\* Replacing one task keeps a state well typed.
LEMMA SetTaskType ==
    ASSUME NEW st \in RunState, NEW t \in TaskID, NEW task \in TaskState
    PROVE  SetTask(st, t, task) \in RunState
  BY DEF SetTask, SetForward, RunState, TaskState

\* task.scheduled, for any number of tasks.
LEMMA ScheduledType ==
    ASSUME NEW st \in RunState, NEW T \in SUBSET TaskID
    PROVE  ApplyTasksScheduled(st, T) \in RunState
<1> DEFINE tasks == [t \in TaskID |->
                       IF t \in T THEN [status |-> "available", attempt |-> 1, owner |-> None]
                                  ELSE st.tasks[t]]
           forward == SetForward(st.forward, T, "available")
<1>1. tasks \in [TaskID -> TaskState]
  BY DEF RunState, TaskState, TaskStatus
<1>2. forward \in [Step -> TaskStatus]
  BY DEF SetForward, RunState, TaskStatus
<1> HIDE DEF tasks, forward
<1>3. [st EXCEPT !.tasks = tasks, !.forward = forward,
                 !.compScheduled = @ \cup {s \in Step : Compensation(s) \in T}] \in RunState
  BY <1>1, <1>2 DEF RunState
<1> QED BY <1>3 DEF ApplyTasksScheduled, tasks, forward

\* task.cancelled, for any number of tasks.
LEMMA CancelledType ==
    ASSUME NEW st \in RunState, NEW T \in SUBSET TaskID
    PROVE  ApplyTasksCancelled(st, T) \in RunState
<1> DEFINE tasks == [t \in TaskID |->
                       IF t \in T THEN [st.tasks[t] EXCEPT !.status = "cancelled", !.owner = None]
                                  ELSE st.tasks[t]]
           forward == SetForward(st.forward, T, "cancelled")
<1>1. tasks \in [TaskID -> TaskState]
  <2>1. \A t \in TaskID : st.tasks[t] \in TaskState
    BY DEF RunState
  <2> QED BY <2>1 DEF TaskState, TaskStatus
<1>2. forward \in [Step -> TaskStatus]
  BY DEF SetForward, RunState, TaskStatus
<1> HIDE DEF tasks, forward
<1>3. [st EXCEPT !.tasks = tasks, !.forward = forward] \in RunState
  BY <1>1, <1>2 DEF RunState
<1> QED BY <1>3 DEF ApplyTasksCancelled, tasks, forward

\* A recorded output.
LEMMA RecordOutputType ==
    ASSUME NEW st \in RunState, NEW s \in Step
    PROVE  RecordOutput(st, s) \in RunState
<1> DEFINE order == IF s \in ToSet(st.completedOrder) THEN st.completedOrder
                                                      ELSE Append(st.completedOrder, s)
<1>1. st.completedOrder \in Seq(Step)
  BY DEF RunState
<1>2. order \in Seq(Step)
  BY <1>1, AppendProperties
<1> HIDE DEF order
<1>3. [st EXCEPT !.outputs = @ \cup {s}, !.completedOrder = order] \in RunState
  BY <1>2 DEF RunState
<1> QED BY <1>3 DEF RecordOutput, order

\* The events of a worker about a task.
LEMMA TaskReportType ==
    ASSUME NEW st \in RunState, NEW t \in TaskID, NEW w \in Worker \cup {None}
    PROVE  /\ ApplyTaskLeased(st, t, w) \in RunState
           /\ ApplyTaskHeartbeat(st, t, w) \in RunState
           /\ ApplyTaskCompleted(st, t, w) \in RunState
           /\ ApplyTaskFailed(st, t, w) \in RunState
           /\ ApplyTimerFired(st, t) \in RunState
<1>1. st.tasks[t] \in TaskState
  BY DEF RunState
<1>2. \A x \in TaskStatus : /\ [st.tasks[t] EXCEPT !.status = x] \in TaskState
                            /\ [st.tasks[t] EXCEPT !.status = x, !.owner = w] \in TaskState
  BY <1>1 DEF TaskState
<1>3. StepOf(t) \in Step
  BY TaskIDFacts
<1>4. ApplyTaskLeased(st, t, w) \in RunState
  BY <1>2, SetTaskType DEF ApplyTaskLeased, TaskStatus
<1>5. ApplyTaskHeartbeat(st, t, w) \in RunState
  BY <1>1 DEF ApplyTaskHeartbeat, RunState, TaskState
<1>6. ApplyTaskCompleted(st, t, w) \in RunState
  <2> DEFINE done == SetTask(st, t, [st.tasks[t] EXCEPT !.status = "completed", !.owner = w])
  <2>1. done \in RunState
    BY <1>2, SetTaskType DEF TaskStatus
  <2> HIDE DEF done
  <2>2. RecordOutput(done, StepOf(t)) \in RunState
    BY <2>1, <1>3, RecordOutputType
  <2>3. [done EXCEPT !.compCompleted = @ \cup {StepOf(t)}] \in RunState
    BY <2>1, <1>3 DEF RunState
  <2> QED BY <2>2, <2>3 DEF ApplyTaskCompleted, done
<1>7. ApplyTaskFailed(st, t, w) \in RunState
  BY <1>2, SetTaskType DEF ApplyTaskFailed, TaskStatus
<1>8. ApplyTimerFired(st, t) \in RunState
  BY <1>2, <1>3, SetTaskType, RecordOutputType DEF ApplyTimerFired, TaskStatus
<1> QED BY <1>4, <1>5, <1>6, <1>7, <1>8

\* A retry, with its attempt.
LEMMA RetryType ==
    ASSUME NEW st \in RunState, NEW t \in TaskID, NEW n \in Nat
    PROVE  ApplyTaskRetryScheduled(st, t, n) \in RunState
<1>1. [status |-> "available", attempt |-> n, owner |-> None] \in TaskState
  BY DEF TaskState, TaskStatus
<1> QED BY <1>1, SetTaskType DEF ApplyTaskRetryScheduled

\* The events about the run itself.
LEMMA RunEventStateType ==
    ASSUME NEW st \in RunState, NEW f \in Failure
    PROVE  /\ ApplyWorkflowStarted(st) \in RunState
           /\ ApplyRunCancelRequested(st) \in RunState
           /\ ApplyRunCompensating(st, f) \in RunState
           /\ ApplyRunFailed(st, f) \in RunState
           /\ Finish(st, "completed") \in RunState
           /\ Finish(st, "cancelled") \in RunState
  BY DEF ApplyWorkflowStarted, ApplyRunCancelRequested, ApplyRunCompensating,
         ApplyRunFailed, Finish, RunState, RunStatus

\* The state that a replay starts from.
LEMMA InitialStateType ==
    ASSUME NEW f \in Failure
    PROVE  InitialState(f) \in RunState
  BY DEF InitialState, RunState, RunStatus, TaskState, TaskStatus, NoTask, Failure
\* ApplyEvent finds the operator of each event type.
LEMMA TaskEventDispatch ==
    \A st, t, w :
      /\ ApplyEvent(st, TaskEvent("task.leased", t, w)) = ApplyTaskLeased(st, t, w)
      /\ ApplyEvent(st, TaskEvent("task.heartbeat", t, w)) = ApplyTaskHeartbeat(st, t, w)
      /\ ApplyEvent(st, TaskEvent("task.completed", t, w)) = ApplyTaskCompleted(st, t, w)
      /\ ApplyEvent(st, TaskEvent("task.failed", t, w)) = ApplyTaskFailed(st, t, w)
      /\ ApplyEvent(st, TaskEvent("timer.fired", t, w)) = ApplyTimerFired(st, t)
  BY DEF ApplyEvent, TaskEvent

LEMMA RetryEventDispatch ==
    \A st, t, n : ApplyEvent(st, RetryEvent(t, n)) = ApplyTaskRetryScheduled(st, t, n)
  BY DEF ApplyEvent, RetryEvent

LEMMA RunEventDispatch ==
    \A st, f :
      /\ ApplyEvent(st, RunEvent("workflow.started", f)) = ApplyWorkflowStarted(st)
      /\ ApplyEvent(st, RunEvent("run.cancel_requested", f)) = ApplyRunCancelRequested(st)
      /\ ApplyEvent(st, RunEvent("run.compensating", f)) = ApplyRunCompensating(st, f)
      /\ ApplyEvent(st, RunEvent("run.completed", f)) = Finish(st, "completed")
      /\ ApplyEvent(st, RunEvent("run.failed", f)) = ApplyRunFailed(st, f)
      /\ ApplyEvent(st, RunEvent("run.cancelled", f)) = Finish(st, "cancelled")
  BY DEF ApplyEvent, RunEvent

-----------------------------------------------------------------------------
\* A batch under construction.
Batch == [state : RunState, events : Seq(Event), mutated : SUBSET TaskID]

-----------------------------------------------------------------------------
\* A workflow has finitely many tasks.
LEMMA TasksFinite == IsFiniteSet(TaskID)
<1>1. IsFiniteSet(Phase)
  <2>1. IsFiniteSet({"forward"} \cup {"compensation"})
    BY FS_Singleton, FS_Union
  <2>2. Phase = {"forward"} \cup {"compensation"}
    BY DEF Phase
  <2> QED BY <2>1, <2>2
<1>2. IsFiniteSet(Step)
  BY WorkflowAssumption
<1> QED BY <1>1, <1>2, FS_Product DEF TaskID

\* The events of one command for a set of tasks.
LEMMA TaskEventsType ==
    ASSUME NEW T \in SUBSET TaskID, NEW type \in TaskEventType
    PROVE  TaskEvents(type, T) \in Seq(Event)
<1>1. IsFiniteSet(T)
  BY TasksFinite, FS_Subset
<1>2. Cardinality(T) \in Nat /\ ExistsBijection(1..Cardinality(T), T)
  BY <1>1, FS_CardinalityType
<1>3. \E f \in [1..Cardinality(T) -> T] : IsInjective(f)
  BY <1>2 DEF ExistsBijection, Bijection, Injection
<1>4. SetToSeq(T) \in [1..Cardinality(T) -> T]
  BY <1>3 DEF SetToSeq
<1> DEFINE q == SetToSeq(T)
           es == [i \in DOMAIN q |-> TaskEvent(type, q[i], None)]
<1>5. \A i \in 1..Cardinality(T) : q[i] \in TaskID
  BY <1>4
<1>6. \A t \in TaskID : TaskEvent(type, t, None) \in Event
  BY DEF TaskEvent, Event, Failure
<1>7. es \in [1..Cardinality(T) -> Event]
  BY <1>4, <1>5, <1>6
<1>8. es \in Seq(Event)
  BY <1>2, <1>7, IsASeq
<1> QED BY <1>8 DEF TaskEvents

\* A non-empty set of positions has a last one.
LEMMA LastPosition ==
    ASSUME NEW n \in Nat, NEW S \in SUBSET (1..n), S # {}
    PROVE  \E i \in S : \A j \in S : j <= i
<1> DEFINE M == {n - i : i \in S}
           R == {p \in Nat \X Nat : p[1] < p[2]}
<1>1. M \subseteq Nat /\ M # {}
  <2>1. \A i \in S : i \in 1..n /\ n - i \in Nat
    OBVIOUS
  <2> QED BY <2>1
<1>2. IsWellFoundedOn(R, Nat)
  BY NatLessThanWellFounded DEF OpToRel
<1>3. PICK m \in M : \A k \in M : ~(<<k, m>> \in R)
  <2> HIDE DEF M, R
  <2> QED BY <1>1, <1>2, WFMin
<1>4. \A k \in M : m <= k
  <2>1. SUFFICES ASSUME NEW k \in M, k < m PROVE FALSE
    BY <1>1
  <2>2. k \in Nat /\ m \in Nat
    BY <1>1
  <2>3. <<k, m>> \in R
    BY <2>1, <2>2
  <2> QED BY <1>3, <2>3
<1>5. PICK i \in S : m = n - i
  OBVIOUS
<1>6. \A j \in S : j <= i
  BY <1>4, <1>5
<1> QED BY <1>6

\* The step to undo next is one that completed, is compensable and has no
\* compensation yet.
LEMMA NextCompensationStepFacts ==
    ASSUME NEW st \in RunState, Unwindable(st) # {}
    PROVE  /\ NextCompensationStep(st) \in Step
           /\ NextCompensationStep(st) \in Compensable \ (st.compScheduled \cup st.compCompleted)
           /\ \E i \in DOMAIN st.completedOrder : st.completedOrder[i] = NextCompensationStep(st)
<1>1. st.completedOrder \in Seq(Step)
  BY DEF RunState
<1>2. Len(st.completedOrder) \in Nat /\ DOMAIN st.completedOrder = 1..Len(st.completedOrder)
  BY <1>1, LenProperties
<1>3. Unwindable(st) \subseteq 1..Len(st.completedOrder)
  BY <1>2 DEF Unwindable
<1>4. \E i \in Unwindable(st) : \A j \in Unwindable(st) : j <= i
  BY <1>2, <1>3, LastPosition
<1> DEFINE i == CHOOSE i \in Unwindable(st) : \A j \in Unwindable(st) : j <= i
<1>5. i \in Unwindable(st)
  BY <1>4
<1>6. st.completedOrder[i] = NextCompensationStep(st)
  BY DEF NextCompensationStep
<1>7. st.completedOrder[i] \in Step
  BY <1>1, <1>2, <1>3, <1>5, ElementOfSeq
<1> QED BY <1>5, <1>6, <1>7 DEF Unwindable
-----------------------------------------------------------------------------
\* Every way to extend a batch keeps it well typed.
LEMMA LoadedType ==
    ASSUME NEW st \in RunState
    PROVE  Loaded(st) \in Batch
  BY EmptySeq DEF Loaded, Batch

LEMMA EmitType ==
    ASSUME NEW l \in Batch, NEW e \in Event, ApplyEvent(l.state, e) \in RunState
    PROVE  Emit(l, e) \in Batch
<1>1. Append(l.events, e) \in Seq(Event)
  BY AppendProperties DEF Batch
<1> QED BY <1>1 DEF Emit, Batch

LEMMA MutateType ==
    ASSUME NEW l \in Batch, NEW T \in SUBSET TaskID
    PROVE  Mutate(l, T) \in Batch
  BY DEF Mutate, Batch

LEMMA ScheduleTasksType ==
    ASSUME NEW l \in Batch, NEW T \in SUBSET TaskID
    PROVE  ScheduleTasks(l, T) \in Batch
<1>1. ApplyTasksScheduled(l.state, T) \in RunState
  BY ScheduledType DEF Batch
<1>2. l.events \o TaskEvents("task.scheduled", T) \in Seq(Event)
  BY TaskEventsType, ConcatProperties DEF Batch, TaskEventType
<1> DEFINE m == [l EXCEPT !.state = ApplyTasksScheduled(l.state, T),
                          !.events = l.events \o TaskEvents("task.scheduled", T)]
<1>3. m \in Batch
  BY <1>1, <1>2 DEF Batch
<1> QED BY <1>3, MutateType DEF ScheduleTasks

LEMMA CancelTasksType ==
    ASSUME NEW l \in Batch, NEW T \in SUBSET TaskID
    PROVE  CancelTasks(l, T) \in Batch
<1>1. ApplyTasksCancelled(l.state, T) \in RunState
  BY CancelledType DEF Batch
<1>2. l.events \o TaskEvents("task.cancelled", T) \in Seq(Event)
  BY TaskEventsType, ConcatProperties DEF Batch, TaskEventType
<1> DEFINE m == [l EXCEPT !.state = ApplyTasksCancelled(l.state, T),
                          !.events = l.events \o TaskEvents("task.cancelled", T)]
<1>3. m \in Batch
  BY <1>1, <1>2 DEF Batch
<1> QED BY <1>3, MutateType DEF CancelTasks

\* The decisions keep a batch well typed.
LEMMA ScheduleForwardReadyType ==
    ASSUME NEW l \in Batch
    PROVE  ScheduleForwardReady(l) \in Batch
<1>1. {Forward(s) : s \in ReadySteps(l.state)} \in SUBSET TaskID
  BY TaskIDFacts DEF ReadySteps
<1> QED BY <1>1, ScheduleTasksType DEF ScheduleForwardReady

LEMMA NewCompensationTaskType ==
    ASSUME NEW l \in Batch, Unwindable(l.state) # {}
    PROVE  NewCompensationTask(l) \in Batch
<1>1. l.state \in RunState
  BY DEF Batch
<1>2. {Compensation(NextCompensationStep(l.state))} \in SUBSET TaskID
  BY <1>1, TaskIDFacts, NextCompensationStepFacts
<1> QED BY <1>2, ScheduleTasksType DEF NewCompensationTask

LEMMA EmitRunEventType ==
    ASSUME NEW l \in Batch, NEW type \in RunEventType, NEW reason \in Failure
    PROVE  Emit(l, RunEvent(type, reason)) \in Batch
<1>1. l.state \in RunState
  BY DEF Batch
<1>2. RunEvent(type, reason) \in Event
  BY DEF RunEvent, Event, Failure
<1>3. ApplyEvent(l.state, RunEvent(type, reason)) \in RunState
  BY <1>1, RunEventStateType, RunEventDispatch DEF RunEventType
<1> QED BY <1>2, <1>3, EmitType

LEMMA FinishRunType ==
    ASSUME NEW l \in Batch
    PROVE  FinishRunWithoutCompensation(l) \in Batch
<1>1. l.state.failure \in Failure /\ None \in Failure
  BY DEF Batch, RunState, Failure
<1> QED BY <1>1, EmitRunEventType DEF FinishRunWithoutCompensation, RunEventType

LEMMA AdvanceCompensationType ==
    ASSUME NEW l \in Batch
    PROVE  AdvanceCompensation(l) \in Batch
  BY NewCompensationTaskType, FinishRunType DEF AdvanceCompensation

LEMMA BeginCompensationOrFinishType ==
    ASSUME NEW l \in Batch
    PROVE  BeginCompensationOrFinish(l) \in Batch
<1> DEFINE reason == IF l.state.cancelRequested THEN None ELSE l.state.failure
           begun == Emit(l, RunEvent("run.compensating", reason))
<1>1. reason \in Failure
  BY DEF Batch, RunState, Failure
<1>2. begun \in Batch
  BY <1>1, EmitRunEventType DEF RunEventType
<1>3. Unwindable(begun.state) = Unwindable(l.state)
  <2>1. begun.state = ApplyRunCompensating(l.state, reason)
    BY RunEventDispatch DEF Emit, Batch
  <2> QED BY <2>1 DEF Unwindable, ApplyRunCompensating, Batch, RunState
<1> HIDE DEF begun, reason
<1>4. Unwindable(l.state) # {} => NewCompensationTask(begun) \in Batch
  BY <1>2, <1>3, NewCompensationTaskType
<1> QED BY <1>4, FinishRunType DEF BeginCompensationOrFinish, begun, reason

LEMMA PostProcessType ==
    ASSUME NEW l \in Batch
    PROVE  PostProcess(l) \in Batch
<1>1. ScheduleForwardReady(l) \in Batch
  BY ScheduleForwardReadyType
<1>2. None \in Failure
  BY DEF Failure
<1>3. Emit(ScheduleForwardReady(l), RunEvent("run.completed", None)) \in Batch
  BY <1>1, <1>2, EmitRunEventType DEF RunEventType
<1> QED BY <1>1, <1>3, AdvanceCompensationType DEF PostProcess

\* The events about one task that a command starts with.
LEMMA EmitTaskEventType ==
    ASSUME NEW l \in Batch, NEW t \in TaskID, NEW w \in Worker \cup {None},
           NEW type \in {"task.leased", "task.heartbeat", "task.completed",
                         "task.failed", "timer.fired"}
    PROVE  Emit(l, TaskEvent(type, t, w)) \in Batch
<1>1. l.state \in RunState
  BY DEF Batch
<1>2. TaskEvent(type, t, w) \in Event
  BY DEF TaskEvent, Event, Failure, TaskEventType
<1>3. ApplyEvent(l.state, TaskEvent(type, t, w)) \in RunState
  BY <1>1, TaskReportType, TaskEventDispatch
<1> QED BY <1>2, <1>3, EmitType
\* The commands make well typed batches.
LEMMA StartRunType == StartRun \in Batch
<1>1. None \in Failure
  BY DEF Failure
<1>2. Emit(Loaded(InitialState(None)), RunEvent("workflow.started", None)) \in Batch
  BY <1>1, InitialStateType, LoadedType, EmitRunEventType DEF RunEventType
<1> QED BY <1>2, ScheduleForwardReadyType DEF StartRun

LEMMA CompleteTaskType ==
    ASSUME NEW st \in RunState, NEW t \in TaskID, NEW w \in Worker
    PROVE  CompleteTaskOnce(st, t, w) \in Batch
  BY LoadedType, EmitTaskEventType, MutateType, PostProcessType DEF CompleteTaskOnce

LEMMA FireTimerType ==
    ASSUME NEW st \in RunState, NEW t \in TaskID
    PROVE  FireTimerOnce(st, t) \in Batch
  BY LoadedType, EmitTaskEventType, MutateType, PostProcessType DEF FireTimerOnce

LEMMA CancelRunType ==
    ASSUME NEW st \in RunState
    PROVE  CancelRunOnce(st) \in Batch
<1> DEFINE requested == Emit(Loaded(st), RunEvent("run.cancel_requested", None))
           open == {t \in TaskID : Open(st.tasks[t].status)}
<1>1. requested \in Batch
  BY LoadedType, EmitRunEventType DEF RunEventType, Failure
<1>2. CancelTasks(requested, open) \in Batch
  BY <1>1, CancelTasksType
<1> QED BY <1>2, BeginCompensationOrFinishType DEF CancelRunOnce

LEMMA FailTaskType ==
    ASSUME NEW st \in RunState, NEW t \in TaskID, NEW w \in Worker \cup {None},
           NEW retryable \in BOOLEAN
    PROVE  FailTaskOnce(st, t, w, retryable) \in Batch
<1> DEFINE failed == Mutate(Emit(Loaded(st), TaskEvent("task.failed", t, w)), {t})
           n == st.tasks[t].attempt + 1
<1>1. failed \in Batch
  BY LoadedType, EmitTaskEventType, MutateType
<1>2. n \in Nat
  BY DEF RunState, TaskState
<1> HIDE DEF failed, n
<1>3. RetryEvent(t, n) \in Event
  BY <1>2 DEF RetryEvent, Event, Failure, TaskEventType
<1>4. Emit(failed, RetryEvent(t, n)) \in Batch
  BY <1>1, <1>2, <1>3, RetryType, RetryEventDispatch, EmitType DEF Batch
<1>5. [failed EXCEPT !.state.failure = t] \in Batch
  BY <1>1 DEF Batch, RunState, Failure
<1>6. BeginCompensationOrFinish([failed EXCEPT !.state.failure = t]) \in Batch
  BY <1>5, BeginCompensationOrFinishType
<1> QED BY <1>4, <1>6 DEF FailTaskOnce, failed, n

\* What the store makes of a batch.
LEMMA ReloadType ==
    ASSUME NEW st \in RunState
    PROVE  Reload(st) \in RunState
  BY DEF Reload, RunState

LEMMA UpdateTaskRecordType ==
    ASSUME NEW task \in TaskState
    PROVE  UpdateTaskRecord(task) \in TaskState
  BY DEF UpdateTaskRecord, TaskState

-----------------------------------------------------------------------------
(***************************************************************************)
(* The store keeps its type.                                               *)
(***************************************************************************)

\* Committing a well typed batch keeps the store well typed.
LEMMA AppendRunChangesType ==
    ASSUME TypeOK, NEW cmd \in Batch, AppendRunChanges(cmd)
    PROVE  /\ run' \in [status : RunStatus, failure : Failure]
           /\ rows' \in [TaskID -> TaskState]
           /\ history' \in Seq(Event)
           /\ state' \in RunState
           /\ due' \subseteq TaskID
<1>1. cmd.state \in RunState /\ cmd.events \in Seq(Event) /\ cmd.mutated \subseteq TaskID
  BY DEF Batch
<1>2. run' \in [status : RunStatus, failure : Failure]
  BY <1>1 DEF AppendRunChanges, RunState
<1>3. rows' \in [TaskID -> TaskState]
  <2>1. \A t \in TaskID : UpdateTaskRecord(cmd.state.tasks[t]) \in TaskState
    BY <1>1, UpdateTaskRecordType DEF RunState
  <2> QED BY <2>1 DEF AppendRunChanges, TypeOK
<1>4. history' \in Seq(Event)
  BY <1>1, ConcatProperties DEF AppendRunChanges, TypeOK
<1>5. state' \in RunState
  BY <1>1, ReloadType DEF AppendRunChanges
<1>6. due' \subseteq TaskID
  BY <1>1 DEF AppendRunChanges, DueAfter, TypeOK
<1> QED BY <1>2, <1>3, <1>4, <1>5, <1>6

LEMMA InitType == Init => TypeOK
<1> SUFFICES ASSUME Init PROVE TypeOK
  OBVIOUS
<1>1. StartRun \in Batch
  BY StartRunType
<1>2. /\ StartRun.state \in RunState
      /\ StartRun.events \in Seq(Event)
      /\ StartRun.mutated \subseteq TaskID
  BY <1>1 DEF Batch
<1>3. run \in [status : RunStatus, failure : Failure]
  BY <1>2 DEF Init, RunState
<1>4. rows \in [TaskID -> TaskState]
  <2>1. \A t \in TaskID : UpdateTaskRecord(StartRun.state.tasks[t]) \in TaskState
    BY <1>2, UpdateTaskRecordType DEF RunState
  <2> QED BY <2>1 DEF Init
<1>5. due \subseteq TaskID /\ sweep = NoSweep
  BY <1>2 DEF Init
<1> QED BY <1>2, <1>3, <1>4, <1>5 DEF Init, TypeOK

LEMMA NextType == TypeOK /\ [Next]_vars => TypeOK'
<1> SUFFICES ASSUME TypeOK, [Next]_vars PROVE TypeOK'
  OBVIOUS
<1> USE DEF TypeOK
<1>1. ASSUME NEW w \in Worker, NEW t \in TaskID, LeaseTask(w, t) PROVE TypeOK'
  <2>1. rows' \in [TaskID -> TaskState]
    BY <1>1 DEF LeaseTask, TaskState, TaskStatus
  <2>2. TaskEvent("task.leased", t, w) \in Event
    BY DEF TaskEvent, Event, TaskEventType, Failure
  <2>3. history' \in Seq(Event)
    BY <1>1, <2>2, AppendProperties DEF LeaseTask
  <2>4. state' \in RunState
    BY <1>1, TaskReportType, TaskEventDispatch DEF LeaseTask
  <2> QED BY <1>1, <2>1, <2>3, <2>4 DEF LeaseTask
<1>2. ASSUME NEW w \in Worker, NEW t \in TaskID, HeartbeatTask(w, t) PROVE TypeOK'
  <2>1. TaskEvent("task.heartbeat", t, w) \in Event
    BY DEF TaskEvent, Event, TaskEventType, Failure
  <2>2. history' \in Seq(Event)
    BY <1>2, <2>1, AppendProperties DEF HeartbeatTask
  <2>3. state' \in RunState
    BY <1>2, TaskReportType, TaskEventDispatch DEF HeartbeatTask
  <2> QED BY <1>2, <2>2, <2>3 DEF HeartbeatTask
<1>3. ASSUME NEW w \in Worker, NEW t \in TaskID, CompleteTask(w, t) PROVE TypeOK'
  BY <1>3, CompleteTaskType, AppendRunChangesType DEF CompleteTask
<1>4. ASSUME NEW w \in Worker, NEW t \in TaskID, FailTask(w, t) PROVE TypeOK'
  BY <1>4, FailTaskType, AppendRunChangesType DEF FailTask
<1>5. ASSUME NEW t \in TaskID, FireTimer(t) PROVE TypeOK'
  BY <1>5, FireTimerType, AppendRunChangesType DEF FireTimer
<1>6. ASSUME NEW t \in TaskID, RecoverExpiredLease(t) PROVE TypeOK'
  BY <1>6 DEF RecoverExpiredLease, RunState, TaskState
<1>7. ASSUME NEW t \in TaskID, Tick(t) PROVE TypeOK'
  BY <1>7 DEF Tick
<1>8. ASSUME CancelRun PROVE TypeOK'
  BY <1>8, CancelRunType, AppendRunChangesType DEF CancelRun
<1>9. ASSUME FailExpiredLease PROVE TypeOK'
  <2>1. CASE Holds(state, sweep.task, sweep.owner)
    <3>1. sweep.task \in TaskID /\ sweep.owner \in Worker \cup {None}
      BY <1>9 DEF FailExpiredLease
    <3>2. FailTaskOnce(state, sweep.task, sweep.owner, TRUE) \in Batch
      BY <3>1, FailTaskType
    <3> QED BY <1>9, <2>1, <3>2, AppendRunChangesType DEF FailExpiredLease
  <2>2. CASE ~Holds(state, sweep.task, sweep.owner)
    BY <1>9, <2>2 DEF FailExpiredLease
  <2> QED BY <2>1, <2>2
<1>10. ASSUME Restart PROVE TypeOK'
  BY <1>10 DEF Restart
<1>11. ASSUME UNCHANGED vars PROVE TypeOK'
  BY <1>11 DEF vars
<1> QED BY <1>1, <1>2, <1>3, <1>4, <1>5, <1>6, <1>7, <1>8, <1>9, <1>10, <1>11 DEF Next

\* The store, its views and its clients stay well typed in every behaviour.
THEOREM TypeCorrect == Spec => []TypeOK
  BY InitType, NextType, PTL DEF Spec

-----------------------------------------------------------------------------
(***************************************************************************)
(* What the reducer's operators do to the tasks, and to the marks beside   *)
(* them.                                                                   *)
(***************************************************************************)

\* Everything but the tasks and the forward status is as it was.
SameMarks(new, st) ==
    /\ new.status = st.status
    /\ new.outputs = st.outputs
    /\ new.completedOrder = st.completedOrder
    /\ new.compScheduled = st.compScheduled
    /\ new.compCompleted = st.compCompleted
    /\ new.cancelRequested = st.cancelRequested
    /\ new.compensating = st.compensating

\* Tasks, outputs and compensation marks are as they were.
SameTasks(new, st) ==
    /\ new.tasks = st.tasks
    /\ new.forward = st.forward
    /\ new.outputs = st.outputs
    /\ new.completedOrder = st.completedOrder
    /\ new.compScheduled = st.compScheduled
    /\ new.compCompleted = st.compCompleted

LEMMA SetTaskEffect ==
    ASSUME NEW st \in RunState, NEW t \in TaskID, NEW task \in TaskState,
           NEW new, new = SetTask(st, t, task)
    PROVE  /\ \A x \in TaskID : new.tasks[x] = IF x = t THEN task ELSE st.tasks[x]
           /\ \A s \in Step : new.forward[s] = IF Forward(s) = t THEN task.status ELSE st.forward[s]
           /\ SameMarks(new, st)
  BY DEF SetTask, SetForward, SameMarks, RunState

LEMMA RecordOutputEffect ==
    ASSUME NEW st \in RunState, NEW s \in Step, NEW new, new = RecordOutput(st, s)
    PROVE  /\ new.tasks = st.tasks
           /\ new.forward = st.forward
           /\ new.status = st.status
           /\ new.outputs = st.outputs \cup {s}
           /\ ToSet(new.completedOrder) = ToSet(st.completedOrder) \cup {s}
           /\ new.compScheduled = st.compScheduled
           /\ new.compCompleted = st.compCompleted
           /\ new.cancelRequested = st.cancelRequested
           /\ new.compensating = st.compensating
<1>1. st.completedOrder \in Seq(Step)
  BY DEF RunState
<1>2. ToSet(Append(st.completedOrder, s)) = ToSet(st.completedOrder) \cup {s}
  BY <1>1, AppendProperties, LenProperties DEF ToSet
<1> QED BY <1>1, <1>2 DEF RecordOutput, RunState

\* The tasks of T, and only they, have just been scheduled.
JustScheduled(new, st, T) ==
    /\ \A x \in TaskID : new.tasks[x] =
         IF x \in T THEN [status |-> "available", attempt |-> 1, owner |-> None]
                    ELSE st.tasks[x]
    /\ \A s \in Step : new.forward[s] =
         IF Forward(s) \in T THEN "available" ELSE st.forward[s]
    /\ new.compScheduled = st.compScheduled \cup {s \in Step : Compensation(s) \in T}
    /\ new.status = st.status
    /\ new.outputs = st.outputs
    /\ new.completedOrder = st.completedOrder
    /\ new.compCompleted = st.compCompleted
    /\ new.cancelRequested = st.cancelRequested
    /\ new.compensating = st.compensating

LEMMA ScheduledEffect ==
    ASSUME NEW st \in RunState, NEW T \in SUBSET TaskID
    PROVE  JustScheduled(ApplyTasksScheduled(st, T), st, T)
  BY DEF ApplyTasksScheduled, SetForward, RunState, JustScheduled

\* The tasks of T, and only they, have just been cancelled.
JustCancelled(new, st, T) ==
    /\ \A x \in TaskID : new.tasks[x] =
         IF x \in T THEN [st.tasks[x] EXCEPT !.status = "cancelled", !.owner = None]
                    ELSE st.tasks[x]
    /\ \A s \in Step : new.forward[s] =
         IF Forward(s) \in T THEN "cancelled" ELSE st.forward[s]
    /\ SameMarks(new, st)

LEMMA CancelledEffect ==
    ASSUME NEW st \in RunState, NEW T \in SUBSET TaskID
    PROVE  JustCancelled(ApplyTasksCancelled(st, T), st, T)
  BY DEF ApplyTasksCancelled, SetForward, SameMarks, RunState, JustCancelled

\* A task whose status and owner are set is a task with that status.
LEMMA TaskUpdate ==
    ASSUME NEW task \in TaskState, NEW status \in TaskStatus, NEW w \in Worker \cup {None}
    PROVE  /\ [task EXCEPT !.status = status, !.owner = w] \in TaskState
           /\ [task EXCEPT !.status = status, !.owner = w].status = status
           /\ [task EXCEPT !.status = status] \in TaskState
           /\ [task EXCEPT !.status = status].status = status
  BY DEF TaskState

\* The events of the run: cancellation, the start of the unwinding, the end.
RunCancelling(new, st) ==
    /\ SameTasks(new, st)
    /\ new.cancelRequested
    /\ new.compensating = st.compensating

RunUnwinding(new, st) ==
    /\ SameTasks(new, st)
    /\ new.cancelRequested = st.cancelRequested
    /\ new.compensating
    /\ new.status = "compensating"

RunEnded(new, st, status) ==
    /\ SameTasks(new, st)
    /\ new.cancelRequested = st.cancelRequested
    /\ new.compensating = st.compensating
    /\ new.status = status

LEMMA RunEventEffect ==
    ASSUME NEW st \in RunState, NEW f \in Failure
    PROVE  /\ RunCancelling(ApplyRunCancelRequested(st), st)
           /\ RunUnwinding(ApplyRunCompensating(st, f), st)
           /\ RunEnded(ApplyRunFailed(st, f), st, "failed")
           /\ RunEnded(Finish(st, "completed"), st, "completed")
           /\ RunEnded(Finish(st, "cancelled"), st, "cancelled")
  BY DEF ApplyRunCancelRequested, ApplyRunCompensating, ApplyRunFailed, Finish,
         SameTasks, RunState, RunCancelling, RunUnwinding, RunEnded

\* What a batch holds after each way to extend it.
LEMMA BatchEffect ==
    ASSUME NEW l \in Batch, NEW T, NEW e
    PROVE  /\ Emit(l, e).state = ApplyEvent(l.state, e)
           /\ Emit(l, e).mutated = l.mutated
           /\ Mutate(l, T).state = l.state
           /\ Mutate(l, T).mutated = l.mutated \cup T
           /\ ScheduleTasks(l, T).state = ApplyTasksScheduled(l.state, T)
           /\ ScheduleTasks(l, T).mutated = l.mutated \cup T
           /\ CancelTasks(l, T).state = ApplyTasksCancelled(l.state, T)
           /\ CancelTasks(l, T).mutated = l.mutated \cup T
  BY DEF Emit, Mutate, ScheduleTasks, CancelTasks, Batch

-----------------------------------------------------------------------------
(***************************************************************************)
(* Consistent is kept by every event.                                      *)
(***************************************************************************)

\* A task that neither appears nor completes.
LEMMA SetTaskConsistent ==
    ASSUME NEW st \in RunState, Consistent(st), NEW t \in TaskID,
           st.tasks[t].status \in {"available", "leased", "failed"},
           NEW task \in TaskState, task.status \in {"available", "leased", "failed"}
    PROVE  Consistent(SetTask(st, t, task))
<1> DEFINE new == SetTask(st, t, task)
<1>1. /\ \A x \in TaskID : new.tasks[x] = IF x = t THEN task ELSE st.tasks[x]
      /\ \A s \in Step : new.forward[s] = IF Forward(s) = t THEN task.status ELSE st.forward[s]
      /\ SameMarks(new, st)
  BY SetTaskEffect
<1> HIDE DEF new
<1>2. \A s \in Step :
        /\ new.forward[s] = ForwardStatus(new, s)
        /\ (ForwardStatus(new, s) = "completed") <=> (ForwardStatus(st, s) = "completed")
        /\ (ForwardStatus(new, s) = "none") <=> (ForwardStatus(st, s) = "none")
        /\ (CompensationStatus(new, s) = "completed") <=> (CompensationStatus(st, s) = "completed")
        /\ (CompensationStatus(new, s) = "none") <=> (CompensationStatus(st, s) = "none")
  BY <1>1, TaskIDFacts DEF ForwardStatus, CompensationStatus, Consistent
<1> QED BY <1>1, <1>2 DEF Consistent, SameMarks, new

\* task.completed and timer.fired, of a task that was open.
LEMMA CompletedConsistent ==
    ASSUME NEW st \in RunState, Consistent(st), NEW t \in TaskID, Open(st.tasks[t].status),
           NEW task \in TaskState, task.status = "completed"
    PROVE  IF IsForward(t)
             THEN Consistent(RecordOutput(SetTask(st, t, task), StepOf(t)))
             ELSE Consistent([SetTask(st, t, task) EXCEPT !.compCompleted = @ \cup {StepOf(t)}])
<1> DEFINE done == SetTask(st, t, task)
           r == StepOf(t)
<1>1. /\ \A x \in TaskID : done.tasks[x] = IF x = t THEN task ELSE st.tasks[x]
      /\ \A s \in Step : done.forward[s] = IF Forward(s) = t THEN task.status ELSE st.forward[s]
      /\ SameMarks(done, st)
  BY SetTaskEffect
<1>2. done \in RunState
  BY SetTaskType
<1>3. r \in Step
  BY TaskIDFacts
<1> HIDE DEF done
<1>4. CASE IsForward(t)
  <2>1. t = Forward(r)
    BY <1>4, TaskIDFacts
  <2> DEFINE new == RecordOutput(done, r)
  <2>2. /\ new.tasks = done.tasks
        /\ new.forward = done.forward
        /\ new.outputs = done.outputs \cup {r}
        /\ ToSet(new.completedOrder) = ToSet(done.completedOrder) \cup {r}
        /\ new.compScheduled = done.compScheduled
        /\ new.compCompleted = done.compCompleted
        /\ new.compensating = done.compensating
    BY <1>2, <1>3, RecordOutputEffect
  <2> HIDE DEF new, r
  <2>3. \A s \in Step :
          /\ new.forward[s] = ForwardStatus(new, s)
          /\ ForwardStatus(new, s) = IF s = r THEN "completed" ELSE ForwardStatus(st, s)
          /\ CompensationStatus(new, s) = CompensationStatus(st, s)
    BY <1>1, <1>3, <2>1, <2>2, TaskIDFacts DEF ForwardStatus, CompensationStatus, Consistent
  <2>4. ForwardStatus(st, r) # "none"
    BY <2>1 DEF ForwardStatus, Open
  <2>5. new.outputs = st.outputs \cup {r}
    BY <1>1, <2>2 DEF SameMarks
  <2>6. ToSet(new.completedOrder) = new.outputs
    BY <1>1, <2>2 DEF SameMarks, Consistent
  <2>7. \A s \in Step : s \in new.outputs <=> ForwardStatus(new, s) = "completed"
    BY <2>3, <2>5 DEF Consistent
  <2>8. \A s \in Step : ForwardStatus(new, s) # "none" => Deps[s] \subseteq new.outputs
    BY <1>3, <2>3, <2>4, <2>5 DEF Consistent
  <2>9. Consistent(new)
    BY <1>1, <2>2, <2>3, <2>5, <2>6, <2>7, <2>8 DEF Consistent, SameMarks
  <2> QED BY <1>4, <2>9 DEF new, done, r
<1>5. CASE ~IsForward(t)
  <2>1. t = Compensation(r)
    BY <1>5, TaskIDFacts
  <2> DEFINE new == [done EXCEPT !.compCompleted = @ \cup {r}]
  <2>2. /\ new.tasks = done.tasks
        /\ new.forward = done.forward
        /\ new.outputs = done.outputs
        /\ new.completedOrder = done.completedOrder
        /\ new.compScheduled = done.compScheduled
        /\ new.compCompleted = done.compCompleted \cup {r}
        /\ new.compensating = done.compensating
    BY <1>2 DEF RunState
  <2> HIDE DEF new, r
  <2>3. \A s \in Step :
          /\ new.forward[s] = ForwardStatus(new, s)
          /\ ForwardStatus(new, s) = ForwardStatus(st, s)
          /\ CompensationStatus(new, s) = IF s = r THEN "completed" ELSE CompensationStatus(st, s)
    BY <1>1, <1>3, <2>1, <2>2, TaskIDFacts DEF ForwardStatus, CompensationStatus, Consistent
  <2>4. CompensationStatus(st, r) # "none"
    BY <2>1 DEF CompensationStatus, Open
  <2>5. Consistent(new)
    BY <1>1, <1>3, <2>2, <2>3, <2>4 DEF Consistent, SameMarks
  <2> QED BY <1>5, <2>5 DEF new, done, r
<1> QED BY <1>4, <1>5

\* Cancelling tasks that are open.
LEMMA CancelledConsistent ==
    ASSUME NEW st \in RunState, Consistent(st), NEW T \in SUBSET TaskID,
           \A x \in T : Open(st.tasks[x].status)
    PROVE  Consistent(ApplyTasksCancelled(st, T))
<1> DEFINE new == ApplyTasksCancelled(st, T)
<1>1. JustCancelled(new, st, T)
  BY CancelledEffect
<1> HIDE DEF new
<1>2. \A x \in TaskID : new.tasks[x].status =
         IF x \in T THEN "cancelled" ELSE st.tasks[x].status
  BY <1>1 DEF RunState, TaskState, JustCancelled
<1>3. \A s \in Step :
        /\ ForwardStatus(new, s) =
             IF Forward(s) \in T THEN "cancelled" ELSE ForwardStatus(st, s)
        /\ CompensationStatus(new, s) =
             IF Compensation(s) \in T THEN "cancelled" ELSE CompensationStatus(st, s)
  BY <1>2, TaskIDFacts DEF ForwardStatus, CompensationStatus
<1>4. \A s \in Step :
        /\ Forward(s) \in T => ForwardStatus(st, s) \notin {"none", "completed"}
        /\ Compensation(s) \in T => CompensationStatus(st, s) \notin {"none", "completed"}
  BY DEF ForwardStatus, CompensationStatus, Open
<1>5. \A s \in Step : new.forward[s] = ForwardStatus(new, s)
  BY <1>1, <1>3 DEF Consistent, JustCancelled
<1>6. \A s \in Step :
        /\ (ForwardStatus(new, s) = "completed") <=> (ForwardStatus(st, s) = "completed")
        /\ (ForwardStatus(new, s) = "none") <=> (ForwardStatus(st, s) = "none")
        /\ (CompensationStatus(new, s) = "completed") <=> (CompensationStatus(st, s) = "completed")
        /\ (CompensationStatus(new, s) = "none") <=> (CompensationStatus(st, s) = "none")
  BY <1>3, <1>4
<1> QED BY <1>1, <1>5, <1>6 DEF Consistent, SameMarks, new, JustCancelled

\* Scheduling the forward tasks of the steps that are ready.
LEMMA ReadyConsistent ==
    ASSUME NEW st \in RunState, Consistent(st)
    PROVE  Consistent(ApplyTasksScheduled(st, {Forward(s) : s \in ReadySteps(st)}))
<1> DEFINE T == {Forward(s) : s \in ReadySteps(st)}
           new == ApplyTasksScheduled(st, T)
<1>1. T \in SUBSET TaskID
  BY TaskIDFacts DEF ReadySteps
<1>2. \A s \in Step : /\ Forward(s) \in T <=> s \in ReadySteps(st)
                      /\ Compensation(s) \notin T
  BY TaskIDFacts DEF ReadySteps
<1> HIDE DEF T
<1>3. JustScheduled(new, st, T)
  BY <1>1, ScheduledEffect
<1> HIDE DEF new
<1>4. new.compScheduled = st.compScheduled
  BY <1>2, <1>3 DEF JustScheduled
<1>5. \A s \in Step :
        /\ ForwardStatus(new, s) = IF s \in ReadySteps(st) THEN "available" ELSE ForwardStatus(st, s)
        /\ CompensationStatus(new, s) = CompensationStatus(st, s)
        /\ new.forward[s] = ForwardStatus(new, s)
  BY <1>2, <1>3, TaskIDFacts DEF ForwardStatus, CompensationStatus, Consistent, JustScheduled
<1>6. \A s \in ReadySteps(st) : /\ ForwardStatus(st, s) = "none"
                                /\ Deps[s] \subseteq st.outputs
  BY DEF ReadySteps, DependenciesCompleted, ForwardStatus
<1>7. \A s \in Step : /\ s \in new.outputs <=> ForwardStatus(new, s) = "completed"
                      /\ ForwardStatus(new, s) # "none" => Deps[s] \subseteq new.outputs
  BY <1>3, <1>5, <1>6 DEF Consistent, JustScheduled
<1> QED BY <1>3, <1>4, <1>5, <1>7 DEF Consistent, new, T, JustScheduled

\* Scheduling the compensation of the next step to undo.
LEMMA CompensationConsistent ==
    ASSUME NEW st \in RunState, Consistent(st), st.compensating, Unwindable(st) # {}
    PROVE  Consistent(ApplyTasksScheduled(st, {Compensation(NextCompensationStep(st))}))
<1> DEFINE r == NextCompensationStep(st)
           T == {Compensation(r)}
<1>1. /\ r \in Step
      /\ r \in Compensable \ (st.compScheduled \cup st.compCompleted)
      /\ \E i \in DOMAIN st.completedOrder : st.completedOrder[i] = r
  BY NextCompensationStepFacts
<1>2. r \in st.outputs
  BY <1>1 DEF Consistent, ToSet
<1> HIDE DEF r
<1>3. T \in SUBSET TaskID
  BY <1>1, TaskIDFacts
<1>4. \A s \in Step : Forward(s) \notin T /\ (Compensation(s) \in T <=> s = r)
  BY <1>1, TaskIDFacts
<1> HIDE DEF T
<1> DEFINE new == ApplyTasksScheduled(st, T)
<1>5. JustScheduled(new, st, T)
  BY <1>3, ScheduledEffect
<1> HIDE DEF new
<1>6. new.compScheduled = st.compScheduled \cup {r}
  BY <1>1, <1>4, <1>5 DEF JustScheduled
<1>7. \A s \in Step :
        /\ ForwardStatus(new, s) = ForwardStatus(st, s)
        /\ CompensationStatus(new, s) = IF s = r THEN "available" ELSE CompensationStatus(st, s)
        /\ new.forward[s] = ForwardStatus(new, s)
  BY <1>4, <1>5, TaskIDFacts DEF ForwardStatus, CompensationStatus, Consistent, JustScheduled
<1>8. CompensationStatus(st, r) = "none"
  BY <1>1 DEF Consistent
<1>9. \A s \in Step :
        /\ s \in new.compScheduled <=> CompensationStatus(new, s) # "none"
        /\ s \in new.compCompleted <=> CompensationStatus(new, s) = "completed"
  BY <1>1, <1>5, <1>6, <1>7, <1>8 DEF Consistent, JustScheduled
<1>10. new.compScheduled \subseteq Compensable \cap new.outputs
  BY <1>1, <1>2, <1>5, <1>6 DEF Consistent, JustScheduled
<1>11. \A s \in Step : /\ s \in new.outputs <=> ForwardStatus(new, s) = "completed"
                       /\ ForwardStatus(new, s) # "none" => Deps[s] \subseteq new.outputs
  BY <1>5, <1>7 DEF Consistent, JustScheduled
<1>12. ToSet(new.completedOrder) = new.outputs /\ new.compensating
  BY <1>5 DEF Consistent, JustScheduled
<1>13. Consistent(new)
  BY <1>7, <1>9, <1>10, <1>11, <1>12 DEF Consistent
<1> QED BY <1>13 DEF new, T, r

\* Events that only move the run.
LEMMA SameTasksConsistent ==
    ASSUME NEW st, NEW new, Consistent(st), SameTasks(new, st),
           st.compensating => new.compensating
    PROVE  Consistent(new)
  BY DEF Consistent, SameTasks, ForwardStatus, CompensationStatus

-----------------------------------------------------------------------------
(***************************************************************************)
(* Decisions on states: what one kind of step does to StatusInv.           *)
(***************************************************************************)

\* The forward tasks of the ready steps, and only they, have become available.
ReadyAdded(new, st) ==
    /\ \A s \in Step :
         /\ ForwardStatus(new, s) =
              IF s \in ReadySteps(st) THEN "available" ELSE ForwardStatus(st, s)
         /\ CompensationStatus(new, s) = CompensationStatus(st, s)
    /\ new.status = st.status
    /\ new.outputs = st.outputs
    /\ new.cancelRequested = st.cancelRequested
    /\ new.compensating = st.compensating

LEMMA ReadyEffect ==
    ASSUME NEW st \in RunState, Consistent(st)
    PROVE  ReadyAdded(ApplyTasksScheduled(st, {Forward(s) : s \in ReadySteps(st)}), st)
<1> DEFINE T == {Forward(s) : s \in ReadySteps(st)}
<1>1. T \in SUBSET TaskID
  BY TaskIDFacts DEF ReadySteps
<1>2. \A s \in Step : /\ Forward(s) \in T <=> s \in ReadySteps(st)
                      /\ Compensation(s) \notin T
  BY TaskIDFacts DEF ReadySteps
<1> HIDE DEF T
<1> DEFINE new == ApplyTasksScheduled(st, T)
<1>4. JustScheduled(new, st, T)
  BY <1>1, ScheduledEffect
<1> HIDE DEF new
<1>5. \A s \in Step :
        /\ ForwardStatus(new, s) =
             IF s \in ReadySteps(st) THEN "available" ELSE ForwardStatus(st, s)
        /\ CompensationStatus(new, s) = CompensationStatus(st, s)
  BY <1>2, <1>4, TaskIDFacts DEF ForwardStatus, CompensationStatus, JustScheduled
<1> QED BY <1>4, <1>5 DEF new, T, JustScheduled, ReadyAdded

\* The next compensation, and only it, has become available.
CompensationAdded(new, st) ==
    /\ \A s \in Step :
         /\ ForwardStatus(new, s) = ForwardStatus(st, s)
         /\ CompensationStatus(new, s) =
              IF s = NextCompensationStep(st) THEN "available" ELSE CompensationStatus(st, s)
    /\ NextCompensationStep(st) \in Step
    /\ new.status = st.status
    /\ new.cancelRequested = st.cancelRequested
    /\ new.compensating = st.compensating

LEMMA NewCompensationEffect ==
    ASSUME NEW st \in RunState, Consistent(st), Unwindable(st) # {}
    PROVE  CompensationAdded(
             ApplyTasksScheduled(st, {Compensation(NextCompensationStep(st))}), st)
<1> DEFINE r == NextCompensationStep(st)
<1> DEFINE T == {Compensation(r)}
<1>1. r \in Step
  BY NextCompensationStepFacts
<1> HIDE DEF r
<1>3. T \in SUBSET TaskID
  BY <1>1, TaskIDFacts
<1>4. \A s \in Step : Forward(s) \notin T /\ (Compensation(s) \in T <=> s = r)
  BY <1>1, TaskIDFacts
<1> HIDE DEF T
<1> DEFINE new == ApplyTasksScheduled(st, T)
<1>5. JustScheduled(new, st, T)
  BY <1>3, ScheduledEffect
<1> HIDE DEF new
<1>6. \A s \in Step :
        /\ ForwardStatus(new, s) = ForwardStatus(st, s)
        /\ CompensationStatus(new, s) = IF s = r THEN "available" ELSE CompensationStatus(st, s)
  BY <1>4, <1>5, TaskIDFacts DEF ForwardStatus, CompensationStatus, JustScheduled
<1> QED BY <1>1, <1>5, <1>6 DEF r, T, new, JustScheduled, CompensationAdded

\* Open tasks that stay open, whatever else happens to them, and nothing more.
LEMMA OpenMovesKeepStatusInv ==
    ASSUME NEW st, NEW new, Consistent(st), Consistent(new), StatusInv(st),
           new.status = st.status,
           new.cancelRequested = st.cancelRequested,
           new.compensating = st.compensating,
           new.completedOrder = st.completedOrder,
           new.compScheduled = st.compScheduled,
           new.compCompleted = st.compCompleted,
           \A x \in TaskID : \/ new.tasks[x].status = st.tasks[x].status
                             \/ Open(new.tasks[x].status) /\ Open(st.tasks[x].status)
    PROVE  StatusInv(new)
<1>1. \A s \in Step :
        /\ Open(ForwardStatus(new, s)) <=> Open(ForwardStatus(st, s))
        /\ Open(CompensationStatus(new, s)) <=> Open(CompensationStatus(st, s))
        /\ ForwardStatus(new, s) = "failed" <=> ForwardStatus(st, s) = "failed"
        /\ ForwardStatus(new, s) = "cancelled" <=> ForwardStatus(st, s) = "cancelled"
        /\ ForwardStatus(new, s) = "completed" <=> ForwardStatus(st, s) = "completed"
  BY TaskIDFacts DEF ForwardStatus, CompensationStatus, Open
<1>2. /\ HasOpenForwardTasks(new) <=> HasOpenForwardTasks(st)
      /\ HasOpenCompensationTasks(new) <=> HasOpenCompensationTasks(st)
      /\ SomeForwardFailed(new) <=> SomeForwardFailed(st)
  BY <1>1 DEF HasOpenForwardTasks, HasOpenCompensationTasks, SomeForwardFailed,
              ForwardStatus, CompensationStatus
<1>3. AllForwardCompleted(st) => AllForwardCompleted(new)
  BY <1>1 DEF AllForwardCompleted, Consistent
<1>4. AtMostOneOpen(st) => AtMostOneOpen(new)
  BY <1>1 DEF AtMostOneOpen
<1>5. Unwindable(new) = Unwindable(st)
  BY DEF Unwindable
<1>6. RunningInv(new)
  BY <1>1, <1>2 DEF StatusInv, RunningInv
<1>7. CompensatingInv(new) /\ CompletedInv(new) /\ FailedInv(new)
  BY <1>2, <1>3 DEF StatusInv, CompensatingInv, CompletedInv, FailedInv
<1>8. CancelInv(new)
  BY <1>2, <1>4, <1>5 DEF StatusInv, CancelInv
<1> QED BY <1>6, <1>7, <1>8 DEF StatusInv

\* A workflow is acyclic: when no step failed or was cancelled and the ready
\* steps are scheduled, either everything has completed or something is open.
LEMMA ReadyOpens ==
    ASSUME NEW st \in RunState, Consistent(st), NEW new,
           new = ApplyTasksScheduled(st, {Forward(s) : s \in ReadySteps(st)}),
           \A s \in Step : ForwardStatus(st, s) \notin {"failed", "cancelled"}
    PROVE  HasOpenForwardTasks(new) \/ AllForwardCompleted(new)
<1> SUFFICES ASSUME ~HasOpenForwardTasks(new) PROVE AllForwardCompleted(new)
  OBVIOUS
<1>1. /\ \A s \in Step :
           ForwardStatus(new, s) =
             IF s \in ReadySteps(st) THEN "available" ELSE ForwardStatus(st, s)
      /\ new.outputs = st.outputs
  BY ReadyEffect DEF ReadyAdded
<1>2. Consistent(new)
  BY ReadyConsistent
<1>3. \A s \in Step : ForwardStatus(new, s) \in TaskStatus
  BY <1>1, TaskIDFacts DEF ForwardStatus, RunState, TaskState, TaskStatus
<1>4. \A s \in Step : ~Open(ForwardStatus(new, s))
  BY DEF HasOpenForwardTasks, ForwardStatus
<1>5. \A s \in Step : ForwardStatus(new, s) \in {"none", "completed"}
  BY <1>1, <1>3, <1>4 DEF TaskStatus, Open
<1> DEFINE S == {s \in Step : ForwardStatus(new, s) = "none"}
<1>6. ASSUME S # {} PROVE FALSE
  <2>1. PICK s \in S : Deps[s] \cap S = {}
    BY <1>6, WorkflowAssumption
  <2>2. Deps[s] \subseteq Step
    BY WorkflowAssumption
  <2>3. Deps[s] \subseteq st.outputs
    BY <1>1, <1>2, <1>5, <2>1, <2>2 DEF Consistent
  <2>4. s \notin ReadySteps(st) /\ ForwardStatus(st, s) = "none"
    BY <1>1
  <2>5. st.forward[s] = "none" /\ st.tasks[Forward(s)].status = "none"
    BY <2>4 DEF Consistent, ForwardStatus
  <2>6. s \in ReadySteps(st)
    BY <2>3, <2>5 DEF ReadySteps, DependenciesCompleted
  <2> QED BY <2>4, <2>6
<1>7. \A s \in Step : ForwardStatus(new, s) = "completed"
  BY <1>5, <1>6
<1> QED BY <1>2, <1>7 DEF AllForwardCompleted, Consistent

-----------------------------------------------------------------------------
(***************************************************************************)
(* Decisions on batches: what a command leaves behind.                     *)
(***************************************************************************)

\* A batch says which tasks it touched.
Frame(l, st) == \A x \in TaskID \ l.mutated : l.state.tasks[x] = st.tasks[x]

\* What a finished command leaves: a state that satisfies the invariant.
Sound(l, st) == Consistent(l.state) /\ StatusInv(l.state) /\ Frame(l, st)

\* What the decisions look at does not change with the events of the run.
LEMMA SameTasksFacts ==
    ASSUME NEW st, NEW new, SameTasks(new, st)
    PROVE  /\ HasOpenForwardTasks(new) <=> HasOpenForwardTasks(st)
           /\ HasOpenCompensationTasks(new) <=> HasOpenCompensationTasks(st)
           /\ SomeForwardFailed(new) <=> SomeForwardFailed(st)
           /\ AtMostOneOpen(new) <=> AtMostOneOpen(st)
           /\ AllForwardCompleted(new) <=> AllForwardCompleted(st)
           /\ Unwindable(new) = Unwindable(st)
  BY DEF SameTasks, HasOpenForwardTasks, HasOpenCompensationTasks, SomeForwardFailed,
         AtMostOneOpen, AllForwardCompleted, Unwindable, ForwardStatus, CompensationStatus

\* run.failed or run.cancelled, once nothing is left to undo.
LEMMA FinishSound ==
    ASSUME NEW l \in Batch, NEW st, Consistent(l.state), Frame(l, st),
           l.state.compensating \/ SomeForwardFailed(l.state) \/ l.state.cancelRequested,
           l.state.cancelRequested =>
             /\ ~HasOpenForwardTasks(l.state)
             /\ ~HasOpenCompensationTasks(l.state)
             /\ Unwindable(l.state) = {}
    PROVE  Sound(FinishRunWithoutCompensation(l), st)
<1> DEFINE new == FinishRunWithoutCompensation(l)
<1>1. l.state \in RunState /\ l.state.failure \in Failure
  BY DEF Batch, RunState
<1>2. /\ new.state = IF l.state.cancelRequested
                       THEN Finish(l.state, "cancelled")
                       ELSE ApplyRunFailed(l.state, l.state.failure)
      /\ new.mutated = l.mutated
  BY BatchEffect, RunEventDispatch DEF FinishRunWithoutCompensation
<1> HIDE DEF new
<1>3. RunEnded(new.state, l.state, IF l.state.cancelRequested THEN "cancelled" ELSE "failed")
  <2>1. CASE l.state.cancelRequested
    BY <1>1, <1>2, <2>1, RunEventEffect
  <2>2. CASE ~l.state.cancelRequested
    BY <1>1, <1>2, <2>2, RunEventEffect
  <2> QED BY <2>1, <2>2
<1>4. Consistent(new.state)
  BY <1>3, SameTasksConsistent DEF RunEnded
<1>5. /\ HasOpenForwardTasks(new.state) <=> HasOpenForwardTasks(l.state)
      /\ HasOpenCompensationTasks(new.state) <=> HasOpenCompensationTasks(l.state)
      /\ SomeForwardFailed(new.state) <=> SomeForwardFailed(l.state)
      /\ Unwindable(new.state) = Unwindable(l.state)
  BY <1>3, SameTasksFacts DEF RunEnded
<1>6. ~HasOpenCompensationTasks(new.state) => AtMostOneOpen(new.state)
  BY DEF HasOpenCompensationTasks, AtMostOneOpen, CompensationStatus
<1>7. StatusInv(new.state)
  BY <1>3, <1>5, <1>6
     DEF RunEnded, StatusInv, RunningInv, CompensatingInv, CompletedInv, FailedInv, CancelInv
<1>8. Frame(new, st)
  BY <1>2, <1>3 DEF RunEnded, Frame, SameTasks
<1> QED BY <1>4, <1>7, <1>8 DEF Sound, new

\* The next compensation, scheduled in a run that is compensating.
LEMMA NewCompensationSound ==
    ASSUME NEW l \in Batch, NEW st, Consistent(l.state), Frame(l, st),
           Unwindable(l.state) # {},
           l.state.compensating,
           l.state.status \in {"compensating", "failed"},
           l.state.cancelRequested =>
             /\ l.state.status = "compensating"
             /\ ~HasOpenForwardTasks(l.state)
             /\ ~HasOpenCompensationTasks(l.state)
    PROVE  Sound(NewCompensationTask(l), st)
<1> DEFINE r == NextCompensationStep(l.state)
           new == NewCompensationTask(l)
<1>1. l.state \in RunState
  BY DEF Batch
<1>2. /\ new.state = ApplyTasksScheduled(l.state, {Compensation(r)})
      /\ new.mutated = l.mutated \cup {Compensation(r)}
  BY BatchEffect DEF NewCompensationTask
<1>3. CompensationAdded(new.state, l.state)
  BY <1>1, <1>2, NewCompensationEffect
<1>4. Consistent(new.state)
  BY <1>1, <1>2, CompensationConsistent
<1>5. r \in Step
  BY <1>3 DEF CompensationAdded
<1> HIDE DEF new
<1> HIDE DEF r
<1>6. JustScheduled(new.state, l.state, {Compensation(r)})
  <2>1. {Compensation(r)} \in SUBSET TaskID
    BY <1>5, TaskIDFacts
  <2> QED BY <1>1, <1>2, <2>1, ScheduledEffect
<1>7. Frame(new, st)
  <2>1. new.mutated = l.mutated \cup {Compensation(r)}
    BY <1>2
  <2> QED BY <2>1, <1>6 DEF Frame, JustScheduled
<1>8. HasOpenCompensationTasks(new.state)
  BY <1>3, <1>5 DEF CompensationAdded, r, HasOpenCompensationTasks, CompensationStatus, Open
<1>9. HasOpenForwardTasks(new.state) => HasOpenForwardTasks(l.state)
  BY <1>3 DEF CompensationAdded, HasOpenForwardTasks, ForwardStatus
<1>10. ~HasOpenCompensationTasks(l.state) => AtMostOneOpen(new.state)
  BY <1>3 DEF CompensationAdded, HasOpenCompensationTasks, AtMostOneOpen, CompensationStatus
<1>11. StatusInv(new.state)
  BY <1>3, <1>8, <1>9, <1>10
     DEF CompensationAdded, StatusInv, RunningInv, CompensatingInv, CompletedInv,
         FailedInv, CancelInv
<1> QED BY <1>4, <1>7, <1>11 DEF Sound, new

\* After a failure or a cancellation: undo what completed, or finish.
LEMMA BeginCompensationOrFinishSound ==
    ASSUME NEW l \in Batch, NEW st, Consistent(l.state), Frame(l, st),
           l.state.compensating \/ SomeForwardFailed(l.state) \/ l.state.cancelRequested,
           l.state.cancelRequested =>
             /\ ~HasOpenForwardTasks(l.state)
             /\ ~HasOpenCompensationTasks(l.state)
    PROVE  Sound(BeginCompensationOrFinish(l), st)
<1> DEFINE reason == IF l.state.cancelRequested THEN None ELSE l.state.failure
           begun == Emit(l, RunEvent("run.compensating", reason))
<1>1. reason \in Failure /\ l.state \in RunState
  BY DEF Batch, RunState, Failure
<1>2. begun \in Batch
  BY <1>1, EmitRunEventType DEF RunEventType
<1>3. begun.state = ApplyRunCompensating(l.state, reason) /\ begun.mutated = l.mutated
  BY BatchEffect, RunEventDispatch
<1> HIDE DEF begun, reason
<1>4. RunUnwinding(begun.state, l.state)
  BY <1>1, <1>3, RunEventEffect
<1>5. Consistent(begun.state)
  BY <1>4, SameTasksConsistent DEF RunUnwinding
<1>6. /\ HasOpenForwardTasks(begun.state) <=> HasOpenForwardTasks(l.state)
      /\ HasOpenCompensationTasks(begun.state) <=> HasOpenCompensationTasks(l.state)
      /\ Unwindable(begun.state) = Unwindable(l.state)
  BY <1>4, SameTasksFacts DEF RunUnwinding
<1>7. Frame(begun, st)
  BY <1>3, <1>4 DEF RunUnwinding, Frame, SameTasks
<1>8. CASE Unwindable(l.state) # {}
  <2>1. Sound(NewCompensationTask(begun), st)
    BY <1>2, <1>4, <1>5, <1>6, <1>7, <1>8, NewCompensationSound DEF RunUnwinding
  <2> QED BY <1>8, <2>1 DEF BeginCompensationOrFinish, begun, reason
<1>9. CASE Unwindable(l.state) = {}
  <2>1. Sound(FinishRunWithoutCompensation(l), st)
    BY <1>9, FinishSound
  <2> QED BY <1>9, <2>1 DEF BeginCompensationOrFinish
<1> QED BY <1>8, <1>9

LEMMA AdvanceCompensationSound ==
    ASSUME NEW l \in Batch, NEW st, Consistent(l.state), Frame(l, st),
           l.state.compensating,
           l.state.status \in {"compensating", "failed"},
           l.state.cancelRequested =>
             /\ l.state.status = "compensating"
             /\ ~HasOpenForwardTasks(l.state)
             /\ AtMostOneOpen(l.state)
    PROVE  Sound(AdvanceCompensation(l), st)
<1>1. CASE HasOpenCompensationTasks(l.state)
  <2>1. StatusInv(l.state)
    BY <1>1 DEF StatusInv, RunningInv, CompensatingInv, CompletedInv, FailedInv, CancelInv
  <2> QED BY <1>1, <2>1 DEF AdvanceCompensation, Sound
<1>2. CASE ~HasOpenCompensationTasks(l.state) /\ Unwindable(l.state) # {}
  <2>1. Sound(NewCompensationTask(l), st)
    BY <1>2, NewCompensationSound
  <2> QED BY <1>2, <2>1 DEF AdvanceCompensation
<1>3. CASE ~HasOpenCompensationTasks(l.state) /\ Unwindable(l.state) = {}
  <2>1. Sound(FinishRunWithoutCompensation(l), st)
    BY <1>3, FinishSound
  <2> QED BY <1>3, <2>1 DEF AdvanceCompensation
<1> QED BY <1>1, <1>2, <1>3

\* What holds when a command has applied its own completion and the decision
\* that follows has not been taken: a running run may have nothing left open.
PostProcessPre(st) ==
    /\ st.status \in {"running", "compensating", "failed"}
    /\ st.status = "running" =>
         /\ ~st.compensating
         /\ \A s \in Step : ForwardStatus(st, s) \notin {"failed", "cancelled"}
    /\ st.status = "compensating" => st.compensating
    /\ FailedInv(st)
    /\ st.cancelRequested =>
         /\ st.status = "compensating"
         /\ ~HasOpenForwardTasks(st)
         /\ AtMostOneOpen(st)

LEMMA PostProcessSound ==
    ASSUME NEW l \in Batch, NEW st, Consistent(l.state), Frame(l, st),
           PostProcessPre(l.state)
    PROVE  Sound(PostProcess(l), st)
<1>1. CASE l.state.compensating
  <2>1. l.state.status \in {"compensating", "failed"}
    BY <1>1 DEF PostProcessPre
  <2>2. Sound(AdvanceCompensation(l), st)
    BY <1>1, <2>1, AdvanceCompensationSound DEF PostProcessPre
  <2> QED BY <1>1, <2>2 DEF PostProcess
<1>2. CASE ~l.state.compensating
  <2> DEFINE T == {Forward(s) : s \in ReadySteps(l.state)}
             new == ScheduleForwardReady(l)
             done == Emit(new, RunEvent("run.completed", None))
  <2>1. l.state \in RunState /\ T \in SUBSET TaskID
    BY TaskIDFacts DEF ReadySteps, Batch
  <2>2. /\ new.state = ApplyTasksScheduled(l.state, T)
        /\ new.mutated = l.mutated \cup T
    BY BatchEffect DEF ScheduleForwardReady
  <2>3. new \in Batch
    BY ScheduleForwardReadyType
  <2>4. ReadyAdded(new.state, l.state)
    BY <2>1, <2>2, ReadyEffect
  <2>5. Consistent(new.state)
    BY <2>1, <2>2, ReadyConsistent
  <2>6. (\A s \in Step : ForwardStatus(l.state, s) \notin {"failed", "cancelled"})
           => HasOpenForwardTasks(new.state) \/ AllForwardCompleted(new.state)
    BY <2>1, <2>2, ReadyOpens
  <2>7. PostProcess(l) =
          IF AllForwardCompleted(new.state) /\ ~HasOpenForwardTasks(new.state)
            THEN done ELSE new
    BY <1>2 DEF PostProcess
  <2> HIDE DEF T
  <2>8. JustScheduled(new.state, l.state, T)
    BY <2>1, <2>2, ScheduledEffect
  <2> HIDE DEF new
  <2>9. Frame(new, st)
    <3>1. new.mutated = l.mutated \cup T
      BY <2>2
    <3> QED BY <3>1, <2>8 DEF Frame, JustScheduled
  <2>10. ~l.state.cancelRequested
    BY <1>2 DEF PostProcessPre
  <2>11. CASE AllForwardCompleted(new.state) /\ ~HasOpenForwardTasks(new.state)
    <3>1. done.state = Finish(new.state, "completed") /\ done.mutated = new.mutated
      BY <2>3, BatchEffect, RunEventDispatch
    <3>2. new.state \in RunState /\ None \in Failure
      BY <2>3 DEF Batch, Failure
    <3> HIDE DEF done
    <3>3. RunEnded(done.state, new.state, "completed")
      BY <3>1, <3>2, RunEventEffect
    <3>4. Consistent(done.state)
      BY <2>5, <3>3, SameTasksConsistent DEF RunEnded
    <3>5. AllForwardCompleted(done.state)
      BY <2>11, <3>3, SameTasksFacts DEF RunEnded
    <3>6. StatusInv(done.state)
      BY <1>2, <2>4, <2>10, <3>3, <3>5
         DEF RunEnded, ReadyAdded, StatusInv, RunningInv, CompensatingInv, CompletedInv,
             FailedInv, CancelInv
    <3>7. Frame(done, st)
      BY <2>9, <3>1, <3>3 DEF RunEnded, Frame, SameTasks
    <3> QED BY <2>7, <2>11, <3>4, <3>6, <3>7 DEF Sound
  <2>12. CASE ~(AllForwardCompleted(new.state) /\ ~HasOpenForwardTasks(new.state))
    <3>1. l.state.status \in {"running", "failed"}
      BY <1>2 DEF PostProcessPre
    <3>2. RunningInv(new.state)
      BY <2>4, <2>6, <2>10, <2>12 DEF ReadyAdded, RunningInv, PostProcessPre
    <3>3. \A s \in ReadySteps(l.state) : ForwardStatus(l.state, s) = "none"
      BY DEF ReadySteps, ForwardStatus
    <3>4. SomeForwardFailed(l.state) => SomeForwardFailed(new.state)
      BY <2>4, <3>3 DEF ReadyAdded, SomeForwardFailed
    <3>5. StatusInv(new.state)
      BY <2>4, <2>10, <3>1, <3>2, <3>4
         DEF ReadyAdded, PostProcessPre, StatusInv, CompensatingInv, CompletedInv,
             FailedInv, CancelInv
    <3> QED BY <2>5, <2>7, <2>9, <2>12, <3>5 DEF Sound
  <2> QED BY <2>11, <2>12
<1> QED BY <1>1, <1>2

-----------------------------------------------------------------------------
(***************************************************************************)
(* The commands, each on a state that satisfies the invariant.             *)
(***************************************************************************)

\* One task changed its status, and nothing about the run did.
TaskReported(new, st, t, status) ==
    /\ \A x \in TaskID \ {t} : new.tasks[x] = st.tasks[x]
    /\ new.tasks[t].status = status
    /\ new.status = st.status
    /\ new.cancelRequested = st.cancelRequested
    /\ new.compensating = st.compensating

LEMMA ReportEffect ==
    ASSUME NEW st \in RunState, NEW t \in TaskID, NEW w \in Worker \cup {None}
    PROVE  /\ TaskReported(ApplyTaskCompleted(st, t, w), st, t, "completed")
           /\ TaskReported(ApplyTimerFired(st, t), st, t, "completed")
           /\ TaskReported(ApplyTaskFailed(st, t, w), st, t, "failed")
  BY DEF ApplyTaskCompleted, ApplyTimerFired, ApplyTaskFailed, RecordOutput, SetTask,
         TaskReported, RunState, TaskState

\* The same, step by step.
LEMMA ReportedStatus ==
    ASSUME NEW st, NEW new, NEW t \in TaskID, NEW status, TaskReported(new, st, t, status)
    PROVE  \A s \in Step :
             /\ ForwardStatus(new, s) =
                  IF t = Forward(s) THEN status ELSE ForwardStatus(st, s)
             /\ CompensationStatus(new, s) =
                  IF t = Compensation(s) THEN status ELSE CompensationStatus(st, s)
  BY TaskIDFacts DEF TaskReported, ForwardStatus, CompensationStatus

\* A run with a task that is waiting or leased is not over, unless it failed.
LEMMA OpenTaskFacts ==
    ASSUME NEW st \in RunState, Consistent(st), StatusInv(st),
           NEW t \in TaskID, Open(st.tasks[t].status)
    PROVE  /\ st.status \in {"running", "compensating", "failed"}
           /\ st.cancelRequested => ~IsForward(t)
           /\ ~IsForward(t) => st.compensating
<1>1. CASE IsForward(t)
  <2>1. PICK s \in Step : t = Forward(s)
    BY <1>1, TaskIDFacts
  <2>2. HasOpenForwardTasks(st)
    BY <2>1 DEF HasOpenForwardTasks
  <2>3. st.forward[s] # "completed"
    BY <2>1 DEF Consistent, ForwardStatus, Open
  <2>4. st.status # "completed"
    BY <2>3 DEF StatusInv, CompletedInv, AllForwardCompleted
  <2>5. ~st.cancelRequested /\ st.status # "cancelled"
    BY <2>2 DEF StatusInv, CancelInv
  <2> QED BY <1>1, <2>4, <2>5 DEF RunState, RunStatus, StatusInv
<1>2. CASE ~IsForward(t)
  <2>1. PICK s \in Step : t = Compensation(s)
    BY <1>2, TaskIDFacts
  <2>2. HasOpenCompensationTasks(st)
    BY <2>1 DEF HasOpenCompensationTasks
  <2>3. s \in st.compScheduled
    BY <2>1 DEF Consistent, CompensationStatus, Open
  <2>4. st.compensating
    BY <2>3 DEF Consistent
  <2>5. st.status \notin {"completed", "cancelled"}
    BY <2>2, <2>4 DEF StatusInv, CompletedInv, CancelInv
  <2> QED BY <1>2, <2>4, <2>5 DEF RunState, RunStatus, StatusInv
<1> QED BY <1>1, <1>2

LEMMA CompletedPre ==
    ASSUME NEW st \in RunState, Consistent(st), StatusInv(st),
           NEW t \in TaskID, Open(st.tasks[t].status),
           NEW new, TaskReported(new, st, t, "completed")
    PROVE  PostProcessPre(new)
<1>1. /\ st.status \in {"running", "compensating", "failed"}
      /\ new.status = st.status
      /\ new.cancelRequested = st.cancelRequested
      /\ new.compensating = st.compensating
  BY OpenTaskFacts DEF TaskReported
<1>2. \A s \in Step :
        /\ ForwardStatus(new, s) =
             IF t = Forward(s) THEN "completed" ELSE ForwardStatus(st, s)
        /\ CompensationStatus(new, s) =
             IF t = Compensation(s) THEN "completed" ELSE CompensationStatus(st, s)
  BY ReportedStatus
<1>3. \A s \in Step : t = Forward(s) => ForwardStatus(st, s) # "failed"
  BY DEF ForwardStatus, Open
<1>4. SomeForwardFailed(st) => SomeForwardFailed(new)
  BY <1>2, <1>3 DEF SomeForwardFailed
<1>5. HasOpenForwardTasks(new) => HasOpenForwardTasks(st)
  BY <1>2 DEF HasOpenForwardTasks, ForwardStatus, Open
<1>6. AtMostOneOpen(st) => AtMostOneOpen(new)
  BY <1>2 DEF AtMostOneOpen, Open
<1>7. st.status = "running" =>
        \A s \in Step : ForwardStatus(new, s) \notin {"failed", "cancelled"}
  BY <1>2 DEF StatusInv, RunningInv
<1> QED BY <1>1, <1>4, <1>5, <1>6, <1>7
        DEF PostProcessPre, StatusInv, RunningInv, CompensatingInv, FailedInv, CancelInv

\* What BeginCompensationOrFinish needs after a task failed for good.
LEMMA FailedPre ==
    ASSUME NEW st \in RunState, Consistent(st), StatusInv(st),
           NEW t \in TaskID, Open(st.tasks[t].status),
           NEW new, TaskReported(new, st, t, "failed")
    PROVE  /\ new.compensating \/ SomeForwardFailed(new) \/ new.cancelRequested
           /\ new.cancelRequested =>
                ~HasOpenForwardTasks(new) /\ ~HasOpenCompensationTasks(new)
<1>1. /\ new.cancelRequested = st.cancelRequested
      /\ new.compensating = st.compensating
      /\ st.cancelRequested => ~IsForward(t)
      /\ ~IsForward(t) => st.compensating
  BY OpenTaskFacts DEF TaskReported
<1>2. \A s \in Step :
        /\ ForwardStatus(new, s) =
             IF t = Forward(s) THEN "failed" ELSE ForwardStatus(st, s)
        /\ CompensationStatus(new, s) =
             IF t = Compensation(s) THEN "failed" ELSE CompensationStatus(st, s)
  BY ReportedStatus
<1>3. IsForward(t) => SomeForwardFailed(new)
  BY <1>2, TaskIDFacts DEF SomeForwardFailed
<1>4. HasOpenForwardTasks(new) => HasOpenForwardTasks(st)
  BY <1>2 DEF HasOpenForwardTasks, ForwardStatus, Open
<1>5. ASSUME st.cancelRequested, HasOpenCompensationTasks(new) PROVE FALSE
  <2>1. PICK s \in Step : Open(CompensationStatus(new, s))
    BY <1>5 DEF HasOpenCompensationTasks, CompensationStatus
  <2>2. PICK r \in Step : t = Compensation(r)
    BY <1>1, <1>5, TaskIDFacts
  <2>3. t # Compensation(s) /\ Open(CompensationStatus(st, s))
    BY <1>2, <2>1 DEF Open
  <2>4. Open(CompensationStatus(st, r))
    BY <2>2 DEF CompensationStatus
  <2>5. s = r
    BY <1>5, <2>3, <2>4 DEF StatusInv, CancelInv, AtMostOneOpen
  <2> QED BY <2>2, <2>3, <2>5
<1> QED BY <1>1, <1>3, <1>4, <1>5 DEF StatusInv, CancelInv

\* A report, on a batch: the one task touched is the one reported on.
LEMMA ReportedFrame ==
    ASSUME NEW l, NEW st, NEW t \in TaskID, NEW status,
           TaskReported(l.state, st, t, status), t \in l.mutated
    PROVE  Frame(l, st)
  BY DEF Frame, TaskReported

LEMMA CompleteTaskSound ==
    ASSUME NEW st \in RunState, Consistent(st), StatusInv(st),
           NEW t \in TaskID, NEW w \in Worker, Open(st.tasks[t].status)
    PROVE  Sound(CompleteTaskOnce(st, t, w), st)
<1> DEFINE e == TaskEvent("task.completed", t, w)
           l == Mutate(Emit(Loaded(st), e), {t})
<1>1. Loaded(st) \in Batch /\ Loaded(st).state = st
  BY LoadedType DEF Loaded
<1>2. Emit(Loaded(st), e) \in Batch /\ l \in Batch
  BY <1>1, EmitTaskEventType, MutateType
<1>3. l.state = ApplyTaskCompleted(st, t, w) /\ t \in l.mutated
  BY <1>1, <1>2, BatchEffect, TaskEventDispatch
<1>4. CompleteTaskOnce(st, t, w) = PostProcess(l)
  BY DEF CompleteTaskOnce
<1> HIDE DEF l
<1>5. TaskReported(l.state, st, t, "completed")
  BY <1>3, ReportEffect
<1>6. Consistent(l.state)
  <2> DEFINE task == [st.tasks[t] EXCEPT !.status = "completed", !.owner = w]
  <2>1. task \in TaskState /\ task.status = "completed"
    <3>1. st.tasks[t] \in TaskState /\ "completed" \in TaskStatus
      BY DEF RunState, TaskStatus
    <3> QED BY <3>1, TaskUpdate, Zenon
  <2> HIDE DEF task
  <2>2. IF IsForward(t)
          THEN Consistent(RecordOutput(SetTask(st, t, task), StepOf(t)))
          ELSE Consistent([SetTask(st, t, task) EXCEPT !.compCompleted = @ \cup {StepOf(t)}])
    BY <2>1, CompletedConsistent
  <2> QED BY <1>3, <2>2 DEF ApplyTaskCompleted, task
<1>7. PostProcessPre(l.state)
  BY <1>5, CompletedPre
<1> QED BY <1>2, <1>3, <1>4, <1>5, <1>6, <1>7, ReportedFrame, PostProcessSound

LEMMA FireTimerSound ==
    ASSUME NEW st \in RunState, Consistent(st), StatusInv(st),
           NEW t \in TaskID, IsTimer(t), Open(st.tasks[t].status)
    PROVE  Sound(FireTimerOnce(st, t), st)
<1> DEFINE e == TaskEvent("timer.fired", t, None)
           l == Mutate(Emit(Loaded(st), e), {t})
<1>1. Loaded(st) \in Batch /\ Loaded(st).state = st
  BY LoadedType DEF Loaded
<1>2. Emit(Loaded(st), e) \in Batch /\ l \in Batch
  BY <1>1, EmitTaskEventType, MutateType
<1>3. l.state = ApplyTimerFired(st, t) /\ t \in l.mutated
  BY <1>1, <1>2, BatchEffect, TaskEventDispatch
<1>4. FireTimerOnce(st, t) = PostProcess(l)
  BY DEF FireTimerOnce
<1> HIDE DEF l
<1>5. TaskReported(l.state, st, t, "completed")
  BY <1>3, ReportEffect
<1>6. Consistent(l.state)
  <2> DEFINE task == [st.tasks[t] EXCEPT !.status = "completed"]
  <2>1. task \in TaskState /\ task.status = "completed"
    <3>1. st.tasks[t] \in TaskState /\ "completed" \in TaskStatus
      BY DEF RunState, TaskStatus
    <3> QED BY <3>1, TaskUpdate, Zenon
  <2>2. IsForward(t)
    BY DEF IsTimer
  <2> HIDE DEF task
  <2>3. Consistent(RecordOutput(SetTask(st, t, task), StepOf(t)))
    BY <2>1, <2>2, CompletedConsistent
  <2> QED BY <1>3, <2>3 DEF ApplyTimerFired, task
<1>7. PostProcessPre(l.state)
  BY <1>5, CompletedPre
<1> QED BY <1>2, <1>3, <1>4, <1>5, <1>6, <1>7, ReportedFrame, PostProcessSound

LEMMA FailTaskSound ==
    ASSUME NEW st \in RunState, Consistent(st), StatusInv(st),
           NEW t \in TaskID, NEW w \in Worker \cup {None}, NEW retryable \in BOOLEAN,
           st.tasks[t].status = "leased"
    PROVE  Sound(FailTaskOnce(st, t, w, retryable), st)
<1> DEFINE e == TaskEvent("task.failed", t, w)
           failed == Mutate(Emit(Loaded(st), e), {t})
           n == st.tasks[t].attempt + 1
           task == [st.tasks[t] EXCEPT !.status = "failed", !.owner = w]
           again == [status |-> "available", attempt |-> n, owner |-> None]
<1>1. Loaded(st) \in Batch /\ Loaded(st).state = st
  BY LoadedType DEF Loaded
<1>2. Emit(Loaded(st), e) \in Batch /\ failed \in Batch
  BY <1>1, EmitTaskEventType, MutateType
<1>3. failed.state = ApplyTaskFailed(st, t, w) /\ t \in failed.mutated
  BY <1>1, <1>2, BatchEffect, TaskEventDispatch
<1>4. /\ st.tasks[t] \in TaskState
      /\ Open(st.tasks[t].status)
      /\ failed.state \in RunState
  BY <1>2 DEF RunState, Open, Batch
<1>5. task \in TaskState /\ again \in TaskState
  <2>1. n \in Nat
    BY <1>4 DEF TaskState
  <2>2. "failed" \in TaskStatus /\ "available" \in TaskStatus
    BY DEF TaskStatus
  <2>3. task \in TaskState
    BY <1>4, <2>2, TaskUpdate
  <2> HIDE DEF n
  <2>4. again \in TaskState
    BY <2>1, <2>2 DEF TaskState
  <2> QED BY <2>3, <2>4
<1>6. FailTaskOnce(st, t, w, retryable) =
        IF CanRetry(st, t, retryable)
          THEN Emit(failed, RetryEvent(t, n))
          ELSE BeginCompensationOrFinish([failed EXCEPT !.state.failure = t])
  BY DEF FailTaskOnce
<1>7. failed.state = SetTask(st, t, task)
  BY <1>3 DEF ApplyTaskFailed
<1>8. task.status = "failed" /\ again.status = "available"
  BY <1>4 DEF TaskState
<1> HIDE DEF failed, n, task
<1>9. TaskReported(failed.state, st, t, "failed")
  BY <1>3, ReportEffect
<1>10. Consistent(failed.state)
  BY <1>5, <1>7, <1>8, SetTaskConsistent
<1>11. CASE CanRetry(st, t, retryable)
  <2> DEFINE new == Emit(failed, RetryEvent(t, n))
  <2>1. /\ new.state = SetTask(failed.state, t, again)
        /\ new.mutated = failed.mutated
    BY <1>2, BatchEffect, RetryEventDispatch DEF ApplyTaskRetryScheduled
  <2> HIDE DEF new, again
  <2>2. /\ \A x \in TaskID :
             new.state.tasks[x] = IF x = t THEN again ELSE failed.state.tasks[x]
        /\ SameMarks(new.state, failed.state)
    BY <1>4, <1>5, <2>1, SetTaskEffect
  <2>3. SameMarks(failed.state, st)
    BY <1>5, <1>7, SetTaskEffect
  <2>4. failed.state.tasks[t].status = "failed"
    BY <1>9 DEF TaskReported
  <2>5. Consistent(new.state)
    BY <1>4, <1>5, <1>8, <1>10, <2>1, <2>4, SetTaskConsistent
  <2>6. \A x \in TaskID \ {t} : new.state.tasks[x] = st.tasks[x]
    BY <1>9, <2>2 DEF TaskReported
  <2>7. Open(new.state.tasks[t].status)
    BY <1>8, <2>2 DEF Open
  <2>8. StatusInv(new.state)
    BY <1>4, <2>2, <2>3, <2>5, <2>6, <2>7, OpenMovesKeepStatusInv DEF SameMarks
  <2>9. Frame(new, st)
    BY <1>3, <2>1, <2>6 DEF Frame
  <2> QED BY <1>6, <1>11, <2>5, <2>8, <2>9 DEF Sound, new
<1>12. CASE ~CanRetry(st, t, retryable)
  <2> DEFINE new == [failed EXCEPT !.state.failure = t]
  <2>1. new \in Batch
    BY <1>2 DEF Batch, RunState, Failure
  <2>2. /\ SameTasks(new.state, failed.state)
        /\ new.state.cancelRequested = failed.state.cancelRequested
        /\ new.state.compensating = failed.state.compensating
        /\ new.state.status = failed.state.status
        /\ new.mutated = failed.mutated
    BY <1>2 DEF Batch, RunState, SameTasks
  <2> HIDE DEF new
  <2>3. Consistent(new.state)
    BY <1>10, <2>2, SameTasksConsistent
  <2>4. TaskReported(new.state, st, t, "failed")
    BY <1>9, <2>2 DEF TaskReported, SameTasks
  <2>5. Frame(new, st)
    BY <1>3, <2>2, <2>4, ReportedFrame
  <2>6. Sound(BeginCompensationOrFinish(new), st)
    BY <1>4, <2>1, <2>3, <2>4, <2>5, FailedPre, BeginCompensationOrFinishSound
  <2> QED BY <1>6, <1>12, <2>6 DEF new
<1> QED BY <1>11, <1>12

LEMMA CancelRunSound ==
    ASSUME NEW st \in RunState, Consistent(st), StatusInv(st)
    PROVE  Sound(CancelRunOnce(st), st)
<1> DEFINE requested == Emit(Loaded(st), RunEvent("run.cancel_requested", None))
           open == {t \in TaskID : Open(st.tasks[t].status)}
           new == CancelTasks(requested, open)
<1>1. Loaded(st) \in Batch /\ Loaded(st).state = st /\ None \in Failure
  BY LoadedType DEF Loaded, Failure
<1>2. requested \in Batch
  BY <1>1, EmitRunEventType DEF RunEventType
<1>3. requested.state = ApplyRunCancelRequested(st)
  BY <1>1, BatchEffect, RunEventDispatch
<1>4. new \in Batch /\ requested.state \in RunState
  BY <1>2, CancelTasksType DEF Batch
<1>5. /\ new.state = ApplyTasksCancelled(requested.state, open)
      /\ new.mutated = requested.mutated \cup open
  BY <1>2, BatchEffect
<1>6. CancelRunOnce(st) = BeginCompensationOrFinish(new)
  BY DEF CancelRunOnce
<1>7. RunCancelling(requested.state, st)
  BY <1>1, <1>3, RunEventEffect
<1>8. open \in SUBSET TaskID
  OBVIOUS
<1>9. \A x \in TaskID : x \in open <=> Open(requested.state.tasks[x].status)
  BY <1>7 DEF RunCancelling, SameTasks
<1> HIDE DEF requested, open, new
<1>10. Consistent(requested.state)
  BY <1>7, SameTasksConsistent DEF RunCancelling
<1>11. Consistent(new.state)
  BY <1>4, <1>5, <1>8, <1>9, <1>10, CancelledConsistent
<1>12. JustCancelled(new.state, requested.state, open)
  BY <1>4, <1>5, <1>8, CancelledEffect
<1>13. Frame(new, st)
  <2>1. \A x \in TaskID \ open : new.state.tasks[x] = st.tasks[x]
    BY <1>7, <1>12 DEF JustCancelled, RunCancelling, SameTasks
  <2> QED BY <1>5, <2>1 DEF Frame
<1>14. new.state.cancelRequested
  BY <1>7, <1>12 DEF JustCancelled, RunCancelling, SameMarks
<1>15. \A x \in TaskID : ~Open(new.state.tasks[x].status)
  <2>1. \A x \in open : x \in TaskID
    BY <1>8
  <2>2. ASSUME NEW x \in open PROVE new.state.tasks[x].status = "cancelled"
    <3>1. requested.state.tasks[x] \in TaskState
      BY <1>4, <2>1 DEF RunState
    <3> QED BY <1>12, <2>1, <3>1 DEF JustCancelled, TaskState
  <2>3. ASSUME NEW x \in TaskID, x \notin open PROVE ~Open(new.state.tasks[x].status)
    BY <1>9, <1>12, <2>3 DEF JustCancelled
  <2> QED BY <2>2, <2>3 DEF Open
<1>16. ~HasOpenForwardTasks(new.state) /\ ~HasOpenCompensationTasks(new.state)
  BY <1>15, TaskIDFacts DEF HasOpenForwardTasks, HasOpenCompensationTasks
<1> QED BY <1>4, <1>6, <1>11, <1>13, <1>14, <1>16, BeginCompensationOrFinishSound

-----------------------------------------------------------------------------
(***************************************************************************)
(* The steps of a run.                                                     *)
(***************************************************************************)

\* A heartbeat renews a lease: no status changes.
LEMMA HeartbeatSound ==
    ASSUME NEW st \in RunState, Consistent(st), StatusInv(st),
           NEW t \in TaskID, NEW w \in Worker
    PROVE  /\ Consistent(ApplyTaskHeartbeat(st, t, w))
           /\ StatusInv(ApplyTaskHeartbeat(st, t, w))
<1> DEFINE new == ApplyTaskHeartbeat(st, t, w)
<1>1. /\ \A x \in TaskID : new.tasks[x].status = st.tasks[x].status
      /\ new.forward = st.forward
      /\ SameMarks(new, st)
  BY DEF ApplyTaskHeartbeat, RunState, TaskState, SameMarks
<1> HIDE DEF new
<1>2. \A s \in Step : /\ ForwardStatus(new, s) = ForwardStatus(st, s)
                      /\ CompensationStatus(new, s) = CompensationStatus(st, s)
  BY <1>1, TaskIDFacts DEF ForwardStatus, CompensationStatus
<1>3. Consistent(new)
  BY <1>1, <1>2 DEF Consistent, SameMarks
<1>4. StatusInv(new)
  BY <1>1, <1>3, OpenMovesKeepStatusInv DEF SameMarks
<1> QED BY <1>3, <1>4 DEF new

\* A lease: an available task becomes a leased one.
LEMMA LeaseSound ==
    ASSUME NEW st \in RunState, Consistent(st), StatusInv(st),
           NEW t \in TaskID, NEW w \in Worker, st.tasks[t].status = "available"
    PROVE  /\ Consistent(ApplyTaskLeased(st, t, w))
           /\ StatusInv(ApplyTaskLeased(st, t, w))
<1> DEFINE task == [st.tasks[t] EXCEPT !.status = "leased", !.owner = w]
           new == ApplyTaskLeased(st, t, w)
<1>1. st.tasks[t] \in TaskState /\ "leased" \in TaskStatus
  BY DEF RunState, TaskStatus
<1>2. task \in TaskState /\ task.status = "leased"
  BY <1>1, TaskUpdate, Zenon
<1>3. new = SetTask(st, t, task)
  BY DEF ApplyTaskLeased
<1> HIDE DEF task, new
<1>4. Consistent(new)
  BY <1>2, <1>3, SetTaskConsistent
<1>5. /\ \A x \in TaskID : new.tasks[x] = IF x = t THEN task ELSE st.tasks[x]
      /\ SameMarks(new, st)
  BY <1>2, <1>3, SetTaskEffect
<1>6. \A x \in TaskID : \/ new.tasks[x].status = st.tasks[x].status
                        \/ Open(new.tasks[x].status) /\ Open(st.tasks[x].status)
  BY <1>2, <1>5 DEF Open
<1>7. StatusInv(new)
  BY <1>4, <1>5, <1>6, OpenMovesKeepStatusInv DEF SameMarks
<1> QED BY <1>4, <1>7 DEF new

\* Committing a sound batch: the row of every task follows its state.
LEMMA AppendRunChangesSound ==
    ASSUME TypeOK, ViewsAgree, NEW cmd \in Batch, Sound(cmd, state), AppendRunChanges(cmd)
    PROVE  ViewsAgree' /\ Consistent(state') /\ StatusInv(state')
<1>1. state' = Reload(cmd.state) /\ cmd.state \in RunState
  BY DEF AppendRunChanges, Batch
<1>2. /\ SameTasks(state', cmd.state)
      /\ state'.status = cmd.state.status
      /\ state'.cancelRequested = cmd.state.cancelRequested
      /\ state'.compensating = cmd.state.compensating
  BY <1>1 DEF Reload, RunState, SameTasks
<1>3. Consistent(state')
  BY <1>2, SameTasksConsistent DEF Sound
<1>4. StatusInv(state')
  BY <1>2, <1>3, OpenMovesKeepStatusInv DEF Sound, SameTasks
<1>5. \A t \in TaskID : rows'[t] = UpdateTaskRecord(state'.tasks[t])
  <2>1. ASSUME NEW t \in TaskID, t \in cmd.mutated
        PROVE  rows'[t] = UpdateTaskRecord(state'.tasks[t])
    BY <1>2, <2>1 DEF AppendRunChanges, SameTasks
  <2>2. ASSUME NEW t \in TaskID, t \notin cmd.mutated
        PROVE  rows'[t] = UpdateTaskRecord(state'.tasks[t])
    <3>1. rows'[t] = rows[t]
      BY <2>2 DEF AppendRunChanges
    <3>2. cmd.state.tasks[t] = state.tasks[t]
      BY <2>2 DEF Sound, Frame
    <3> QED BY <1>2, <3>1, <3>2 DEF SameTasks, ViewsAgree
  <2> QED BY <2>1, <2>2
<1>6. run'.status = state'.status
  BY <1>2 DEF AppendRunChanges
<1>7. \A s \in Step : state'.forward[s] = state'.tasks[Forward(s)].status
  BY <1>3 DEF Consistent, ForwardStatus
<1> QED BY <1>3, <1>4, <1>5, <1>6, <1>7 DEF ViewsAgree

LEMMA InitInvariant == Init => IInv
<1> SUFFICES ASSUME Init PROVE IInv
  OBVIOUS
<1> DEFINE l == Emit(Loaded(InitialState(None)), RunEvent("workflow.started", None))
<1>1. InitialState(None) \in RunState /\ None \in Failure
  BY InitialStateType DEF Failure
<1>2. Loaded(InitialState(None)) \in Batch
  BY <1>1, LoadedType
<1>3. l \in Batch
  BY <1>1, <1>2, EmitRunEventType DEF RunEventType
<1>4. l.state = ApplyWorkflowStarted(InitialState(None))
  BY <1>2, BatchEffect, RunEventDispatch DEF Loaded
<1>5. StartRun = ScheduleForwardReady(l)
  BY DEF StartRun
<1> HIDE DEF l
<1>6. /\ \A s \in Step : /\ ForwardStatus(l.state, s) = "none"
                         /\ CompensationStatus(l.state, s) = "none"
                         /\ l.state.forward[s] = "none"
      /\ l.state.status = "running"
      /\ l.state.outputs = {}
      /\ l.state.completedOrder = <<>>
      /\ l.state.compScheduled = {}
      /\ l.state.compCompleted = {}
      /\ ~l.state.cancelRequested
      /\ ~l.state.compensating
  <2>1. /\ \A x \in TaskID : l.state.tasks[x].status = "none"
        /\ \A s \in Step : l.state.forward[s] = "none"
        /\ l.state.status = "running"
        /\ l.state.outputs = {}
        /\ l.state.completedOrder = <<>>
        /\ l.state.compScheduled = {}
        /\ l.state.compCompleted = {}
        /\ l.state.cancelRequested = FALSE
        /\ l.state.compensating = FALSE
    BY <1>4 DEF ApplyWorkflowStarted, InitialState, NoTask
  <2> QED BY <2>1, TaskIDFacts DEF ForwardStatus, CompensationStatus
<1>7. l.state \in RunState
  BY <1>3 DEF Batch
<1>8. Consistent(l.state)
  <2>1. ToSet(l.state.completedOrder) = {}
    BY <1>6, EmptySeq, LenProperties DEF ToSet
  <2> QED BY <1>6, <2>1 DEF Consistent
<1>9. StartRun.state =
        ApplyTasksScheduled(l.state, {Forward(s) : s \in ReadySteps(l.state)})
  BY <1>3, <1>5, BatchEffect DEF ScheduleForwardReady
<1> DEFINE new == StartRun.state
<1>10. Consistent(new)
  BY <1>7, <1>8, <1>9, ReadyConsistent
<1>11. ReadyAdded(new, l.state)
  BY <1>7, <1>8, <1>9, ReadyEffect
<1>12. HasOpenForwardTasks(new) \/ AllForwardCompleted(new)
  BY <1>6, <1>7, <1>8, <1>9, ReadyOpens
<1> HIDE DEF new
<1>13. ~AllForwardCompleted(new)
  <2>1. PICK s \in Step : TRUE
    BY WorkflowAssumption
  <2>2. ForwardStatus(new, s) # "completed"
    BY <1>6, <1>11 DEF ReadyAdded
  <2> QED BY <1>10, <2>2 DEF AllForwardCompleted, Consistent
<1>14. StatusInv(new)
  BY <1>6, <1>11, <1>12, <1>13
     DEF ReadyAdded, StatusInv, RunningInv, CompensatingInv, CompletedInv, FailedInv,
         CancelInv
<1>15. ViewsAgree
  BY <1>10 DEF Init, ViewsAgree, Consistent, ForwardStatus, new
<1>16. state = new
  BY DEF Init, new
<1> QED BY <1>10, <1>14, <1>15, <1>16, InitType DEF IInv

LEMMA NextInvariant == IInv /\ [Next]_vars => IInv'
<1> SUFFICES ASSUME IInv, [Next]_vars PROVE IInv'
  OBVIOUS
<1>1. /\ TypeOK /\ ViewsAgree /\ Consistent(state) /\ StatusInv(state)
      /\ state \in RunState
      /\ TypeOK'
  BY NextType DEF IInv, TypeOK
<1> SUFFICES ViewsAgree' /\ Consistent(state') /\ StatusInv(state')
  BY <1>1 DEF IInv
<1>2. ASSUME NEW w \in Worker, NEW t \in TaskID, LeaseTask(w, t)
      PROVE  ViewsAgree' /\ Consistent(state') /\ StatusInv(state')
  <2>1. state.tasks[t].status = "available"
    BY <1>1, <1>2 DEF LeaseTask, ViewsAgree, UpdateTaskRecord, TypeOK, RunState, TaskState
  <2>2. state' = ApplyTaskLeased(state, t, w)
    BY <1>2, TaskEventDispatch DEF LeaseTask
  <2>3. Consistent(state') /\ StatusInv(state')
    BY <1>1, <2>1, <2>2, LeaseSound
  <2>4. run'.status = state'.status
    BY <1>1, <1>2, <2>2 DEF LeaseTask, ViewsAgree, ApplyTaskLeased, SetTask, RunState
  <2>5. \A x \in TaskID : rows'[x] = UpdateTaskRecord(state'.tasks[x])
    <3>1. \A x \in TaskID : state'.tasks[x] =
            IF x = t THEN [state.tasks[t] EXCEPT !.status = "leased", !.owner = w]
                     ELSE state.tasks[x]
      BY <1>1, <2>2 DEF ApplyTaskLeased, SetTask, RunState
    <3>2. ASSUME NEW x \in TaskID, x # t PROVE rows'[x] = UpdateTaskRecord(state'.tasks[x])
      BY <1>1, <1>2, <3>1, <3>2 DEF LeaseTask, ViewsAgree, TypeOK
    <3>3. rows'[t] = UpdateTaskRecord(state'.tasks[t])
      <4>1. rows'[t] = [rows[t] EXCEPT !.status = "leased", !.owner = w]
        BY <1>1, <1>2 DEF LeaseTask, TypeOK
      <4>2. rows[t] = [state.tasks[t] EXCEPT !.owner = None]
        BY <1>1, <2>1 DEF ViewsAgree, UpdateTaskRecord
      <4>3. state.tasks[t] \in TaskState
        BY <1>1 DEF RunState
      <4>4. rows'[t] = [state.tasks[t] EXCEPT !.status = "leased", !.owner = w]
        BY <4>1, <4>2, <4>3 DEF TaskState
      <4>5. state'.tasks[t] = rows'[t] /\ state'.tasks[t].status = "leased"
        BY <3>1, <4>3, <4>4 DEF TaskState
      <4>6. UpdateTaskRecord(state'.tasks[t]) = state'.tasks[t]
        BY <4>3, <4>4, <4>5 DEF UpdateTaskRecord, TaskState
      <4> QED BY <4>5, <4>6
    <3> QED BY <3>2, <3>3
  <2> QED BY <2>3, <2>4, <2>5 DEF ViewsAgree, Consistent, ForwardStatus
<1>3. ASSUME NEW w \in Worker, NEW t \in TaskID, HeartbeatTask(w, t)
      PROVE  ViewsAgree' /\ Consistent(state') /\ StatusInv(state')
  <2>1. state' = ApplyTaskHeartbeat(state, t, w)
    BY <1>3, TaskEventDispatch DEF HeartbeatTask
  <2>2. Consistent(state') /\ StatusInv(state')
    BY <1>1, <2>1, HeartbeatSound
  <2>3. run'.status = state'.status
    BY <1>1, <1>3, <2>1 DEF HeartbeatTask, ViewsAgree, ApplyTaskHeartbeat, RunState
  <2>4. \A x \in TaskID : state'.tasks[x] = state.tasks[x]
    <3>1. state.tasks[t].owner = w
      BY <1>1, <1>3 DEF HeartbeatTask, ViewsAgree, UpdateTaskRecord, TypeOK, RunState, TaskState
    <3>2. state.tasks[t] \in TaskState
      BY <1>1 DEF RunState
    <3>3. [state.tasks[t] EXCEPT !.owner = w] = state.tasks[t]
      BY <3>1, <3>2 DEF TaskState
    <3> QED BY <1>1, <2>1, <3>3 DEF ApplyTaskHeartbeat, RunState
  <2>5. \A x \in TaskID : rows'[x] = UpdateTaskRecord(state'.tasks[x])
    BY <1>1, <1>3, <2>4 DEF HeartbeatTask, ViewsAgree
  <2> QED BY <2>2, <2>3, <2>5 DEF ViewsAgree, Consistent, ForwardStatus
<1>4. ASSUME NEW w \in Worker, NEW t \in TaskID, CompleteTask(w, t)
      PROVE  ViewsAgree' /\ Consistent(state') /\ StatusInv(state')
  <2>1. Open(state.tasks[t].status)
    BY <1>4 DEF CompleteTask, Holds, Open
  <2> QED BY <1>1, <1>4, <2>1, CompleteTaskType, CompleteTaskSound, AppendRunChangesSound
          DEF CompleteTask
<1>5. ASSUME NEW w \in Worker, NEW t \in TaskID, FailTask(w, t)
      PROVE  ViewsAgree' /\ Consistent(state') /\ StatusInv(state')
  BY <1>1, <1>5, FailTaskType, FailTaskSound, AppendRunChangesSound DEF FailTask, Holds
<1>6. ASSUME NEW t \in TaskID, FireTimer(t)
      PROVE  ViewsAgree' /\ Consistent(state') /\ StatusInv(state')
  <2>1. IsTimer(t) /\ Open(state.tasks[t].status)
    BY <1>6 DEF FireTimer, Open
  <2> QED BY <1>1, <1>6, <2>1, FireTimerType, FireTimerSound, AppendRunChangesSound
          DEF FireTimer
<1>7. ASSUME CancelRun
      PROVE  ViewsAgree' /\ Consistent(state') /\ StatusInv(state')
  BY <1>1, <1>7, CancelRunType, CancelRunSound, AppendRunChangesSound DEF CancelRun
<1>8. ASSUME FailExpiredLease
      PROVE  ViewsAgree' /\ Consistent(state') /\ StatusInv(state')
  <2>1. CASE Holds(state, sweep.task, sweep.owner)
    <3>1. sweep.task \in TaskID /\ sweep.owner \in Worker \cup {None}
      BY <1>1, <1>8 DEF FailExpiredLease, TypeOK
    <3>2. state.tasks[sweep.task].status = "leased"
      BY <2>1 DEF Holds
    <3>3. AppendRunChanges(FailTaskOnce(state, sweep.task, sweep.owner, TRUE))
      BY <1>8, <2>1 DEF FailExpiredLease
    <3> QED BY <1>1, <3>1, <3>2, <3>3, FailTaskType, FailTaskSound, AppendRunChangesSound
  <2>2. CASE ~Holds(state, sweep.task, sweep.owner)
    BY <1>1, <1>8, <2>2 DEF FailExpiredLease, ViewsAgree
  <2> QED BY <2>1, <2>2
<1>9. ASSUME UNCHANGED <<run, rows, state>>
      PROVE  ViewsAgree' /\ Consistent(state') /\ StatusInv(state')
  BY <1>1, <1>9 DEF ViewsAgree
<1>10. ASSUME NEW t \in TaskID, RecoverExpiredLease(t) \/ Tick(t)
       PROVE  UNCHANGED <<run, rows, state>>
  BY <1>10 DEF RecoverExpiredLease, Tick
<1>11. Restart \/ UNCHANGED vars => UNCHANGED <<run, rows, state>>
  BY DEF Restart, vars
<1> QED BY <1>2, <1>3, <1>4, <1>5, <1>6, <1>7, <1>8, <1>9, <1>10, <1>11 DEF Next

\* The bookkeeping of a run and the meaning of its status, in every behaviour.
THEOREM Invariant == Spec => []IInv
  BY InitInvariant, NextInvariant, PTL DEF Spec
=============================================================================
