--------------------------- MODULE OptimisticProofs ---------------------------
(***************************************************************************)
(* Calls that interleave read by read implement the one-step commands of   *)
(* RunEngine: for every workflow, any number of clients and any number of  *)
(* tries.                                                                  *)
(***************************************************************************)
EXTENDS OptimisticEngine, RunHistoryProofs, RunTheorems

-----------------------------------------------------------------------------
(***************************************************************************)
(* Every command writes an event, so every commit moves the version.       *)
(***************************************************************************)
LEMMA EmitGrows ==
    ASSUME NEW l \in Batch, NEW e
    PROVE  Len(Emit(l, e).events) = Len(l.events) + 1
<1>1. Emit(l, e).events = Append(l.events, e)
  BY DEF Emit, Batch
<1> QED BY <1>1 DEF Batch

LEMMA ScheduleTasksGrows ==
    ASSUME NEW l \in Batch, NEW T \in SUBSET TaskID
    PROVE  Len(ScheduleTasks(l, T).events) >= Len(l.events)
<1>1. /\ TaskEvents("task.scheduled", T) \in Seq(Event)
      /\ l.events \in Seq(Event)
  BY TaskEventsType DEF Batch, TaskEventType
<1>2. ScheduleTasks(l, T).events = l.events \o TaskEvents("task.scheduled", T)
  BY DEF ScheduleTasks, Mutate, Batch
<1> QED BY <1>1, <1>2, ConcatProperties, LenProperties

LEMMA CancelTasksGrows ==
    ASSUME NEW l \in Batch, NEW T \in SUBSET TaskID
    PROVE  Len(CancelTasks(l, T).events) >= Len(l.events)
<1>1. /\ TaskEvents("task.cancelled", T) \in Seq(Event)
      /\ l.events \in Seq(Event)
  BY TaskEventsType DEF Batch, TaskEventType
<1>2. CancelTasks(l, T).events = l.events \o TaskEvents("task.cancelled", T)
  BY DEF CancelTasks, Mutate, Batch
<1> QED BY <1>1, <1>2, ConcatProperties, LenProperties

LEMMA ScheduleForwardReadyGrows ==
    ASSUME NEW l \in Batch
    PROVE  Len(ScheduleForwardReady(l).events) >= Len(l.events)
<1>1. {Forward(s) : s \in ReadySteps(l.state)} \in SUBSET TaskID
  BY TaskIDFacts DEF ReadySteps
<1> QED BY <1>1, ScheduleTasksGrows DEF ScheduleForwardReady

LEMMA NewCompensationTaskGrows ==
    ASSUME NEW l \in Batch, Unwindable(l.state) # {}
    PROVE  Len(NewCompensationTask(l).events) >= Len(l.events)
<1>1. {Compensation(NextCompensationStep(l.state))} \in SUBSET TaskID
  BY TaskIDFacts, NextCompensationStepFacts DEF Batch
<1> QED BY <1>1, ScheduleTasksGrows DEF NewCompensationTask

LEMMA FinishRunGrows ==
    ASSUME NEW l \in Batch
    PROVE  Len(FinishRunWithoutCompensation(l).events) = Len(l.events) + 1
BY EmitGrows DEF FinishRunWithoutCompensation

LEMMA AdvanceCompensationGrows ==
    ASSUME NEW l \in Batch
    PROVE  Len(AdvanceCompensation(l).events) >= Len(l.events)
<1>1. Len(l.events) \in Nat
  BY LenProperties DEF Batch
<1> QED BY <1>1, NewCompensationTaskGrows, FinishRunGrows DEF AdvanceCompensation

LEMMA BeginCompensationOrFinishGrows ==
    ASSUME NEW l \in Batch
    PROVE  Len(BeginCompensationOrFinish(l).events) > Len(l.events)
<1> DEFINE reason == IF l.state.cancelRequested THEN None ELSE l.state.failure
           begun == Emit(l, RunEvent("run.compensating", reason))
<1>1. reason \in Failure
  BY DEF Batch, RunState, Failure
<1>2. begun \in Batch
  BY <1>1, EmitRunEventType DEF RunEventType
<1>3. Unwindable(begun.state) = Unwindable(l.state)
  <2>1. begun.state = ApplyRunCompensating(l.state, reason)
    BY RunEventDispatch DEF Emit, Batch
  <2> QED BY <2>1 DEF Unwindable, ApplyRunCompensating, Batch, RunState
<1>4. Len(begun.events) = Len(l.events) + 1
  BY EmitGrows
<1>5. Len(l.events) \in Nat
  BY LenProperties DEF Batch
<1> HIDE DEF begun, reason
<1>6. CASE Unwindable(l.state) # {}
  <2>1. Len(NewCompensationTask(begun).events) >= Len(begun.events)
    BY <1>2, <1>3, <1>6, NewCompensationTaskGrows
  <2>2. BeginCompensationOrFinish(l) = NewCompensationTask(begun)
    BY <1>6 DEF BeginCompensationOrFinish, begun, reason
  <2>3. NewCompensationTask(begun) \in Batch
    BY <1>2, <1>3, <1>6, NewCompensationTaskType
  <2>4. Len(NewCompensationTask(begun).events) \in Nat
    BY <2>3, LenProperties DEF Batch
  <2> QED BY <1>4, <1>5, <2>1, <2>2, <2>4
<1>7. CASE Unwindable(l.state) = {}
  BY <1>5, <1>7, FinishRunGrows DEF BeginCompensationOrFinish
<1> QED BY <1>6, <1>7

LEMMA PostProcessGrows ==
    ASSUME NEW l \in Batch
    PROVE  Len(PostProcess(l).events) >= Len(l.events)
<1>1. ScheduleForwardReady(l) \in Batch
  BY ScheduleForwardReadyType
<1>2. Len(ScheduleForwardReady(l).events) >= Len(l.events)
  BY ScheduleForwardReadyGrows
<1>3. /\ Len(Emit(ScheduleForwardReady(l), RunEvent("run.completed", None)).events)
           = Len(ScheduleForwardReady(l).events) + 1
      /\ Len(l.events) \in Nat /\ Len(ScheduleForwardReady(l).events) \in Nat
  BY <1>1, EmitGrows, LenProperties DEF Batch
<1> QED BY <1>2, <1>3, AdvanceCompensationGrows DEF PostProcess

\* The four kinds of commands.
LEMMA ReportedGrows ==
    ASSUME NEW st \in RunState, NEW t \in TaskID, NEW w \in Worker \cup {None},
           NEW type \in {"task.completed", "task.failed", "timer.fired"}
    PROVE  LET l == Mutate(Emit(Loaded(st), TaskEvent(type, t, w)), {t})
           IN  l \in Batch /\ Len(l.events) = 1
<1>1. Loaded(st) \in Batch /\ Len(Loaded(st).events) = 0
  BY LoadedType DEF Loaded
<1>2. Emit(Loaded(st), TaskEvent(type, t, w)) \in Batch
  BY <1>1, EmitTaskEventType
<1>3. Len(Emit(Loaded(st), TaskEvent(type, t, w)).events) = 1
  <2>1. Len(Emit(Loaded(st), TaskEvent(type, t, w)).events) = Len(Loaded(st).events) + 1
    BY <1>1, EmitGrows
  <2>2. Len(Loaded(st).events) = 0
    BY <1>1
  <2>3. Len(Emit(Loaded(st), TaskEvent(type, t, w)).events) = 0 + 1
    BY <2>1, <2>2
  <2> QED BY <2>3
<1>4. Mutate(Emit(Loaded(st), TaskEvent(type, t, w)), {t}).events
        = Emit(Loaded(st), TaskEvent(type, t, w)).events
  BY <1>2 DEF Mutate, Batch
<1> QED BY <1>2, <1>3, <1>4, MutateType

LEMMA FailTaskGrows ==
    ASSUME NEW st \in RunState, NEW t \in TaskID, NEW w \in Worker \cup {None},
           NEW retryable \in BOOLEAN
    PROVE  Len(FailTaskOnce(st, t, w, retryable).events) > 0
<1> DEFINE failed == Mutate(Emit(Loaded(st), TaskEvent("task.failed", t, w)), {t})
           noted == [failed EXCEPT !.state.failure = t]
<1>1. failed \in Batch /\ Len(failed.events) = 1
  BY ReportedGrows
<1>2. noted \in Batch /\ noted.events = failed.events
  BY <1>1 DEF Batch, RunState, Failure
<1> HIDE DEF failed
<1>3. Len(Emit(failed, RetryEvent(t, st.tasks[t].attempt + 1)).events) = 2
  <2>1. Len(Emit(failed, RetryEvent(t, st.tasks[t].attempt + 1)).events) = Len(failed.events) + 1
    BY <1>1, EmitGrows
  <2>2. Len(failed.events) = 1
    BY <1>1
  <2>3. Len(Emit(failed, RetryEvent(t, st.tasks[t].attempt + 1)).events) = 1 + 1
    BY <2>1, <2>2
  <2> QED BY <2>3
<1>4. Len(BeginCompensationOrFinish(noted).events) > 1
  BY <1>1, <1>2, BeginCompensationOrFinishGrows
<1>5. BeginCompensationOrFinish(noted) \in Batch
  BY <1>2, BeginCompensationOrFinishType
<1>6. Len(BeginCompensationOrFinish(noted).events) \in Nat
  BY <1>5, LenProperties DEF Batch
<1>7. FailTaskOnce(st, t, w, retryable)
        = IF CanRetry(st, t, retryable)
            THEN Emit(failed, RetryEvent(t, st.tasks[t].attempt + 1))
            ELSE BeginCompensationOrFinish(noted)
  BY DEF FailTaskOnce, failed
<1>8. CASE CanRetry(st, t, retryable)
  <2>1. FailTaskOnce(st, t, w, retryable) = Emit(failed, RetryEvent(t, st.tasks[t].attempt + 1))
    BY <1>7, <1>8
  <2>2. Len(FailTaskOnce(st, t, w, retryable).events) = 2
    BY <1>3, <2>1, Zenon
  <2> QED BY <2>2
<1>9. CASE ~CanRetry(st, t, retryable)
  <2> DEFINE n == Len(BeginCompensationOrFinish(noted).events)
  <2>1. FailTaskOnce(st, t, w, retryable) = BeginCompensationOrFinish(noted)
    BY <1>7, <1>9
  <2>2. Len(FailTaskOnce(st, t, w, retryable).events) = n
    BY <2>1, Zenon
  <2>3. n > 1 /\ n \in Nat
    BY <1>4, <1>6
  <2> HIDE DEF n
  <2> QED BY <2>2, <2>3
<1> QED BY <1>8, <1>9, Zenon

LEMMA CancelRunGrows ==
    ASSUME NEW st \in RunState
    PROVE  Len(CancelRunOnce(st).events) > 0
<1> DEFINE requested == Emit(Loaded(st), RunEvent("run.cancel_requested", None))
           open == {t \in TaskID : Open(st.tasks[t].status)}
<1>1. requested \in Batch
  BY LoadedType, EmitRunEventType DEF RunEventType, Failure
<1> HIDE DEF requested
<1>2. CancelTasks(requested, open) \in Batch
  BY <1>1, CancelTasksType
<1>3. Len(CancelTasks(requested, open).events) \in Nat
  BY <1>2, LenProperties DEF Batch
<1>4. /\ BeginCompensationOrFinish(CancelTasks(requested, open)) \in Batch
      /\ Len(BeginCompensationOrFinish(CancelTasks(requested, open)).events)
           > Len(CancelTasks(requested, open).events)
  BY <1>2, BeginCompensationOrFinishGrows, BeginCompensationOrFinishType
<1>5. Len(BeginCompensationOrFinish(CancelTasks(requested, open)).events) \in Nat
  BY <1>4, LenProperties DEF Batch
<1> QED BY <1>3, <1>4, <1>5 DEF CancelRunOnce, requested

LEMMA ProcessedGrows ==
    ASSUME NEW l \in Batch, Len(l.events) = 1
    PROVE  Len(PostProcess(l).events) > 0
<1>1. PostProcess(l) \in Batch
  BY PostProcessType
<1>2. Len(PostProcess(l).events) \in Nat
  BY <1>1, LenProperties DEF Batch
<1>3. Len(PostProcess(l).events) >= Len(l.events)
  BY PostProcessGrows
<1>4. Len(PostProcess(l).events) >= 1
  BY <1>3
<1> QED BY <1>2, <1>4

\* A request that a call can be in, apart from the check of an expired lease.
IsRequest(r) ==
    /\ r.op \in {"complete", "fail", "cancel", "fire", "expire"}
    /\ r.op # "cancel" => r.task \in TaskID
    /\ r.op \in {"complete", "fail"} => r.worker \in Worker
    /\ r.op = "expire" => r.worker \in Worker \cup {None}
    /\ r.retryable \in BOOLEAN

LEMMA CommandGrows ==
    ASSUME NEW r, IsRequest(r), NEW st \in RunState
    PROVE  Command(r, st) \in Batch /\ Len(Command(r, st).events) > 0
<1>1. CASE r.op = "complete"
  <2>1. Command(r, st) = CompleteTaskOnce(st, r.task, r.worker)
    BY <1>1 DEF Command
  <2>2. r.task \in TaskID /\ r.worker \in Worker
    BY <1>1 DEF IsRequest
  <2> QED BY <2>1, <2>2, CompleteTaskType, ReportedGrows, ProcessedGrows DEF CompleteTaskOnce
<1>2. CASE r.op \in {"fail", "expire"}
  <2>1. Command(r, st) = FailTaskOnce(st, r.task, r.worker, r.retryable)
    BY <1>2 DEF Command
  <2> QED BY <1>2, <2>1, FailTaskType, FailTaskGrows DEF IsRequest
<1>3. CASE r.op = "cancel"
  <2>1. Command(r, st) = CancelRunOnce(st)
    BY <1>3 DEF Command
  <2> QED BY <2>1, CancelRunType, CancelRunGrows
<1>4. CASE r.op = "fire"
  <2>1. Command(r, st) = FireTimerOnce(st, r.task)
    BY <1>4 DEF Command
  <2>2. r.task \in TaskID
    BY <1>4 DEF IsRequest
  <2> QED BY <2>1, <2>2, FireTimerType, ReportedGrows, ProcessedGrows DEF FireTimerOnce
<1> QED BY <1>1, <1>2, <1>3, <1>4 DEF IsRequest

-----------------------------------------------------------------------------
(***************************************************************************)
(* The inductive invariant.  Beside what the properties say of a load that *)
(* is still current, it tells who makes which request, that a replay of    *)
(* what is stored now would give the state, and that what the sweep has    *)
(* seen is the expired lease its call is about to fail.                    *)
(***************************************************************************)
Reloaded == state = ReplayOver(run)

RequestFits(c, r) ==
    /\ r.op = "none" \/ r.op = "recover" \/ IsRequest(r)
    /\ r.op \in {"complete", "fail", "cancel"} => c \in Client
    /\ r.op \in {"fire", "recover", "expire"} => c = Sweeper
    /\ r.op \in {"fire", "recover"} => r.task \in TaskID
    /\ r.op = "fire" => IsTimer(r.task)
    /\ r.op = "expire" => r.retryable = TRUE

RequestsByRole ==
    \A c \in Caller :
        /\ RequestFits(c, calls[c].request)
        /\ calls[c].pc # "idle" => calls[c].request.op # "none"
        /\ calls[c].pc = "commit" => calls[c].request.op # "recover"

SweepIsCall ==
    LET r == calls[Sweeper].request IN
    sweep = IF r.op = "expire" THEN [task |-> r.task, owner |-> r.worker] ELSE NoSweep

\* A deadline that has passed stays passed until somebody commits.
FreshDecisionsStand ==
    \A c \in Caller :
        calls[c].pc = "commit" /\ calls[c].base = version
          => Accepted(calls[c].request, run, state)

OptimisticInv ==
    /\ TypeOK
    /\ OptimisticTypeOK
    /\ VersionCountsHistory
    /\ FreshLoadsAreCurrent
    /\ Reloaded
    /\ RequestsByRole
    /\ SweepIsCall
    /\ FreshDecisionsStand

\* What a commit, a lease and a heartbeat have in common: what is stored has a
\* higher version, and of the calls only the one that ends is touched.
StoreMoves ==
    /\ TypeOK'
    /\ VersionCountsHistory'
    /\ Reloaded'
    /\ version' > version

\* Whoever read an older version is not fresh any more.
LEMMA NoStaleCallIsFresh ==
    ASSUME OptimisticInv, StoreMoves, calls' \in [Caller -> CallType],
           \A c \in Caller : calls'[c] \in {Idle, calls[c]}
    PROVE  OptimisticTypeOK' /\ FreshLoadsAreCurrent' /\ RequestsByRole' /\ FreshDecisionsStand'
<1>1. version \in Nat /\ version' \in Nat /\ version' > version
  BY LenProperties DEF OptimisticInv, OptimisticTypeOK, StoreMoves, VersionCountsHistory, TypeOK
<1>2. OptimisticTypeOK'
  BY <1>1 DEF OptimisticTypeOK
<1>3. \A c \in Caller : calls'[c] = Idle \/ calls'[c] = calls[c]
  OBVIOUS
<1>4. Idle.pc = "idle" /\ Idle.base = 0 /\ Idle.request = NoRequest
  BY DEF Idle, Start
<1>5. \A c \in Caller : calls[c].base \in Nat /\ calls[c].base <= version
  BY DEF OptimisticInv, OptimisticTypeOK, FreshLoadsAreCurrent, CallType
<1>6. \A c \in Caller : calls'[c].base <= version' /\ (calls'[c].pc # "idle" => calls'[c].base # version')
  BY <1>1, <1>3, <1>4, <1>5
<1>7. FreshLoadsAreCurrent' /\ FreshDecisionsStand'
  BY <1>3, <1>4, <1>6 DEF FreshLoadsAreCurrent, FreshDecisionsStand
<1>8. RequestsByRole'
  BY <1>3, <1>4 DEF OptimisticInv, RequestsByRole, RequestFits, NoRequest
<1> QED BY <1>2, <1>7, <1>8

\* The store is as it was, but that a deadline may have passed; one call
\* moves on, in a way that fits what is stored.
CallFits(c, call) ==
    /\ call \in CallType
    /\ call.base <= version
    /\ call.pc \in {"history", "commit"} /\ call.base = version => call.seen = run
    /\ call.pc = "commit" /\ call.base = version
         => /\ call.loaded = state /\ call.length = Len(history)
            /\ Accepted(call.request, run, state)
    /\ RequestFits(c, call.request)
    /\ call.pc # "idle" => call.request.op # "none"
    /\ call.pc = "commit" => call.request.op # "recover"

StoreStays == UNCHANGED <<run, rows, history, state, version>> /\ due \subseteq due'

\* One call moves on, all the others stand.
LEMMA CallMoves ==
    ASSUME OptimisticInv, StoreStays, TypeOK', NEW c \in Caller, NEW call, CallFits(c, call),
           calls' = [calls EXCEPT ![c] = call]
    PROVE  /\ OptimisticTypeOK' /\ VersionCountsHistory' /\ FreshLoadsAreCurrent' /\ Reloaded'
           /\ RequestsByRole' /\ FreshDecisionsStand'
<1>1. \A d \in Caller : calls'[d] = IF d = c THEN call ELSE calls[d]
  BY DEF OptimisticInv, OptimisticTypeOK
<1>2. OptimisticTypeOK'
  BY DEF OptimisticInv, OptimisticTypeOK, CallFits, StoreStays
<1>3. VersionCountsHistory' /\ Reloaded'
  BY DEF OptimisticInv, VersionCountsHistory, Reloaded, ReplayOver, StoreStays
<1>4. FreshLoadsAreCurrent'
  BY <1>1 DEF OptimisticInv, FreshLoadsAreCurrent, CallFits, StoreStays
<1>5. RequestsByRole'
  BY <1>1 DEF OptimisticInv, RequestsByRole, RequestFits, CallFits
<1>6. FreshDecisionsStand'
  <2>1. \A d \in Caller :
          calls'[d].pc = "commit" /\ calls'[d].base = version'
            => /\ Accepted(calls'[d].request, run, state)
               /\ calls'[d].request.op \in {"complete", "fail", "expire", "cancel", "fire"}
    BY <1>1 DEF OptimisticInv, FreshDecisionsStand, RequestsByRole, RequestFits, CallFits, StoreStays, IsRequest
  <2>2. run' = run /\ state' = state /\ due \subseteq due'
    BY DEF StoreStays
  <2> QED BY <2>1, <2>2 DEF FreshDecisionsStand, Accepted, Holds
<1> QED BY <1>2, <1>3, <1>4, <1>5, <1>6

-----------------------------------------------------------------------------
(***************************************************************************)
(* Every step is a step of RunEngine, or none.                             *)
(***************************************************************************)
\* What a call that commits knows: it acts on what is there.
LEMMA CommitFacts ==
    ASSUME OptimisticInv, NEW c \in Caller, Commit(c)
    PROVE  LET r == calls[c].request
               cmd == Command(r, state)
           IN  /\ IsRequest(r) /\ Accepted(r, run, state)
               /\ cmd \in Batch /\ Len(cmd.events) > 0
               /\ AppendRunChanges(cmd)
               /\ version' = Len(history) + Len(cmd.events)
               /\ EndCall(c)
<1> DEFINE r == calls[c].request
<1>1. calls[c].pc = "commit" /\ calls[c].base = version
  BY DEF Commit, UnchangedSince
<1>2. calls[c].loaded = state /\ calls[c].length = Len(history)
  BY <1>1 DEF OptimisticInv, FreshLoadsAreCurrent
<1>3. IsRequest(r)
  BY <1>1 DEF OptimisticInv, RequestsByRole, RequestFits
<1>4. Accepted(r, run, state)
  BY <1>1 DEF OptimisticInv, FreshDecisionsStand
<1>5. state \in RunState
  BY DEF OptimisticInv, TypeOK
<1>6. Command(r, state) \in Batch /\ Len(Command(r, state).events) > 0
  BY <1>3, <1>5, CommandGrows
<1> QED BY <1>2, <1>3, <1>4, <1>6 DEF Commit

LEMMA CommitImplements ==
    ASSUME OptimisticInv, NEW c \in Caller, Commit(c)
    PROVE  Next
<1> DEFINE r == calls[c].request
<1>1. /\ IsRequest(r) /\ Accepted(r, run, state)
      /\ AppendRunChanges(Command(r, state)) /\ EndCall(c)
  BY CommitFacts
<1>2. /\ r.op \in {"complete", "fail", "cancel"} => c \in Client
      /\ r.op \in {"fire", "expire"} => c = Sweeper
      /\ r.op = "fire" => IsTimer(r.task)
      /\ r.op = "expire" => r.retryable = TRUE
  BY DEF OptimisticInv, RequestsByRole, RequestFits
<1>3. c \in Client => sweep' = sweep
  BY <1>1, OptimisticAssumption DEF EndCall, SweepAfter
<1>4. c = Sweeper => sweep' = NoSweep
  BY <1>1 DEF EndCall, SweepAfter
<1>5. CASE r.op = "complete"
  <2>1. Command(r, state) = CompleteTaskOnce(state, r.task, r.worker)
    BY <1>5 DEF Command
  <2>2. Holds(state, r.task, r.worker)
    BY <1>1, <1>5 DEF Accepted
  <2>3. CompleteTask(r.worker, r.task)
    BY <1>1, <1>2, <1>3, <1>5, <2>1, <2>2 DEF CompleteTask
  <2> QED BY <1>1, <1>5, <2>3 DEF Next, IsRequest
<1>6. CASE r.op = "fail"
  <2>1. Command(r, state) = FailTaskOnce(state, r.task, r.worker, r.retryable)
    BY <1>6 DEF Command
  <2>2. Holds(state, r.task, r.worker)
    BY <1>1, <1>6 DEF Accepted
  <2>3. FailTask(r.worker, r.task)
    BY <1>1, <1>2, <1>3, <1>6, <2>1, <2>2 DEF FailTask, IsRequest
  <2> QED BY <1>1, <1>6, <2>3 DEF Next, IsRequest
<1>7. CASE r.op = "cancel"
  <2>1. Command(r, state) = CancelRunOnce(state) /\ ~Terminal(run.status)
    BY <1>1, <1>7 DEF Command, Accepted
  <2> QED BY <1>1, <1>2, <1>3, <1>7, <2>1 DEF Next, CancelRun
<1>8. CASE r.op = "fire"
  <2>1. /\ Command(r, state) = FireTimerOnce(state, r.task)
        /\ state.tasks[r.task].status = "available" /\ r.task \in due
    BY <1>1, <1>8 DEF Command, Accepted
  <2>2. sweep = NoSweep
    BY <1>2, <1>8 DEF OptimisticInv, SweepIsCall
  <2>3. FireTimer(r.task)
    BY <1>1, <1>2, <1>4, <1>8, <2>1, <2>2 DEF FireTimer
  <2> QED BY <1>1, <1>8, <2>3 DEF Next, IsRequest
<1>9. CASE r.op = "expire"
  <2>1. Command(r, state) = FailTaskOnce(state, r.task, r.worker, TRUE)
    BY <1>2, <1>9 DEF Command
  <2>2. sweep = [task |-> r.task, owner |-> r.worker]
    BY <1>2, <1>9 DEF OptimisticInv, SweepIsCall
  <2>3. sweep # NoSweep
    <3>1. r.task \in TaskID
      BY <1>1, <1>9 DEF IsRequest
    <3> QED BY <2>2, <3>1, ReducerAssumption DEF NoSweep
  <2>4. Holds(state, sweep.task, sweep.owner)
    BY <1>1, <1>9, <2>2 DEF Accepted
  <2>5. FailExpiredLease
    BY <1>1, <1>2, <1>4, <1>9, <2>1, <2>2, <2>3, <2>4 DEF FailExpiredLease
  <2> QED BY <2>5 DEF Next
<1> QED BY <1>1, <1>5, <1>6, <1>7, <1>8, <1>9 DEF IsRequest

\* A sweep that is cut short is a restart of RunEngine.
LEMMA CutShort ==
    ASSUME UNCHANGED <<run, rows, history, state, due>>, sweep' \in {sweep, NoSweep}
    PROVE  [Next]_vars
BY DEF Next, Restart, vars

LEMMA LoadHistoryImplements ==
    ASSUME OptimisticInv, NEW c \in Caller, LoadHistory(c)
    PROVE  [Next]_vars
<1> DEFINE r == calls[c].request
           st == ReplayOver(calls[c].seen)
<1>1. UNCHANGED <<run, rows, history, state, due>>
  BY DEF LoadHistory
<1>2. CASE ~Accepted(r, calls[c].seen, st)
  <2>1. EndCall(c)
    BY <1>2 DEF LoadHistory
  <2> QED BY <1>1, <2>1, CutShort DEF EndCall, SweepAfter
<1>3. CASE Accepted(r, calls[c].seen, st) /\ r.op = "recover"
  <2>1. c = Sweeper /\ r.task \in TaskID /\ sweep = NoSweep
    BY <1>3 DEF OptimisticInv, RequestsByRole, RequestFits, SweepIsCall
  <2>2. st.tasks = state.tasks
    BY DEF ReplayOver, OptimisticInv, TypeOK, RunState
  <2>3. state.tasks[r.task].status = "leased" /\ r.task \in due
    BY <1>3, <2>2 DEF Accepted
  <2>4. sweep' = [task |-> r.task, owner |-> state.tasks[r.task].owner]
    BY <1>3, <2>2 DEF LoadHistory
  <2>5. RecoverExpiredLease(r.task)
    BY <1>1, <2>1, <2>3, <2>4 DEF RecoverExpiredLease
  <2> QED BY <2>1, <2>5 DEF Next
<1>4. CASE Accepted(r, calls[c].seen, st) /\ r.op # "recover"
  <2>1. UNCHANGED sweep
    BY <1>4 DEF LoadHistory
  <2> QED BY <1>1, <2>1, CutShort
<1> QED BY <1>2, <1>3, <1>4

LEMMA StepImplements ==
    OptimisticInv /\ [OptimisticNext]_optimisticVars => [Next]_vars
<1> SUFFICES ASSUME OptimisticInv, [OptimisticNext]_optimisticVars PROVE [Next]_vars
  OBVIOUS
<1>1. ASSUME NEW c \in Caller, NEW request, Begin(c, request) PROVE [Next]_vars
  BY <1>1 DEF Begin
<1>2. ASSUME NEW c \in Client, NEW w \in Worker, NEW t \in TaskID, Report(c, w, t)
      PROVE  [Next]_vars
  BY <1>1, <1>2 DEF Report, Caller
<1>3. ASSUME NEW c \in Client, Cancel(c) PROVE [Next]_vars
  BY <1>1, <1>3 DEF Cancel, Caller
<1>4. ASSUME NEW t \in TaskID, Sweep(t) PROVE [Next]_vars
  BY <1>1, <1>4 DEF Sweep, Caller
<1>5. ASSUME NEW t \in TaskID, PassDeadline(t) PROVE [Next]_vars
  BY <1>5 DEF PassDeadline, Next
<1>6. ASSUME NEW c \in Caller, LoadRun(c) PROVE [Next]_vars
  BY <1>6 DEF LoadRun
<1>7. ASSUME NEW c \in Caller, LoadHistory(c) PROVE [Next]_vars
  BY <1>7, LoadHistoryImplements
<1>8. ASSUME NEW c \in Caller, Commit(c) PROVE [Next]_vars
  BY <1>8, CommitImplements
<1>9. ASSUME NEW c \in Caller, Conflict(c) PROVE [Next]_vars
  BY <1>9, CutShort DEF Conflict, EndCall, SweepAfter
<1>10. ASSUME NEW w \in Worker, NEW t \in TaskID, DirectWrite(w, t) PROVE [Next]_vars
  BY <1>10 DEF DirectWrite, Next
<1>11. ASSUME Stop PROVE [Next]_vars
  BY <1>11, CutShort DEF Stop
<1>12. ASSUME UNCHANGED optimisticVars PROVE [Next]_vars
  BY <1>12 DEF optimisticVars
<1> QED BY <1>2, <1>3, <1>4, <1>5, <1>6, <1>7, <1>8, <1>9, <1>10, <1>11, <1>12 DEF OptimisticNext

-----------------------------------------------------------------------------
(***************************************************************************)
(* The invariant is inductive.                                             *)
(***************************************************************************)
LEMMA SameFailure ==
    ASSUME NEW st \in RunState, NEW f
    PROVE  (st = [st EXCEPT !.failure = f]) <=> st.failure = f
<1>1. ASSUME st.failure = f PROVE st = [st EXCEPT !.failure = f]
  BY <1>1 DEF RunState
<1>2. [st EXCEPT !.failure = f].failure = f
  BY DEF RunState
<1> QED BY <1>1, <1>2

\* A batch carries the failure it leaves in the run row, or its log does.
LEMMA AppendReloads ==
    ASSUME NEW cmd \in Batch, AppendRunChanges(cmd)
    PROVE  Reloaded'
<1>1. cmd.state \in RunState
  BY DEF Batch
<1>2. /\ state' = Reload(cmd.state) /\ state' \in RunState
      /\ run'.failure = cmd.state.failure
  BY <1>1, ReloadType DEF AppendRunChanges
<1>3. /\ state'.logged = cmd.state.logged
      /\ state'.failure = IF cmd.state.logged = None THEN cmd.state.failure ELSE cmd.state.logged
  BY <1>1, <1>2 DEF Reload, RunState
<1> QED BY <1>2, <1>3, SameFailure DEF Reloaded, ReplayOver

LEMMA DirectReloads ==
    ASSUME TypeOK, Reloaded, NEW t \in TaskID, NEW w \in Worker,
           NEW type \in {"task.leased", "task.heartbeat"},
           state' = ApplyEvent(state, TaskEvent(type, t, w)), run' = run
    PROVE  Reloaded'
<1>1. state \in RunState
  BY DEF TypeOK
<1>2. state.failure = IF state.logged = None THEN run.failure ELSE state.logged
  BY <1>1, SameFailure DEF Reloaded, ReplayOver
<1>3. state' \in {ApplyTaskLeased(state, t, w), ApplyTaskHeartbeat(state, t, w)}
  BY TaskEventDispatch
<1>4. state' \in RunState
  BY <1>1, <1>3, TaskReportType
<1>5. /\ ApplyTaskLeased(state, t, w).failure = state.failure
      /\ ApplyTaskLeased(state, t, w).logged = state.logged
  BY <1>1 DEF ApplyTaskLeased, SetTask, RunState
<1>6. /\ ApplyTaskHeartbeat(state, t, w).failure = state.failure
      /\ ApplyTaskHeartbeat(state, t, w).logged = state.logged
  BY <1>1 DEF ApplyTaskHeartbeat, RunState
<1>7. state'.failure = state.failure /\ state'.logged = state.logged
  BY <1>3, <1>5, <1>6
<1> QED BY <1>2, <1>4, <1>7, SameFailure DEF Reloaded, ReplayOver

LEMMA StartReloads == Init => Reloaded
<1> SUFFICES ASSUME Init PROVE Reloaded
  OBVIOUS
<1>1. InitialState(None) \in RunState /\ None \in Failure
  BY InitialStateType DEF Failure
<1> DEFINE started == Emit(Loaded(InitialState(None)), RunEvent("workflow.started", None))
<1>2. started \in Batch
  BY <1>1, LoadedType, EmitRunEventType DEF RunEventType
<1>3. started.state.failure = None /\ started.state.logged = None
  BY <1>1, RunEventDispatch DEF Emit, Loaded, ApplyWorkflowStarted, InitialState
<1> HIDE DEF started
<1>4. StartRun.state.failure = None /\ StartRun.state.logged = None
  BY <1>2, <1>3 DEF StartRun, ScheduleForwardReady, ScheduleTasks, Mutate, ApplyTasksScheduled,
                    Batch, RunState, started
<1>5. StartRun.state \in RunState
  BY StartRunType DEF Batch
<1> QED BY <1>4, <1>5, SameFailure DEF Init, Reloaded, ReplayOver

LEMMA OptimisticInitInv == OptimisticInit => OptimisticInv
<1> SUFFICES ASSUME OptimisticInit PROVE OptimisticInv
  OBVIOUS
<1>1. TypeOK /\ Reloaded
  BY InitType, StartReloads DEF OptimisticInit
<1>2. version = Len(history) /\ version \in Nat
  BY <1>1, LenProperties DEF OptimisticInit, TypeOK
<1>3. Idle \in CallType /\ Idle.pc = "idle" /\ Idle.base = 0 /\ Idle.request = NoRequest
  BY OptimisticAssumption DEF Idle, Start, CallType
<1>4. \A c \in Caller : calls[c] = Idle
  BY DEF OptimisticInit
<1>5. OptimisticTypeOK
  BY <1>2, <1>3 DEF OptimisticInit, OptimisticTypeOK
<1>6. FreshLoadsAreCurrent /\ FreshDecisionsStand
  BY <1>2, <1>3, <1>4 DEF FreshLoadsAreCurrent, FreshDecisionsStand
<1>7. RequestsByRole
  BY <1>3, <1>4 DEF RequestsByRole, RequestFits, NoRequest
<1>8. SweepIsCall
  BY <1>3, <1>4 DEF SweepIsCall, NoRequest, Caller, OptimisticInit, Init
<1> QED BY <1>1, <1>2, <1>5, <1>6, <1>7, <1>8 DEF OptimisticInv, VersionCountsHistory

\* A call begins: it is one of its caller's, and has read nothing.
LEMMA BeginInv ==
    ASSUME OptimisticInv, TypeOK', NEW c \in Caller, NEW r, Begin(c, r),
           r \in [op : Op, task : TaskID \cup {None}, worker : Worker \cup {None},
                  retryable : BOOLEAN],
           r.op = "recover" \/ IsRequest(r), r.op # "expire",
           r.op \in {"complete", "fail", "cancel"} => c \in Client,
           r.op \in {"fire", "recover"} => c = Sweeper /\ r.task \in TaskID,
           r.op = "fire" => IsTimer(r.task)
    PROVE  OptimisticInv'
<1> DEFINE call == Start(r, 0)
<1>1. call \in CallType
  BY OptimisticAssumption DEF Start, CallType
<1>2. call.pc = "run" /\ call.base = 0 /\ call.request = r
  BY DEF Start
<1>3. version \in Nat /\ 0 <= version
  BY DEF OptimisticInv, OptimisticTypeOK
<1>4. r.op # "none"
  BY DEF Op
<1> HIDE DEF call
<1>5. CallFits(c, call)
  BY <1>1, <1>2, <1>3, <1>4 DEF CallFits, RequestFits
<1>6. calls' = [calls EXCEPT ![c] = call] /\ StoreStays /\ sweep' = sweep /\ calls[c] = Idle
  BY DEF Begin, StoreStays, vars, call
<1>7. calls'[Sweeper].request.op # "expire" <=> calls[Sweeper].request.op # "expire"
  BY <1>2, <1>6 DEF OptimisticInv, OptimisticTypeOK, Caller, Idle, Start, NoRequest
<1>8. calls'[Sweeper].request.op = "expire" => calls'[Sweeper] = calls[Sweeper]
  BY <1>2, <1>6 DEF OptimisticInv, OptimisticTypeOK, Caller
<1>9. SweepIsCall'
  BY <1>6, <1>7, <1>8 DEF OptimisticInv, SweepIsCall
<1> QED BY <1>5, <1>6, <1>9, CallMoves DEF OptimisticInv

LEMMA ReportInv ==
    ASSUME OptimisticInv, TypeOK', NEW c \in Client, NEW w \in Worker, NEW t \in TaskID,
           Report(c, w, t)
    PROVE  OptimisticInv'
<1>1. PICK op \in {"complete", "fail"}, retryable \in BOOLEAN :
        Begin(c, Request(op, t, w, retryable))
  BY DEF Report
<1> DEFINE r == Request(op, t, w, retryable)
<1>2. r.op = op /\ r.task = t /\ r.worker = w /\ r.retryable = retryable
  BY DEF Request
<1>3. r \in [op : Op, task : TaskID \cup {None}, worker : Worker \cup {None}, retryable : BOOLEAN]
  BY DEF Request, Op
<1>4. IsRequest(r)
  BY <1>2 DEF IsRequest
<1>5. c \in Caller /\ c \in Client
  BY DEF Caller
<1> HIDE DEF r
<1>6. Begin(c, r)
  BY <1>1 DEF r
<1> QED BY <1>2, <1>3, <1>4, <1>5, <1>6, BeginInv

LEMMA CancelInvariant ==
    ASSUME OptimisticInv, TypeOK', NEW c \in Client, Cancel(c)
    PROVE  OptimisticInv'
<1> DEFINE r == Request("cancel", None, None, FALSE)
<1>1. r.op = "cancel" /\ r.retryable = FALSE
  BY DEF Request
<1>2. r \in [op : Op, task : TaskID \cup {None}, worker : Worker \cup {None}, retryable : BOOLEAN]
  BY DEF Request, Op
<1>3. IsRequest(r)
  BY <1>1 DEF IsRequest
<1>4. c \in Caller /\ c \in Client
  BY DEF Caller
<1>5. Begin(c, r)
  BY DEF Cancel
<1> HIDE DEF r
<1> QED BY <1>1, <1>2, <1>3, <1>4, <1>5, BeginInv

LEMMA SweepInv ==
    ASSUME OptimisticInv, TypeOK', NEW t \in TaskID, Sweep(t)
    PROVE  OptimisticInv'
<1>1. PICK op \in {"fire", "recover"}, retryable \in BOOLEAN :
        /\ Begin(Sweeper, Request(op, t, None, retryable))
        /\ op = "fire" => IsTimer(t)
  BY DEF Sweep
<1> DEFINE r == Request(op, t, None, retryable)
<1>2. r.op = op /\ r.task = t /\ r.retryable = retryable
  BY DEF Request
<1>3. r \in [op : Op, task : TaskID \cup {None}, worker : Worker \cup {None}, retryable : BOOLEAN]
  BY DEF Request, Op
<1>4. r.op = "recover" \/ IsRequest(r)
  BY <1>2 DEF IsRequest
<1>5. Sweeper \in Caller
  BY DEF Caller
<1> HIDE DEF r
<1>6. Begin(Sweeper, r) /\ (r.op = "fire" => IsTimer(r.task))
  BY <1>1, <1>2 DEF r
<1> QED BY <1>2, <1>3, <1>4, <1>5, <1>6, BeginInv

\* What a call in flight is like, from the invariant.
LEMMA CallKept ==
    ASSUME OptimisticInv, NEW c \in Caller
    PROVE  CallFits(c, calls[c])
BY DEF OptimisticInv, OptimisticTypeOK, FreshLoadsAreCurrent, RequestsByRole, RequestFits,
       FreshDecisionsStand, CallFits

\* A call that moves on with its request leaves what the sweep has seen.
LEMMA SweepKept ==
    ASSUME OptimisticInv, NEW c \in Caller, NEW call, call.request = calls[c].request,
           calls' = [calls EXCEPT ![c] = call], sweep' = sweep
    PROVE  SweepIsCall'
<1>1. calls'[Sweeper].request = calls[Sweeper].request
  BY DEF OptimisticInv, OptimisticTypeOK, Caller
<1> QED BY <1>1 DEF OptimisticInv, SweepIsCall

LEMMA EndCallInv ==
    ASSUME OptimisticInv, TypeOK', StoreStays, NEW c \in Caller, EndCall(c)
    PROVE  OptimisticInv'
<1>1. Idle \in CallType /\ Idle.pc = "idle" /\ Idle.base = 0 /\ Idle.request = NoRequest
  BY OptimisticAssumption DEF Idle, Start, CallType
<1>2. version \in Nat /\ 0 <= version
  BY DEF OptimisticInv, OptimisticTypeOK
<1>3. CallFits(c, Idle)
  BY <1>1, <1>2 DEF CallFits, RequestFits, NoRequest
<1>4. calls' = [calls EXCEPT ![c] = Idle]
  BY DEF EndCall
<1>5. SweepIsCall'
  <2>1. CASE c = Sweeper
    BY <1>1, <1>4, <2>1 DEF OptimisticInv, OptimisticTypeOK, SweepIsCall, NoRequest, EndCall, SweepAfter
  <2>2. CASE c # Sweeper
    BY <1>4, <2>2 DEF OptimisticInv, OptimisticTypeOK, SweepIsCall, Caller, EndCall, SweepAfter
  <2> QED BY <2>1, <2>2
<1> QED BY <1>3, <1>4, <1>5, CallMoves DEF OptimisticInv

LEMMA LoadRunInv ==
    ASSUME OptimisticInv, TypeOK', NEW c \in Caller, LoadRun(c)
    PROVE  OptimisticInv'
<1> DEFINE call == [calls[c] EXCEPT !.pc = "history", !.base = version, !.seen = run]
<1>1. calls' = [calls EXCEPT ![c] = call] /\ StoreStays /\ sweep' = sweep
  BY DEF LoadRun, StoreStays, vars, OptimisticInv, OptimisticTypeOK
<1>2. calls[c] \in CallType /\ version \in Nat /\ calls[c].pc = "run"
  BY DEF OptimisticInv, OptimisticTypeOK, LoadRun
<1>3. /\ call.pc = "history" /\ call.base = version /\ call.seen = run
      /\ call.request = calls[c].request
  BY <1>2 DEF CallType
<1>4. call \in CallType
  BY <1>2 DEF CallType, OptimisticInv, TypeOK
<1> HIDE DEF call
<1>5. RequestFits(c, calls[c].request) /\ calls[c].request.op # "none"
  BY <1>2, CallKept DEF CallFits
<1>6. CallFits(c, call)
  BY <1>2, <1>3, <1>4, <1>5 DEF CallFits
<1>7. SweepIsCall'
  BY <1>1, <1>3, SweepKept
<1> QED BY <1>1, <1>6, <1>7, CallMoves DEF OptimisticInv

LEMMA ConflictInv ==
    ASSUME OptimisticInv, TypeOK', NEW c \in Caller, Conflict(c)
    PROVE  OptimisticInv'
<1> DEFINE tried == calls[c].tries + 1
           call == Start(calls[c].request, tried)
<1>1. StoreStays
  BY DEF Conflict, StoreStays
<1>2. CASE tried < MaxTries
  <2>1. calls' = [calls EXCEPT ![c] = call] /\ sweep' = sweep
    BY <1>2 DEF Conflict, OptimisticInv, OptimisticTypeOK
  <2>2. calls[c] \in CallType /\ version \in Nat /\ calls[c].pc = "commit"
    BY DEF OptimisticInv, OptimisticTypeOK, Conflict
  <2>3. tried \in 0..(MaxTries - 1)
    BY <1>2, <2>2, OptimisticAssumption DEF CallType
  <2>4. call \in CallType
    BY <2>2, <2>3 DEF Start, CallType
  <2>5. call.pc = "run" /\ call.base = 0 /\ call.request = calls[c].request
    BY DEF Start
  <2> HIDE DEF call
  <2>6. RequestFits(c, calls[c].request) /\ calls[c].request.op # "none"
    BY <2>2, CallKept DEF CallFits
  <2>7. 0 <= version
    BY <2>2
  <2>8. CallFits(c, call)
    BY <2>4, <2>5, <2>6, <2>7 DEF CallFits
  <2>9. SweepIsCall'
    BY <2>1, <2>5, SweepKept
  <2> QED BY <1>1, <2>1, <2>8, <2>9, CallMoves DEF OptimisticInv
<1>3. CASE ~(tried < MaxTries)
  BY <1>1, <1>3, EndCallInv DEF Conflict
<1> QED BY <1>2, <1>3

LEMMA LoadHistoryInv ==
    ASSUME OptimisticInv, TypeOK', NEW c \in Caller, LoadHistory(c)
    PROVE  OptimisticInv'
<1> DEFINE r == calls[c].request
           st == ReplayOver(calls[c].seen)
<1>1. StoreStays
  BY DEF LoadHistory, StoreStays
<1>2. calls[c] \in CallType /\ version \in Nat /\ calls[c].pc = "history" /\ history \in Seq(Event)
  BY DEF OptimisticInv, OptimisticTypeOK, TypeOK, LoadHistory
<1>3. RequestFits(c, r) /\ r.op # "none" /\ calls[c].base <= version
  BY <1>2, CallKept DEF CallFits
<1>4. st \in RunState /\ st.tasks = state.tasks
  <2>1. calls[c].seen.failure \in Failure
    BY <1>2 DEF CallType, NoRow, Failure
  <2>2. state \in RunState
    BY DEF OptimisticInv, TypeOK
  <2> QED BY <2>1, <2>2 DEF ReplayOver, RunState
<1>5. CASE ~Accepted(r, calls[c].seen, st)
  BY <1>1, <1>5, EndCallInv DEF LoadHistory
<1>6. CASE Accepted(r, calls[c].seen, st) /\ r.op = "recover"
  <2> DEFINE owner == st.tasks[r.task].owner
             call == Start(Request("expire", r.task, owner, TRUE), 0)
  <2>1. /\ calls' = [calls EXCEPT ![c] = call]
        /\ sweep' = [task |-> r.task, owner |-> owner]
    BY <1>6 DEF LoadHistory
  <2>2. c = Sweeper /\ r.task \in TaskID
    BY <1>3, <1>6 DEF RequestFits
  <2>3. owner \in Worker \cup {None}
    BY <1>4, <2>2 DEF RunState, TaskState
  <2> HIDE DEF owner
  <2>4. /\ call.pc = "run" /\ call.base = 0 /\ call.request.op = "expire"
        /\ call.request.task = r.task /\ call.request.worker = owner
        /\ call.request.retryable = TRUE
    BY DEF Start, Request
  <2>5. call \in CallType
    BY <2>2, <2>3, OptimisticAssumption DEF Start, Request, CallType, Op
  <2>6. 0 <= version
    BY <1>2
  <2> HIDE DEF call
  <2>7. CallFits(c, call)
    BY <2>2, <2>3, <2>4, <2>5, <2>6 DEF CallFits, RequestFits, IsRequest
  <2>8. SweepIsCall'
    BY <2>1, <2>2, <2>4 DEF SweepIsCall, OptimisticInv, OptimisticTypeOK, Caller
  <2> QED BY <1>1, <2>1, <2>7, <2>8, CallMoves DEF OptimisticInv
<1>7. CASE Accepted(r, calls[c].seen, st) /\ r.op # "recover"
  <2> DEFINE call == [calls[c] EXCEPT !.pc = "commit", !.loaded = st, !.length = Len(history)]
  <2>1. calls' = [calls EXCEPT ![c] = call] /\ sweep' = sweep
    BY <1>7 DEF LoadHistory, OptimisticInv, OptimisticTypeOK
  <2>2. Len(history) \in Nat
    BY <1>2, LenProperties
  <2>3. /\ call.pc = "commit" /\ call.base = calls[c].base /\ call.seen = calls[c].seen
        /\ call.loaded = st /\ call.length = Len(history) /\ call.request = r
    BY <1>2 DEF CallType
  <2>4. call \in CallType
    BY <1>2, <1>4, <2>2 DEF CallType
  <2>5. calls[c].base = version => calls[c].seen = run
    BY <1>2 DEF OptimisticInv, FreshLoadsAreCurrent
  <2>6. calls[c].base = version => st = state
    BY <2>5 DEF OptimisticInv, Reloaded
  <2>7. calls[c].base = version => Accepted(r, run, state)
    BY <1>7, <2>5, <2>6
  <2> HIDE DEF call
  <2>8. CallFits(c, call)
    BY <1>3, <1>7, <2>3, <2>4, <2>5, <2>6, <2>7 DEF CallFits
  <2>9. SweepIsCall'
    BY <2>1, <2>3, SweepKept
  <2> QED BY <1>1, <2>1, <2>8, <2>9, CallMoves DEF OptimisticInv
<1> QED BY <1>5, <1>6, <1>7

LEMMA CommitInv ==
    ASSUME OptimisticInv, TypeOK', NEW c \in Caller, Commit(c)
    PROVE  OptimisticInv'
<1> DEFINE cmd == Command(calls[c].request, state)
<1>1. /\ cmd \in Batch /\ Len(cmd.events) > 0 /\ AppendRunChanges(cmd)
      /\ version' = Len(history) + Len(cmd.events) /\ EndCall(c)
  BY CommitFacts
<1> HIDE DEF cmd
<1>2. history \in Seq(Event) /\ cmd.events \in Seq(Event) /\ version = Len(history)
  BY <1>1 DEF OptimisticInv, TypeOK, VersionCountsHistory, Batch
<1>3. Len(history') = Len(history) + Len(cmd.events)
  BY <1>1, <1>2, ConcatProperties DEF AppendRunChanges
<1>4. Len(history) \in Nat /\ Len(cmd.events) \in Nat
  BY <1>2, LenProperties
<1>5. StoreMoves
  BY <1>1, <1>2, <1>3, <1>4, AppendReloads DEF StoreMoves, VersionCountsHistory
<1>6. /\ calls' \in [Caller -> CallType]
      /\ \A d \in Caller : calls'[d] = IF d = c THEN Idle ELSE calls[d]
  <2>1. Idle \in CallType
    BY OptimisticAssumption DEF Idle, Start, CallType
  <2> QED BY <1>1, <2>1 DEF EndCall, OptimisticInv, OptimisticTypeOK
<1>7. SweepIsCall'
  <2>1. CASE c = Sweeper
    BY <1>1, <1>6, <2>1 DEF SweepIsCall, Idle, Start, NoRequest, EndCall, SweepAfter, Caller
  <2>2. CASE c # Sweeper
    <3>1. calls'[Sweeper] = calls[Sweeper] /\ sweep' = sweep
      BY <1>1, <1>6, <2>2 DEF Caller, EndCall, SweepAfter
    <3> QED BY <3>1 DEF OptimisticInv, SweepIsCall
  <2> QED BY <2>1, <2>2
<1>8. OptimisticTypeOK' /\ FreshLoadsAreCurrent' /\ RequestsByRole' /\ FreshDecisionsStand'
  BY <1>5, <1>6, NoStaleCallIsFresh
<1> QED BY <1>5, <1>7, <1>8 DEF OptimisticInv, StoreMoves

LEMMA DirectWriteInv ==
    ASSUME OptimisticInv, TypeOK', NEW w \in Worker, NEW t \in TaskID, DirectWrite(w, t)
    PROVE  OptimisticInv'
<1>1. PICK type \in {"task.leased", "task.heartbeat"} :
        /\ history' = Append(history, TaskEvent(type, t, w))
        /\ state' = ApplyEvent(state, TaskEvent(type, t, w))
        /\ run' = run /\ sweep' = sweep
  BY DEF DirectWrite, LeaseTask, HeartbeatTask
<1>2. version' = Len(history) + 1 /\ calls' = calls
  BY DEF DirectWrite
<1>3. history \in Seq(Event) /\ version = Len(history) /\ Len(history) \in Nat
  BY LenProperties DEF OptimisticInv, TypeOK, VersionCountsHistory
<1>4. Len(history') = Len(history) + 1
  BY <1>1, <1>3
<1>5. Reloaded'
  BY <1>1, DirectReloads DEF OptimisticInv
<1>6. StoreMoves
  BY <1>2, <1>3, <1>4, <1>5 DEF StoreMoves, VersionCountsHistory
<1>7. calls' \in [Caller -> CallType]
  BY <1>2 DEF OptimisticInv, OptimisticTypeOK
<1>8. OptimisticTypeOK' /\ FreshLoadsAreCurrent' /\ RequestsByRole' /\ FreshDecisionsStand'
  BY <1>2, <1>6, <1>7, NoStaleCallIsFresh
<1>9. SweepIsCall'
  BY <1>1, <1>2 DEF OptimisticInv, SweepIsCall
<1> QED BY <1>6, <1>8, <1>9 DEF OptimisticInv, StoreMoves

\* The clock moves, or nothing does.
LEMMA IdleStepInv ==
    ASSUME OptimisticInv, TypeOK', StoreStays, UNCHANGED <<sweep, calls>>
    PROVE  OptimisticInv'
<1>1. Sweeper \in Caller /\ calls' = [calls EXCEPT ![Sweeper] = calls[Sweeper]]
  BY DEF OptimisticInv, OptimisticTypeOK, Caller
<1>2. SweepIsCall'
  BY DEF OptimisticInv, SweepIsCall
<1> QED BY <1>1, <1>2, CallKept, CallMoves DEF OptimisticInv

LEMMA StopInv ==
    ASSUME OptimisticInv, TypeOK', Stop
    PROVE  OptimisticInv'
<1>1. \A c \in Caller : calls'[c] = Idle
  BY DEF Stop
<1>2. Idle \in CallType /\ Idle.pc = "idle" /\ Idle.base = 0 /\ Idle.request = NoRequest
  BY OptimisticAssumption DEF Idle, Start, CallType
<1>3. version' = version /\ version \in Nat
  BY DEF Stop, OptimisticInv, OptimisticTypeOK
<1>4. OptimisticTypeOK'
  BY <1>2, <1>3 DEF Stop, OptimisticTypeOK
<1>5. VersionCountsHistory' /\ Reloaded'
  BY DEF Stop, OptimisticInv, VersionCountsHistory, Reloaded, ReplayOver
<1>6. FreshLoadsAreCurrent' /\ FreshDecisionsStand'
  BY <1>1, <1>2, <1>3 DEF FreshLoadsAreCurrent, FreshDecisionsStand
<1>7. RequestsByRole'
  BY <1>1, <1>2 DEF RequestsByRole, RequestFits, NoRequest
<1>8. SweepIsCall'
  BY <1>1, <1>2 DEF SweepIsCall, NoRequest, Caller, Stop
<1> QED BY <1>4, <1>5, <1>6, <1>7, <1>8 DEF OptimisticInv

LEMMA OptimisticNextInv ==
    OptimisticInv /\ [OptimisticNext]_optimisticVars => OptimisticInv'
<1> SUFFICES ASSUME OptimisticInv, [OptimisticNext]_optimisticVars PROVE OptimisticInv'
  OBVIOUS
<1>1. TypeOK'
  BY StepImplements, NextType DEF OptimisticInv
<1>2. ASSUME NEW c \in Client, NEW w \in Worker, NEW t \in TaskID, Report(c, w, t)
      PROVE  OptimisticInv'
  BY <1>1, <1>2, ReportInv
<1>3. ASSUME NEW c \in Client, Cancel(c) PROVE OptimisticInv'
  BY <1>1, <1>3, CancelInvariant
<1>4. ASSUME NEW t \in TaskID, Sweep(t) PROVE OptimisticInv'
  BY <1>1, <1>4, SweepInv
<1>5. ASSUME NEW t \in TaskID, PassDeadline(t) PROVE OptimisticInv'
  BY <1>1, <1>5, IdleStepInv DEF PassDeadline, Tick, StoreStays
<1>6. ASSUME NEW c \in Caller, LoadRun(c) PROVE OptimisticInv'
  BY <1>1, <1>6, LoadRunInv
<1>7. ASSUME NEW c \in Caller, LoadHistory(c) PROVE OptimisticInv'
  BY <1>1, <1>7, LoadHistoryInv
<1>8. ASSUME NEW c \in Caller, Commit(c) PROVE OptimisticInv'
  BY <1>1, <1>8, CommitInv
<1>9. ASSUME NEW c \in Caller, Conflict(c) PROVE OptimisticInv'
  BY <1>1, <1>9, ConflictInv
<1>10. ASSUME NEW w \in Worker, NEW t \in TaskID, DirectWrite(w, t) PROVE OptimisticInv'
  BY <1>1, <1>10, DirectWriteInv
<1>11. ASSUME Stop PROVE OptimisticInv'
  BY <1>1, <1>11, StopInv
<1>12. ASSUME UNCHANGED optimisticVars PROVE OptimisticInv'
  BY <1>1, <1>12, IdleStepInv DEF optimisticVars, vars, StoreStays
<1> QED BY <1>2, <1>3, <1>4, <1>5, <1>6, <1>7, <1>8, <1>9, <1>10, <1>11, <1>12 DEF OptimisticNext

-----------------------------------------------------------------------------
(***************************************************************************)
(* The theorems.                                                           *)
(***************************************************************************)
THEOREM OptimisticInvariant == OptimisticSpec => []OptimisticInv
BY OptimisticInitInv, OptimisticNextInv, PTL DEF OptimisticSpec

\* What the calls in flight have read is well typed in every behaviour.
THEOREM CallsTypeCorrect == OptimisticSpec => []OptimisticTypeOK
<1>1. OptimisticInv => OptimisticTypeOK
  BY DEF OptimisticInv
<1> QED BY <1>1, OptimisticInvariant, PTL

\* Commands, which number their events from the version, and leases and
\* heartbeats, which number theirs from the history, never take a number twice
\* and never leave one out.
THEOREM NumbersNeverClash == OptimisticSpec => []VersionCountsHistory
<1>1. OptimisticInv => VersionCountsHistory
  BY DEF OptimisticInv
<1> QED BY <1>1, OptimisticInvariant, PTL

\* A load that mixed two versions of the run is never committed.
THEOREM MixedLoadsAreRefused == OptimisticSpec => []FreshLoadsAreCurrent
<1>1. OptimisticInv => FreshLoadsAreCurrent
  BY DEF OptimisticInv
<1> QED BY <1>1, OptimisticInvariant, PTL

\* Refinement: however the reads and commits of the calls interleave, and
\* wherever the process stops, the store goes through the steps of RunEngine.
THEOREM CallsImplementCommands == OptimisticSpec => ImplementsRunEngine
<1>1. OptimisticInit => Init
  BY DEF OptimisticInit
<1>2. OptimisticInv /\ [OptimisticNext]_optimisticVars => [Next]_vars
  BY StepImplements
<1> QED BY <1>1, <1>2, OptimisticInvariant, PTL DEF OptimisticSpec, Spec, ImplementsRunEngine

\* So what is proved of one-step commands holds of calls that interleave: the
\* invariant of the run, and with it every property drawn from it.
COROLLARY CallsKeepTheInvariant == OptimisticSpec => []IInv
BY CallsImplementCommands, Invariant, PTL DEF ImplementsRunEngine

(***************************************************************************)
(* What the calls leave behind can be replayed, tells one bounded life of  *)
(* every task and unwinds in order, although every decision was made on    *)
(* two reads that others may have overtaken.                               *)
(***************************************************************************)
COROLLARY CallsKeepTheHistory ==
    OptimisticSpec => [](ReplayDerivesState /\ TaskLifeCycle /\ LeasesBounded /\ UnwindOrder)
BY CallsImplementCommands, ReplayDerives, LifeCycle, LeasesAreBounded, UnwindingInOrder, PTL
   DEF ImplementsRunEngine

(***************************************************************************)
(* So do the promises to the client and to the workers: whatever calls     *)
(* interleave, the run is a Saga, each of its tasks keeps TaskLease, and a *)
(* run that has completed or was cancelled is never touched again.         *)
(***************************************************************************)
COROLLARY CallsKeepThePromises ==
    OptimisticSpec => ImplementsSaga /\ TasksKeepLeases /\ SettledRunIsFinal
BY CallsImplementCommands, RunImplementsSaga, RunImplementsTaskLease, SettledRunsAreFinal, PTL
   DEF ImplementsRunEngine
=============================================================================
