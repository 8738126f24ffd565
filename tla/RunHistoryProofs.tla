-------------------------- MODULE RunHistoryProofs --------------------------
(***************************************************************************)
(* The history of a run tells its state: replaying it gives what the       *)
(* engine had in memory, and the events of a task, of its leases and of    *)
(* the unwinding come in the order in which they should, for every         *)
(* workflow, every set of workers and any number of heartbeats.            *)
(***************************************************************************)
EXTENDS RunInvariantProofs

-----------------------------------------------------------------------------
\* Induction over the natural numbers, for a set of them.
LEMMA SetInduction ==
    ASSUME NEW S \in SUBSET Nat, 0 \in S, \A n \in S : n + 1 \in S
    PROVE  \A n \in Nat : n \in S
<1> SUFFICES ASSUME Nat \ S # {} PROVE FALSE
  OBVIOUS
<1> DEFINE R == {p \in Nat \X Nat : p[1] < p[2]}
<1>1. IsWellFoundedOn(R, Nat)
  BY NatLessThanWellFounded DEF OpToRel
<1>2. PICK m \in Nat \ S : \A k \in Nat \ S : ~(<<k, m>> \in R)
  <2> HIDE DEF R
  <2> QED BY <1>1, WFMin
<1>3. \A k \in Nat \ S : ~(k < m)
  BY <1>2
<1>4. m # 0
  OBVIOUS
<1>5. m - 1 \in Nat /\ m - 1 < m /\ (m - 1) + 1 = m
  BY <1>4
<1>6. m - 1 \in S
  BY <1>3, <1>5
<1> QED BY <1>5, <1>6

\* The operator that chooses the order of a fold.
LEMMA MaxFacts ==
    ASSUME NEW n \in Nat, NEW S \in SUBSET (1..n), S # {}
    PROVE  Max(S) \in S /\ \A i \in S : i <= Max(S)
<1>1. \E i \in S : \A j \in S : i >= j
  BY LastPosition
<1>2. Max(S) \in S /\ \A j \in S : Max(S) >= j
  BY <1>1 DEF Max
<1> QED BY <1>2

(***************************************************************************)
(* Replay is a fold: g gives for the set of the first k positions the      *)
(* state after k events.                                                   *)
(***************************************************************************)
IsFold(g, base, s, n) ==
    g = [S \in SUBSET (1..n) |->
           IF S = {} THEN base ELSE ApplyEvent(g[S \ {Max(S)}], s[Max(S)])]

\* The definition of FoldLeft, with its operators put in place.
LEMMA FoldUnfolded ==
    ASSUME NEW base, NEW s, NEW n, DOMAIN s = 1..n
    PROVE  FoldLeft(ApplyEvent, base, s) = (CHOOSE g : IsFold(g, base, s, n))[1..n]
BY DEF FoldLeft, MapThenFoldSet, IsFold

\* There is such a function.
LEMMA FoldExists ==
    ASSUME NEW base, NEW s, NEW n \in Nat
    PROVE  \E g : IsFold(g, base, s, n)
<1> DEFINE K == {k \in Nat : \E g : IsFold(g, base, s, k)}
<1>1. 0 \in K
  <2> DEFINE g == [S \in SUBSET (1..0) |-> base]
  <2>1. \A S \in SUBSET (1..0) : S = {}
    OBVIOUS
  <2>2. IsFold(g, base, s, 0)
    BY <2>1 DEF IsFold
  <2> QED BY <2>2
<1>2. ASSUME NEW k \in K PROVE k + 1 \in K
  <2>1. PICK g : IsFold(g, base, s, k)
    OBVIOUS
  <2> DEFINE F(S) == IF S = {} THEN base ELSE ApplyEvent(g[S \ {Max(S)}], s[Max(S)])
             h == [S \in SUBSET (1..(k + 1)) |-> F(S)]
  <2>2. \A S \in SUBSET (1..k) : S \in SUBSET (1..(k + 1)) /\ g[S] = F(S)
    <3>1. k \in Nat /\ 1..k \subseteq 1..(k + 1)
      OBVIOUS
    <3>2. \A S \in SUBSET (1..k) : g[S] = F(S)
      BY <2>1, Zenon DEF IsFold
    <3> QED BY <3>1, <3>2
  <2>3. \A S \in SUBSET (1..k) : h[S] = g[S]
    BY <2>2
  <2>4. ASSUME NEW S \in SUBSET (1..(k + 1)), S # {} PROVE S \ {Max(S)} \in SUBSET (1..k)
    <3>1. Max(S) \in S /\ \A i \in S : i <= Max(S)
      BY <2>4, MaxFacts
    <3>2. ASSUME NEW i \in S \ {Max(S)} PROVE i \in 1..k
      <4>1. i \in 1..(k + 1) /\ i <= Max(S) /\ i # Max(S) /\ Max(S) \in 1..(k + 1) /\ k \in Nat
        BY <3>1
      <4> HIDE DEF h, K
      <4> QED BY <4>1
    <3> QED BY <3>2
  <2>5. \A S \in SUBSET (1..(k + 1)) :
           h[S] = IF S = {} THEN base ELSE ApplyEvent(h[S \ {Max(S)}], s[Max(S)])
    BY <2>3, <2>4
  <2>6. h = [S \in SUBSET (1..(k + 1)) |-> h[S]]
    OBVIOUS
  <2> HIDE DEF h
  <2>7. IsFold(h, base, s, k + 1)
    BY <2>5, <2>6 DEF IsFold
  <2> QED BY <2>7
<1> HIDE DEF K
<1>3. K \in SUBSET Nat
  BY DEF K
<1>4. n \in K
  BY <1>1, <1>2, <1>3, SetInduction
<1> QED BY <1>4 DEF K

\* Prefix by prefix.
LEMMA FoldPrefix ==
    ASSUME NEW base, NEW s, NEW n \in Nat, NEW g, IsFold(g, base, s, n)
    PROVE  /\ g[1..0] = base
           /\ \A k \in 1..n : g[1..k] = ApplyEvent(g[1..(k - 1)], s[k])
<1>1. g[1..0] = base
  <2>1. 1..0 = {}
    OBVIOUS
  <2> QED BY <2>1 DEF IsFold
<1>2. ASSUME NEW k \in 1..n PROVE g[1..k] = ApplyEvent(g[1..(k - 1)], s[k])
  <2>1. 1..k \in SUBSET (1..n) /\ 1..k # {}
    OBVIOUS
  <2>2. Max(1..k) \in 1..k /\ \A i \in 1..k : i <= Max(1..k)
    BY <2>1, MaxFacts
  <2>3. Max(1..k) = k
    <3>1. k \in 1..k
      OBVIOUS
    <3>2. k <= Max(1..k)
      BY <2>2, <3>1
    <3> QED BY <2>2, <3>2
  <2>4. (1..k) \ {k} = 1..(k - 1)
    OBVIOUS
  <2>5. g[1..k] = ApplyEvent(g[(1..k) \ {Max(1..k)}], s[Max(1..k)])
    BY <2>1 DEF IsFold
  <2> QED BY <2>3, <2>4, <2>5
<1> QED BY <1>1, <1>2

\* A replay is a value of it.
LEMMA FoldValue ==
    ASSUME NEW S, NEW s \in Seq(S), NEW base
    PROVE  \E g : IsFold(g, base, s, Len(s)) /\ FoldLeft(ApplyEvent, base, s) = g[1..Len(s)]
<1>1. Len(s) \in Nat /\ DOMAIN s = 1..Len(s)
  BY LenProperties
<1>2. FoldLeft(ApplyEvent, base, s) = (CHOOSE g : IsFold(g, base, s, Len(s)))[1..Len(s)]
  BY <1>1, FoldUnfolded
<1>3. IsFold(CHOOSE g : IsFold(g, base, s, Len(s)), base, s, Len(s))
  BY <1>1, FoldExists
<1> QED BY <1>2, <1>3

\* No event leaves the state, and one more event is applied last.
LEMMA FoldEmpty == \A base : FoldLeft(ApplyEvent, base, <<>>) = base
<1> SUFFICES ASSUME NEW base PROVE FoldLeft(ApplyEvent, base, <<>>) = base
  OBVIOUS
<1>1. <<>> \in Seq({}) /\ Len(<<>>) = 0
  BY EmptySeq
<1>2. PICK g : IsFold(g, base, <<>>, 0) /\ FoldLeft(ApplyEvent, base, <<>>) = g[1..0]
  <2> DEFINE s == <<>>
  <2>1. s \in Seq({}) /\ Len(s) = 0
    BY <1>1
  <2> HIDE DEF s
  <2>2. \E g : IsFold(g, base, s, Len(s)) /\ FoldLeft(ApplyEvent, base, s) = g[1..Len(s)]
    BY ONLY <2>1, FoldValue
  <2>3. \E g : IsFold(g, base, s, 0) /\ FoldLeft(ApplyEvent, base, s) = g[1..0]
    BY ONLY <2>1, <2>2, Zenon
  <2> QED BY <2>3 DEF s
<1> QED BY <1>2, FoldPrefix

LEMMA FoldAppend ==
    ASSUME NEW S, NEW s \in Seq(S), NEW e \in S, NEW base
    PROVE  FoldLeft(ApplyEvent, base, Append(s, e)) = ApplyEvent(FoldLeft(ApplyEvent, base, s), e)
<1> DEFINE n == Len(s)
           t == Append(s, e)
<1>1. n \in Nat /\ t \in Seq(S) /\ Len(t) = n + 1 /\ t[n + 1] = e
  BY AppendProperties, LenProperties
<1>2. \A k \in 1..n : t[k] = s[k]
  BY AppendProperties
<1>3. PICK g : IsFold(g, base, s, n) /\ FoldLeft(ApplyEvent, base, s) = g[1..n]
  BY FoldValue
<1>4. PICK h : IsFold(h, base, t, n + 1) /\ FoldLeft(ApplyEvent, base, t) = h[1..(n + 1)]
  <2> HIDE DEF t
  <2> QED BY <1>1, FoldValue
<1> HIDE DEF n, t
<1>5. /\ g[1..0] = base
      /\ \A k \in 1..n : g[1..k] = ApplyEvent(g[1..(k - 1)], s[k])
  BY <1>1, <1>3, FoldPrefix
<1>6. /\ h[1..0] = base
      /\ \A k \in 1..(n + 1) : h[1..k] = ApplyEvent(h[1..(k - 1)], t[k])
  BY <1>1, <1>4, FoldPrefix
<1> DEFINE K == {k \in Nat : k <= n => h[1..k] = g[1..k]}
<1>7. 0 \in K
  BY <1>5, <1>6
<1>8. ASSUME NEW k \in K PROVE k + 1 \in K
  <2> SUFFICES ASSUME k + 1 <= n PROVE h[1..(k + 1)] = g[1..(k + 1)]
    OBVIOUS
  <2>1. k + 1 \in 1..n /\ k + 1 \in 1..(n + 1) /\ (k + 1) - 1 = k /\ k <= n
    BY <1>1
  <2>2. h[1..k] = g[1..k]
    BY <2>1
  <2>3. h[1..(k + 1)] = ApplyEvent(h[1..k], t[k + 1])
    BY <1>6, <2>1
  <2>4. g[1..(k + 1)] = ApplyEvent(g[1..k], s[k + 1])
    BY <1>5, <2>1
  <2> QED BY <1>2, <2>1, <2>2, <2>3, <2>4
<1>9. K \in SUBSET Nat
  OBVIOUS
<1>10. h[1..n] = g[1..n]
  <2>1. n \in K
    <3> HIDE DEF K
    <3> QED BY <1>1, <1>7, <1>8, <1>9, SetInduction
  <2> QED BY <1>1, <2>1
<1>11. n + 1 \in 1..(n + 1) /\ (n + 1) - 1 = n
  BY <1>1
<1>12. h[1..(n + 1)] = ApplyEvent(h[1..n], t[n + 1])
  BY <1>6, <1>11
<1> QED BY <1>1, <1>3, <1>4, <1>10, <1>12 DEF t

-----------------------------------------------------------------------------
(***************************************************************************)
(* The events that the engine records, each in a state in which it does.   *)
(***************************************************************************)
\* A forward task, or the compensation of the step that is undone next.
MaySchedule(st, t) ==
    /\ st.tasks[t].status = "none"
    /\ ~IsForward(t) => /\ st.compensating
                        /\ Unwindable(st) # {}
                        /\ t = Compensation(NextCompensationStep(st))

TaskMayHave(st, t, e) ==
    \/ e = TaskEvent("task.scheduled", t, None) /\ MaySchedule(st, t)
    \/ e = TaskEvent("task.cancelled", t, None) /\ Open(st.tasks[t].status)
    \/ /\ e = TaskEvent("timer.fired", t, None)
       /\ IsTimer(t)
       /\ st.tasks[t].status = "available"
    \/ /\ e = RetryEvent(t, st.tasks[t].attempt + 1)
       /\ st.tasks[t].status = "failed"
       /\ st.tasks[t].attempt < AttemptsOf(t)

WorkerMayHave(st, t, w, e) ==
    \/ e = TaskEvent("task.leased", t, w) /\ st.tasks[t].status = "available"
    \/ e = TaskEvent("task.heartbeat", t, w) /\ Holds(st, t, w)
    \/ e = TaskEvent("task.completed", t, w) /\ Holds(st, t, w)
    \/ e = TaskEvent("task.failed", t, w) /\ Holds(st, t, w)

RunMayHave(st, f, e) ==
    \/ \E type \in {"workflow.started", "run.cancel_requested", "run.completed", "run.cancelled"} :
         e = RunEvent(type, f)
    \/ e = RunEvent("run.compensating", f) /\ (st.cancelRequested \/ f # None)
    \/ e = RunEvent("run.failed", f) /\ f # None

MayHappen(st, e) ==
    \/ \E t \in TaskID : TaskMayHave(st, t, e)
    \/ \E t \in TaskID, w \in Worker \cup {None} : WorkerMayHave(st, t, w, e)
    \/ \E f \in Failure : RunMayHave(st, f, e)

LEMMA ScheduleDispatch ==
    \A st, t : /\ ApplyEvent(st, TaskEvent("task.scheduled", t, None)) = ApplyTasksScheduled(st, {t})
               /\ ApplyEvent(st, TaskEvent("task.cancelled", t, None)) = ApplyTasksCancelled(st, {t})
  BY DEF ApplyEvent, TaskEvent

\* Such an event is well typed, and so is the state that it makes.
LEMMA MayHappenType ==
    ASSUME NEW st \in RunState, NEW e, MayHappen(st, e)
    PROVE  e \in Event /\ ApplyEvent(st, e) \in RunState
<1>1. ASSUME NEW t \in TaskID, TaskMayHave(st, t, e)
      PROVE  e \in Event /\ ApplyEvent(st, e) \in RunState
  <2>1. st.tasks[t].attempt + 1 \in Nat
    BY DEF RunState, TaskState
  <2>2. e \in Event
    BY <1>1, <2>1 DEF TaskMayHave, TaskEvent, RetryEvent, Event, TaskEventType, Failure
  <2>3. {t} \in SUBSET TaskID /\ None \in Worker \cup {None}
    OBVIOUS
  <2>4. CASE e = TaskEvent("task.scheduled", t, None)
    BY <2>2, <2>3, <2>4, ScheduleDispatch, ScheduledType
  <2>5. CASE e = TaskEvent("task.cancelled", t, None)
    BY <2>2, <2>3, <2>5, ScheduleDispatch, CancelledType
  <2>6. CASE e = TaskEvent("timer.fired", t, None)
    BY <2>2, <2>3, <2>6, TaskEventDispatch, TaskReportType
  <2>7. CASE e = RetryEvent(t, st.tasks[t].attempt + 1)
    BY <2>1, <2>2, <2>7, RetryEventDispatch, RetryType
  <2> QED BY <1>1, <2>4, <2>5, <2>6, <2>7 DEF TaskMayHave
<1>2. ASSUME NEW t \in TaskID, NEW w \in Worker \cup {None}, WorkerMayHave(st, t, w, e)
      PROVE  e \in Event /\ ApplyEvent(st, e) \in RunState
  <2>1. e \in Event
    BY <1>2 DEF WorkerMayHave, TaskEvent, Event, TaskEventType, Failure
  <2>2. ApplyEvent(st, e) \in RunState
    BY <1>2, TaskEventDispatch, TaskReportType DEF WorkerMayHave
  <2> QED BY <2>1, <2>2
<1>3. ASSUME NEW f \in Failure, RunMayHave(st, f, e)
      PROVE  e \in Event /\ ApplyEvent(st, e) \in RunState
  <2>1. e \in Event
    BY <1>3 DEF RunMayHave, RunEvent, Event, RunEventType, Failure
  <2>2. CASE e = RunEvent("workflow.started", f)
    BY <2>1, <2>2, RunEventDispatch, RunEventStateType
  <2>3. CASE e = RunEvent("run.cancel_requested", f)
    BY <2>1, <2>3, RunEventDispatch, RunEventStateType
  <2>4. CASE e = RunEvent("run.completed", f)
    BY <2>1, <2>4, RunEventDispatch, RunEventStateType
  <2>5. CASE e = RunEvent("run.cancelled", f)
    BY <2>1, <2>5, RunEventDispatch, RunEventStateType
  <2>6. CASE e = RunEvent("run.compensating", f)
    BY <2>1, <2>6, RunEventDispatch, RunEventStateType
  <2>7. CASE e = RunEvent("run.failed", f)
    BY <2>1, <2>7, RunEventDispatch, RunEventStateType
  <2> QED BY <1>3, <2>2, <2>3, <2>4, <2>5, <2>6, <2>7 DEF RunMayHave
<1> QED BY <1>1, <1>2, <1>3 DEF MayHappen

-----------------------------------------------------------------------------
(***************************************************************************)
(* Replay gives the state.  No event looks at the failure that the replay  *)
(* started from, so what it gives differs in the failure alone.            *)
(***************************************************************************)
LEMMA SetTaskFailure ==
    ASSUME NEW st \in RunState, NEW t \in TaskID, NEW task \in TaskState, NEW f \in Failure
    PROVE  SetTask(WithFailure(st, f), t, task) = WithFailure(SetTask(st, t, task), f)
  BY DEF SetTask, SetForward, WithFailure, RunState

LEMMA RecordOutputFailure ==
    ASSUME NEW st \in RunState, NEW s \in Step, NEW f \in Failure
    PROVE  RecordOutput(WithFailure(st, f), s) = WithFailure(RecordOutput(st, s), f)
  BY DEF RecordOutput, WithFailure, RunState

LEMMA ScheduledFailure ==
    ASSUME NEW st \in RunState, NEW T \in SUBSET TaskID, NEW f \in Failure
    PROVE  /\ ApplyTasksScheduled(WithFailure(st, f), T) = WithFailure(ApplyTasksScheduled(st, T), f)
           /\ ApplyTasksCancelled(WithFailure(st, f), T) = WithFailure(ApplyTasksCancelled(st, T), f)
<1>1. ApplyTasksScheduled(WithFailure(st, f), T) = WithFailure(ApplyTasksScheduled(st, T), f)
  <2> DEFINE a == [t \in TaskID |->
                     IF t \in T THEN [status |-> "available", attempt |-> 1, owner |-> None]
                                ELSE st.tasks[t]]
             b == SetForward(st.forward, T, "available")
             c == st.compScheduled \cup {s \in Step : Compensation(s) \in T}
             new == WithFailure(st, f)
  <2>1. new.tasks = st.tasks /\ new.forward = st.forward /\ new.compScheduled = st.compScheduled
    BY DEF WithFailure, RunState
  <2>2. ApplyTasksScheduled(st, T) = [st EXCEPT !.tasks = a, !.forward = b, !.compScheduled = c]
    BY DEF ApplyTasksScheduled
  <2>3. ApplyTasksScheduled(new, T) = [new EXCEPT !.tasks = a, !.forward = b, !.compScheduled = c]
    <3> HIDE DEF new
    <3> QED BY <2>1 DEF ApplyTasksScheduled
  <2> HIDE DEF a, b, c
  <2>4. WithFailure([st EXCEPT !.tasks = a, !.forward = b, !.compScheduled = c], f)
          = [new EXCEPT !.tasks = a, !.forward = b, !.compScheduled = c]
    BY DEF WithFailure, RunState
  <2> QED BY <2>2, <2>3, <2>4
<1>2. ApplyTasksCancelled(WithFailure(st, f), T) = WithFailure(ApplyTasksCancelled(st, T), f)
  <2> DEFINE a == [t \in TaskID |->
                     IF t \in T THEN [st.tasks[t] EXCEPT !.status = "cancelled", !.owner = None]
                                ELSE st.tasks[t]]
             b == SetForward(st.forward, T, "cancelled")
             new == WithFailure(st, f)
  <2>1. new.tasks = st.tasks /\ new.forward = st.forward
    BY DEF WithFailure, RunState
  <2>2. ApplyTasksCancelled(st, T) = [st EXCEPT !.tasks = a, !.forward = b]
    BY DEF ApplyTasksCancelled
  <2>3. ApplyTasksCancelled(new, T) = [new EXCEPT !.tasks = a, !.forward = b]
    <3> HIDE DEF new
    <3> QED BY <2>1 DEF ApplyTasksCancelled
  <2> HIDE DEF a, b
  <2>4. WithFailure([st EXCEPT !.tasks = a, !.forward = b], f) = [new EXCEPT !.tasks = a, !.forward = b]
    BY DEF WithFailure, RunState
  <2> QED BY <2>2, <2>3, <2>4
<1> QED BY <1>1, <1>2

LEMMA RunEventFailure ==
    ASSUME NEW st \in RunState, NEW f \in Failure, NEW g \in Failure
    PROVE  /\ ApplyWorkflowStarted(WithFailure(st, f)) = WithFailure(ApplyWorkflowStarted(st), f)
           /\ ApplyRunCancelRequested(WithFailure(st, f)) = WithFailure(ApplyRunCancelRequested(st), f)
           /\ Finish(WithFailure(st, f), "completed") = WithFailure(Finish(st, "completed"), f)
           /\ Finish(WithFailure(st, f), "cancelled") = WithFailure(Finish(st, "cancelled"), f)
           /\ g # None =>
                ApplyRunFailed(WithFailure(st, f), g) = WithFailure(ApplyRunFailed(st, g), f)
           /\ st.cancelRequested \/ g # None =>
                ApplyRunCompensating(WithFailure(st, f), g) = WithFailure(ApplyRunCompensating(st, g), f)
  BY DEF ApplyWorkflowStarted, ApplyRunCancelRequested, Finish, ApplyRunFailed,
         ApplyRunCompensating, WithFailure, RunState

LEMMA ReportFailure ==
    ASSUME NEW st \in RunState, NEW t \in TaskID, NEW w \in Worker \cup {None}, NEW f \in Failure
    PROVE  /\ ApplyTaskLeased(WithFailure(st, f), t, w) = WithFailure(ApplyTaskLeased(st, t, w), f)
           /\ ApplyTaskHeartbeat(WithFailure(st, f), t, w) = WithFailure(ApplyTaskHeartbeat(st, t, w), f)
           /\ ApplyTaskCompleted(WithFailure(st, f), t, w) = WithFailure(ApplyTaskCompleted(st, t, w), f)
           /\ ApplyTaskFailed(WithFailure(st, f), t, w) = WithFailure(ApplyTaskFailed(st, t, w), f)
           /\ ApplyTimerFired(WithFailure(st, f), t) = WithFailure(ApplyTimerFired(st, t), f)
<1> DEFINE other == WithFailure(st, f)
           task == st.tasks[t]
<1>1. task \in TaskState /\ StepOf(t) \in Step
  BY TaskIDFacts DEF RunState
<1>2. other \in RunState /\ other.tasks = st.tasks
  BY DEF WithFailure, RunState
<1>3. /\ \A x \in TaskStatus : /\ [task EXCEPT !.status = x] \in TaskState
                               /\ [task EXCEPT !.status = x, !.owner = w] \in TaskState
      /\ {"leased", "completed", "failed"} \subseteq TaskStatus
  BY <1>1 DEF TaskState, TaskStatus
<1>4. \A new \in TaskState : /\ SetTask(other, t, new) = WithFailure(SetTask(st, t, new), f)
                             /\ SetTask(st, t, new) \in RunState
  BY SetTaskFailure, SetTaskType
<1> HIDE DEF task, other
<1>5. ApplyTaskLeased(other, t, w) = WithFailure(ApplyTaskLeased(st, t, w), f)
  BY <1>2, <1>3, <1>4 DEF ApplyTaskLeased, task
<1>6. ApplyTaskFailed(other, t, w) = WithFailure(ApplyTaskFailed(st, t, w), f)
  BY <1>2, <1>3, <1>4 DEF ApplyTaskFailed, task
<1>7. ApplyTimerFired(other, t) = WithFailure(ApplyTimerFired(st, t), f)
  <2> DEFINE new == [task EXCEPT !.status = "completed"]
  <2>1. new \in TaskState
    BY <1>3
  <2> HIDE DEF new
  <2>2. /\ ApplyTimerFired(other, t) = RecordOutput(SetTask(other, t, new), StepOf(t))
        /\ ApplyTimerFired(st, t) = RecordOutput(SetTask(st, t, new), StepOf(t))
    BY <1>2 DEF ApplyTimerFired, new, task
  <2> QED BY <1>1, <1>4, <2>1, <2>2, RecordOutputFailure
<1>8. ApplyTaskCompleted(other, t, w) = WithFailure(ApplyTaskCompleted(st, t, w), f)
  <2> DEFINE new == [task EXCEPT !.status = "completed", !.owner = w]
             done == SetTask(st, t, new)
  <2>1. new \in TaskState
    BY <1>3
  <2> HIDE DEF new
  <2>2. done \in RunState /\ SetTask(other, t, new) = WithFailure(done, f)
    BY <1>4, <2>1
  <2>3. /\ ApplyTaskCompleted(other, t, w) =
             IF IsForward(t) THEN RecordOutput(WithFailure(done, f), StepOf(t))
             ELSE [WithFailure(done, f) EXCEPT !.compCompleted = @ \cup {StepOf(t)}]
        /\ ApplyTaskCompleted(st, t, w) =
             IF IsForward(t) THEN RecordOutput(done, StepOf(t))
             ELSE [done EXCEPT !.compCompleted = @ \cup {StepOf(t)}]
    BY <1>2, <2>2 DEF ApplyTaskCompleted, new, task
  <2> HIDE DEF done
  <2>4. [WithFailure(done, f) EXCEPT !.compCompleted = @ \cup {StepOf(t)}] =
          WithFailure([done EXCEPT !.compCompleted = @ \cup {StepOf(t)}], f)
    BY <2>2 DEF WithFailure, RunState
  <2> QED BY <1>1, <2>2, <2>3, <2>4, RecordOutputFailure
<1>9. ApplyTaskHeartbeat(other, t, w) = WithFailure(ApplyTaskHeartbeat(st, t, w), f)
  BY DEF ApplyTaskHeartbeat, WithFailure, RunState, other
<1> QED BY <1>5, <1>6, <1>7, <1>8, <1>9 DEF other

LEMMA RetryFailure ==
    ASSUME NEW st \in RunState, NEW t \in TaskID, NEW n \in Nat, NEW f \in Failure
    PROVE  ApplyTaskRetryScheduled(WithFailure(st, f), t, n) =
             WithFailure(ApplyTaskRetryScheduled(st, t, n), f)
<1>1. [status |-> "available", attempt |-> n, owner |-> None] \in TaskState
  BY DEF TaskState, TaskStatus
<1> QED BY <1>1, SetTaskFailure DEF ApplyTaskRetryScheduled

\* An event that may happen does the same whatever failure replay started from.
LEMMA EventFailure ==
    ASSUME NEW st \in RunState, NEW e, MayHappen(st, e), NEW f \in Failure
    PROVE  ApplyEvent(WithFailure(st, f), e) = WithFailure(ApplyEvent(st, e), f)
<1>1. ASSUME NEW t \in TaskID, TaskMayHave(st, t, e)
      PROVE  ApplyEvent(WithFailure(st, f), e) = WithFailure(ApplyEvent(st, e), f)
  <2>1. st.tasks[t].attempt + 1 \in Nat /\ {t} \in SUBSET TaskID /\ None \in Worker \cup {None}
    BY DEF RunState, TaskState
  <2>2. CASE e = TaskEvent("task.scheduled", t, None)
    <3>1. \A new : ApplyEvent(new, e) = ApplyTasksScheduled(new, {t})
      BY <2>2, ScheduleDispatch
    <3>2. ApplyTasksScheduled(WithFailure(st, f), {t}) = WithFailure(ApplyTasksScheduled(st, {t}), f)
      BY <2>1, ScheduledFailure
    <3> QED BY <3>1, <3>2
  <2>3. CASE e = TaskEvent("task.cancelled", t, None)
    <3>1. \A new : ApplyEvent(new, e) = ApplyTasksCancelled(new, {t})
      BY <2>3, ScheduleDispatch
    <3>2. ApplyTasksCancelled(WithFailure(st, f), {t}) = WithFailure(ApplyTasksCancelled(st, {t}), f)
      BY <2>1, ScheduledFailure
    <3> QED BY <3>1, <3>2
  <2>4. CASE e = TaskEvent("timer.fired", t, None)
    BY <2>1, <2>4, TaskEventDispatch, ReportFailure
  <2>5. CASE e = RetryEvent(t, st.tasks[t].attempt + 1)
    BY <2>1, <2>5, RetryEventDispatch, RetryFailure
  <2> QED BY <1>1, <2>2, <2>3, <2>4, <2>5 DEF TaskMayHave
<1>2. ASSUME NEW t \in TaskID, NEW w \in Worker \cup {None}, WorkerMayHave(st, t, w, e)
      PROVE  ApplyEvent(WithFailure(st, f), e) = WithFailure(ApplyEvent(st, e), f)
  <2>1. ASSUME NEW type \in {"task.leased", "task.heartbeat", "task.completed", "task.failed"},
               e = TaskEvent(type, t, w)
        PROVE  ApplyEvent(WithFailure(st, f), e) = WithFailure(ApplyEvent(st, e), f)
    BY <2>1, TaskEventDispatch, ReportFailure
  <2> QED BY <1>2, <2>1 DEF WorkerMayHave
<1>3. ASSUME NEW g \in Failure, RunMayHave(st, g, e)
      PROVE  ApplyEvent(WithFailure(st, f), e) = WithFailure(ApplyEvent(st, e), f)
  <2>1. CASE e = RunEvent("workflow.started", g)
    BY <2>1, RunEventDispatch, RunEventFailure
  <2>2. CASE e = RunEvent("run.cancel_requested", g)
    BY <2>2, RunEventDispatch, RunEventFailure
  <2>3. CASE e = RunEvent("run.completed", g)
    BY <2>3, RunEventDispatch, RunEventFailure
  <2>4. CASE e = RunEvent("run.cancelled", g)
    BY <2>4, RunEventDispatch, RunEventFailure
  <2>5. CASE e = RunEvent("run.compensating", g) /\ (st.cancelRequested \/ g # None)
    BY <2>5, RunEventDispatch, RunEventFailure
  <2>6. CASE e = RunEvent("run.failed", g) /\ g # None
    BY <2>6, RunEventDispatch, RunEventFailure
  <2> QED BY <1>3, <2>1, <2>2, <2>3, <2>4, <2>5, <2>6 DEF RunMayHave
<1> QED BY <1>1, <1>2, <1>3 DEF MayHappen

\* A replay goes on as the engine went on.
LEMMA ReplayGoesOn ==
    ASSUME NEW h \in Seq(Event), NEW st \in RunState, Replayed(h, st), NEW e, MayHappen(st, e)
    PROVE  Replayed(Append(h, e), ApplyEvent(st, e))
<1> SUFFICES ASSUME NEW f \in Failure
             PROVE  Replay(f, Append(h, e)) = WithFailure(ApplyEvent(st, e), f)
  BY DEF Replayed
<1>1. e \in Event
  BY MayHappenType
<1>2. Replay(f, Append(h, e)) = ApplyEvent(Replay(f, h), e)
  BY <1>1, FoldAppend DEF Replay
<1>3. Replay(f, h) = WithFailure(st, f)
  BY DEF Replayed
<1> QED BY <1>2, <1>3, EventFailure

-----------------------------------------------------------------------------
(***************************************************************************)
(* What one event does to the task it is about.                            *)
(***************************************************************************)
TaskMove(e, old, cur) ==
    \/ /\ e.type = "task.scheduled"
       /\ old.status = "none"
       /\ cur = [status |-> "available", attempt |-> 1, owner |-> None]
    \/ /\ e.type = "task.leased"
       /\ old.status = "available"
       /\ cur = [status |-> "leased", attempt |-> old.attempt, owner |-> e.worker]
    \/ /\ e.type = "task.heartbeat"
       /\ old.status = "leased" /\ old.owner = e.worker
       /\ cur = old
    \/ /\ e.type = "task.completed"
       /\ old.status = "leased" /\ old.owner = e.worker
       /\ cur.status = "completed" /\ cur.attempt = old.attempt
    \/ /\ e.type = "task.failed"
       /\ old.status = "leased" /\ old.owner = e.worker
       /\ cur.status = "failed" /\ cur.attempt = old.attempt
    \/ /\ e.type = "task.retry_scheduled"
       /\ old.status = "failed" /\ old.attempt < AttemptsOf(e.task)
       /\ cur = [status |-> "available", attempt |-> old.attempt + 1, owner |-> None]
    \/ /\ e.type = "task.cancelled"
       /\ Open(old.status)
       /\ cur.status = "cancelled" /\ cur.attempt = old.attempt
    \/ /\ e.type = "timer.fired"
       /\ IsTimer(e.task)
       /\ old.status = "available"
       /\ cur.status = "completed" /\ cur.attempt = old.attempt

MovesOne(st, e, new) ==
    /\ e.task \in TaskID
    /\ \A x \in TaskID : x # e.task => new.tasks[x] = st.tasks[x]
    /\ TaskMove(e, st.tasks[e.task], new.tasks[e.task])

MovesNone(st, e, new) ==
    /\ e.task = None
    /\ e.type \in RunEventType
    /\ SameTasks(new, st)

MovedTo(new, st, t, task) ==
    \A x \in TaskID : new.tasks[x] = IF x = t THEN task ELSE st.tasks[x]

LEMMA ReportTask ==
    ASSUME NEW st \in RunState, NEW t \in TaskID, NEW w \in Worker \cup {None}
    PROVE  /\ MovedTo(ApplyTaskLeased(st, t, w), st, t,
                      [st.tasks[t] EXCEPT !.status = "leased", !.owner = w])
           /\ MovedTo(ApplyTaskHeartbeat(st, t, w), st, t, [st.tasks[t] EXCEPT !.owner = w])
           /\ MovedTo(ApplyTaskCompleted(st, t, w), st, t,
                      [st.tasks[t] EXCEPT !.status = "completed", !.owner = w])
           /\ MovedTo(ApplyTaskFailed(st, t, w), st, t,
                      [st.tasks[t] EXCEPT !.status = "failed", !.owner = w])
           /\ MovedTo(ApplyTimerFired(st, t), st, t, [st.tasks[t] EXCEPT !.status = "completed"])
  BY DEF ApplyTaskLeased, ApplyTaskHeartbeat, ApplyTaskCompleted, ApplyTaskFailed,
         ApplyTimerFired, RecordOutput, SetTask, RunState, MovedTo

LEMMA RetryTask ==
    ASSUME NEW st \in RunState, NEW t \in TaskID, NEW n
    PROVE  /\ \A x \in TaskID : x # t => ApplyTaskRetryScheduled(st, t, n).tasks[x] = st.tasks[x]
           /\ ApplyTaskRetryScheduled(st, t, n).tasks[t] =
                [status |-> "available", attempt |-> n, owner |-> None]
  BY DEF ApplyTaskRetryScheduled, SetTask, RunState

\* Every event is about one task, or about the run and no task.
LEMMA EventMoves ==
    ASSUME NEW st \in RunState, NEW e, MayHappen(st, e), NEW new, new = ApplyEvent(st, e)
    PROVE  MovesOne(st, e, new) \/ MovesNone(st, e, new)
<1>1. ASSUME NEW t \in TaskID, TaskMayHave(st, t, e) PROVE MovesOne(st, e, new)
  <2>1. st.tasks[t] \in TaskState /\ {t} \in SUBSET TaskID
    BY DEF RunState
  <2>2. CASE e = TaskEvent("task.scheduled", t, None) /\ MaySchedule(st, t)
    <3>1. JustScheduled(new, st, {t})
      BY <2>1, <2>2, ScheduleDispatch, ScheduledEffect
    <3> QED BY <2>2, <3>1 DEF MovesOne, TaskMove, JustScheduled, TaskEvent, MaySchedule
  <2>3. CASE e = TaskEvent("task.cancelled", t, None) /\ Open(st.tasks[t].status)
    <3>1. JustCancelled(new, st, {t})
      BY <2>1, <2>3, ScheduleDispatch, CancelledEffect
    <3> QED BY <2>1, <2>3, <3>1 DEF MovesOne, TaskMove, JustCancelled, TaskEvent, TaskState
  <2>4. CASE e = TaskEvent("timer.fired", t, None) /\ IsTimer(t) /\ st.tasks[t].status = "available"
    <3>1. new = ApplyTimerFired(st, t)
      BY <2>4, TaskEventDispatch
    <3>2. MovedTo(new, st, t, [st.tasks[t] EXCEPT !.status = "completed"])
      BY <3>1, ReportTask
    <3> QED BY <2>1, <2>4, <3>2 DEF MovesOne, TaskMove, MovedTo, TaskEvent, TaskState
  <2>5. CASE /\ e = RetryEvent(t, st.tasks[t].attempt + 1)
             /\ st.tasks[t].status = "failed"
             /\ st.tasks[t].attempt < AttemptsOf(t)
    <3>1. new = ApplyTaskRetryScheduled(st, t, st.tasks[t].attempt + 1)
      BY <2>5, RetryEventDispatch
    <3> QED BY <2>5, <3>1, RetryTask DEF MovesOne, TaskMove, RetryEvent
  <2> QED BY <1>1, <2>2, <2>3, <2>4, <2>5 DEF TaskMayHave
<1>2. ASSUME NEW t \in TaskID, NEW w \in Worker \cup {None}, WorkerMayHave(st, t, w, e)
      PROVE  MovesOne(st, e, new)
  <2>1. st.tasks[t] \in TaskState
    BY DEF RunState
  <2>2. CASE e = TaskEvent("task.leased", t, w) /\ st.tasks[t].status = "available"
    <3>1. new = ApplyTaskLeased(st, t, w)
      BY <2>2, TaskEventDispatch
    <3>2. MovedTo(new, st, t, [st.tasks[t] EXCEPT !.status = "leased", !.owner = w])
      BY <3>1, ReportTask
    <3> QED BY <2>1, <2>2, <3>2 DEF MovesOne, TaskMove, MovedTo, TaskEvent, TaskState
  <2>3. CASE e = TaskEvent("task.heartbeat", t, w) /\ Holds(st, t, w)
    <3>1. new = ApplyTaskHeartbeat(st, t, w)
      BY <2>3, TaskEventDispatch
    <3>2. MovedTo(new, st, t, [st.tasks[t] EXCEPT !.owner = w])
      BY <3>1, ReportTask
    <3>3. [st.tasks[t] EXCEPT !.owner = w] = st.tasks[t]
      BY <2>1, <2>3 DEF Holds, TaskState
    <3> QED BY <2>1, <2>3, <3>2, <3>3 DEF MovesOne, TaskMove, MovedTo, TaskEvent, Holds
  <2>4. CASE e = TaskEvent("task.completed", t, w) /\ Holds(st, t, w)
    <3>1. new = ApplyTaskCompleted(st, t, w)
      BY <2>4, TaskEventDispatch
    <3>2. MovedTo(new, st, t, [st.tasks[t] EXCEPT !.status = "completed", !.owner = w])
      BY <3>1, ReportTask
    <3> QED BY <2>1, <2>4, <3>2 DEF MovesOne, TaskMove, MovedTo, TaskEvent, Holds, TaskState
  <2>5. CASE e = TaskEvent("task.failed", t, w) /\ Holds(st, t, w)
    <3>1. new = ApplyTaskFailed(st, t, w)
      BY <2>5, TaskEventDispatch
    <3>2. MovedTo(new, st, t, [st.tasks[t] EXCEPT !.status = "failed", !.owner = w])
      BY <3>1, ReportTask
    <3> QED BY <2>1, <2>5, <3>2 DEF MovesOne, TaskMove, MovedTo, TaskEvent, Holds, TaskState
  <2> QED BY <1>2, <2>2, <2>3, <2>4, <2>5 DEF WorkerMayHave
<1>3. ASSUME NEW f \in Failure, RunMayHave(st, f, e) PROVE MovesNone(st, e, new)
  <2>1. CASE e = RunEvent("workflow.started", f)
    <3>1. new = ApplyWorkflowStarted(st)
      BY <2>1, RunEventDispatch
    <3> QED BY <2>1, <3>1 DEF MovesNone, RunEvent, RunEventType, ApplyWorkflowStarted, SameTasks, RunState
  <2>2. CASE e = RunEvent("run.cancel_requested", f)
    <3>1. new = ApplyRunCancelRequested(st)
      BY <2>2, RunEventDispatch
    <3> QED BY <2>2, <3>1, RunEventEffect DEF MovesNone, RunEvent, RunEventType, RunCancelling
  <2>3. CASE e = RunEvent("run.completed", f)
    <3>1. new = Finish(st, "completed")
      BY <2>3, RunEventDispatch
    <3> QED BY <2>3, <3>1, RunEventEffect DEF MovesNone, RunEvent, RunEventType, RunEnded
  <2>4. CASE e = RunEvent("run.cancelled", f)
    <3>1. new = Finish(st, "cancelled")
      BY <2>4, RunEventDispatch
    <3> QED BY <2>4, <3>1, RunEventEffect DEF MovesNone, RunEvent, RunEventType, RunEnded
  <2>5. CASE e = RunEvent("run.compensating", f)
    <3>1. new = ApplyRunCompensating(st, f)
      BY <2>5, RunEventDispatch
    <3> QED BY <2>5, <3>1, RunEventEffect DEF MovesNone, RunEvent, RunEventType, RunUnwinding
  <2>6. CASE e = RunEvent("run.failed", f)
    <3>1. new = ApplyRunFailed(st, f)
      BY <2>6, RunEventDispatch
    <3> QED BY <2>6, <3>1, RunEventEffect DEF MovesNone, RunEvent, RunEventType, RunEnded
  <2> QED BY <1>3, <2>1, <2>2, <2>3, <2>4, <2>5, <2>6 DEF RunMayHave
<1> QED BY <1>1, <1>2, <1>3 DEF MayHappen

-----------------------------------------------------------------------------
(***************************************************************************)
(* One more event in a history.                                            *)
(***************************************************************************)
LEMMA Appended ==
    ASSUME NEW h \in Seq(Event), NEW e \in Event
    PROVE  LET new == Append(h, e)
               n == Len(h)
           IN  /\ n \in Nat /\ new \in Seq(Event)
               /\ DOMAIN h = 1..n /\ DOMAIN new = 1..(n + 1)
               /\ \A i \in 1..n : new[i] = h[i]
               /\ new[n + 1] = e
  BY AppendProperties, LenProperties

\* The last event of a task still tells its status.
LEMMA StatusGoesOn ==
    ASSUME NEW h \in Seq(Event), NEW st \in RunState, NEW e \in Event, NEW new \in RunState,
           StatusTold(h, st), MovesOne(st, e, new)
    PROVE  StatusTold(Append(h, e), new)
<1> DEFINE g == Append(h, e)
           n == Len(h)
<1>1. /\ n \in Nat /\ DOMAIN h = 1..n /\ DOMAIN g = 1..(n + 1)
      /\ \A i \in 1..n : g[i] = h[i]
      /\ g[n + 1] = e
  BY Appended
<1> HIDE DEF g, n
<1> SUFFICES ASSUME NEW t \in TaskID
             PROVE  IF new.tasks[t].status = "none"
                      THEN \A j \in DOMAIN g : g[j].task # t
                      ELSE \E j \in DOMAIN g :
                             /\ LastOf(g, t, j)
                             /\ g[j].type \in LeftBy(new.tasks[t].status)
                             /\ new.tasks[t].status = "leased" => g[j].worker = new.tasks[t].owner
  BY DEF StatusTold, g
<1>2. CASE t = e.task
  <2>1. TaskMove(e, st.tasks[t], new.tasks[t])
    BY <1>2 DEF MovesOne
  <2>2. LastOf(g, t, n + 1)
    BY <1>1, <1>2 DEF LastOf
  <2>3. new.tasks[t].status # "none"
    BY <2>1 DEF TaskMove
  <2>4. e.type \in LeftBy(new.tasks[t].status)
    BY <2>1 DEF TaskMove, LeftBy
  <2>5. new.tasks[t].status = "leased" => e.worker = new.tasks[t].owner
    BY <2>1 DEF TaskMove
  <2> QED BY <1>1, <2>2, <2>3, <2>4, <2>5
<1>3. CASE t # e.task
  <2>1. new.tasks[t] = st.tasks[t]
    BY <1>3 DEF MovesOne
  <2>2. CASE st.tasks[t].status = "none"
    <3>1. \A j \in DOMAIN h : h[j].task # t
      BY <2>2 DEF StatusTold
    <3> QED BY <1>1, <1>3, <2>1, <2>2, <3>1
  <2>3. CASE st.tasks[t].status # "none"
    <3>1. PICK j \in DOMAIN h :
            /\ LastOf(h, t, j)
            /\ h[j].type \in LeftBy(st.tasks[t].status)
            /\ st.tasks[t].status = "leased" => h[j].worker = st.tasks[t].owner
      BY <2>3 DEF StatusTold
    <3>2. j \in DOMAIN g /\ g[j] = h[j] /\ LastOf(g, t, j)
      BY <1>1, <1>3, <3>1 DEF LastOf
    <3> QED BY <2>1, <2>3, <3>1, <3>2
  <2> QED BY <2>2, <2>3
<1> QED BY <1>2, <1>3

\* The event is one that may follow the last one of its task.
LEMMA LivesGoOn ==
    ASSUME NEW h \in Seq(Event), NEW st \in RunState, NEW e \in Event, NEW new \in RunState,
           StatusTold(h, st), LivesTold(h),
           MovesOne(st, e, new) \/ MovesNone(st, e, new)
    PROVE  LivesTold(Append(h, e))
<1> DEFINE g == Append(h, e)
           n == Len(h)
           t == e.task
<1>1. /\ n \in Nat /\ DOMAIN h = 1..n /\ DOMAIN g = 1..(n + 1)
      /\ \A i \in 1..n : g[i] = h[i]
      /\ g[n + 1] = e
  BY Appended
<1> HIDE DEF g, n
<1> SUFFICES ASSUME NEW i \in DOMAIN g, g[i].task \in TaskID
             PROVE  \/ /\ g[i].type = "task.scheduled"
                       /\ \A j \in DOMAIN g : g[j].task = g[i].task => i <= j
                    \/ \E j \in DOMAIN g : g[j].task = g[i].task /\ Follows(g, i, j)
  BY DEF LivesTold, g
<1>2. CASE i \in 1..n
  <2>1. h[i].task \in TaskID /\ i \in DOMAIN h
    BY <1>1, <1>2
  <2>2. CASE h[i].type = "task.scheduled" /\ \A j \in DOMAIN h : h[j].task = h[i].task => i <= j
    <3>1. \A j \in DOMAIN g : g[j].task = g[i].task => i <= j
      BY <1>1, <1>2, <2>2
    <3> QED BY <1>1, <1>2, <2>2, <3>1
  <2>3. CASE \E j \in DOMAIN h : h[j].task = h[i].task /\ Follows(h, i, j)
    <3>1. PICK j \in DOMAIN h : h[j].task = h[i].task /\ Follows(h, i, j)
      BY <2>3
    <3>2. Follows(g, i, j)
      BY <1>1, <1>2, <3>1 DEF Follows
    <3> QED BY <1>1, <1>2, <3>1, <3>2
  <2> QED BY <2>1, <2>2, <2>3 DEF LivesTold
<1>3. CASE i = n + 1
  <2>1. t \in TaskID /\ MovesOne(st, e, new)
    BY <1>1, <1>3, ReducerAssumption DEF MovesNone
  <2>2. TaskMove(e, st.tasks[t], new.tasks[t])
    BY <2>1 DEF MovesOne
  <2>3. CASE st.tasks[t].status = "none"
    <3>1. \A j \in DOMAIN h : h[j].task # t
      BY <2>1, <2>3 DEF StatusTold
    <3>2. e.type = "task.scheduled"
      BY <2>2, <2>3 DEF TaskMove, Open
    <3> QED BY <1>1, <1>3, <3>1, <3>2
  <2>4. CASE st.tasks[t].status # "none"
    <3>1. PICK j \in DOMAIN h :
            /\ LastOf(h, t, j)
            /\ h[j].type \in LeftBy(st.tasks[t].status)
            /\ st.tasks[t].status = "leased" => h[j].worker = st.tasks[t].owner
      BY <2>1, <2>4 DEF StatusTold
    <3>2. e.type \in MayFollow(h[j].type)
      <4>1. CASE st.tasks[t].status = "available"
        <5>1. h[j].type \in {"task.scheduled", "task.retry_scheduled"}
          BY <3>1, <4>1 DEF LeftBy
        <5>2. e.type \in {"task.leased", "task.cancelled", "timer.fired"}
          BY <2>2, <4>1 DEF TaskMove, Open
        <5> QED BY <5>1, <5>2 DEF MayFollow
      <4>2. CASE st.tasks[t].status = "leased"
        <5>1. h[j].type \in {"task.leased", "task.heartbeat"}
          BY <3>1, <4>2 DEF LeftBy
        <5>2. e.type \in {"task.heartbeat", "task.completed", "task.failed", "task.cancelled"}
          BY <2>2, <4>2 DEF TaskMove, Open
        <5> QED BY <5>1, <5>2 DEF MayFollow
      <4>3. CASE st.tasks[t].status = "failed"
        <5>1. h[j].type = "task.failed"
          BY <3>1, <4>3 DEF LeftBy
        <5>2. e.type = "task.retry_scheduled"
          BY <2>2, <4>3 DEF TaskMove, Open
        <5> QED BY <5>1, <5>2 DEF MayFollow
      <4>4. st.tasks[t].status \in {"available", "leased", "failed"}
        BY <2>2, <2>4 DEF TaskMove, Open
      <4> QED BY <4>1, <4>2, <4>3, <4>4
    <3>3. e.type \in {"task.heartbeat", "task.completed", "task.failed"} => e.worker = h[j].worker
      BY <2>2, <3>1 DEF TaskMove
    <3>4. e.type = "timer.fired" => IsTimer(t)
      BY <2>2 DEF TaskMove
    <3>5. h[j].task = t /\ \A k \in DOMAIN h : h[k].task = t => k <= j
      BY <3>1 DEF LastOf
    <3>6. j < i /\ \A k \in DOMAIN g : g[k].task = g[i].task => k <= j \/ i <= k
      BY <1>1, <1>3, <3>5
    <3>7. g[i] = e /\ g[j] = h[j]
      BY <1>1, <1>3
    <3>8. Follows(g, i, j)
      BY <3>2, <3>3, <3>4, <3>6, <3>7 DEF Follows
    <3> QED BY <1>1, <3>5, <3>7, <3>8
  <2> QED BY <2>3, <2>4
<1> QED BY <1>1, <1>2, <1>3

\* An event about the run changes no task.
LEMMA StatusStays ==
    ASSUME NEW h \in Seq(Event), NEW st \in RunState, NEW e \in Event, NEW new \in RunState,
           StatusTold(h, st), MovesNone(st, e, new)
    PROVE  StatusTold(Append(h, e), new)
<1> DEFINE g == Append(h, e)
           n == Len(h)
<1>1. /\ n \in Nat /\ DOMAIN h = 1..n /\ DOMAIN g = 1..(n + 1)
      /\ \A i \in 1..n : g[i] = h[i]
      /\ g[n + 1] = e
  BY Appended
<1> HIDE DEF g, n
<1> SUFFICES ASSUME NEW t \in TaskID
             PROVE  IF new.tasks[t].status = "none"
                      THEN \A j \in DOMAIN g : g[j].task # t
                      ELSE \E j \in DOMAIN g :
                             /\ LastOf(g, t, j)
                             /\ g[j].type \in LeftBy(new.tasks[t].status)
                             /\ new.tasks[t].status = "leased" => g[j].worker = new.tasks[t].owner
  BY DEF StatusTold, g
<1>2. new.tasks[t] = st.tasks[t] /\ t # e.task
  BY ReducerAssumption DEF MovesNone, SameTasks
<1>3. CASE st.tasks[t].status = "none"
  <2>1. \A j \in DOMAIN h : h[j].task # t
    BY <1>3 DEF StatusTold
  <2> QED BY <1>1, <1>2, <1>3, <2>1
<1>4. CASE st.tasks[t].status # "none"
  <2>1. PICK j \in DOMAIN h :
          /\ LastOf(h, t, j)
          /\ h[j].type \in LeftBy(st.tasks[t].status)
          /\ st.tasks[t].status = "leased" => h[j].worker = st.tasks[t].owner
    BY <1>4 DEF StatusTold
  <2>2. j \in DOMAIN g /\ g[j] = h[j] /\ LastOf(g, t, j)
    BY <1>1, <1>2, <2>1 DEF LastOf
  <2> QED BY <1>2, <1>4, <2>1, <2>2
<1> QED BY <1>3, <1>4

\* One more event is one more lease, or none.
LEMMA LeasesAppended ==
    ASSUME NEW h \in Seq(Event), NEW e \in Event, NEW t \in TaskID
    PROVE  /\ Cardinality(LeasesOf(h, t)) \in Nat
           /\ LeasesOf(Append(h, e), t) = IF e.task = t /\ e.type = "task.leased"
                                            THEN LeasesOf(h, t) \cup {Len(h) + 1}
                                            ELSE LeasesOf(h, t)
           /\ Cardinality(LeasesOf(Append(h, e), t)) =
                IF e.task = t /\ e.type = "task.leased" THEN Cardinality(LeasesOf(h, t)) + 1
                                                        ELSE Cardinality(LeasesOf(h, t))
<1> DEFINE g == Append(h, e)
           n == Len(h)
           L == LeasesOf(h, t)
<1>1. /\ n \in Nat /\ DOMAIN h = 1..n /\ DOMAIN g = 1..(n + 1)
      /\ \A i \in 1..n : g[i] = h[i]
      /\ g[n + 1] = e
  BY Appended
<1>2. L \subseteq 1..n
  BY <1>1 DEF LeasesOf
<1>3. IsFiniteSet(1..n)
  BY <1>1, FS_Interval
<1>4. IsFiniteSet(L) /\ Cardinality(L) \in Nat
  BY <1>2, <1>3, FS_Subset, FS_CardinalityType
<1>5. LeasesOf(g, t) = IF e.task = t /\ e.type = "task.leased" THEN L \cup {n + 1} ELSE L
  <2> HIDE DEF g, n
  <2>1. 1..(n + 1) = (1..n) \cup {n + 1} /\ n + 1 \notin 1..n
    BY <1>1
  <2> QED BY <1>1, <2>1 DEF LeasesOf
<1>6. n + 1 \notin L
  <2>1. n + 1 \notin 1..n
    BY <1>1
  <2> QED BY <1>2, <2>1
<1>7. Cardinality(L \cup {n + 1}) = Cardinality(L) + 1
  <2> HIDE DEF L, n
  <2> QED BY <1>4, <1>6, FS_AddElement
<1> QED BY <1>4, <1>5, <1>7

\* A lease spends an attempt, and only a retry grants another.
LEMMA LeasesGoOn ==
    ASSUME NEW h \in Seq(Event), NEW st \in RunState, NEW e \in Event, NEW new \in RunState,
           LeasesTold(h, st), MovesOne(st, e, new) \/ MovesNone(st, e, new)
    PROVE  LeasesTold(Append(h, e), new)
<1> SUFFICES ASSUME NEW t \in TaskID
             PROVE  LET task == new.tasks[t]
                        L == LeasesOf(Append(h, e), t)
                    IN  /\ task.status = "none" => L = {}
                        /\ task.status = "available" => Cardinality(L) + 1 <= task.attempt
                        /\ task.status # "none" => /\ Cardinality(L) <= task.attempt
                                                   /\ task.attempt <= AttemptsOf(t)
  BY DEF LeasesTold
<1> DEFINE old == st.tasks[t]
           cur == new.tasks[t]
           c == Cardinality(LeasesOf(h, t))
           d == Cardinality(LeasesOf(Append(h, e), t))
<1>1. /\ old.status = "none" => LeasesOf(h, t) = {}
      /\ old.status = "available" => c + 1 <= old.attempt
      /\ old.status # "none" => c <= old.attempt /\ old.attempt <= AttemptsOf(t)
  BY DEF LeasesTold
<1>2. /\ c \in Nat
      /\ LeasesOf(Append(h, e), t) = IF e.task = t /\ e.type = "task.leased"
                                       THEN LeasesOf(h, t) \cup {Len(h) + 1}
                                       ELSE LeasesOf(h, t)
      /\ d = IF e.task = t /\ e.type = "task.leased" THEN c + 1 ELSE c
  BY LeasesAppended
<1>3. old.attempt \in Nat /\ cur.attempt \in Nat
  BY DEF RunState, TaskState
<1>4. AttemptsOf(t) \in Nat /\ 1 <= AttemptsOf(t)
  <2>1. MaxAttempts[StepOf(t)] \in Nat /\ MaxAttempts[StepOf(t)] # 0
    BY WorkflowAssumption, TaskIDFacts
  <2> QED BY <2>1 DEF AttemptsOf
<1>5. old.status = "none" => c = 0
  BY <1>1, FS_EmptySet
<1> HIDE DEF c, d
<1>6. CASE e.task # t
  <2>1. cur = old
    BY <1>6 DEF MovesOne, MovesNone, SameTasks
  <2> QED BY <1>1, <1>2, <1>6, <2>1 DEF d
<1>7. CASE e.task = t
  <2>1. TaskMove(e, old, cur)
    BY <1>7, ReducerAssumption DEF MovesOne, MovesNone
  <2> HIDE DEF old, cur
  <2>2. cur.status # "none"
    BY <2>1 DEF TaskMove
  <2>3. cur.status = "available" => d + 1 <= cur.attempt
    BY <1>1, <1>2, <1>3, <1>5, <2>1 DEF TaskMove
  <2>4. d <= cur.attempt /\ cur.attempt <= AttemptsOf(t)
    BY <1>1, <1>2, <1>3, <1>4, <1>5, <1>7, <2>1 DEF TaskMove, Open
  <2> QED BY <2>2, <2>3, <2>4 DEF d, cur
<1> QED BY <1>6, <1>7

-----------------------------------------------------------------------------
(***************************************************************************)
(* What one event does to the completion order, to the marks of the        *)
(* unwinding and to the failure that the history has.                      *)
(***************************************************************************)
Completes(e) == e.type \in CompletionType /\ IsForward(e.task)

MarksMove(st, e, new) ==
    /\ new.completedOrder = IF Completes(e) THEN Append(st.completedOrder, StepOf(e.task))
                                            ELSE st.completedOrder
    /\ new.compScheduled = st.compScheduled \cup
         {s \in Step : e.type = "task.scheduled" /\ e.task = Compensation(s)}
    /\ new.compCompleted = st.compCompleted \cup
         {s \in Step : e.type = "task.completed" /\ e.task = Compensation(s)}
    /\ new.compensating <=> st.compensating \/ e.type = "run.compensating"
    /\ st.cancelRequested => new.cancelRequested

FailureMoves(st, e, new) ==
    /\ \/ new.logged = st.logged /\ new.failure = st.failure
       \/ new.logged # None /\ new.failure = new.logged
    /\ e.type = "run.compensating" /\ ~st.cancelRequested => new.logged # None

\* Nothing but the tasks and the forward status has changed.
OnlyTasks(new, st) ==
    /\ new.completedOrder = st.completedOrder
    /\ new.compScheduled = st.compScheduled
    /\ new.compCompleted = st.compCompleted
    /\ new.cancelRequested = st.cancelRequested
    /\ new.compensating = st.compensating
    /\ new.logged = st.logged
    /\ new.failure = st.failure

LEMMA TaskMarks ==
    ASSUME NEW st \in RunState, NEW t \in TaskID, NEW w, NEW n
    PROVE  /\ OnlyTasks(ApplyTaskLeased(st, t, w), st)
           /\ OnlyTasks(ApplyTaskHeartbeat(st, t, w), st)
           /\ OnlyTasks(ApplyTaskFailed(st, t, w), st)
           /\ OnlyTasks(ApplyTaskRetryScheduled(st, t, n), st)
           /\ OnlyTasks(ApplyTasksCancelled(st, {t}), st)
  BY DEF OnlyTasks, ApplyTaskLeased, ApplyTaskHeartbeat, ApplyTaskFailed,
         ApplyTaskRetryScheduled, ApplyTasksCancelled, SetTask, RunState

LEMMA RecordOutputMarks ==
    ASSUME NEW st \in RunState, NEW s \in Step, s \notin ToSet(st.completedOrder)
    PROVE  /\ RecordOutput(st, s).completedOrder = Append(st.completedOrder, s)
           /\ RecordOutput(st, s).compScheduled = st.compScheduled
           /\ RecordOutput(st, s).compCompleted = st.compCompleted
           /\ RecordOutput(st, s).cancelRequested = st.cancelRequested
           /\ RecordOutput(st, s).compensating = st.compensating
           /\ RecordOutput(st, s).logged = st.logged
           /\ RecordOutput(st, s).failure = st.failure
  BY DEF RecordOutput, RunState

\* A task that completes was not in the completion order yet.
LEMMA NewInOrder ==
    ASSUME NEW h, NEW st \in RunState, MarksTold(h, st), NEW t \in TaskID, IsForward(t),
           st.tasks[t].status # "completed"
    PROVE  StepOf(t) \notin ToSet(st.completedOrder)
<1>1. t = Forward(StepOf(t))
  BY TaskIDFacts
<1> QED BY <1>1 DEF MarksTold, ForwardStatus

LEMMA CompletedMarks ==
    ASSUME NEW h, NEW st \in RunState, MarksTold(h, st), NEW t \in TaskID,
           NEW w \in Worker \cup {None}, Open(st.tasks[t].status),
           NEW e, NEW new,
           \/ e = TaskEvent("task.completed", t, w) /\ new = ApplyTaskCompleted(st, t, w)
           \/ e = TaskEvent("timer.fired", t, None) /\ IsTimer(t) /\ new = ApplyTimerFired(st, t)
    PROVE  MarksMove(st, e, new) /\ FailureMoves(st, e, new)
<1>1. st.tasks[t] \in TaskState /\ StepOf(t) \in Step
  BY TaskIDFacts DEF RunState
<1>2. IsForward(t) => StepOf(t) \notin ToSet(st.completedOrder)
  BY NewInOrder DEF Open
<1> DEFINE task == IF e.type = "timer.fired" THEN [st.tasks[t] EXCEPT !.status = "completed"]
                   ELSE [st.tasks[t] EXCEPT !.status = "completed", !.owner = w]
           done == SetTask(st, t, task)
<1>3. task \in TaskState
  BY <1>1 DEF TaskState, TaskStatus
<1>4. new = IF IsForward(t) THEN RecordOutput(done, StepOf(t))
            ELSE [done EXCEPT !.compCompleted = @ \cup {StepOf(t)}]
  BY DEF TaskEvent, ApplyTaskCompleted, ApplyTimerFired, IsTimer
<1> HIDE DEF task
<1>5. done \in RunState /\ OnlyTasks(done, st)
  BY <1>3, SetTaskType DEF SetTask, OnlyTasks, RunState
<1> HIDE DEF done
<1>6. e.task = t /\ e.type \in CompletionType
  BY DEF TaskEvent, CompletionType
<1>7. {s \in Step : e.type = "task.scheduled" /\ e.task = Compensation(s)} = {}
      /\ e.type # "run.compensating"
  BY DEF TaskEvent
<1>8. CASE IsForward(t)
  <2>1. new = RecordOutput(done, StepOf(t)) /\ StepOf(t) \notin ToSet(done.completedOrder)
    BY <1>2, <1>4, <1>5, <1>8 DEF OnlyTasks
  <2>2. /\ new.completedOrder = Append(done.completedOrder, StepOf(t))
        /\ new.compScheduled = done.compScheduled
        /\ new.compCompleted = done.compCompleted
        /\ new.cancelRequested = done.cancelRequested
        /\ new.compensating = done.compensating
        /\ new.logged = done.logged
        /\ new.failure = done.failure
    BY <1>1, <1>5, <2>1, RecordOutputMarks
  <2>3. \A s \in Step : e.task # Compensation(s)
    BY <1>6, <1>8, TaskIDFacts
  <2> QED BY <1>5, <1>6, <1>7, <1>8, <2>2, <2>3 DEF MarksMove, FailureMoves, OnlyTasks, Completes
<1>9. CASE ~IsForward(t)
  <2>1. new = [done EXCEPT !.compCompleted = @ \cup {StepOf(t)}] /\ e.type = "task.completed"
    BY <1>4, <1>9 DEF TaskEvent, IsTimer
  <2>2. \A s \in Step : e.task = Compensation(s) <=> s = StepOf(t)
    BY <1>6, <1>9, TaskIDFacts
  <2>3. {s \in Step : e.type = "task.completed" /\ e.task = Compensation(s)} = {StepOf(t)}
    BY <1>1, <2>1, <2>2
  <2>4. /\ new.completedOrder = done.completedOrder
        /\ new.compScheduled = done.compScheduled
        /\ new.compCompleted = done.compCompleted \cup {StepOf(t)}
        /\ new.cancelRequested = done.cancelRequested
        /\ new.compensating = done.compensating
        /\ new.logged = done.logged
        /\ new.failure = done.failure
    BY <1>5, <2>1 DEF RunState
  <2> QED BY <1>5, <1>6, <1>7, <1>9, <2>3, <2>4 DEF MarksMove, FailureMoves, OnlyTasks, Completes
<1> QED BY <1>8, <1>9

LEMMA RunMarks ==
    ASSUME NEW st \in RunState, NEW f \in Failure, NEW e, NEW new, RunMayHave(st, f, e),
           new = ApplyEvent(st, e)
    PROVE  MarksMove(st, e, new) /\ FailureMoves(st, e, new)
<1>1. e.task = None /\ e.type \in RunEventType
  BY DEF RunMayHave, RunEvent, RunEventType
<1>2. ~Completes(e) /\ e.type # "task.scheduled" /\ e.type # "task.completed"
  BY <1>1 DEF Completes, CompletionType, RunEventType
<1>3. ASSUME SameTasks(new, st)
      PROVE  /\ new.completedOrder = IF Completes(e) THEN Append(st.completedOrder, StepOf(e.task))
                                                     ELSE st.completedOrder
             /\ new.compScheduled = st.compScheduled \cup
                  {s \in Step : e.type = "task.scheduled" /\ e.task = Compensation(s)}
             /\ new.compCompleted = st.compCompleted \cup
                  {s \in Step : e.type = "task.completed" /\ e.task = Compensation(s)}
  BY <1>2, <1>3 DEF SameTasks
<1>4. CASE e = RunEvent("workflow.started", f)
  <2>1. new = ApplyWorkflowStarted(st)
    BY <1>4, RunEventDispatch
  <2>2. SameTasks(new, st) /\ OnlyTasks(new, st)
    BY <2>1 DEF ApplyWorkflowStarted, SameTasks, OnlyTasks, RunState
  <2>3. e.type # "run.compensating"
    BY <1>4 DEF RunEvent
  <2> QED BY <1>3, <2>2, <2>3 DEF MarksMove, FailureMoves, OnlyTasks
<1>5. CASE e = RunEvent("run.cancel_requested", f)
  <2>1. new = ApplyRunCancelRequested(st)
    BY <1>5, RunEventDispatch
  <2>2. /\ SameTasks(new, st) /\ new.cancelRequested /\ new.compensating = st.compensating
        /\ new.logged = st.logged /\ new.failure = st.failure
    BY <2>1 DEF ApplyRunCancelRequested, SameTasks, RunState
  <2>3. e.type # "run.compensating"
    BY <1>5 DEF RunEvent
  <2> QED BY <1>3, <2>2, <2>3 DEF MarksMove, FailureMoves
<1>6. CASE e = RunEvent("run.completed", f) \/ e = RunEvent("run.cancelled", f)
  <2>1. new = Finish(st, "completed") \/ new = Finish(st, "cancelled")
    BY <1>6, RunEventDispatch
  <2>2. SameTasks(new, st) /\ OnlyTasks(new, st)
    BY <2>1 DEF Finish, SameTasks, OnlyTasks, RunState
  <2>3. e.type # "run.compensating"
    BY <1>6 DEF RunEvent
  <2> QED BY <1>3, <2>2, <2>3 DEF MarksMove, FailureMoves, OnlyTasks
<1>7. CASE e = RunEvent("run.compensating", f) /\ (st.cancelRequested \/ f # None)
  <2>1. new = ApplyRunCompensating(st, f)
    BY <1>7, RunEventDispatch
  <2>2. /\ SameTasks(new, st) /\ new.cancelRequested = st.cancelRequested /\ new.compensating
        /\ IF st.cancelRequested THEN new.logged = st.logged /\ new.failure = st.failure
                                 ELSE new.logged = f /\ new.failure = f
    BY <2>1 DEF ApplyRunCompensating, SameTasks, RunState
  <2>3. e.type = "run.compensating"
    BY <1>7 DEF RunEvent
  <2> QED BY <1>3, <1>7, <2>2, <2>3 DEF MarksMove, FailureMoves
<1>8. CASE e = RunEvent("run.failed", f) /\ f # None
  <2>1. new = ApplyRunFailed(st, f)
    BY <1>8, RunEventDispatch
  <2>2. /\ SameTasks(new, st) /\ new.cancelRequested = st.cancelRequested
        /\ new.compensating = st.compensating
        /\ new.logged = f /\ new.failure = f
    BY <2>1 DEF ApplyRunFailed, Finish, SameTasks, RunState
  <2>3. e.type # "run.compensating"
    BY <1>8 DEF RunEvent
  <2> QED BY <1>3, <1>8, <2>2, <2>3 DEF MarksMove, FailureMoves
<1> QED BY <1>4, <1>5, <1>6, <1>7, <1>8 DEF RunMayHave

LEMMA EventMarks ==
    ASSUME NEW h, NEW st \in RunState, MarksTold(h, st), NEW e, MayHappen(st, e),
           NEW new, new = ApplyEvent(st, e)
    PROVE  MarksMove(st, e, new) /\ FailureMoves(st, e, new)
<1>1. ASSUME NEW t \in TaskID, TaskMayHave(st, t, e)
      PROVE  MarksMove(st, e, new) /\ FailureMoves(st, e, new)
  <2>1. CASE e = TaskEvent("task.scheduled", t, None)
    <3>1. new = ApplyTasksScheduled(st, {t})
      BY <2>1, ScheduleDispatch
    <3>2. JustScheduled(new, st, {t}) /\ new.logged = st.logged /\ new.failure = st.failure
      <4>1. JustScheduled(new, st, {t})
        BY <3>1, ScheduledEffect
      <4>2. new.logged = st.logged /\ new.failure = st.failure
        BY <3>1 DEF ApplyTasksScheduled, RunState
      <4> QED BY <4>1, <4>2
    <3>3. e.task = t /\ e.type = "task.scheduled" /\ ~Completes(e)
      BY <2>1 DEF TaskEvent, Completes, CompletionType
    <3>4. {s \in Step : Compensation(s) \in {t}}
            = {s \in Step : e.type = "task.scheduled" /\ e.task = Compensation(s)}
      BY <3>3
    <3>5. {s \in Step : e.type = "task.completed" /\ e.task = Compensation(s)} = {}
      BY <3>3
    <3> QED BY <3>2, <3>3, <3>4, <3>5 DEF MarksMove, FailureMoves, JustScheduled
  <2>2. CASE e = TaskEvent("timer.fired", t, None) /\ IsTimer(t) /\ st.tasks[t].status = "available"
    <3>1. new = ApplyTimerFired(st, t)
      BY <2>2, TaskEventDispatch
    <3> QED BY <2>2, <3>1, CompletedMarks DEF Open
  <2>3. CASE \/ e = TaskEvent("task.cancelled", t, None)
             \/ e = RetryEvent(t, st.tasks[t].attempt + 1)
    <3>0. \/ new = ApplyTasksCancelled(st, {t})
          \/ new = ApplyTaskRetryScheduled(st, t, st.tasks[t].attempt + 1)
      BY <2>3, ScheduleDispatch, RetryEventDispatch
    <3>1. OnlyTasks(new, st)
      BY <3>0, TaskMarks, Zenon
    <3>2. ~Completes(e) /\ e.type \notin {"task.scheduled", "task.completed", "run.compensating"}
      BY <2>3 DEF TaskEvent, RetryEvent, Completes, CompletionType
    <3> QED BY <3>1, <3>2 DEF MarksMove, FailureMoves, OnlyTasks
  <2> QED BY <1>1, <2>1, <2>2, <2>3 DEF TaskMayHave
<1>2. ASSUME NEW t \in TaskID, NEW w \in Worker \cup {None}, WorkerMayHave(st, t, w, e)
      PROVE  MarksMove(st, e, new) /\ FailureMoves(st, e, new)
  <2>1. CASE e = TaskEvent("task.completed", t, w) /\ Holds(st, t, w)
    <3>1. new = ApplyTaskCompleted(st, t, w)
      BY <2>1, TaskEventDispatch
    <3> QED BY <2>1, <3>1, CompletedMarks DEF Open, Holds
  <2>2. CASE \/ e = TaskEvent("task.leased", t, w)
             \/ e = TaskEvent("task.heartbeat", t, w)
             \/ e = TaskEvent("task.failed", t, w)
    <3>0. \/ new = ApplyTaskLeased(st, t, w)
          \/ new = ApplyTaskHeartbeat(st, t, w)
          \/ new = ApplyTaskFailed(st, t, w)
      BY <2>2, TaskEventDispatch
    <3>1. OnlyTasks(new, st)
      BY <3>0, TaskMarks, Zenon
    <3>2. ~Completes(e) /\ e.type \notin {"task.scheduled", "task.completed", "run.compensating"}
      BY <2>2 DEF TaskEvent, Completes, CompletionType
    <3> QED BY <3>1, <3>2 DEF MarksMove, FailureMoves, OnlyTasks
  <2> QED BY <1>2, <2>1, <2>2 DEF WorkerMayHave
<1>3. ASSUME NEW f \in Failure, RunMayHave(st, f, e)
      PROVE  MarksMove(st, e, new) /\ FailureMoves(st, e, new)
  BY <1>3, RunMarks
<1> QED BY <1>1, <1>2, <1>3 DEF MayHappen

\* The failure of a run that unwinds stays in the history.
LEMMA FailureGoesOn ==
    ASSUME NEW st \in RunState, NEW e, NEW new \in RunState, FailureLogged(st),
           MarksMove(st, e, new), FailureMoves(st, e, new)
    PROVE  FailureLogged(new)
  BY DEF FailureLogged, MarksMove, FailureMoves

\* A completed step takes the next place in the order.
LEMMA OrderGoesOn ==
    ASSUME NEW h \in Seq(Event), NEW st \in RunState, NEW e \in Event, NEW new \in RunState,
           OrderTold(h, st), MarksTold(h, st),
           MovesOne(st, e, new) \/ MovesNone(st, e, new), MarksMove(st, e, new)
    PROVE  OrderTold(Append(h, e), new)
<1> DEFINE g == Append(h, e)
           n == Len(h)
           old == st.completedOrder
           cur == new.completedOrder
           m == Len(old)
<1>1. /\ n \in Nat /\ DOMAIN h = 1..n /\ DOMAIN g = 1..(n + 1)
      /\ \A i \in 1..n : g[i] = h[i]
      /\ g[n + 1] = e
  BY Appended
<1>2. old \in Seq(Step) /\ m \in Nat /\ DOMAIN old = 1..m
  BY LenProperties DEF RunState
<1>3. ToSet(old) = {old[i] : i \in 1..m}
  BY <1>2 DEF ToSet
<1>4. /\ \A i \in 1..m : \E j \in 1..n : CompletionAt(h, j, old[i])
      /\ \A j \in 1..n, s \in Step : CompletionAt(h, j, s) => s \in ToSet(old)
      /\ \A i, p \in 1..m, j, k \in 1..n :
           CompletionAt(h, j, old[i]) /\ CompletionAt(h, k, old[p]) /\ j < k => i < p
  BY <1>1, <1>2 DEF OrderTold
<1> HIDE DEF g, n
<1>5. \A s : \A j \in 1..n : CompletionAt(g, j, s) <=> CompletionAt(h, j, s)
  BY <1>1 DEF CompletionAt
<1>6. \A s \in Step : CompletionAt(g, n + 1, s) <=> Completes(e) /\ s = StepOf(e.task)
  <2>1. e.type \in CompletionType => e.task \in TaskID
    BY DEF MovesOne, MovesNone, CompletionType, RunEventType
  <2> QED BY <1>1, <2>1, TaskIDFacts DEF CompletionAt, Completes
<1>7. \A j \in 1..(n + 1) : j \in 1..n \/ j = n + 1
  BY <1>1
<1>8. CASE ~Completes(e)
  <2>1. cur = old
    BY <1>8 DEF MarksMove
  <2>2. \A i \in 1..m : \E j \in 1..(n + 1) : CompletionAt(g, j, cur[i])
    BY <1>1, <1>4, <1>5, <2>1
  <2>3. \A j \in 1..(n + 1), s \in Step : CompletionAt(g, j, s) => s \in ToSet(cur)
    BY <1>4, <1>5, <1>6, <1>7, <1>8, <2>1
  <2>4. \A i, p \in 1..m, j, k \in 1..(n + 1) :
          CompletionAt(g, j, cur[i]) /\ CompletionAt(g, k, cur[p]) /\ j < k => i < p
    <3>1. \A i \in 1..m : old[i] \in Step
      BY <1>2
    <3>2. \A j \in 1..(n + 1), i \in 1..m :
            CompletionAt(g, j, old[i]) => j \in 1..n /\ CompletionAt(h, j, old[i])
      BY <1>5, <1>6, <1>7, <1>8, <3>1
    <3> QED BY <1>4, <2>1, <3>2
  <2> QED BY <1>1, <1>2, <2>1, <2>2, <2>3, <2>4 DEF OrderTold, g
<1>9. CASE Completes(e)
  <2> DEFINE r == StepOf(e.task)
  <2>1. e.task \in TaskID /\ IsForward(e.task) /\ r \in Step
    BY <1>9, TaskIDFacts DEF Completes, MovesOne, MovesNone, CompletionType, RunEventType
  <2>2. st.tasks[e.task].status # "completed"
    <3>1. MovesOne(st, e, new)
      BY <2>1, ReducerAssumption DEF MovesNone
    <3> QED BY <1>9, <3>1 DEF MovesOne, TaskMove, Completes, CompletionType
  <2>3. r \notin ToSet(old)
    BY <2>1, <2>2, NewInOrder
  <2>4. cur = Append(old, r)
    BY <1>9 DEF MarksMove
  <2>5. /\ DOMAIN cur = 1..(m + 1)
        /\ \A i \in 1..m : cur[i] = old[i]
        /\ cur[m + 1] = r
    BY <1>2, <2>1, <2>4, AppendProperties, LenProperties
  <2> HIDE DEF old, cur, m, r
  <2>6. \A i \in 1..(m + 1) : i \in 1..m \/ i = m + 1
    BY <1>2
  <2>7. \A s : s \in ToSet(cur) <=> s \in ToSet(old) \/ s = r
    <3>1. 1..(m + 1) = (1..m) \cup {m + 1}
      BY <1>2
    <3> QED BY <1>3, <2>5, <3>1 DEF ToSet
  <2>8. \A i \in 1..(m + 1) : \E j \in 1..(n + 1) : CompletionAt(g, j, cur[i])
    <3>1. \A i \in 1..m : \E j \in 1..(n + 1) : CompletionAt(g, j, cur[i])
      BY <1>1, <1>4, <1>5, <2>5
    <3>2. CompletionAt(g, n + 1, cur[m + 1]) /\ n + 1 \in 1..(n + 1)
      BY <1>1, <1>6, <1>9, <2>1, <2>5 DEF r
    <3> QED BY <2>6, <3>1, <3>2
  <2>9. \A j \in 1..(n + 1), s \in Step : CompletionAt(g, j, s) => s \in ToSet(cur)
    BY <1>4, <1>5, <1>6, <1>7, <2>7 DEF r
  <2>10. \A j \in 1..n : ~CompletionAt(g, j, r)
    BY <1>4, <1>5, <2>1, <2>3 DEF r
  <2>11. \A i \in 1..m : old[i] \in Step /\ old[i] # r
    BY <1>2, <1>3, <2>3
  <2>12. ASSUME NEW i \in 1..(m + 1), NEW p \in 1..(m + 1),
                NEW j \in 1..(n + 1), NEW k \in 1..(n + 1),
                CompletionAt(g, j, cur[i]), CompletionAt(g, k, cur[p]), j < k
         PROVE  i < p
    <3>1. j \in 1..n
      BY <1>1, <2>12
    <3>2. i \in 1..m /\ cur[i] = old[i]
      BY <2>5, <2>6, <2>10, <2>12, <3>1
    <3>3. CASE k \in 1..n
      <4>1. p \in 1..m /\ cur[p] = old[p]
        BY <2>5, <2>6, <2>10, <2>12, <3>3
      <4> QED BY <1>4, <1>5, <2>12, <3>1, <3>2, <3>3, <4>1
    <3>4. CASE k = n + 1
      <4>1. p = m + 1
        BY <1>6, <1>9, <2>5, <2>6, <2>11, <2>12, <3>4 DEF r
      <4> QED BY <1>2, <3>2, <4>1
    <3> QED BY <1>7, <3>3, <3>4
  <2> QED BY <1>1, <2>5, <2>8, <2>9, <2>12 DEF OrderTold, g, cur
<1> QED BY <1>8, <1>9

\* The marks follow the tasks, and the history has an event for each.
LEMMA MarksGoOn ==
    ASSUME NEW h \in Seq(Event), NEW st \in RunState, NEW e \in Event, NEW new \in RunState,
           MarksTold(h, st),
           MovesOne(st, e, new) \/ MovesNone(st, e, new), MarksMove(st, e, new)
    PROVE  MarksTold(Append(h, e), new)
<1> DEFINE g == Append(h, e)
           n == Len(h)
<1>1. /\ n \in Nat /\ DOMAIN h = 1..n /\ DOMAIN g = 1..(n + 1)
      /\ \A i \in 1..n : g[i] = h[i]
      /\ g[n + 1] = e
      /\ n + 1 \in 1..(n + 1)
      /\ 1..n \subseteq 1..(n + 1)
  BY Appended
<1> HIDE DEF g, n
<1>2. ASSUME NEW t \in TaskID
      PROVE  /\ e.task # t => new.tasks[t] = st.tasks[t]
             /\ e.task = t => TaskMove(e, st.tasks[t], new.tasks[t])
  BY ReducerAssumption DEF MovesOne, MovesNone, SameTasks
<1>3. ASSUME NEW s \in Step
      PROVE  s \in new.compScheduled <=> CompensationStatus(new, s) # "none"
  <2> DEFINE c == Compensation(s)
  <2>1. c \in TaskID
    BY TaskIDFacts
  <2>2. s \in st.compScheduled <=> st.tasks[c].status # "none"
    BY DEF MarksTold, CompensationStatus
  <2>3. s \in new.compScheduled <=>
          s \in st.compScheduled \/ (e.type = "task.scheduled" /\ e.task = c)
    BY DEF MarksMove
  <2>4. CASE e.task # c
    BY <1>2, <2>1, <2>2, <2>3, <2>4 DEF CompensationStatus
  <2>5. CASE e.task = c
    <3>1. TaskMove(e, st.tasks[c], new.tasks[c])
      BY <1>2, <2>1, <2>5
    <3>2. new.tasks[c].status # "none" /\ (st.tasks[c].status = "none" => e.type = "task.scheduled")
      BY <3>1 DEF TaskMove, Open
    <3> QED BY <2>2, <2>3, <2>5, <3>2 DEF CompensationStatus
  <2> QED BY <2>4, <2>5
<1>4. ASSUME NEW s \in new.compCompleted PROVE s \in new.compScheduled
  <2>1. CASE s \in st.compCompleted
    BY <2>1 DEF MarksTold, MarksMove
  <2>2. CASE s \in Step /\ e.type = "task.completed" /\ e.task = Compensation(s)
    <3>1. TaskMove(e, st.tasks[Compensation(s)], new.tasks[Compensation(s)])
      BY <1>2, <2>2, TaskIDFacts
    <3>2. CompensationStatus(new, s) # "none"
      BY <3>1 DEF TaskMove, CompensationStatus
    <3> QED BY <1>3, <2>2, <3>2
  <2> QED BY <1>4, <2>1, <2>2 DEF MarksMove
<1>5. ASSUME NEW s \in ToSet(new.completedOrder) PROVE ForwardStatus(new, s) = "completed"
  <2>1. st.completedOrder \in Seq(Step)
    BY DEF RunState
  <2>2. CASE s \in ToSet(st.completedOrder)
    <3>1. s \in Step
      BY <2>1, <2>2 DEF ToSet
    <3>2. st.tasks[Forward(s)].status = "completed"
      BY <2>2 DEF MarksTold, ForwardStatus
    <3>3. ~TaskMove(e, st.tasks[Forward(s)], new.tasks[Forward(s)])
      BY <3>2 DEF TaskMove, Open
    <3> QED BY <1>2, <3>1, <3>2, <3>3, TaskIDFacts DEF ForwardStatus
  <2>3. CASE Completes(e) /\ s = StepOf(e.task)
    <3>1. MovesOne(st, e, new)
      BY <2>3 DEF Completes, CompletionType, MovesNone, RunEventType
    <3>2. TaskMove(e, st.tasks[e.task], new.tasks[e.task]) /\ e.task = Forward(s)
      BY <2>3, <3>1, TaskIDFacts DEF MovesOne, Completes
    <3> QED BY <2>3, <3>2 DEF TaskMove, Completes, CompletionType, ForwardStatus
  <2>4. Completes(e) => StepOf(e.task) \in Step
    BY TaskIDFacts DEF Completes, CompletionType, MovesOne, MovesNone, RunEventType
  <2>5. Completes(e) => ToSet(Append(st.completedOrder, StepOf(e.task)))
                          = ToSet(st.completedOrder) \cup {StepOf(e.task)}
    <3> SUFFICES ASSUME Completes(e)
                 PROVE  ToSet(Append(st.completedOrder, StepOf(e.task)))
                          = ToSet(st.completedOrder) \cup {StepOf(e.task)}
      OBVIOUS
    <3> DEFINE q == st.completedOrder
               x == StepOf(e.task)
               r == Append(q, x)
               m == Len(q)
    <3>1. q \in Seq(Step) /\ x \in Step
      BY <2>1, <2>4
    <3> HIDE DEF q, x
    <3>2. m \in Nat /\ DOMAIN q = 1..m
      BY <3>1, LenProperties
    <3>3. /\ DOMAIN r = 1..(m + 1)
          /\ \A i \in 1..m : r[i] = q[i]
          /\ r[m + 1] = x
      BY <3>1, <3>2, AppendProperties, LenProperties
    <3> HIDE DEF r, m
    <3>4. 1..(m + 1) = (1..m) \cup {m + 1}
      BY <3>2
    <3>5. {r[i] : i \in 1..(m + 1)} = {q[i] : i \in 1..m} \cup {x}
      BY <3>3, <3>4
    <3>6. ToSet(r) = ToSet(q) \cup {x}
      BY <3>2, <3>3, <3>5 DEF ToSet
    <3> QED BY <3>6 DEF r, q, x
  <2>6. s \in ToSet(st.completedOrder) \/ (Completes(e) /\ s = StepOf(e.task))
    BY <1>5, <2>5 DEF MarksMove
  <2> QED BY <2>2, <2>3, <2>6
<1>6. ASSUME NEW s \in new.compScheduled
      PROVE  \E j \in DOMAIN g : g[j].type = "task.scheduled" /\ g[j].task = Compensation(s)
  <2>1. CASE s \in st.compScheduled
    <3>1. PICK j \in DOMAIN h : h[j].type = "task.scheduled" /\ h[j].task = Compensation(s)
      BY <2>1 DEF MarksTold
    <3> QED BY <1>1, <3>1
  <2>2. CASE e.type = "task.scheduled" /\ e.task = Compensation(s)
    BY <1>1, <2>2
  <2> QED BY <1>6, <2>1, <2>2 DEF MarksMove
<1>7. ASSUME new.compensating
      PROVE  \E j \in DOMAIN g : g[j].type = "run.compensating" /\ g[j].task = None
  <2>1. CASE st.compensating
    <3>1. PICK j \in DOMAIN h : h[j].type = "run.compensating" /\ h[j].task = None
      BY <2>1 DEF MarksTold
    <3> QED BY <1>1, <3>1
  <2>2. CASE e.type = "run.compensating"
    <3>1. e.task = None
      BY <2>2 DEF MovesOne, MovesNone, TaskMove
    <3> QED BY <1>1, <2>2, <3>1
  <2> QED BY <1>7, <2>1, <2>2 DEF MarksMove
<1> QED BY <1>3, <1>4, <1>5, <1>6, <1>7 DEF MarksTold, g

\* A compensation is scheduled for the last step of the order that waits for it.
LEMMA UndoneLast ==
    ASSUME NEW h \in Seq(Event), NEW st \in RunState, OrderTold(h, st), MarksTold(h, st),
           NEW s \in Step, MaySchedule(st, Compensation(s))
    PROVE  /\ s \in Compensable
           /\ \E j \in DOMAIN h : h[j].type = "run.compensating" /\ h[j].task = None
           /\ \E j \in DOMAIN h :
                /\ CompletionAt(h, j, s)
                /\ \A k \in DOMAIN h, r \in Compensable :
                     j < k /\ CompletionAt(h, k, r) =>
                       \E i \in DOMAIN h : h[i].type = "task.scheduled" /\ h[i].task = Compensation(r)
<1> DEFINE order == st.completedOrder
<1>1. ~IsForward(Compensation(s)) /\ StepOf(Compensation(s)) = s
  BY TaskIDFacts
<1>2. /\ st.compensating
      /\ Unwindable(st) # {}
      /\ Compensation(s) = Compensation(NextCompensationStep(st))
  BY <1>1 DEF MaySchedule
<1>3. s = NextCompensationStep(st)
  BY <1>1, <1>2, NextCompensationStepFacts, TaskIDFacts
<1>4. s \in Compensable
  BY <1>2, <1>3, NextCompensationStepFacts
<1>5. order \in Seq(Step) /\ Len(order) \in Nat /\ DOMAIN order = 1..Len(order)
  BY LenProperties DEF RunState
<1>6. \E i \in Unwindable(st) : \A m \in Unwindable(st) : m <= i
  <2>1. Unwindable(st) \in SUBSET (1..Len(order))
    BY <1>5 DEF Unwindable
  <2> QED BY <1>2, <1>5, <2>1, LastPosition
<1>7. PICK i \in Unwindable(st) : s = order[i] /\ \A m \in Unwindable(st) : m <= i
  BY <1>3, <1>6 DEF NextCompensationStep
<1>8. i \in DOMAIN order
  BY DEF Unwindable
<1>9. PICK j \in DOMAIN h : CompletionAt(h, j, s)
  BY <1>7, <1>8 DEF OrderTold
<1>10. ASSUME NEW k \in DOMAIN h, NEW r \in Compensable, j < k, CompletionAt(h, k, r)
       PROVE  \E l \in DOMAIN h : h[l].type = "task.scheduled" /\ h[l].task = Compensation(r)
  <2>1. r \in Step
    BY WorkflowAssumption
  <2>2. r \in ToSet(order)
    BY <1>10, <2>1 DEF OrderTold
  <2>3. PICK m \in DOMAIN order : r = order[m]
    BY <2>2 DEF ToSet
  <2>4. i < m
    BY <1>7, <1>8, <1>9, <1>10, <2>3 DEF OrderTold
  <2>5. m \notin Unwindable(st)
    BY <1>5, <1>7, <1>8, <2>3, <2>4
  <2>6. r \in st.compScheduled \cup st.compCompleted
    BY <2>3, <2>5 DEF Unwindable
  <2> QED BY <2>6 DEF MarksTold
<1>11. \E l \in DOMAIN h : h[l].type = "run.compensating" /\ h[l].task = None
  BY <1>2 DEF MarksTold
<1> QED BY <1>4, <1>9, <1>10, <1>11

LEMMA UnwindingGoesOn ==
    ASSUME NEW h \in Seq(Event), NEW st \in RunState, NEW e \in Event,
           UnwindingTold(h), OrderTold(h, st), MarksTold(h, st),
           e.type = "task.scheduled" => e.task \in TaskID /\ MaySchedule(st, e.task)
    PROVE  UnwindingTold(Append(h, e))
<1> DEFINE g == Append(h, e)
           n == Len(h)
<1>1. /\ n \in Nat /\ DOMAIN h = 1..n /\ DOMAIN g = 1..(n + 1)
      /\ \A i \in 1..n : g[i] = h[i]
      /\ g[n + 1] = e
  BY Appended
<1> HIDE DEF g, n
<1>2. \A s : \A j \in 1..n : CompletionAt(g, j, s) <=> CompletionAt(h, j, s)
  BY <1>1 DEF CompletionAt
<1> SUFFICES ASSUME NEW i \in DOMAIN g, g[i].type = "task.scheduled"
             PROVE  /\ g[i].task \in TaskID
                    /\ \A s \in Step : g[i].task = Compensation(s) => UndoneInOrder(g, i, s)
  BY DEF UnwindingTold, g
<1>0. g[i].task \in TaskID
  BY <1>1 DEF UnwindingTold
<1> SUFFICES ASSUME NEW s \in Step, g[i].task = Compensation(s) PROVE UndoneInOrder(g, i, s)
  BY <1>0
<1>3. CASE i \in 1..n
  <2>1. UndoneInOrder(h, i, s)
    BY <1>1, <1>3 DEF UnwindingTold
  <2>2. s \in Compensable
    BY <2>1 DEF UndoneInOrder
  <2>3. \A j \in 1..(i - 1) : j \in 1..n
    BY <1>1, <1>3
  <2>4. PICK l \in 1..(i - 1) : h[l].type = "run.compensating" /\ h[l].task = None
    BY <2>1 DEF UndoneInOrder
  <2>5. PICK j \in 1..(i - 1) :
          /\ CompletionAt(h, j, s)
          /\ \A k \in (j + 1)..(i - 1), r \in Compensable :
               CompletionAt(h, k, r) =>
                 \E m \in 1..(i - 1) : h[m].type = "task.scheduled" /\ h[m].task = Compensation(r)
    BY <2>1 DEF UndoneInOrder
  <2>6. \A k \in (j + 1)..(i - 1) : k \in 1..n
    BY <1>1, <1>3, <2>3
  <2>7. \A k \in (j + 1)..(i - 1), r \in Compensable :
          CompletionAt(g, k, r) =>
            \E m \in 1..(i - 1) : g[m].type = "task.scheduled" /\ g[m].task = Compensation(r)
    BY <1>1, <1>2, <2>3, <2>5, <2>6
  <2>8. CompletionAt(g, j, s) /\ g[l].type = "run.compensating" /\ g[l].task = None
    BY <1>1, <1>2, <2>3, <2>4, <2>5
  <2> QED BY <2>2, <2>7, <2>8 DEF UndoneInOrder
<1>4. CASE i = n + 1
  <2>1. MaySchedule(st, Compensation(s))
    BY <1>1, <1>4
  <2>2. s \in Compensable
    BY <2>1, UndoneLast
  <2>3. PICK l \in DOMAIN h : h[l].type = "run.compensating" /\ h[l].task = None
    BY <2>1, UndoneLast
  <2>4. PICK j \in DOMAIN h :
          /\ CompletionAt(h, j, s)
          /\ \A k \in DOMAIN h, r \in Compensable :
               j < k /\ CompletionAt(h, k, r) =>
                 \E m \in DOMAIN h : h[m].type = "task.scheduled" /\ h[m].task = Compensation(r)
    BY <2>1, UndoneLast
  <2>5. 1..(i - 1) = 1..n
    BY <1>1, <1>4
  <2>6. \A k \in (j + 1)..(i - 1) : k \in 1..n /\ j < k
    BY <1>1, <1>4
  <2>7. \A k \in (j + 1)..(i - 1), r \in Compensable :
          CompletionAt(g, k, r) =>
            \E m \in 1..(i - 1) : g[m].type = "task.scheduled" /\ g[m].task = Compensation(r)
    BY <1>1, <1>2, <2>4, <2>5, <2>6
  <2>8. CompletionAt(g, j, s) /\ g[l].type = "run.compensating" /\ g[l].task = None
    BY <1>1, <1>2, <2>3, <2>4
  <2> QED BY <1>1, <2>2, <2>5, <2>7, <2>8 DEF UndoneInOrder
<1> QED BY <1>1, <1>3, <1>4

-----------------------------------------------------------------------------
(***************************************************************************)
(* One event, and then as many as a command makes.                         *)
(***************************************************************************)
LEMMA ToldGoesOn ==
    ASSUME NEW h \in Seq(Event), NEW st \in RunState, Told(h, st), NEW e, MayHappen(st, e)
    PROVE  /\ e \in Event
           /\ ApplyEvent(st, e) \in RunState
           /\ Told(Append(h, e), ApplyEvent(st, e))
<1> DEFINE new == ApplyEvent(st, e)
<1>1. e \in Event /\ new \in RunState
  BY MayHappenType
<1>2. MovesOne(st, e, new) \/ MovesNone(st, e, new)
  BY EventMoves
<1>3. MarksMove(st, e, new) /\ FailureMoves(st, e, new)
  BY EventMarks DEF Told, Agrees
<1>4. e.type = "task.scheduled" => e.task \in TaskID /\ MaySchedule(st, e.task)
  <2>1. ASSUME NEW t \in TaskID, TaskMayHave(st, t, e), e.type = "task.scheduled"
        PROVE  e.task \in TaskID /\ MaySchedule(st, e.task)
    BY <2>1 DEF TaskMayHave, TaskEvent, RetryEvent
  <2>2. \A t \in TaskID, w \in Worker \cup {None} : WorkerMayHave(st, t, w, e) => e.type # "task.scheduled"
    BY DEF WorkerMayHave, TaskEvent
  <2>3. \A f \in Failure : RunMayHave(st, f, e) => e.type # "task.scheduled"
    BY DEF RunMayHave, RunEvent
  <2> QED BY <2>1, <2>2, <2>3 DEF MayHappen
<1>5. Replayed(Append(h, e), new)
  BY ReplayGoesOn DEF Told, Agrees
<1> HIDE DEF new
<1>6. FailureLogged(new)
  BY <1>1, <1>3, FailureGoesOn DEF Told, Agrees
<1>7. StatusTold(Append(h, e), new)
  BY <1>1, <1>2, StatusGoesOn, StatusStays DEF Told, Agrees
<1>8. LivesTold(Append(h, e))
  BY <1>1, <1>2, LivesGoOn DEF Told, Agrees
<1>9. LeasesTold(Append(h, e), new)
  BY <1>1, <1>2, LeasesGoOn DEF Told, Agrees
<1>10. OrderTold(Append(h, e), new)
  BY <1>1, <1>2, <1>3, OrderGoesOn DEF Told, Agrees
<1>11. MarksTold(Append(h, e), new)
  BY <1>1, <1>2, <1>3, MarksGoOn DEF Told, Agrees
<1>12. UnwindingTold(Append(h, e))
  BY <1>1, <1>4, UnwindingGoesOn DEF Told, Agrees
<1>13. Told(Append(h, e), new)
  BY <1>5, <1>6, <1>7, <1>8, <1>9, <1>10, <1>11, <1>12 DEF Told, Agrees
<1> QED BY <1>1, <1>13 DEF new

\* The tasks of a command that schedules or cancels many are taken one by one.
LEMMA SetToSeqFacts ==
    ASSUME NEW T, IsFiniteSet(T)
    PROVE  LET n == Cardinality(T)
               q == SetToSeq(T)
           IN  /\ n \in Nat
               /\ q \in [1..n -> T]
               /\ \A i, j \in 1..n : q[i] = q[j] => i = j
               /\ {q[i] : i \in 1..n} = T
<1> DEFINE n == Cardinality(T)
           q == SetToSeq(T)
<1>1. n \in Nat /\ ExistsBijection(1..n, T)
  BY FS_CardinalityType
<1>2. \E f \in [1..n -> T] : IsInjective(f)
  BY <1>1 DEF ExistsBijection, Bijection, Injection
<1>3. q \in [1..n -> T] /\ IsInjective(q)
  BY <1>2 DEF SetToSeq
<1>4. \A i, j \in 1..n : q[i] = q[j] => i = j
  BY <1>3 DEF IsInjective
<1>5. Cardinality(1..n) = n
  <2>1. IsFiniteSet(1..n) /\ Cardinality(1..n) = IF 1 > n THEN 0 ELSE n - 1 + 1
    BY <1>1, FS_Interval
  <2> QED BY <1>1, <2>1
<1>6. q \in Injection(1..n, T)
  BY <1>3 DEF Injection
<1>7. q \in Surjection(1..n, T)
  BY <1>5, <1>6, FS_Injection
<1>8. {q[i] : i \in 1..n} = T
  BY <1>3, <1>7 DEF Surjection
<1> QED BY <1>1, <1>3, <1>4, <1>8

Applied(type, st, T) ==
    IF type = "task.scheduled" THEN ApplyTasksScheduled(st, T) ELSE ApplyTasksCancelled(st, T)

LEMMA ScheduledOneMore ==
    ASSUME NEW st \in RunState, NEW A \in SUBSET TaskID, NEW x \in TaskID
    PROVE  ApplyTasksScheduled(ApplyTasksScheduled(st, A), {x}) = ApplyTasksScheduled(st, A \cup {x})
<1> DEFINE new == [status |-> "available", attempt |-> 1, owner |-> None]
           tasks(old, T) == [t \in TaskID |-> IF t \in T THEN new ELSE old[t]]
           comps(T) == {s \in Step : Compensation(s) \in T}
<1>1. \A s \in RunState, T \in SUBSET TaskID : ApplyTasksScheduled(s, T) =
        [s EXCEPT !.tasks = tasks(s.tasks, T), !.forward = SetForward(s.forward, T, "available"),
                  !.compScheduled = s.compScheduled \cup comps(T)]
  BY DEF ApplyTasksScheduled
<1>2. tasks(tasks(st.tasks, A), {x}) = tasks(st.tasks, A \cup {x})
  OBVIOUS
<1>3. SetForward(SetForward(st.forward, A, "available"), {x}, "available")
        = SetForward(st.forward, A \cup {x}, "available")
  BY TaskIDFacts DEF SetForward
<1>4. (st.compScheduled \cup comps(A)) \cup comps({x}) = st.compScheduled \cup comps(A \cup {x})
  OBVIOUS
<1>5. {x} \in SUBSET TaskID /\ A \cup {x} \in SUBSET TaskID
  OBVIOUS
<1>6. ApplyTasksScheduled(st, A) \in RunState
  BY ScheduledType
<1> DEFINE mid == ApplyTasksScheduled(st, A)
<1>7. /\ mid.tasks = tasks(st.tasks, A)
      /\ mid.forward = SetForward(st.forward, A, "available")
      /\ mid.compScheduled = st.compScheduled \cup comps(A)
      /\ \A f, g, h : [mid EXCEPT !.tasks = f, !.forward = g, !.compScheduled = h]
                    = [st EXCEPT !.tasks = f, !.forward = g, !.compScheduled = h]
  <2>1. mid = [st EXCEPT !.tasks = tasks(st.tasks, A),
                         !.forward = SetForward(st.forward, A, "available"),
                         !.compScheduled = st.compScheduled \cup comps(A)]
    BY <1>1
  <2> HIDE DEF mid, tasks, comps
  <2> QED BY <2>1 DEF RunState
<1> HIDE DEF mid, tasks, comps
<1>8. ApplyTasksScheduled(mid, {x}) =
        [mid EXCEPT !.tasks = tasks(mid.tasks, {x}),
                    !.forward = SetForward(mid.forward, {x}, "available"),
                    !.compScheduled = mid.compScheduled \cup comps({x})]
  BY <1>1, <1>5, <1>6 DEF mid
<1>9. ApplyTasksScheduled(st, A \cup {x}) =
        [st EXCEPT !.tasks = tasks(st.tasks, A \cup {x}),
                   !.forward = SetForward(st.forward, A \cup {x}, "available"),
                   !.compScheduled = st.compScheduled \cup comps(A \cup {x})]
  BY <1>1, <1>5
<1>10. /\ tasks(mid.tasks, {x}) = tasks(st.tasks, A \cup {x})
       /\ SetForward(mid.forward, {x}, "available") = SetForward(st.forward, A \cup {x}, "available")
       /\ mid.compScheduled \cup comps({x}) = st.compScheduled \cup comps(A \cup {x})
  BY <1>2, <1>3, <1>4, <1>7 DEF tasks, comps
<1>11. ApplyTasksScheduled(mid, {x}) =
         [mid EXCEPT !.tasks = tasks(st.tasks, A \cup {x}),
                     !.forward = SetForward(st.forward, A \cup {x}, "available"),
                     !.compScheduled = st.compScheduled \cup comps(A \cup {x})]
  BY <1>8, <1>10
<1>12. ApplyTasksScheduled(mid, {x}) = ApplyTasksScheduled(st, A \cup {x})
  BY <1>7, <1>9, <1>11
<1> QED BY <1>12 DEF mid

LEMMA CancelledOneMore ==
    ASSUME NEW st \in RunState, NEW A \in SUBSET TaskID, NEW x \in TaskID
    PROVE  ApplyTasksCancelled(ApplyTasksCancelled(st, A), {x}) = ApplyTasksCancelled(st, A \cup {x})
<1> DEFINE tasks(old, T) == [t \in TaskID |->
                               IF t \in T THEN [old[t] EXCEPT !.status = "cancelled", !.owner = None]
                                          ELSE old[t]]
<1>1. \A s \in RunState, T \in SUBSET TaskID : ApplyTasksCancelled(s, T) =
        [s EXCEPT !.tasks = tasks(s.tasks, T), !.forward = SetForward(s.forward, T, "cancelled")]
  BY DEF ApplyTasksCancelled
<1>2. tasks(tasks(st.tasks, A), {x}) = tasks(st.tasks, A \cup {x})
  <2>1. \A t \in TaskID : st.tasks[t] \in TaskState
    BY DEF RunState
  <2>2. \A t \in TaskID : tasks(tasks(st.tasks, A), {x})[t] = tasks(st.tasks, A \cup {x})[t]
    BY <2>1 DEF TaskState
  <2> QED BY <2>2
<1>3. SetForward(SetForward(st.forward, A, "cancelled"), {x}, "cancelled")
        = SetForward(st.forward, A \cup {x}, "cancelled")
  BY TaskIDFacts DEF SetForward
<1>4. {x} \in SUBSET TaskID /\ A \cup {x} \in SUBSET TaskID
  OBVIOUS
<1>5. ApplyTasksCancelled(st, A) \in RunState
  BY CancelledType
<1> DEFINE mid == ApplyTasksCancelled(st, A)
<1>6. /\ mid.tasks = tasks(st.tasks, A)
      /\ mid.forward = SetForward(st.forward, A, "cancelled")
      /\ \A f, g : [mid EXCEPT !.tasks = f, !.forward = g] = [st EXCEPT !.tasks = f, !.forward = g]
  <2>1. mid = [st EXCEPT !.tasks = tasks(st.tasks, A),
                         !.forward = SetForward(st.forward, A, "cancelled")]
    BY <1>1
  <2> HIDE DEF mid, tasks
  <2> QED BY <2>1 DEF RunState
<1> HIDE DEF mid, tasks
<1>7. ApplyTasksCancelled(mid, {x}) =
        [mid EXCEPT !.tasks = tasks(mid.tasks, {x}),
                    !.forward = SetForward(mid.forward, {x}, "cancelled")]
  BY <1>1, <1>4, <1>5 DEF mid
<1>8. ApplyTasksCancelled(st, A \cup {x}) =
        [st EXCEPT !.tasks = tasks(st.tasks, A \cup {x}),
                   !.forward = SetForward(st.forward, A \cup {x}, "cancelled")]
  BY <1>1, <1>4
<1> QED BY <1>2, <1>3, <1>6, <1>7, <1>8 DEF mid

LEMMA AppliedNone ==
    ASSUME NEW st \in RunState
    PROVE  ApplyTasksScheduled(st, {}) = st /\ ApplyTasksCancelled(st, {}) = st
<1>1. SetForward(st.forward, {}, "available") = st.forward
      /\ SetForward(st.forward, {}, "cancelled") = st.forward
  BY DEF SetForward, RunState
<1>2. [t \in TaskID |-> st.tasks[t]] = st.tasks
  BY DEF RunState
<1>3. {s \in Step : Compensation(s) \in {}} = {}
  OBVIOUS
<1> QED BY <1>1, <1>2, <1>3 DEF ApplyTasksScheduled, ApplyTasksCancelled, RunState

LEMMA AppliedOneMore ==
    ASSUME NEW st \in RunState, NEW A \in SUBSET TaskID, NEW x \in TaskID,
           NEW type, type = "task.scheduled" \/ type = "task.cancelled"
    PROVE  /\ Applied(type, st, A) \in RunState
           /\ ApplyEvent(Applied(type, st, A), TaskEvent(type, x, None)) = Applied(type, st, A \cup {x})
<1>1. CASE type = "task.scheduled"
  <2>1. \A new, X : Applied(type, new, X) = ApplyTasksScheduled(new, X)
    BY <1>1 DEF Applied
  <2>2. \A new : ApplyEvent(new, TaskEvent(type, x, None)) = ApplyTasksScheduled(new, {x})
    BY <1>1, ScheduleDispatch
  <2>3. ApplyTasksScheduled(ApplyTasksScheduled(st, A), {x}) = ApplyTasksScheduled(st, A \cup {x})
    BY ScheduledOneMore
  <2>4. ApplyTasksScheduled(st, A) \in RunState
    BY ScheduledType
  <2> QED BY <2>1, <2>2, <2>3, <2>4
<1>2. CASE type = "task.cancelled"
  <2>1. \A new, X : Applied(type, new, X) = ApplyTasksCancelled(new, X)
    BY <1>2 DEF Applied
  <2>2. \A new : ApplyEvent(new, TaskEvent(type, x, None)) = ApplyTasksCancelled(new, {x})
    BY <1>2, ScheduleDispatch
  <2>3. ApplyTasksCancelled(ApplyTasksCancelled(st, A), {x}) = ApplyTasksCancelled(st, A \cup {x})
    BY CancelledOneMore
  <2>4. ApplyTasksCancelled(st, A) \in RunState
    BY CancelledType
  <2> QED BY <2>1, <2>2, <2>3, <2>4
<1> QED BY <1>1, <1>2

\* A sequence grows by its elements.
LEMMA ConcatSteps ==
    ASSUME NEW S, NEW h \in Seq(S), NEW s \in Seq(S), NEW k \in Nat, k < Len(s)
    PROVE  /\ h \o SubSeq(s, 1, k) \in Seq(S)
           /\ s[k + 1] \in S
           /\ h \o SubSeq(s, 1, k + 1) = Append(h \o SubSeq(s, 1, k), s[k + 1])
<1>1. Len(s) \in Nat /\ k + 1 \in 1..Len(s) /\ 1 \in 1..Len(s) /\ k + 1 \in 1..Len(s)
  BY LenProperties
<1>2. \A i \in 1..k : s[i] \in S
  BY <1>1, ElementOfSeq
<1>3. SubSeq(s, 1, k) \in Seq(S)
  BY <1>2, SubSeqProperties
<1>4. s[k + 1] \in S
  BY <1>1, ElementOfSeq
<1>5. SubSeq(s, 1, k + 1) = SubSeq(s, 1, (k + 1) - 1) \o <<s[k + 1]>>
  BY <1>1, SubSeqRecursiveSecond
<1>6. (k + 1) - 1 = k
  OBVIOUS
<1>7. <<s[k + 1]>> \in Seq(S)
  BY <1>4
<1>8. (h \o SubSeq(s, 1, k)) \o <<s[k + 1]>> = h \o (SubSeq(s, 1, k) \o <<s[k + 1]>>)
  <2> DEFINE b == SubSeq(s, 1, k)
             c == <<s[k + 1]>>
  <2>1. b \in Seq(S) /\ c \in Seq(S)
    BY <1>3, <1>7
  <2> HIDE DEF b, c
  <2>2. (h \o b) \o c = h \o (b \o c)
    BY <2>1, ConcatAssociative
  <2> QED BY <2>2 DEF b, c
<1>9. h \o SubSeq(s, 1, k) \in Seq(S)
  BY <1>3, ConcatProperties
<1>10. Append(h \o SubSeq(s, 1, k), s[k + 1]) = (h \o SubSeq(s, 1, k)) \o <<s[k + 1]>>
  BY <1>4, <1>9, AppendIsConcat
<1> QED BY <1>4, <1>5, <1>6, <1>8, <1>9, <1>10

LEMMA ManyGoOn ==
    ASSUME NEW h \in Seq(Event), NEW st \in RunState, Told(h, st),
           NEW type \in {"task.scheduled", "task.cancelled"}, NEW T \in SUBSET TaskID,
           \A A \in SUBSET T, x \in T : x \notin A =>
             MayHappen(Applied(type, st, A), TaskEvent(type, x, None))
    PROVE  Told(h \o TaskEvents(type, T), Applied(type, st, T))
<1> DEFINE n == Cardinality(T)
           q == SetToSeq(T)
           es == TaskEvents(type, T)
           done(k) == {q[i] : i \in 1..k}
           K == {k \in Nat : k <= n => Told(h \o SubSeq(es, 1, k), Applied(type, st, done(k)))}
<1>1. IsFiniteSet(T)
  BY TasksFinite, FS_Subset
<1>2. /\ n \in Nat
      /\ q \in [1..n -> T]
      /\ \A i, j \in 1..n : q[i] = q[j] => i = j
      /\ done(n) = T
  BY <1>1, SetToSeqFacts
<1>3. es \in Seq(Event)
  BY TaskEventsType DEF TaskEventType
<1>4. DOMAIN es = 1..n /\ \A i \in 1..n : es[i] = TaskEvent(type, q[i], None)
  BY <1>2 DEF TaskEvents
<1>5. Len(es) = n
  BY <1>2, <1>3, <1>4, LenProperties
<1> HIDE DEF n, q, es
<1>6. 0 \in K
  <2>1. SubSeq(es, 1, 0) = <<>>
    BY SubSeqEmpty
  <2>2. h \o <<>> = h
    BY ConcatEmptySeq
  <2>3. done(0) = {}
    OBVIOUS
  <2>4. Applied(type, st, {}) = st
    BY AppliedNone DEF Applied
  <2> QED BY <2>1, <2>2, <2>3, <2>4
<1>7. ASSUME NEW k \in K PROVE k + 1 \in K
  <2> SUFFICES ASSUME k + 1 <= n
               PROVE  Told(h \o SubSeq(es, 1, k + 1), Applied(type, st, done(k + 1)))
    OBVIOUS
  <2> DEFINE x == q[k + 1]
             mid == Applied(type, st, done(k))
  <2>1. k \in Nat /\ k < n /\ k <= n /\ k + 1 \in 1..n /\ 1..k \subseteq 1..n
        /\ k + 1 \notin 1..k /\ 1..(k + 1) = (1..k) \cup {k + 1}
    BY <1>2
  <2>2. x \in T /\ done(k) \in SUBSET T /\ x \notin done(k) /\ done(k + 1) = done(k) \cup {x}
    BY <1>2, <2>1
  <2>3. Told(h \o SubSeq(es, 1, k), mid)
    BY <2>1
  <2> HIDE DEF K, done, x
  <2>4. MayHappen(mid, TaskEvent(type, x, None))
    BY <2>2
  <2>5. mid \in RunState /\ ApplyEvent(mid, TaskEvent(type, x, None)) = Applied(type, st, done(k + 1))
    <3> DEFINE A == done(k)
    <3>1. A \in SUBSET TaskID /\ x \in TaskID /\ done(k + 1) = A \cup {x} /\ mid = Applied(type, st, A)
      BY <2>2
    <3>2. type = "task.scheduled" \/ type = "task.cancelled"
      OBVIOUS
    <3> HIDE DEF A, mid
    <3>3. ASSUME NEW B \in SUBSET TaskID, NEW y \in TaskID
          PROVE  /\ Applied(type, st, B) \in RunState
                 /\ ApplyEvent(Applied(type, st, B), TaskEvent(type, y, None)) = Applied(type, st, B \cup {y})
      BY <3>2, AppliedOneMore
    <3>4. Applied(type, st, A) \in RunState
      BY ONLY <3>1, <3>3
    <3>5. ApplyEvent(Applied(type, st, A), TaskEvent(type, x, None)) = Applied(type, st, A \cup {x})
      BY ONLY <3>1, <3>3
    <3> QED BY <3>1, <3>4, <3>5
  <2>6. /\ h \o SubSeq(es, 1, k) \in Seq(Event)
        /\ h \o SubSeq(es, 1, k + 1) = Append(h \o SubSeq(es, 1, k), es[k + 1])
    <3>1. k \in Nat /\ k < Len(es)
      BY <1>5, <2>1
    <3>2. h \in Seq(Event) /\ es \in Seq(Event)
      BY <1>3
    <3> HIDE DEF es
    <3> QED BY ONLY <3>1, <3>2, ConcatSteps
  <2>7. es[k + 1] = TaskEvent(type, x, None)
    BY <1>4, <2>1 DEF x
  <2> HIDE DEF mid
  <2> QED BY <2>3, <2>4, <2>5, <2>6, <2>7, ToldGoesOn
<1>8. K \in SUBSET Nat
  OBVIOUS
<1>9. n \in K
  <2> HIDE DEF K
  <2> QED BY <1>2, <1>6, <1>7, <1>8, SetInduction
<1>10. SubSeq(es, 1, n) = es
  BY <1>3, <1>5, SubSeqFull
<1>11. Told(h \o SubSeq(es, 1, n), Applied(type, st, done(n)))
  BY <1>2, <1>9
<1> HIDE DEF done, K
<1>12. Told(h \o es, Applied(type, st, T))
  BY <1>2, <1>10, <1>11
<1> QED BY <1>12 DEF es

-----------------------------------------------------------------------------
(***************************************************************************)
(* Decisions on batches: h is the history that was loaded, and the events  *)
(* of the batch come after it.                                             *)
(***************************************************************************)
Recounts(l, h) == l \in Batch /\ Told(h \o l.events, l.state)

LEMMA EmitRecounts ==
    ASSUME NEW h \in Seq(Event), NEW l, Recounts(l, h), NEW e, MayHappen(l.state, e)
    PROVE  Recounts(Emit(l, e), h)
<1>1. l \in Batch /\ l.state \in RunState /\ l.events \in Seq(Event)
  BY DEF Recounts, Batch
<1>2. h \o l.events \in Seq(Event)
  BY <1>1, ConcatProperties
<1>3. /\ e \in Event
      /\ ApplyEvent(l.state, e) \in RunState
      /\ Told(Append(h \o l.events, e), ApplyEvent(l.state, e))
  BY <1>1, <1>2, ToldGoesOn DEF Recounts
<1>4. Emit(l, e) \in Batch
  BY <1>1, <1>3, EmitType
<1>5. Emit(l, e).events = Append(l.events, e) /\ Emit(l, e).state = ApplyEvent(l.state, e)
  BY <1>1 DEF Emit, Batch
<1>6. Append(h \o l.events, e) = h \o Append(l.events, e)
  <2>1. <<e>> \in Seq(Event)
    BY <1>3
  <2>2. Append(h \o l.events, e) = (h \o l.events) \o <<e>>
    BY <1>2, <1>3, AppendIsConcat
  <2>3. Append(l.events, e) = l.events \o <<e>>
    BY <1>1, <1>3, AppendIsConcat
  <2> DEFINE b == l.events
             c == <<e>>
  <2>4. b \in Seq(Event) /\ c \in Seq(Event)
    BY <1>1, <2>1
  <2> HIDE DEF b, c
  <2>5. (h \o b) \o c = h \o (b \o c)
    BY <2>4, ConcatAssociative
  <2> QED BY <2>2, <2>3, <2>5 DEF b, c
<1> QED BY <1>3, <1>4, <1>5, <1>6 DEF Recounts

LEMMA MutateRecounts ==
    ASSUME NEW h, NEW l, Recounts(l, h), NEW T \in SUBSET TaskID
    PROVE  Recounts(Mutate(l, T), h)
<1>1. Mutate(l, T) \in Batch
  BY MutateType DEF Recounts
<1>2. Mutate(l, T).events = l.events /\ Mutate(l, T).state = l.state
  BY DEF Mutate, Recounts, Batch
<1> QED BY <1>1, <1>2 DEF Recounts

LEMMA ScheduleRecounts ==
    ASSUME NEW h \in Seq(Event), NEW l, Recounts(l, h), NEW T \in SUBSET TaskID,
           \A A \in SUBSET T, x \in T : x \notin A =>
             MaySchedule(ApplyTasksScheduled(l.state, A), x)
    PROVE  Recounts(ScheduleTasks(l, T), h)
<1>1. l \in Batch /\ l.state \in RunState /\ l.events \in Seq(Event)
  BY DEF Recounts, Batch
<1>2. ScheduleTasks(l, T) \in Batch
  BY <1>1, ScheduleTasksType
<1>3. /\ ScheduleTasks(l, T).events = l.events \o TaskEvents("task.scheduled", T)
      /\ ScheduleTasks(l, T).state = ApplyTasksScheduled(l.state, T)
  BY <1>1 DEF ScheduleTasks, Mutate, Batch
<1>4. \A A \in SUBSET T, x \in T : x \notin A =>
        MayHappen(Applied("task.scheduled", l.state, A), TaskEvent("task.scheduled", x, None))
  BY DEF MayHappen, TaskMayHave, Applied
<1>5. h \o l.events \in Seq(Event)
  BY <1>1, ConcatProperties
<1>6. Told((h \o l.events) \o TaskEvents("task.scheduled", T), Applied("task.scheduled", l.state, T))
  BY <1>1, <1>4, <1>5, ManyGoOn DEF Recounts
<1>7. (h \o l.events) \o TaskEvents("task.scheduled", T) = h \o (l.events \o TaskEvents("task.scheduled", T))
  <2> DEFINE b == l.events
             c == TaskEvents("task.scheduled", T)
  <2>1. b \in Seq(Event) /\ c \in Seq(Event)
    BY <1>1, TaskEventsType DEF TaskEventType
  <2> HIDE DEF b, c
  <2>2. (h \o b) \o c = h \o (b \o c)
    BY <2>1, ConcatAssociative
  <2> QED BY <2>2 DEF b, c
<1> QED BY <1>2, <1>3, <1>6, <1>7 DEF Recounts, Applied

LEMMA CancelRecounts ==
    ASSUME NEW h \in Seq(Event), NEW l, Recounts(l, h), NEW T \in SUBSET TaskID,
           \A x \in T : Open(l.state.tasks[x].status)
    PROVE  Recounts(CancelTasks(l, T), h)
<1>1. l \in Batch /\ l.state \in RunState /\ l.events \in Seq(Event)
  BY DEF Recounts, Batch
<1>2. CancelTasks(l, T) \in Batch
  BY <1>1, CancelTasksType
<1>3. /\ CancelTasks(l, T).events = l.events \o TaskEvents("task.cancelled", T)
      /\ CancelTasks(l, T).state = ApplyTasksCancelled(l.state, T)
  BY <1>1 DEF CancelTasks, Mutate, Batch
<1>4. ASSUME NEW A \in SUBSET T, NEW x \in T, x \notin A
      PROVE  MayHappen(Applied("task.cancelled", l.state, A), TaskEvent("task.cancelled", x, None))
  <2>1. JustCancelled(ApplyTasksCancelled(l.state, A), l.state, A)
    BY <1>1, CancelledEffect
  <2>2. Open(ApplyTasksCancelled(l.state, A).tasks[x].status)
    BY <1>4, <2>1 DEF JustCancelled
  <2> QED BY <2>2 DEF MayHappen, TaskMayHave, Applied
<1>5. h \o l.events \in Seq(Event)
  BY <1>1, ConcatProperties
<1>6. Told((h \o l.events) \o TaskEvents("task.cancelled", T), Applied("task.cancelled", l.state, T))
  BY <1>1, <1>4, <1>5, ManyGoOn DEF Recounts
<1>7. (h \o l.events) \o TaskEvents("task.cancelled", T) = h \o (l.events \o TaskEvents("task.cancelled", T))
  <2> DEFINE b == l.events
             c == TaskEvents("task.cancelled", T)
  <2>1. b \in Seq(Event) /\ c \in Seq(Event)
    BY <1>1, TaskEventsType DEF TaskEventType
  <2> HIDE DEF b, c
  <2>2. (h \o b) \o c = h \o (b \o c)
    BY <2>1, ConcatAssociative
  <2> QED BY <2>2 DEF b, c
<1> QED BY <1>2, <1>3, <1>6, <1>7 DEF Recounts, Applied

LEMMA ReadyRecounts ==
    ASSUME NEW h \in Seq(Event), NEW l, Recounts(l, h)
    PROVE  Recounts(ScheduleForwardReady(l), h)
<1> DEFINE T == {Forward(s) : s \in ReadySteps(l.state)}
<1>1. l.state \in RunState
  BY DEF Recounts, Batch
<1>2. T \in SUBSET TaskID
  BY TaskIDFacts DEF ReadySteps
<1>3. \A x \in T : IsForward(x) /\ l.state.tasks[x].status = "none"
  BY TaskIDFacts DEF ReadySteps
<1> HIDE DEF T
<1>4. ASSUME NEW A \in SUBSET T, NEW x \in T, x \notin A
      PROVE  MaySchedule(ApplyTasksScheduled(l.state, A), x)
  <2>1. A \in SUBSET TaskID /\ x \in TaskID
    BY <1>2
  <2>2. JustScheduled(ApplyTasksScheduled(l.state, A), l.state, A)
    BY <1>1, <2>1, ScheduledEffect
  <2> QED BY <1>3, <1>4, <2>1, <2>2 DEF JustScheduled, MaySchedule
<1>5. Recounts(ScheduleTasks(l, T), h)
  BY <1>2, <1>4, ScheduleRecounts
<1> QED BY <1>5 DEF ScheduleForwardReady, T

LEMMA NewCompensationRecounts ==
    ASSUME NEW h \in Seq(Event), NEW l, Recounts(l, h),
           l.state.compensating, Unwindable(l.state) # {}
    PROVE  Recounts(NewCompensationTask(l), h)
<1> DEFINE s == NextCompensationStep(l.state)
           c == Compensation(s)
<1>1. l.state \in RunState
  BY DEF Recounts, Batch
<1>2. s \in Step /\ s \notin l.state.compScheduled
  BY <1>1, NextCompensationStepFacts
<1>3. c \in TaskID
  BY <1>2, TaskIDFacts
<1>4. MaySchedule(l.state, c)
  <2>1. l.state.tasks[c].status = "none"
    BY <1>2 DEF Recounts, Told, Agrees, MarksTold, CompensationStatus
  <2> QED BY <2>1 DEF MaySchedule
<1> HIDE DEF s, c
<1>5. ASSUME NEW A \in SUBSET {c}, NEW x \in {c}, x \notin A
      PROVE  MaySchedule(ApplyTasksScheduled(l.state, A), x)
  <2>1. A = {} /\ x = c
    BY <1>5
  <2>2. ApplyTasksScheduled(l.state, {}) = l.state
    BY <1>1, AppliedNone
  <2> QED BY <1>4, <2>1, <2>2
<1>6. {c} \in SUBSET TaskID
  BY <1>3
<1>7. Recounts(ScheduleTasks(l, {c}), h)
  BY <1>5, <1>6, ScheduleRecounts
<1> QED BY <1>7 DEF NewCompensationTask, s, c

LEMMA RunEventRecounts ==
    ASSUME NEW h \in Seq(Event), NEW l, Recounts(l, h), NEW f \in Failure, NEW e,
           RunMayHave(l.state, f, e)
    PROVE  Recounts(Emit(l, e), h)
<1>1. MayHappen(l.state, e)
  BY DEF MayHappen
<1> QED BY <1>1, EmitRecounts

LEMMA FinishRecounts ==
    ASSUME NEW h \in Seq(Event), NEW l, Recounts(l, h),
           l.state.cancelRequested \/ l.state.failure # None
    PROVE  Recounts(FinishRunWithoutCompensation(l), h)
<1>1. l.state.failure \in Failure /\ None \in Failure
  BY DEF Recounts, Batch, RunState, Failure
<1>2. CASE l.state.cancelRequested
  <2>1. RunMayHave(l.state, None, RunEvent("run.cancelled", None))
    BY <1>1 DEF RunMayHave
  <2> QED BY <1>1, <1>2, <2>1, RunEventRecounts DEF FinishRunWithoutCompensation
<1>3. CASE ~l.state.cancelRequested
  <2>1. RunMayHave(l.state, l.state.failure, RunEvent("run.failed", l.state.failure))
    BY <1>3 DEF RunMayHave
  <2> QED BY <1>1, <1>3, <2>1, RunEventRecounts DEF FinishRunWithoutCompensation
<1> QED BY <1>2, <1>3

LEMMA AdvanceRecounts ==
    ASSUME NEW h \in Seq(Event), NEW l, Recounts(l, h), l.state.compensating
    PROVE  Recounts(AdvanceCompensation(l), h)
<1>1. l.state.cancelRequested \/ l.state.failure # None
  BY DEF Recounts, Told, Agrees, FailureLogged
<1>2. CASE HasOpenCompensationTasks(l.state)
  BY <1>2 DEF AdvanceCompensation
<1>3. CASE ~HasOpenCompensationTasks(l.state) /\ Unwindable(l.state) # {}
  BY <1>3, NewCompensationRecounts DEF AdvanceCompensation
<1>4. CASE ~HasOpenCompensationTasks(l.state) /\ Unwindable(l.state) = {}
  BY <1>1, <1>4, FinishRecounts DEF AdvanceCompensation
<1> QED BY <1>2, <1>3, <1>4

LEMMA BeginRecounts ==
    ASSUME NEW h \in Seq(Event), NEW l, Recounts(l, h),
           l.state.cancelRequested \/ l.state.failure # None
    PROVE  Recounts(BeginCompensationOrFinish(l), h)
<1> DEFINE reason == IF l.state.cancelRequested THEN None ELSE l.state.failure
           begun == Emit(l, RunEvent("run.compensating", reason))
<1>1. l \in Batch /\ l.state \in RunState /\ reason \in Failure
  BY DEF Recounts, Batch, RunState, Failure
<1>2. CASE Unwindable(l.state) # {}
  <2>1. RunMayHave(l.state, reason, RunEvent("run.compensating", reason))
    BY DEF RunMayHave
  <2>2. BeginCompensationOrFinish(l) = NewCompensationTask(begun)
    BY <1>2 DEF BeginCompensationOrFinish
  <2>3. begun.state = ApplyRunCompensating(l.state, reason)
    BY <1>1, BatchEffect, RunEventDispatch
  <2> HIDE DEF reason
  <2>4. Recounts(begun, h)
    BY <1>1, <2>1, RunEventRecounts
  <2> HIDE DEF begun
  <2>5. RunUnwinding(begun.state, l.state)
    BY <1>1, <2>3, RunEventEffect
  <2>6. begun.state.compensating /\ Unwindable(begun.state) # {}
    BY <1>2, <2>5, SameTasksFacts DEF RunUnwinding
  <2> QED BY <2>2, <2>4, <2>6, NewCompensationRecounts
<1>3. CASE Unwindable(l.state) = {}
  BY <1>3, FinishRecounts DEF BeginCompensationOrFinish
<1> QED BY <1>2, <1>3

LEMMA PostProcessRecounts ==
    ASSUME NEW h \in Seq(Event), NEW l, Recounts(l, h)
    PROVE  Recounts(PostProcess(l), h)
<1>1. CASE l.state.compensating
  BY <1>1, AdvanceRecounts DEF PostProcess
<1>2. CASE ~l.state.compensating
  <2> DEFINE scheduled == ScheduleForwardReady(l)
  <2>1. Recounts(scheduled, h)
    BY ReadyRecounts
  <2>2. \/ PostProcess(l) = scheduled
        \/ PostProcess(l) = Emit(scheduled, RunEvent("run.completed", None))
    BY <1>2 DEF PostProcess
  <2> HIDE DEF scheduled
  <2>3. None \in Failure /\ RunMayHave(scheduled.state, None, RunEvent("run.completed", None))
    BY DEF Failure, RunMayHave
  <2>4. Recounts(Emit(scheduled, RunEvent("run.completed", None)), h)
    BY <2>1, <2>3, RunEventRecounts
  <2> QED BY <2>1, <2>2, <2>4
<1> QED BY <1>1, <1>2

-----------------------------------------------------------------------------
(***************************************************************************)
(* The commands, each on a loaded state and its history.                   *)
(***************************************************************************)
LEMMA LoadedRecounts ==
    ASSUME NEW h \in Seq(Event), NEW st \in RunState, Told(h, st)
    PROVE  Recounts(Loaded(st), h)
<1>1. Loaded(st) \in Batch
  BY LoadedType
<1>2. h \o <<>> = h
  BY ConcatEmptySeq
<1> QED BY <1>1, <1>2 DEF Recounts, Loaded

\* What a command starts with: an event about a task whose row it changes.
LEMMA ReportRecounts ==
    ASSUME NEW h \in Seq(Event), NEW st \in RunState, Told(h, st), NEW t \in TaskID,
           NEW e, MayHappen(st, e)
    PROVE  /\ Recounts(Mutate(Emit(Loaded(st), e), {t}), h)
           /\ Mutate(Emit(Loaded(st), e), {t}).state = ApplyEvent(st, e)
<1>1. Recounts(Loaded(st), h) /\ Loaded(st).state = st /\ Loaded(st) \in Batch
  BY LoadedRecounts, LoadedType DEF Loaded
<1>2. Recounts(Emit(Loaded(st), e), h)
  BY <1>1, EmitRecounts
<1>3. {t} \in SUBSET TaskID
  OBVIOUS
<1>4. Recounts(Mutate(Emit(Loaded(st), e), {t}), h)
  BY <1>2, <1>3, MutateRecounts
<1>5. Emit(Loaded(st), e) \in Batch
  BY <1>2 DEF Recounts
<1>6. Mutate(Emit(Loaded(st), e), {t}).state = Emit(Loaded(st), e).state
  BY <1>5, BatchEffect
<1>7. Emit(Loaded(st), e).state = ApplyEvent(st, e)
  BY <1>1, BatchEffect
<1> QED BY <1>4, <1>6, <1>7

LEMMA CompleteTaskRecounts ==
    ASSUME NEW h \in Seq(Event), NEW st \in RunState, Told(h, st),
           NEW t \in TaskID, NEW w \in Worker, Holds(st, t, w)
    PROVE  Recounts(CompleteTaskOnce(st, t, w), h)
<1>1. MayHappen(st, TaskEvent("task.completed", t, w))
  BY DEF MayHappen, WorkerMayHave
<1> QED BY <1>1, ReportRecounts, PostProcessRecounts DEF CompleteTaskOnce

LEMMA FireTimerRecounts ==
    ASSUME NEW h \in Seq(Event), NEW st \in RunState, Told(h, st),
           NEW t \in TaskID, IsTimer(t), st.tasks[t].status = "available"
    PROVE  Recounts(FireTimerOnce(st, t), h)
<1>1. MayHappen(st, TaskEvent("timer.fired", t, None))
  BY DEF MayHappen, TaskMayHave
<1> QED BY <1>1, ReportRecounts, PostProcessRecounts DEF FireTimerOnce

\* The failure in memory can be another one than the history tells of.
LEMMA AnotherFailure ==
    ASSUME NEW g, NEW st \in RunState, Told(g, st), NEW f \in Failure, st.logged # None => f # None
    PROVE  Told(g, [st EXCEPT !.failure = f])
<1> DEFINE new == [st EXCEPT !.failure = f]
<1>1. \A x : WithFailure(new, x) = WithFailure(st, x)
  BY DEF WithFailure, RunState
<1>2. /\ new.tasks = st.tasks /\ new.completedOrder = st.completedOrder
      /\ new.compScheduled = st.compScheduled /\ new.compCompleted = st.compCompleted
      /\ new.compensating = st.compensating /\ new.cancelRequested = st.cancelRequested
      /\ new.logged = st.logged /\ new.failure = f
  BY DEF RunState
<1> HIDE DEF new
<1>3. Replayed(g, new) /\ FailureLogged(new)
  BY <1>1, <1>2 DEF Told, Agrees, Replayed, FailureLogged
<1>4. StatusTold(g, new) /\ LivesTold(g) /\ LeasesTold(g, new)
  BY <1>2 DEF Told, Agrees, StatusTold, LeasesTold
<1>5. OrderTold(g, new) /\ MarksTold(g, new) /\ UnwindingTold(g)
  BY <1>2 DEF Told, Agrees, OrderTold, MarksTold, ForwardStatus, CompensationStatus
<1>6. Told(g, new)
  BY <1>3, <1>4, <1>5 DEF Told, Agrees
<1> QED BY <1>6 DEF new

LEMMA FailureAssigned ==
    ASSUME NEW h, NEW l, Recounts(l, h), NEW t \in TaskID
    PROVE  Recounts([l EXCEPT !.state.failure = t], h)
<1> DEFINE new == [l.state EXCEPT !.failure = t]
<1>1. l \in Batch /\ l.state \in RunState /\ Told(h \o l.events, l.state)
  BY DEF Recounts, Batch
<1>2. t \in Failure /\ t # None
  BY ReducerAssumption DEF Failure
<1>3. Told(h \o l.events, new)
  BY <1>1, <1>2, AnotherFailure
<1>4. new \in RunState
  BY <1>1, <1>2 DEF RunState
<1>5. [l EXCEPT !.state.failure = t] = [l EXCEPT !.state = new]
  BY <1>1 DEF Batch
<1> HIDE DEF new
<1>6. /\ [l EXCEPT !.state = new] \in Batch
      /\ [l EXCEPT !.state = new].events = l.events
      /\ [l EXCEPT !.state = new].state = new
  BY <1>1, <1>4 DEF Batch
<1> QED BY <1>3, <1>5, <1>6 DEF Recounts

LEMMA FailTaskRecounts ==
    ASSUME NEW h \in Seq(Event), NEW st \in RunState, Told(h, st),
           NEW t \in TaskID, NEW w \in Worker \cup {None}, NEW retryable \in BOOLEAN,
           Holds(st, t, w)
    PROVE  Recounts(FailTaskOnce(st, t, w, retryable), h)
<1> DEFINE e == TaskEvent("task.failed", t, w)
           failed == Mutate(Emit(Loaded(st), e), {t})
<1>1. MayHappen(st, e)
  BY DEF MayHappen, WorkerMayHave
<1>2. Recounts(failed, h) /\ failed.state = ApplyTaskFailed(st, t, w)
  BY <1>1, ReportRecounts, TaskEventDispatch
<1>3. FailTaskOnce(st, t, w, retryable) =
        IF CanRetry(st, t, retryable)
          THEN Emit(failed, RetryEvent(t, st.tasks[t].attempt + 1))
          ELSE BeginCompensationOrFinish([failed EXCEPT !.state.failure = t])
  BY DEF FailTaskOnce
<1> HIDE DEF failed, e
<1>4. CASE CanRetry(st, t, retryable)
  <2>1. MovedTo(failed.state, st, t, [st.tasks[t] EXCEPT !.status = "failed", !.owner = w])
    BY <1>2, ReportTask
  <2>2. st.tasks[t] \in TaskState
    BY DEF RunState
  <2>3. failed.state.tasks[t].status = "failed" /\ failed.state.tasks[t].attempt = st.tasks[t].attempt
    BY <2>1, <2>2 DEF MovedTo, TaskState
  <2>4. st.tasks[t].attempt < AttemptsOf(t)
    BY <1>4 DEF CanRetry, AttemptsOf
  <2>5. TaskMayHave(failed.state, t, RetryEvent(t, st.tasks[t].attempt + 1))
    BY <2>3, <2>4 DEF TaskMayHave
  <2>6. Recounts(Emit(failed, RetryEvent(t, st.tasks[t].attempt + 1)), h)
    BY <1>2, <2>5, EmitRecounts DEF MayHappen
  <2> QED BY <1>3, <1>4, <2>6
<1>5. CASE ~CanRetry(st, t, retryable)
  <2> DEFINE l == [failed EXCEPT !.state.failure = t]
  <2>1. Recounts(l, h)
    BY <1>2, FailureAssigned
  <2>2. failed \in Batch
    BY <1>2 DEF Recounts
  <2>3. l.state.failure = t /\ t # None
    BY <2>2, ReducerAssumption DEF Batch, RunState
  <2> HIDE DEF l
  <2>4. Recounts(BeginCompensationOrFinish(l), h)
    BY <2>1, <2>3, BeginRecounts
  <2> QED BY <1>3, <1>5, <2>4 DEF l
<1> QED BY <1>4, <1>5

LEMMA CancelRunRecounts ==
    ASSUME NEW h \in Seq(Event), NEW st \in RunState, Told(h, st)
    PROVE  Recounts(CancelRunOnce(st), h)
<1> DEFINE e == RunEvent("run.cancel_requested", None)
           requested == Emit(Loaded(st), e)
           open == {t \in TaskID : Open(st.tasks[t].status)}
           l == CancelTasks(requested, open)
<1>1. None \in Failure /\ RunMayHave(st, None, e)
  BY DEF Failure, RunMayHave
<1>2. Recounts(Loaded(st), h) /\ Loaded(st).state = st /\ Loaded(st) \in Batch
  BY LoadedRecounts, LoadedType DEF Loaded
<1>3. Recounts(requested, h)
  BY <1>1, <1>2, RunEventRecounts
<1>4. requested.state = ApplyRunCancelRequested(st)
  BY <1>2, BatchEffect, RunEventDispatch
<1> HIDE DEF requested, e
<1>5. RunCancelling(requested.state, st)
  BY <1>1, <1>4, RunEventEffect
<1>6. \A t \in open : Open(requested.state.tasks[t].status)
  BY <1>5 DEF RunCancelling, SameTasks
<1>7. open \in SUBSET TaskID
  OBVIOUS
<1> HIDE DEF open
<1>8. Recounts(l, h)
  BY <1>3, <1>6, <1>7, CancelRecounts
<1>9. l.state.cancelRequested
  <2>1. requested \in Batch /\ requested.state \in RunState
    BY <1>3 DEF Recounts, Batch
  <2>2. l.state = ApplyTasksCancelled(requested.state, open)
    BY <2>1, BatchEffect
  <2>3. JustCancelled(l.state, requested.state, open)
    BY <1>7, <2>1, <2>2, CancelledEffect
  <2> QED BY <1>5, <2>3 DEF JustCancelled, SameMarks, RunCancelling
<1> HIDE DEF l
<1>10. Recounts(BeginCompensationOrFinish(l), h)
  BY <1>8, <1>9, BeginRecounts
<1> QED BY <1>10 DEF CancelRunOnce, l, requested, open, e

\* The first batch of a run, from no history.
LEMMA NothingTold == Told(<<>>, InitialState(None))
<1> DEFINE st == InitialState(None)
<1>1. DOMAIN <<>> = {}
  OBVIOUS
<1>2. /\ st.tasks = [t \in TaskID |-> NoTask]
      /\ st.completedOrder = <<>>
      /\ st.compScheduled = {} /\ st.compCompleted = {}
      /\ st.compensating = FALSE /\ st.logged = None
  BY DEF InitialState
<1>3. \A t \in TaskID : st.tasks[t].status = "none"
  BY <1>2 DEF NoTask
<1>4. Replayed(<<>>, st)
  <2> SUFFICES ASSUME NEW f \in Failure PROVE Replay(f, <<>>) = WithFailure(st, f)
    BY DEF Replayed
  <2>1. Replay(f, <<>>) = InitialState(f)
    BY FoldEmpty DEF Replay
  <2>2. WithFailure(st, f) = InitialState(f)
    <3>1. st \in RunState /\ InitialState(f) \in RunState
      BY InitialStateType DEF Failure
    <3>2. \A x : /\ InitialState(x).status = "running"
                  /\ InitialState(x).failure = x
                  /\ InitialState(x).logged = None
                  /\ InitialState(x).tasks = [t \in TaskID |-> NoTask]
                  /\ InitialState(x).forward = [s \in Step |-> "none"]
                  /\ InitialState(x).outputs = {}
                  /\ InitialState(x).completedOrder = <<>>
                  /\ InitialState(x).compScheduled = {}
                  /\ InitialState(x).compCompleted = {}
                  /\ InitialState(x).cancelRequested = FALSE
                  /\ InitialState(x).compensating = FALSE
                  /\ InitialState(x).finished = FALSE
      BY DEF InitialState
    <3> HIDE DEF st
    <3> DEFINE new == InitialState(f)
    <3>3. /\ new.status = st.status /\ new.failure = f /\ new.logged = st.logged
          /\ new.tasks = st.tasks /\ new.forward = st.forward /\ new.outputs = st.outputs
          /\ new.completedOrder = st.completedOrder
          /\ new.compScheduled = st.compScheduled /\ new.compCompleted = st.compCompleted
          /\ new.cancelRequested = st.cancelRequested /\ new.compensating = st.compensating
          /\ new.finished = st.finished
      BY <3>2, Zenon DEF st
    <3>4. st.logged = None
      BY <3>2, Zenon DEF st
    <3>5. new \in RunState
      BY <3>1
    <3> HIDE DEF new
    <3>6. new = [st EXCEPT !.failure = f]
      BY <3>1, <3>3, <3>5 DEF RunState
    <3> QED BY <3>4, <3>6 DEF WithFailure, new
  <2> QED BY <2>1, <2>2
<1> HIDE DEF st
<1>5. FailureLogged(st) /\ StatusTold(<<>>, st) /\ LivesTold(<<>>) /\ UnwindingTold(<<>>)
  BY <1>1, <1>2, <1>3 DEF FailureLogged, StatusTold, LivesTold, UnwindingTold
<1>6. LeasesTold(<<>>, st)
  BY <1>1, <1>3 DEF LeasesTold, LeasesOf
<1>7. OrderTold(<<>>, st)
  BY <1>1, <1>2 DEF OrderTold
<1>8. MarksTold(<<>>, st)
  <2>1. ToSet(st.completedOrder) = {}
    BY <1>1, <1>2 DEF ToSet
  <2>2. \A s \in Step : CompensationStatus(st, s) = "none"
    BY <1>3, TaskIDFacts DEF CompensationStatus
  <2> QED BY <1>2, <2>1, <2>2 DEF MarksTold
<1>9. Told(<<>>, st)
  BY <1>4, <1>5, <1>6, <1>7, <1>8 DEF Told, Agrees
<1> QED BY <1>9 DEF st

LEMMA StartRunRecounts ==
    /\ Recounts(StartRun, <<>>)
    /\ StartRun.state.logged = None
<1> DEFINE st == InitialState(None)
           e == RunEvent("workflow.started", None)
           l == Emit(Loaded(st), e)
<1>1. st \in RunState /\ None \in Failure
  BY InitialStateType DEF Failure
<1>2. <<>> \in Seq(Event)
  BY EmptySeq
<1>3. RunMayHave(st, None, e)
  BY DEF RunMayHave
<1>4. Recounts(Loaded(st), <<>>) /\ Loaded(st).state = st /\ Loaded(st) \in Batch
  BY <1>1, <1>2, NothingTold, LoadedRecounts, LoadedType DEF Loaded
<1>5. Recounts(l, <<>>)
  BY <1>1, <1>2, <1>3, <1>4, RunEventRecounts
<1>6. l.state = ApplyWorkflowStarted(st)
  BY <1>4, BatchEffect, RunEventDispatch
<1>7. st.logged = None
  BY DEF InitialState
<1> HIDE DEF st, e
<1>8. l.state.logged = None
  BY <1>1, <1>6, <1>7 DEF ApplyWorkflowStarted, RunState
<1> HIDE DEF l
<1>9. Recounts(ScheduleForwardReady(l), <<>>)
  BY <1>2, <1>5, ReadyRecounts
<1>10. ScheduleForwardReady(l).state.logged = None
  <2> DEFINE T == {Forward(s) : s \in ReadySteps(l.state)}
  <2>1. l \in Batch /\ l.state \in RunState
    BY <1>5 DEF Recounts, Batch
  <2>2. ScheduleForwardReady(l).state = ApplyTasksScheduled(l.state, T)
    BY <2>1, BatchEffect DEF ScheduleForwardReady
  <2> HIDE DEF T
  <2> QED BY <1>8, <2>1, <2>2 DEF ApplyTasksScheduled, RunState
<1> QED BY <1>9, <1>10 DEF StartRun, l, st, e

-----------------------------------------------------------------------------
(***************************************************************************)
(* The specification.                                                      *)
(***************************************************************************)
LEMMA InitHistory == Init => HistoryInv
<1> SUFFICES ASSUME Init PROVE HistoryInv
  OBVIOUS
<1>1. /\ history = StartRun.events
      /\ state = StartRun.state
      /\ run.failure = StartRun.state.failure
  BY DEF Init
<1>2. StartRun \in Batch
  BY StartRunType
<1>3. StartRun.events \in Seq(Event) /\ state \in RunState
  BY <1>1, <1>2 DEF Batch
<1>4. <<>> \o StartRun.events = StartRun.events
  BY <1>3, ConcatEmptySeq
<1>5. Told(history, state)
  BY <1>1, <1>4, StartRunRecounts DEF Recounts
<1>6. state.logged = None
  BY <1>1, StartRunRecounts
<1>7. state = WithFailure(state, run.failure)
  BY <1>1, <1>3, <1>6 DEF WithFailure, RunState
<1> QED BY <1>5, <1>7 DEF HistoryInv

\* A committed batch.
LEMMA AppendRunChangesHistory ==
    ASSUME TypeOK, NEW cmd, Recounts(cmd, history), AppendRunChanges(cmd)
    PROVE  HistoryInv'
<1> DEFINE st == cmd.state
           f == IF st.logged = None THEN st.failure ELSE st.logged
           new == [st EXCEPT !.failure = f]
<1>1. cmd \in Batch /\ st \in RunState /\ Told(history \o cmd.events, st)
  BY DEF Recounts, Batch
<1>2. f \in Failure /\ (st.logged # None => f # None)
  BY <1>1 DEF RunState
<1>3. Told(history \o cmd.events, new)
  BY <1>1, <1>2, AnotherFailure
<1>4. state' = new
  BY DEF AppendRunChanges, Reload
<1>5. history' = history \o cmd.events
  BY DEF AppendRunChanges
<1>6. run'.failure = st.failure
  BY DEF AppendRunChanges
<1>7. new = WithFailure(new, st.failure)
  BY <1>1 DEF WithFailure, RunState
<1> HIDE DEF new, st
<1>8. Told(history', state')
  BY <1>3, <1>4, <1>5
<1>9. state' = WithFailure(state', run'.failure)
  BY <1>4, <1>6, <1>7
<1> QED BY <1>8, <1>9 DEF HistoryInv

\* An event that a worker records without a replay.
LEMMA WorkerEventHistory ==
    ASSUME TypeOK, HistoryInv, NEW t \in TaskID, NEW w \in Worker, NEW e,
           WorkerMayHave(state, t, w, e),
           history' = Append(history, e), state' = ApplyEvent(state, e), run' = run
    PROVE  HistoryInv'
<1>1. state \in RunState /\ history \in Seq(Event) /\ run.failure \in Failure
  BY DEF TypeOK
<1>2. MayHappen(state, e)
  BY DEF MayHappen
<1>3. Told(history', state')
  BY <1>1, <1>2, ToldGoesOn DEF HistoryInv
<1>4. state = WithFailure(state, run.failure)
  BY DEF HistoryInv
<1>5. ApplyEvent(WithFailure(state, run.failure), e) = WithFailure(ApplyEvent(state, e), run.failure)
  BY <1>1, <1>2, EventFailure
<1>6. state' = WithFailure(state', run'.failure)
  BY <1>4, <1>5
<1> QED BY <1>3, <1>6 DEF HistoryInv

LEMMA NextHistory == IInv /\ HistoryInv /\ [Next]_vars => HistoryInv'
<1> SUFFICES ASSUME IInv, HistoryInv, [Next]_vars PROVE HistoryInv'
  OBVIOUS
<1>1. TypeOK /\ ViewsAgree /\ state \in RunState /\ history \in Seq(Event) /\ Told(history, state)
  BY DEF IInv, TypeOK, HistoryInv
<1>2. \A t \in TaskID : /\ rows[t].status = state.tasks[t].status
                        /\ rows[t].status = "leased" => rows[t].owner = state.tasks[t].owner
  <2> SUFFICES ASSUME NEW t \in TaskID
               PROVE  /\ rows[t].status = state.tasks[t].status
                      /\ rows[t].status = "leased" => rows[t].owner = state.tasks[t].owner
    OBVIOUS
  <2>1. rows[t] = UpdateTaskRecord(state.tasks[t]) /\ state.tasks[t] \in TaskState
    BY <1>1 DEF ViewsAgree, RunState
  <2> QED BY <2>1 DEF UpdateTaskRecord, TaskState
<1>3. ASSUME NEW w \in Worker, NEW t \in TaskID, LeaseTask(w, t) PROVE HistoryInv'
  <2>1. WorkerMayHave(state, t, w, TaskEvent("task.leased", t, w))
    BY <1>2, <1>3 DEF LeaseTask, WorkerMayHave
  <2> QED BY <1>1, <1>3, <2>1, WorkerEventHistory DEF LeaseTask
<1>4. ASSUME NEW w \in Worker, NEW t \in TaskID, HeartbeatTask(w, t) PROVE HistoryInv'
  <2>1. WorkerMayHave(state, t, w, TaskEvent("task.heartbeat", t, w))
    BY <1>2, <1>4 DEF HeartbeatTask, WorkerMayHave, Holds
  <2> QED BY <1>1, <1>4, <2>1, WorkerEventHistory DEF HeartbeatTask
<1>5. ASSUME NEW w \in Worker, NEW t \in TaskID, CompleteTask(w, t) PROVE HistoryInv'
  BY <1>1, <1>5, CompleteTaskRecounts, AppendRunChangesHistory DEF CompleteTask
<1>6. ASSUME NEW w \in Worker, NEW t \in TaskID, FailTask(w, t) PROVE HistoryInv'
  <2>1. PICK retryable \in BOOLEAN : AppendRunChanges(FailTaskOnce(state, t, w, retryable))
    BY <1>6 DEF FailTask
  <2>2. Recounts(FailTaskOnce(state, t, w, retryable), history)
    BY <1>1, <1>6, FailTaskRecounts DEF FailTask
  <2> QED BY <1>1, <2>1, <2>2, AppendRunChangesHistory
<1>7. ASSUME NEW t \in TaskID, FireTimer(t) PROVE HistoryInv'
  BY <1>1, <1>7, FireTimerRecounts, AppendRunChangesHistory DEF FireTimer
<1>8. ASSUME CancelRun PROVE HistoryInv'
  BY <1>1, <1>8, CancelRunRecounts, AppendRunChangesHistory DEF CancelRun
<1>9. ASSUME UNCHANGED <<run, history, state>> PROVE HistoryInv'
  BY <1>9 DEF HistoryInv
<1>10. ASSUME FailExpiredLease PROVE HistoryInv'
  <2>1. CASE Holds(state, sweep.task, sweep.owner)
    <3>1. sweep.task \in TaskID /\ sweep.owner \in Worker \cup {None}
      BY <1>1, <1>10 DEF FailExpiredLease, TypeOK
    <3>2. Recounts(FailTaskOnce(state, sweep.task, sweep.owner, TRUE), history)
      BY <1>1, <2>1, <3>1, FailTaskRecounts
    <3> QED BY <1>1, <1>10, <2>1, <3>2, AppendRunChangesHistory DEF FailExpiredLease
  <2>2. CASE ~Holds(state, sweep.task, sweep.owner)
    BY <1>9, <1>10, <2>2 DEF FailExpiredLease
  <2> QED BY <2>1, <2>2
<1>11. ASSUME NEW t \in TaskID, RecoverExpiredLease(t) \/ Tick(t) PROVE HistoryInv'
  BY <1>9, <1>11 DEF RecoverExpiredLease, Tick
<1>12. ASSUME Restart \/ UNCHANGED vars PROVE HistoryInv'
  BY <1>9, <1>12 DEF Restart, vars
<1> QED BY <1>3, <1>4, <1>5, <1>6, <1>7, <1>8, <1>10, <1>11, <1>12 DEF Next

\* HistoryInv, for every workflow that Build accepts, any workers and any
\* number of heartbeats: after every commit the history tells the state.
THEOREM HistoryInvariant == Spec => []HistoryInv
<1>1. IInv /\ HistoryInv /\ [Next]_vars => HistoryInv'
  BY NextHistory
<1> QED BY InitHistory, Invariant, <1>1, PTL DEF Spec

(***************************************************************************)
(* What the history says of every task, of the order of completions and of *)
(* the compensations is what the state says.                               *)
(***************************************************************************)
THEOREM HistoryAgreement == Spec => []HistoryAgrees
<1>1. HistoryInv => HistoryAgrees
  BY DEF HistoryInv, Told, HistoryAgrees
<1> QED BY <1>1, HistoryInvariant, PTL

\* ReplayDerivesState: what a load replays from the stored run row and history
\* is the state that the engine had when it committed them.
THEOREM ReplayDerives == Spec => []ReplayDerivesState
<1>1. TypeOK /\ HistoryInv => ReplayDerivesState
  <2> SUFFICES ASSUME TypeOK, HistoryInv PROVE ReplayDerivesState
    OBVIOUS
  <2>1. run.failure \in Failure
    BY DEF TypeOK
  <2>2. Replay(run.failure, history) = WithFailure(state, run.failure)
    BY <2>1 DEF HistoryInv, Told, Agrees, Replayed
  <2> QED BY <2>2 DEF HistoryInv, ReplayDerivesState
<1> QED BY TypeCorrect, HistoryInvariant, <1>1, PTL

\* TaskLifeCycle: no task is leased, renewed, reported, retried or cancelled
\* out of turn, or by a worker that does not hold its lease.
THEOREM LifeCycle == Spec => []TaskLifeCycle
<1>1. HistoryInv => TaskLifeCycle
  <2> SUFFICES ASSUME HistoryInv PROVE TaskLifeCycle
    OBVIOUS
  <2>1. LivesTold(history)
    BY DEF HistoryInv, Told, Agrees
  <2> SUFFICES ASSUME NEW t \in TaskID, NEW i \in EventsOf(t)
               PROVE  \/ /\ history[i].type = "task.scheduled"
                         /\ \A j \in EventsOf(t) : i <= j
                      \/ \E j \in EventsOf(t) :
                           /\ j < i
                           /\ \A k \in EventsOf(t) : k <= j \/ i <= k
                           /\ history[i].type \in MayFollow(history[j].type)
                           /\ history[i].type \in {"task.heartbeat", "task.completed", "task.failed"}
                                => history[i].worker = history[j].worker
                           /\ history[i].type = "timer.fired" => IsTimer(t)
    BY DEF TaskLifeCycle
  <2>2. i \in DOMAIN history /\ history[i].task = t
    BY DEF EventsOf
  <2>3. CASE /\ history[i].type = "task.scheduled"
             /\ \A j \in DOMAIN history : history[j].task = history[i].task => i <= j
    BY <2>2, <2>3 DEF EventsOf
  <2>4. CASE \E j \in DOMAIN history : history[j].task = history[i].task /\ Follows(history, i, j)
    <3>1. PICK j \in DOMAIN history : history[j].task = history[i].task /\ Follows(history, i, j)
      BY <2>4
    <3>2. j \in EventsOf(t) /\ \A k \in EventsOf(t) : k \in DOMAIN history /\ history[k].task = t
      BY <2>2, <3>1 DEF EventsOf
    <3> QED BY <2>2, <3>1, <3>2 DEF Follows
  <2> QED BY <2>1, <2>2, <2>3, <2>4 DEF LivesTold
<1> QED BY HistoryInvariant, <1>1, PTL

\* LeasesBounded: no mix of failures, expired leases and recoveries hands a
\* task out more often than its retry policy says.
THEOREM LeasesAreBounded == Spec => []LeasesBounded
<1>1. TypeOK /\ HistoryInv => LeasesBounded
  <2> SUFFICES ASSUME TypeOK, HistoryInv, NEW t \in TaskID
               PROVE  Cardinality({i \in EventsOf(t) : history[i].type = "task.leased"}) <= AttemptsOf(t)
    BY DEF LeasesBounded
  <2>1. {i \in EventsOf(t) : history[i].type = "task.leased"} = LeasesOf(history, t)
    BY DEF EventsOf, LeasesOf
  <2> DEFINE task == state.tasks[t]
             c == Cardinality(LeasesOf(history, t))
  <2>2. /\ task.status = "none" => LeasesOf(history, t) = {}
        /\ task.status # "none" => c <= task.attempt /\ task.attempt <= AttemptsOf(t)
    BY DEF HistoryInv, Told, Agrees, LeasesTold
  <2>3. task.attempt \in Nat
    BY DEF TypeOK, RunState, TaskState
  <2>4. AttemptsOf(t) \in Nat
    BY WorkflowAssumption, TaskIDFacts DEF AttemptsOf
  <2>5. c \in Nat
    <3>1. Len(history) \in Nat /\ LeasesOf(history, t) \subseteq 1..Len(history)
      BY LenProperties DEF TypeOK, LeasesOf
    <3>2. IsFiniteSet(1..Len(history))
      BY <3>1, FS_Interval
    <3> QED BY <3>1, <3>2, FS_Subset, FS_CardinalityType
  <2>6. task.status = "none" => c = 0
    BY <2>2, FS_EmptySet
  <2> HIDE DEF task, c
  <2>7. c <= AttemptsOf(t)
    BY <2>2, <2>3, <2>4, <2>5, <2>6
  <2> QED BY <2>1, <2>7 DEF c
<1> QED BY TypeCorrect, HistoryInvariant, <1>1, PTL

\* UnwindOrder: a compensation is scheduled only once the run unwinds, for a
\* completed step, after those of the steps that completed later.
THEOREM UnwindingInOrder == Spec => []UnwindOrder
<1>1. TypeOK /\ HistoryInv => UnwindOrder
  <2> SUFFICES ASSUME TypeOK, HistoryInv,
                      NEW i \in DOMAIN history, IsCompensationScheduled(i)
               PROVE  LET s == StepOf(history[i].task) IN
                      /\ s \in Compensable
                      /\ Recorded({"run.compensating"}, None, i)
                      /\ \E j \in 1..(i - 1) :
                           /\ history[j].type \in CompletionType
                           /\ history[j].task = Forward(s)
                           /\ \A k \in (j + 1)..(i - 1), r \in Compensable :
                                /\ history[k].type \in CompletionType
                                /\ history[k].task = Forward(r)
                                => Recorded({"task.scheduled"}, Compensation(r), i)
    BY DEF UnwindOrder
  <2> DEFINE s == StepOf(history[i].task)
  <2>1. history[i].type = "task.scheduled" /\ ~IsForward(history[i].task)
    BY DEF IsCompensationScheduled
  <2>2. history[i].task \in TaskID
    BY <2>1 DEF HistoryInv, Told, Agrees, UnwindingTold
  <2>3. s \in Step /\ history[i].task = Compensation(s)
    BY <2>1, <2>2, TaskIDFacts
  <2> HIDE DEF s
  <2>4. UndoneInOrder(history, i, s)
    BY <2>1, <2>3 DEF HistoryInv, Told, Agrees, UnwindingTold
  <2>5. s \in Compensable /\ Recorded({"run.compensating"}, None, i)
    BY <2>4 DEF UndoneInOrder, Recorded
  <2>6. PICK j \in 1..(i - 1) :
          /\ CompletionAt(history, j, s)
          /\ \A k \in (j + 1)..(i - 1), r \in Compensable :
               CompletionAt(history, k, r) =>
                 \E n \in 1..(i - 1) :
                   history[n].type = "task.scheduled" /\ history[n].task = Compensation(r)
    BY <2>4 DEF UndoneInOrder
  <2>7. \A k \in (j + 1)..(i - 1), r \in Compensable :
          /\ history[k].type \in CompletionType
          /\ history[k].task = Forward(r)
          => Recorded({"task.scheduled"}, Compensation(r), i)
    BY <2>6 DEF CompletionAt, Recorded
  <2>8. history[j].type \in CompletionType /\ history[j].task = Forward(s)
    BY <2>6 DEF CompletionAt
  <2> QED BY <2>5, <2>7, <2>8 DEF s
<1> QED BY TypeCorrect, HistoryInvariant, <1>1, PTL
=============================================================================
