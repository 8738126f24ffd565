---------------------------- MODULE RunInvariant ----------------------------
(***************************************************************************)
(* The inductive invariants behind the safety properties of a run.  IInv   *)
(* is about the replayed state alone: the bookkeeping that every event     *)
(* keeps, and what the status of the run says of its tasks, which holds    *)
(* between commands and not in the middle of one.  HistoryInv relates the  *)
(* state to the events that led to it.                                     *)
(***************************************************************************)
EXTENDS RunProperties

ForwardStatus(st, s) == st.tasks[Forward(s)].status
CompensationStatus(st, s) == st.tasks[Compensation(s)].status

\* Outputs, completion order and compensation marks tell what the tasks tell.
Consistent(st) ==
    /\ \A s \in Step : st.forward[s] = ForwardStatus(st, s)
    /\ \A s \in Step : s \in st.outputs <=> ForwardStatus(st, s) = "completed"
    /\ ToSet(st.completedOrder) = st.outputs
    /\ \A s \in Step : s \in st.compScheduled <=> CompensationStatus(st, s) # "none"
    /\ \A s \in Step : s \in st.compCompleted <=> CompensationStatus(st, s) = "completed"
    /\ \A s \in Step : ForwardStatus(st, s) # "none" => Deps[s] \subseteq st.outputs
    /\ st.compScheduled \subseteq Compensable \cap st.outputs
    /\ ~st.compensating => st.compScheduled = {}

SomeForwardFailed(st) == \E s \in Step : ForwardStatus(st, s) = "failed"

AtMostOneOpen(st) ==
    \A s, r \in Step : Open(CompensationStatus(st, s)) /\ Open(CompensationStatus(st, r))
                         => s = r

\* A run that is running has forward work to do and no failure behind it.
RunningInv(st) ==
    st.status = "running" =>
        /\ ~st.compensating
        /\ ~st.cancelRequested
        /\ HasOpenForwardTasks(st)
        /\ \A s \in Step : ForwardStatus(st, s) \notin {"failed", "cancelled"}

CompensatingInv(st) ==
    st.status = "compensating" => st.compensating /\ HasOpenCompensationTasks(st)

CompletedInv(st) ==
    st.status = "completed" => AllForwardCompleted(st) /\ ~st.compensating

\* A failed run that undoes nothing still shows the failed task: it can not
\* be taken for a completed one when its other tasks report.
FailedInv(st) ==
    st.status = "failed" => st.compensating \/ SomeForwardFailed(st)

\* After a cancellation only one chain of compensations runs, to its end.
CancelInv(st) ==
    /\ st.cancelRequested =>
         /\ st.status \in {"compensating", "cancelled"}
         /\ ~HasOpenForwardTasks(st)
         /\ AtMostOneOpen(st)
    /\ st.status = "cancelled" =>
         /\ st.cancelRequested
         /\ ~HasOpenCompensationTasks(st)
         /\ Unwindable(st) = {}

StatusInv(st) ==
    /\ st.status # "cancelling"
    /\ RunningInv(st)
    /\ CompensatingInv(st)
    /\ CompletedInv(st)
    /\ FailedInv(st)
    /\ CancelInv(st)

IInv == TypeOK /\ ViewsAgree /\ Consistent(state) /\ StatusInv(state)

-----------------------------------------------------------------------------
(***************************************************************************)
(* A state st and the history h that led to it.  All of this holds after   *)
(* every single event, also within a command.                              *)
(***************************************************************************)
\* The failure of a replay that starts from a run row with failure f.
WithFailure(st, f) ==
    [st EXCEPT !.failure = IF st.logged = None THEN f ELSE st.logged]

\* Replay gives the state, whatever failure was in memory when it was left.
Replayed(h, st) == \A f \in Failure : Replay(f, h) = WithFailure(st, f)

\* A run that unwinds after a failure has the failure in its history.
FailureLogged(st) ==
    /\ st.compensating /\ ~st.cancelRequested => st.logged # None
    /\ st.logged # None => st.failure # None

\* j is the last event of task t.
LastOf(h, t, j) ==
    /\ j \in DOMAIN h
    /\ h[j].task = t
    /\ \A k \in DOMAIN h : h[k].task = t => k <= j

\* The types of event that a task in this status was left by.
LeftBy(status) ==
    CASE status = "available" -> {"task.scheduled", "task.retry_scheduled"}
      [] status = "leased"    -> {"task.leased", "task.heartbeat"}
      [] status = "failed"    -> {"task.failed"}
      [] OTHER                -> {"task.completed", "timer.fired", "task.cancelled"}

\* The last event of a task tells its status and its owner.
StatusTold(h, st) ==
    \A t \in TaskID :
        IF st.tasks[t].status = "none"
          THEN \A j \in DOMAIN h : h[j].task # t
          ELSE \E j \in DOMAIN h :
                 /\ LastOf(h, t, j)
                 /\ h[j].type \in LeftBy(st.tasks[t].status)
                 /\ st.tasks[t].status = "leased" => h[j].worker = st.tasks[t].owner

\* TaskLifeCycle of a history.
Follows(h, i, j) ==
    /\ j < i
    /\ \A k \in DOMAIN h : h[k].task = h[i].task => k <= j \/ i <= k
    /\ h[i].type \in MayFollow(h[j].type)
    /\ h[i].type \in {"task.heartbeat", "task.completed", "task.failed"}
         => h[i].worker = h[j].worker
    /\ h[i].type = "timer.fired" => IsTimer(h[i].task)

LivesTold(h) ==
    \A i \in DOMAIN h : h[i].task \in TaskID =>
        \/ /\ h[i].type = "task.scheduled"
           /\ \A j \in DOMAIN h : h[j].task = h[i].task => i <= j
        \/ \E j \in DOMAIN h : h[j].task = h[i].task /\ Follows(h, i, j)

\* The leases of a task are as many as its attempts, or one fewer while it waits.
LeasesOf(h, t) == {i \in DOMAIN h : h[i].task = t /\ h[i].type = "task.leased"}

LeasesTold(h, st) ==
    \A t \in TaskID :
        LET task == st.tasks[t] IN
        /\ task.status = "none" => LeasesOf(h, t) = {}
        /\ task.status = "available" => Cardinality(LeasesOf(h, t)) + 1 <= task.attempt
        /\ task.status # "none" => /\ Cardinality(LeasesOf(h, t)) <= task.attempt
                                   /\ task.attempt <= AttemptsOf(t)

\* The completion order is that of the events.
CompletionAt(h, j, s) == h[j].type \in CompletionType /\ h[j].task = Forward(s)

OrderTold(h, st) ==
    LET order == st.completedOrder IN
    /\ \A i \in DOMAIN order : \E j \in DOMAIN h : CompletionAt(h, j, order[i])
    /\ \A j \in DOMAIN h, s \in Step : CompletionAt(h, j, s) => s \in ToSet(order)
    /\ \A i, m \in DOMAIN order, j, k \in DOMAIN h :
         CompletionAt(h, j, order[i]) /\ CompletionAt(h, k, order[m]) /\ j < k => i < m

\* The marks of the unwinding are in the history, and in the tasks.
MarksTold(h, st) ==
    /\ \A s \in Step : s \in st.compScheduled <=> CompensationStatus(st, s) # "none"
    /\ st.compCompleted \subseteq st.compScheduled
    /\ \A s \in ToSet(st.completedOrder) : ForwardStatus(st, s) = "completed"
    /\ \A s \in st.compScheduled : \E j \in DOMAIN h :
         h[j].type = "task.scheduled" /\ h[j].task = Compensation(s)
    /\ st.compensating => \E j \in DOMAIN h : h[j].type = "run.compensating" /\ h[j].task = None

\* UnwindOrder of a history.
UndoneInOrder(h, i, s) ==
    /\ s \in Compensable
    /\ \E j \in 1..(i - 1) : h[j].type = "run.compensating" /\ h[j].task = None
    /\ \E j \in 1..(i - 1) :
         /\ CompletionAt(h, j, s)
         /\ \A k \in (j + 1)..(i - 1), r \in Compensable :
              CompletionAt(h, k, r) =>
                \E n \in 1..(i - 1) : h[n].type = "task.scheduled" /\ h[n].task = Compensation(r)

UnwindingTold(h) ==
    \A i \in DOMAIN h : h[i].type = "task.scheduled" =>
        /\ h[i].task \in TaskID
        /\ \A s \in Step : h[i].task = Compensation(s) => UndoneInOrder(h, i, s)

Agrees(h, st) ==
    /\ FailureLogged(st)
    /\ StatusTold(h, st)
    /\ LivesTold(h)
    /\ LeasesTold(h, st)
    /\ OrderTold(h, st)
    /\ MarksTold(h, st)
    /\ UnwindingTold(h)

Told(h, st) == Replayed(h, st) /\ Agrees(h, st)

(***************************************************************************)
(* The part of the invariant that the runs evaluate: folding the history   *)
(* once for every failure a row may have stored is left to the proof.      *)
(***************************************************************************)
HistoryAgrees == Agrees(history, state)

HistoryInv == Told(history, state) /\ state = WithFailure(state, run.failure)
=============================================================================
