------------------------------- MODULE Reducer -------------------------------
(***************************************************************************)
(* The replay reducer (internal/engine/reducer.go): the state of a run as  *)
(* the fold of its history.  One operator per event type; ApplyEvent       *)
(* dispatches on the type and Replay folds a whole history.                *)
(*                                                                         *)
(* Payloads are reduced to what decisions and properties tell apart: an    *)
(* error message is the task whose failure it reports, an output is        *)
(* present or absent, the reason of a cancellation is dropped.             *)
(***************************************************************************)
EXTENDS Workflow, Sequences, SequencesExt

CONSTANTS
    Worker,       \* worker ids (one id per pool, shared by the pool's slots)
    None          \* no worker, no task, no failure: the empty string

ASSUME ReducerAssumption == None \notin Worker /\ None \notin TaskID

RunStatus == {"running", "compensating", "cancelling",
              "completed", "failed", "cancelled"}

TaskStatus == {"none", "available", "leased", "completed", "failed", "cancelled"}

Terminal(status) == status \in {"completed", "failed", "cancelled"}

Open(status) == status \in {"available", "leased"}

TaskState == [status : TaskStatus, attempt : Nat, owner : Worker \cup {None}]

NoTask == [status |-> "none", attempt |-> 0, owner |-> None]

Failure == TaskID \cup {None}

\* RunState of the engine.  "logged" is auxiliary: the failure that the events
\* themselves record so far (None while they record none).
RunState ==
    [status : RunStatus, failure : Failure, logged : Failure,
     tasks : [TaskID -> TaskState], forward : [Step -> TaskStatus],
     outputs : SUBSET Step, completedOrder : Seq(Step),
     compScheduled : SUBSET Step, compCompleted : SUBSET Step,
     cancelRequested : BOOLEAN, compensating : BOOLEAN, finished : BOOLEAN]

(***************************************************************************)
(* Events.                                                                 *)
(***************************************************************************)
TaskEventType == {"task.scheduled", "task.leased", "task.heartbeat",
                  "task.completed", "task.failed", "task.retry_scheduled",
                  "task.cancelled", "timer.fired"}

RunEventType == {"workflow.started", "run.cancel_requested", "run.compensating",
                 "run.completed", "run.failed", "run.cancelled"}

Event == [type : TaskEventType \cup RunEventType, task : TaskID \cup {None},
          worker : Worker \cup {None}, attempt : Nat, reason : Failure]

RunEvent(type, reason) ==
    [type |-> type, task |-> None, worker |-> None, attempt |-> 0, reason |-> reason]

TaskEvent(type, t, w) ==
    [type |-> type, task |-> t, worker |-> w, attempt |-> 0, reason |-> None]

RetryEvent(t, n) ==
    [type |-> "task.retry_scheduled", task |-> t, worker |-> None, attempt |-> n,
     reason |-> None]

(***************************************************************************)
(* The state before the first event, and one operator per event type.  The *)
(* operators for scheduling and cancelling take the set of tasks that one  *)
(* command schedules or cancels: their events commute.                     *)
(***************************************************************************)
InitialState(failure) ==
    [status |-> "running", failure |-> failure, logged |-> None,
     tasks |-> [t \in TaskID |-> NoTask], forward |-> [s \in Step |-> "none"],
     outputs |-> {}, completedOrder |-> <<>>,
     compScheduled |-> {}, compCompleted |-> {},
     cancelRequested |-> FALSE, compensating |-> FALSE, finished |-> FALSE]

\* The forward status of a step follows the step's forward task.
SetForward(forward, T, status) ==
    [s \in Step |-> IF Forward(s) \in T THEN status ELSE forward[s]]

SetTask(st, t, task) ==
    [st EXCEPT !.tasks[t] = task, !.forward = SetForward(@, {t}, task.status)]

ApplyTasksScheduled(st, T) ==
    [st EXCEPT
       !.tasks = [t \in TaskID |->
                    IF t \in T THEN [status |-> "available", attempt |-> 1, owner |-> None]
                               ELSE @[t]],
       !.forward = SetForward(@, T, "available"),
       !.compScheduled = @ \cup {s \in Step : Compensation(s) \in T}]

ApplyTaskLeased(st, t, w) ==
    SetTask(st, t, [st.tasks[t] EXCEPT !.status = "leased", !.owner = w])

ApplyTaskHeartbeat(st, t, w) == [st EXCEPT !.tasks[t].owner = w]

\* A step that produced an output, at its place in the completion order.
RecordOutput(st, s) ==
    [st EXCEPT !.outputs = @ \cup {s},
               !.completedOrder = IF s \in ToSet(@) THEN @ ELSE Append(@, s)]

ApplyTaskCompleted(st, t, w) ==
    LET done == SetTask(st, t, [st.tasks[t] EXCEPT !.status = "completed", !.owner = w])
    IN  IF IsForward(t)
          THEN RecordOutput(done, StepOf(t))
          ELSE [done EXCEPT !.compCompleted = @ \cup {StepOf(t)}]

ApplyTaskFailed(st, t, w) ==
    SetTask(st, t, [st.tasks[t] EXCEPT !.status = "failed", !.owner = w])

ApplyTaskRetryScheduled(st, t, n) ==
    SetTask(st, t, [status |-> "available", attempt |-> n, owner |-> None])

\* Fault: the status is written in another spelling than it is read.
ApplyTasksCancelledMisspelt(st, T) ==
    [st EXCEPT
       !.tasks = [t \in TaskID |->
                    IF t \in T THEN [@[t] EXCEPT !.status = "canceled", !.owner = None]
                               ELSE @[t]],
       !.forward = SetForward(@, T, "canceled")]

ApplyTasksCancelled(st, T) ==
    [st EXCEPT
       !.tasks = [t \in TaskID |->
                    IF t \in T THEN [@[t] EXCEPT !.status = "cancelled", !.owner = None]
                               ELSE @[t]],
       !.forward = SetForward(@, T, "cancelled")]

ApplyTimerFired(st, t) ==
    RecordOutput(SetTask(st, t, [st.tasks[t] EXCEPT !.status = "completed"]), StepOf(t))

ApplyWorkflowStarted(st) == [st EXCEPT !.status = "running"]

ApplyRunCancelRequested(st) ==
    [st EXCEPT !.cancelRequested = TRUE, !.status = "cancelling"]

\* Fault: the flag that stops the forward path is not set.
ApplyRunCompensatingUnmarked(st, reason) ==
    LET begun == [st EXCEPT !.status = "compensating"]
    IN  IF st.cancelRequested THEN begun
        ELSE [begun EXCEPT !.failure = reason, !.logged = reason]

\* The reason is the cancellation's once one was requested, else the failure.
ApplyRunCompensating(st, reason) ==
    LET begun == [st EXCEPT !.compensating = TRUE, !.status = "compensating"]
    IN  IF st.cancelRequested THEN begun
        ELSE [begun EXCEPT !.failure = reason, !.logged = reason]

Finish(st, status) == [st EXCEPT !.status = status, !.finished = TRUE]

ApplyRunFailed(st, reason) ==
    [Finish(st, "failed") EXCEPT !.failure = reason, !.logged = reason]

ApplyEvent(st, e) ==
    CASE e.type = "workflow.started"     -> ApplyWorkflowStarted(st)
      [] e.type = "task.scheduled"       -> ApplyTasksScheduled(st, {e.task})
      [] e.type = "task.leased"          -> ApplyTaskLeased(st, e.task, e.worker)
      [] e.type = "task.heartbeat"       -> ApplyTaskHeartbeat(st, e.task, e.worker)
      [] e.type = "task.completed"       -> ApplyTaskCompleted(st, e.task, e.worker)
      [] e.type = "task.failed"          -> ApplyTaskFailed(st, e.task, e.worker)
      [] e.type = "task.retry_scheduled" -> ApplyTaskRetryScheduled(st, e.task, e.attempt)
      [] e.type = "task.cancelled"       -> ApplyTasksCancelled(st, {e.task})
      [] e.type = "timer.fired"          -> ApplyTimerFired(st, e.task)
      [] e.type = "run.cancel_requested" -> ApplyRunCancelRequested(st)
      [] e.type = "run.compensating"     -> ApplyRunCompensating(st, e.reason)
      [] e.type = "run.completed"        -> Finish(st, "completed")
      [] e.type = "run.failed"           -> ApplyRunFailed(st, e.reason)
      [] e.type = "run.cancelled"        -> Finish(st, "cancelled")

\* Replay starts from the stored run row, whose failure no event may have set.
Replay(failure, events) == FoldLeft(ApplyEvent, InitialState(failure), events)
=============================================================================
