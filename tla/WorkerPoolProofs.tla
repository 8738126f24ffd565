--------------------------- MODULE WorkerPoolProofs ---------------------------
(***************************************************************************)
(* What slots never do to one another's leases, whatever the number of     *)
(* slots and attempts and whichever slots share an id.                     *)
(***************************************************************************)
EXTENDS WorkerPool, TLAPS

\* The engine's steps on the task, with what each does to the row.
LEMMA TaskSteps ==
    ASSUME NEW w
    PROVE  /\ Task!Lease(w) => /\ task.status = "available"
                               /\ task' = [status |-> "leased", attempt |-> task.attempt,
                                           owner |-> w]
           /\ Task!Complete(w) => Task!HeldBy(w) /\ task' = Task!Ended("completed")
           /\ Task!Fail(w) => Task!HeldBy(w) /\ task' = Task!Ended("failed")
           /\ Task!Retry(w) => /\ Task!HeldBy(w)
                               /\ task.attempt < Attempts
                               /\ task' = Task!Waiting(task.attempt + 1)
BY DEF Task!Lease, Task!Complete, Task!Fail, Task!Retry

\* A report, of a slot or of the sweep, ends the lease it is about.
LEMMA ReportEndsLease ==
    ASSUME PoolTypeOK, NEW w, NEW retryable,
           Task!Complete(w) \/ FailTask(w, retryable)
    PROVE  /\ Task!HeldBy(w)
           /\ task' \in [status : Task!Status, attempt : 1..Attempts, owner : Worker \cup {None}]
           /\ task'.status # "leased"
<1>1. CASE Task!Complete(w)
  BY <1>1, TaskSteps DEF PoolTypeOK, Task!Ended, Task!Status
<1>2. CASE Task!Fail(w)
  BY <1>2, TaskSteps DEF PoolTypeOK, Task!Ended, Task!Status
<1>3. CASE Task!Retry(w)
  BY <1>3, TaskSteps, WorkerPoolAssumption DEF PoolTypeOK, Task!Waiting, Task!Status
<1> QED BY <1>1, <1>2, <1>3 DEF FailTask

-----------------------------------------------------------------------------
LEMMA IdleType == Idle \in Execution
BY WorkerPoolAssumption DEF Idle, Execution, Report

LEMMA PoolTypeInit == Init => PoolTypeOK
<1> SUFFICES ASSUME Init PROVE PoolTypeOK
  OBVIOUS
<1>1. Task!Waiting(1) \in [status : Task!Status, attempt : 1..Attempts, owner : Worker \cup {None}]
  BY WorkerPoolAssumption DEF Task!Waiting, Task!Status
<1>2. slots \in [Slot -> Execution]
  BY IdleType DEF Init
<1> QED BY <1>1, <1>2 DEF Init, PoolTypeOK

LEMMA PoolTypeStep == PoolTypeOK /\ [Next]_vars => PoolTypeOK'
<1> SUFFICES ASSUME PoolTypeOK, [Next]_vars PROVE PoolTypeOK'
  OBVIOUS
<1> USE WorkerPoolAssumption
<1>1. ASSUME NEW s \in Slot, LeaseTask(s) PROVE PoolTypeOK'
  <2>1. /\ Task!Lease(WorkerID[s])
        /\ WorkerID[s] \in Worker
    BY <1>1 DEF LeaseTask
  <2>2. task' \in [status : Task!Status, attempt : 1..Attempts, owner : Worker \cup {None}]
    BY <2>1, TaskSteps DEF PoolTypeOK, Task!Status
  <2>3. task.attempt \in 0..Attempts
    BY DEF PoolTypeOK
  <2>4. [Idle EXCEPT !.pc = "running", !.attempt = task.attempt] \in Execution
    BY <2>3 DEF Idle, Execution, Report
  <2>5. slots' \in [Slot -> Execution]
    BY <1>1, <2>4 DEF LeaseTask, PoolTypeOK
  <2> QED BY <1>1, <2>2, <2>5 DEF LeaseTask, PoolTypeOK
<1>2. ASSUME NEW s \in Slot, Heartbeat(s) \/ HeartbeatError(s) PROVE PoolTypeOK'
  <2>1. slots' = slots \/ slots' = [slots EXCEPT ![s].lost = TRUE]
    BY <1>2 DEF Heartbeat, HeartbeatError
  <2>2. slots' \in [Slot -> Execution]
    <3>1. [slots[s] EXCEPT !.lost = TRUE] \in Execution
      BY DEF PoolTypeOK, Execution
    <3> QED BY <2>1, <3>1 DEF PoolTypeOK
  <2>3. expired' \in BOOLEAN
    BY <1>2 DEF Heartbeat, HeartbeatError, PoolTypeOK
  <2> QED BY <1>2, <2>2, <2>3 DEF Heartbeat, HeartbeatError, PoolTypeOK
<1>3. ASSUME NEW s \in Slot, Return(s) PROVE PoolTypeOK'
  <2>1. PICK outcome \in {"ok", "retry", "final", "cancelled"} :
          slots' = [slots EXCEPT ![s].pc = "returned",
                                 ![s].report = ReportOf(outcome, slots[s].lost)]
    BY <1>3 DEF Return
  <2>2. ReportOf(outcome, slots[s].lost) \in Report
    BY DEF ReportOf, Report
  <2>3. slots' \in [Slot -> Execution]
    <3> DEFINE x == [slots[s] EXCEPT !.pc = "returned", !.report = ReportOf(outcome, slots[s].lost)]
    <3>1. slots[s] \in Execution /\ slots \in [Slot -> Execution]
      BY DEF PoolTypeOK
    <3>2. x \in Execution
      BY <2>2, <3>1 DEF Execution
    <3>3. slots' = [slots EXCEPT ![s] = x]
      BY <2>1, <3>1
    <3> HIDE DEF x
    <3> QED BY <3>1, <3>2, <3>3
  <2>4. late' \subseteq Worker
    BY <1>3 DEF Return, PoolTypeOK
  <2> QED BY <1>3, <2>3, <2>4 DEF Return, PoolTypeOK
<1>4. ASSUME NEW s \in Slot, SendReport(s) PROVE PoolTypeOK'
  <2>1. task' \in [status : Task!Status, attempt : 1..Attempts, owner : Worker \cup {None}]
    BY <1>4, ReportEndsLease DEF SendReport, PoolTypeOK
  <2> QED BY <1>4, <2>1, IdleType DEF SendReport, PoolTypeOK
<1>5. ASSUME NEW w \in Worker, LateHeartbeat(w) PROVE PoolTypeOK'
  BY <1>5 DEF LateHeartbeat, PoolTypeOK
<1>6. CASE Expire
  BY <1>6 DEF Expire, PoolTypeOK
<1>7. CASE RecoverExpiredLease
  BY <1>7 DEF RecoverExpiredLease, PoolTypeOK
<1>8. CASE FailExpiredLease
  <2>1. task' \in [status : Task!Status, attempt : 1..Attempts, owner : Worker \cup {None}]
    BY <1>8, ReportEndsLease DEF FailExpiredLease, PoolTypeOK
  <2> QED BY <1>8, <2>1 DEF FailExpiredLease, PoolTypeOK
<1>9. CASE CancelRun
  BY <1>9 DEF CancelRun, PoolTypeOK, Task!Cancel, Task!Ended, Task!Status
<1>10. CASE Restart
  BY <1>10, IdleType DEF Restart, PoolTypeOK
<1>11. CASE UNCHANGED vars
  BY <1>11 DEF vars, PoolTypeOK
<1> QED BY <1>1, <1>2, <1>3, <1>4, <1>5, <1>6, <1>7, <1>8, <1>9, <1>10, <1>11 DEF Next

\* Every variable of the slots keeps its type, also when slots share an id.
THEOREM PoolTypeCorrect == Spec => []PoolTypeOK
BY PoolTypeInit, PoolTypeStep, PTL DEF Spec

-----------------------------------------------------------------------------
\* An execution is of an attempt that has been handed out, ...
AttemptsBegun ==
    \A s \in Slot : Busy(s) => /\ slots[s].attempt <= task.attempt
                               /\ task.status = "available" => slots[s].attempt < task.attempt

\* ... and if its id holds the lease, it executes that lease or shares the id.
LeaseIsOwn ==
    \A s \in Slot : Busy(s) /\ Task!HeldBy(WorkerID[s])
                      => slots[s].attempt = task.attempt \/ SharesID(s)

ExecutionsInv == AttemptsApart /\ AttemptsBegun /\ LeaseIsOwn

\* The invariant looks only at attempts, and at slots that still execute one.
LEMMA FewerExecutions ==
    ASSUME PoolTypeOK, ExecutionsInv,
           \A s \in Slot : Busy(s)' => Busy(s) /\ slots'[s].attempt = slots[s].attempt,
           \/ task' = task
           \/ task'.status \notin {"available", "leased"} /\ task'.attempt = task.attempt
           \/ task' = Task!Waiting(task.attempt + 1)
    PROVE  ExecutionsInv'
<1>1. AttemptsApart'
  BY DEF ExecutionsInv, AttemptsApart
<1>2. AttemptsBegun'
  <2> SUFFICES ASSUME NEW s \in Slot, Busy(s)'
               PROVE  /\ slots'[s].attempt <= task'.attempt
                      /\ task'.status = "available" => slots'[s].attempt < task'.attempt
    BY DEF AttemptsBegun
  <2>1. slots[s].attempt \in Nat /\ task.attempt \in Nat
    BY WorkerPoolAssumption DEF PoolTypeOK, Execution
  <2>2. /\ slots'[s].attempt = slots[s].attempt
        /\ slots[s].attempt <= task.attempt
        /\ task.status = "available" => slots[s].attempt < task.attempt
    BY DEF ExecutionsInv, AttemptsBegun
  <2> QED BY <2>1, <2>2 DEF Task!Waiting
<1>3. LeaseIsOwn'
  <2> SUFFICES ASSUME NEW s \in Slot, Busy(s)', Task!HeldBy(WorkerID[s])'
               PROVE  slots'[s].attempt = task'.attempt \/ SharesID(s)
    BY DEF LeaseIsOwn, SharesID
  <2>1. task' = task
    BY DEF Task!HeldBy, Task!Waiting
  <2> QED BY <2>1 DEF ExecutionsInv, LeaseIsOwn, Task!HeldBy
<1> QED BY <1>1, <1>2, <1>3 DEF ExecutionsInv

\* A report, of a slot or of the sweep, ends the attempt or begins the next.
LEMMA ReportMovesTask ==
    ASSUME NEW w, NEW retryable, Task!Complete(w) \/ FailTask(w, retryable)
    PROVE  \/ task'.status \notin {"available", "leased"} /\ task'.attempt = task.attempt
           \/ task' = Task!Waiting(task.attempt + 1)
<1>1. CASE Task!Complete(w)
  BY <1>1, TaskSteps DEF Task!Ended
<1>2. CASE Task!Fail(w)
  BY <1>2, TaskSteps DEF Task!Ended
<1>3. CASE Task!Retry(w)
  BY <1>3, TaskSteps
<1> QED BY <1>1, <1>2, <1>3 DEF FailTask

LEMMA LeaseKeepsExecutions ==
    ASSUME PoolTypeOK, ExecutionsInv, NEW s \in Slot, LeaseTask(s)
    PROVE  ExecutionsInv'
<1>1. /\ task.status = "available"
      /\ task' = [status |-> "leased", attempt |-> task.attempt, owner |-> WorkerID[s]]
  BY TaskSteps DEF LeaseTask
<1>2. slots'[s].attempt = task.attempt
  BY DEF LeaseTask, PoolTypeOK, Idle
<1>3. \A r \in Slot \ {s} : slots'[r] = slots[r]
  BY DEF LeaseTask, PoolTypeOK
\* The attempt handed out is later than every attempt under way.
<1>4. \A r \in Slot \ {s} :
        Busy(r)' => slots'[r].attempt < task.attempt /\ slots'[r].attempt # task.attempt
  <2> SUFFICES ASSUME NEW r \in Slot \ {s}, Busy(r)'
               PROVE  slots'[r].attempt < task.attempt /\ slots'[r].attempt # task.attempt
    OBVIOUS
  <2>1. slots[r].attempt \in Nat /\ task.attempt \in Nat
    BY WorkerPoolAssumption DEF PoolTypeOK, Execution
  <2>2. Busy(r)
    BY <1>3 DEF Busy
  <2> QED BY <1>1, <1>3, <2>1, <2>2 DEF ExecutionsInv, AttemptsBegun
<1>5. AttemptsApart'
  <2> SUFFICES ASSUME NEW q \in Slot, NEW r \in Slot, Busy(q)', Busy(r)',
                      slots'[q].attempt = slots'[r].attempt
               PROVE  q = r
    BY DEF AttemptsApart
  <2>1. CASE q = s \/ r = s
    BY <1>2, <1>4, <2>1
  <2>2. CASE q # s /\ r # s
    BY <1>3, <2>2 DEF ExecutionsInv, AttemptsApart, Busy
  <2> QED BY <2>1, <2>2
<1>6. AttemptsBegun'
  <2> SUFFICES ASSUME NEW r \in Slot, Busy(r)' PROVE slots'[r].attempt <= task.attempt
    BY <1>1 DEF AttemptsBegun
  <2>1. slots[r].attempt \in Nat /\ task.attempt \in Nat
    BY WorkerPoolAssumption DEF PoolTypeOK, Execution
  <2>2. CASE r = s
    BY <1>2, <2>1, <2>2
  <2>3. CASE r # s
    BY <1>3, <1>4, <2>1, <2>3
  <2> QED BY <2>2, <2>3
<1>7. LeaseIsOwn'
  <2> SUFFICES ASSUME NEW r \in Slot, Task!HeldBy(WorkerID[r])', r # s
               PROVE  SharesID(r)
    BY <1>1, <1>2 DEF LeaseIsOwn, SharesID
  <2> QED BY <1>1 DEF Task!HeldBy, SharesID
<1> QED BY <1>5, <1>6, <1>7 DEF ExecutionsInv

LEMMA ExecutionsStep == PoolTypeOK /\ ExecutionsInv /\ [Next]_vars => ExecutionsInv'
<1> SUFFICES ASSUME PoolTypeOK, ExecutionsInv, [Next]_vars PROVE ExecutionsInv'
  OBVIOUS
<1>1. ASSUME NEW s \in Slot, LeaseTask(s) PROVE ExecutionsInv'
  BY <1>1, LeaseKeepsExecutions
<1>2. ASSUME NEW s \in Slot, Heartbeat(s) \/ HeartbeatError(s) \/ Return(s)
      PROVE  ExecutionsInv'
  <2>1. \A r \in Slot : Busy(r)' => Busy(r) /\ slots'[r].attempt = slots[r].attempt
    BY <1>2 DEF Heartbeat, HeartbeatError, Return, PoolTypeOK, Execution, Busy
  <2>2. task' = task
    BY <1>2 DEF Heartbeat, HeartbeatError, Return
  <2> QED BY <2>1, <2>2, FewerExecutions
<1>3. ASSUME NEW s \in Slot, SendReport(s) PROVE ExecutionsInv'
  <2>1. \A r \in Slot : Busy(r)' => Busy(r) /\ slots'[r].attempt = slots[r].attempt
    BY <1>3 DEF SendReport, PoolTypeOK, Busy, Idle
  <2>2. \/ task' = task
        \/ task'.status \notin {"available", "leased"} /\ task'.attempt = task.attempt
        \/ task' = Task!Waiting(task.attempt + 1)
    BY <1>3, ReportMovesTask DEF SendReport
  <2> QED BY <2>1, <2>2, FewerExecutions
<1>4. CASE FailExpiredLease
  <2>1. \A r \in Slot : Busy(r)' => Busy(r) /\ slots'[r].attempt = slots[r].attempt
    BY <1>4 DEF FailExpiredLease, Busy
  <2>2. \/ task' = task
        \/ task'.status \notin {"available", "leased"} /\ task'.attempt = task.attempt
        \/ task' = Task!Waiting(task.attempt + 1)
    BY <1>4, ReportMovesTask DEF FailExpiredLease
  <2> QED BY <2>1, <2>2, FewerExecutions
<1>5. CASE CancelRun
  <2>1. \A r \in Slot : Busy(r)' => Busy(r) /\ slots'[r].attempt = slots[r].attempt
    BY <1>5 DEF CancelRun, Busy
  <2>2. task'.status \notin {"available", "leased"} /\ task'.attempt = task.attempt
    BY <1>5 DEF CancelRun, Task!Cancel, Task!Ended
  <2> QED BY <2>1, <2>2, FewerExecutions
<1>6. CASE Restart
  <2>1. \A r \in Slot : ~Busy(r)'
    BY <1>6 DEF Restart, Busy, Idle
  <2>2. task' = task
    BY <1>6 DEF Restart
  <2> QED BY <2>1, <2>2, FewerExecutions
<1>7. CASE \/ \E w \in Worker : LateHeartbeat(w)
           \/ Expire
           \/ RecoverExpiredLease
           \/ UNCHANGED vars
  <2>1. task' = task /\ slots' = slots
    BY <1>7 DEF LateHeartbeat, Expire, RecoverExpiredLease, vars
  <2> QED BY <2>1, FewerExecutions DEF Busy
<1> QED BY <1>1, <1>2, <1>3, <1>4, <1>5, <1>6, <1>7 DEF Next

LEMMA ExecutionsCorrect == Spec => []ExecutionsInv
<1>1. Init => ExecutionsInv
  BY DEF Init, ExecutionsInv, AttemptsApart, AttemptsBegun, LeaseIsOwn, Busy, Idle
<1> QED BY <1>1, ExecutionsStep, PoolTypeCorrect, PTL DEF Spec

\* No two executions under way are of the same attempt, whoever shares an id:
\* an attempt is handed out once, and later than all that are under way.
THEOREM AttemptsStayApart == Spec => []AttemptsApart
<1>1. ExecutionsInv => AttemptsApart
  BY DEF ExecutionsInv
<1> QED BY <1>1, ExecutionsCorrect, PTL

(***************************************************************************)
(* A report that changes the task is made by the execution that holds its  *)
(* lease, or else by an earlier one in a slot whose pool has other slots:  *)
(* a pool of one slot never ends a lease that is not its own.  The run     *)
(* shared_id shows that a pool of two slots does.                          *)
(***************************************************************************)
THEOREM StrayReportsNeedSharedIDs == Spec => StrayReportsAreShared
<1>1. ASSUME PoolTypeOK, ExecutionsInv, [Next]_vars, NEW s \in Slot, ReportTaken(s)
      PROVE  \/ slots[s].attempt = task.attempt
             \/ slots[s].attempt < task.attempt /\ SharesID(s)
  <2>1. ASSUME NEW r \in Slot, LeaseTask(r) PROVE FALSE
    BY <1>1, <2>1 DEF LeaseTask, PoolTypeOK, Idle, ReportTaken
  <2>2. \E r \in Slot : SendReport(r)
    <3>1. \/ \E r \in Slot : Heartbeat(r) \/ HeartbeatError(r) \/ Return(r)
          \/ \E w \in Worker : LateHeartbeat(w)
          \/ Expire \/ RecoverExpiredLease \/ Restart \/ UNCHANGED vars
          => task' = task
      BY DEF Heartbeat, HeartbeatError, Return, LateHeartbeat, Expire, RecoverExpiredLease,
             Restart, vars
    <3>2. FailExpiredLease \/ CancelRun => slots' = slots
      BY DEF FailExpiredLease, CancelRun
    <3> QED BY <1>1, <2>1, <3>1, <3>2 DEF Next, ReportTaken
  <2>3. SendReport(s)
    BY <1>1, <2>2 DEF SendReport, PoolTypeOK, ReportTaken
  <2>4. Busy(s) /\ Task!HeldBy(WorkerID[s])
    BY <1>1, <2>3, ReportEndsLease DEF SendReport, ReportTaken, Busy
  <2>5. slots[s].attempt \in Nat /\ task.attempt \in Nat
    BY <1>1, WorkerPoolAssumption DEF PoolTypeOK, Execution
  <2> QED BY <1>1, <2>4, <2>5 DEF ExecutionsInv, AttemptsBegun, LeaseIsOwn
<1>2. PoolTypeOK /\ ExecutionsInv /\ [Next]_vars
        => [\A s \in Slot : ReportTaken(s) =>
              \/ slots[s].attempt = task.attempt
              \/ slots[s].attempt < task.attempt /\ SharesID(s)]_vars
  BY <1>1
<1> QED BY <1>2, ExecutionsCorrect, PoolTypeCorrect, PTL DEF Spec, StrayReportsAreShared
=============================================================================
