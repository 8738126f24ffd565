--------------------------- MODULE SweepQueueProofs ---------------------------
(***************************************************************************)
(* What sweeps and leases may do before a deadline, and what a sweep takes *)
(* when tasks cannot be loaded, for any tasks, limits, delays and any      *)
(* precision of the text of a time.                                        *)
(***************************************************************************)
EXTENDS SweepQueue, FiniteSetTheorems, TLAPS

-----------------------------------------------------------------------------
(***************************************************************************)
(* Types.                                                                  *)
(***************************************************************************)
LEMMA WriteType ==
    ASSUME TypeOK, NEW t \in Task, NEW row \in Row, Write(t, row)
    PROVE  now' \in 0..Horizon /\ rows' \in [Task -> Row]
BY DEF TypeOK, Write

\* The rows that an end and a retry leave.
LEMMA NewRows ==
    ASSUME TypeOK, NEW t \in Task
    PROVE  /\ rows[t] \in Row /\ now \in Nat
           /\ EndedRow(t) \in Row /\ EndedRow(t).updated = now
           /\ RetryRow(t) \in Row /\ RetryRow(t).updated = now
           /\ EndedRow(t).status # "leased" /\ RetryRow(t).status # "leased"
<1>1. rows[t] \in Row /\ now \in Nat
  BY SweepQueueAssumption DEF TypeOK
<1>2. "ended" \in Status
  BY DEF Status
<1>3. /\ EndedRow(t) \in Row
      /\ EndedRow(t).updated = now /\ EndedRow(t).status = "ended"
  BY <1>1, <1>2 DEF EndedRow, Row
<1>4. RetryRow(t) \in Row
  BY <1>1, SweepQueueAssumption DEF RetryRow, Row, Status
<1> QED BY <1>1, <1>2, <1>3, <1>4 DEF RetryRow

\* A row is written: it stays a row, and shows the time.
WritesRow(t) == \E row \in Row : Write(t, row) /\ row.updated = now

\* Workers write the row of one task and leave the sweep alone.
LEMMA WorkerWrites ==
    ASSUME TypeOK, NEW t \in Task,
           (\E w \in Worker : LeaseTask(t, w)) \/ RenewLease(t) \/ ReportTask(t)
    PROVE  UNCHANGED sweep /\ WritesRow(t)
<1>1. rows[t] \in Row /\ now \in Nat /\ now + LeaseTTL \in Nat
  BY SweepQueueAssumption DEF TypeOK
<1>2. ASSUME NEW w \in Worker, LeaseTask(t, w) PROVE UNCHANGED sweep /\ WritesRow(t)
  <2>1. "leased" \in Status
    BY DEF Status
  <2> DEFINE row == [rows[t] EXCEPT !.status = "leased", !.owner = w,
                                    !.deadline = now + LeaseTTL, !.updated = now]
  <2>2. row \in Row /\ row.updated = now
    BY <1>1, <2>1 DEF Row
  <2>3. Write(t, row) /\ UNCHANGED sweep
    BY <1>2 DEF LeaseTask
  <2> QED BY <2>2, <2>3 DEF WritesRow
<1>3. CASE RenewLease(t)
  <2> DEFINE row == [rows[t] EXCEPT !.deadline = now + LeaseTTL, !.updated = now]
  <2>1. row \in Row /\ row.updated = now
    BY <1>1 DEF Row
  <2>2. Write(t, row) /\ UNCHANGED sweep
    BY <1>3 DEF RenewLease
  <2> QED BY <2>1, <2>2 DEF WritesRow
<1>4. CASE ReportTask(t)
  BY <1>4, NewRows DEF ReportTask, FailTask, WritesRow
<1> QED BY <1>2, <1>3, <1>4

\* What becomes of a task on the list, and of a lease that was found.
LEMMA HandleWrites ==
    ASSUME TypeOK, NEW t \in Task, Handle(t)
    PROVE  /\ sweep' \in [phase : Phase, todo : SUBSET Task, found : Found]
           /\ UNCHANGED <<now, rows>> \/ WritesRow(t)
<1>1. sweep \in [phase : Phase, todo : SUBSET Task, found : Found]
  BY DEF TypeOK
<1>2. NoneFound \in Found
  BY DEF NoneFound, Found
<1>3. CASE LoadFails(t)
  BY <1>1, <1>3 DEF LoadFails, AfterError
<1>4. CASE FireTimer(t)
  BY <1>1, <1>4, NewRows DEF FireTimer, WritesRow
<1>5. CASE RecoverExpiredLease(t)
  <2>1. [task |-> t, owner |-> rows[t].owner, deadline |-> rows[t].deadline, at |-> now] \in Found
    BY NewRows DEF Found, Row
  <2>2. sweep'.found \in Found /\ sweep' = [sweep EXCEPT !.todo = @ \ {t}, !.found = sweep'.found]
    BY <1>1, <1>2, <1>5, <2>1 DEF RecoverExpiredLease
  <2>3. UNCHANGED <<now, rows>>
    BY <1>5 DEF RecoverExpiredLease
  <2> QED BY <1>1, <2>2, <2>3
<1>6. CASE FailExpiredLease(t)
  BY <1>1, <1>2, <1>6, NewRows DEF FailExpiredLease, FailTask, WritesRow
<1> QED BY <1>3, <1>4, <1>5, <1>6 DEF Handle

(***************************************************************************)
(* Every variable keeps its type: the rows stay rows that some query finds *)
(* or that have ended, and a sweep lists and finds tasks only.             *)
(***************************************************************************)
THEOREM SweepTypeCorrect == Spec => []TypeOK
<1>0. NoSweep \in [phase : Phase, todo : SUBSET Task, found : Found]
  BY DEF NoSweep, NoneFound, Found, Phase
<1>1. Init => TypeOK
  <2> SUFFICES ASSUME Init PROVE TypeOK
    OBVIOUS
  <2>1. \A t \in Task : rows[t] \in Row
    BY SweepQueueAssumption DEF Init, Row, Status
  <2>2. now \in 0..Horizon /\ rows \in [Task -> Row]
    BY <2>1, SweepQueueAssumption DEF Init
  <2> QED BY <1>0, <2>2 DEF TypeOK, Init
<1>2. TypeOK /\ [Next]_vars => TypeOK'
  <2> SUFFICES ASSUME TypeOK, [Next]_vars PROVE TypeOK'
    OBVIOUS
  <2>1. ASSUME NEW t \in Task,
               (\E w \in Worker : LeaseTask(t, w)) \/ RenewLease(t) \/ ReportTask(t)
        PROVE  TypeOK'
    BY <2>1, WorkerWrites, WriteType DEF TypeOK, WritesRow
  <2>2. CASE Tick
    BY <2>2, SweepQueueAssumption DEF Tick, TypeOK
  <2>3. CASE AvailableTimers \/ ExpiredLeases
    <3>1. Timers \subseteq Task /\ Leases \subseteq Task
      BY SweepQueueAssumption DEF Timers, Leases
    <3>2. \E to \in Phase, L \in SUBSET Task : sweep' = [phase |-> to, todo |-> L, found |-> NoneFound]
      BY <2>3, <3>1 DEF AvailableTimers, ExpiredLeases, List, Phase
    <3>3. UNCHANGED <<now, rows>>
      BY <2>3 DEF AvailableTimers, ExpiredLeases, List
    <3>4. NoneFound \in Found
      BY DEF NoneFound, Found
    <3> QED BY <3>2, <3>3, <3>4 DEF TypeOK
  <2>4. CASE SweepReturns
    BY <1>0, <2>4 DEF SweepReturns, TypeOK
  <2>5. ASSUME NEW t \in Task, Handle(t) PROVE TypeOK'
    BY <2>5, HandleWrites, WriteType DEF TypeOK, WritesRow
  <2>6. CASE UNCHANGED vars
    BY <2>6 DEF vars, TypeOK
  <2> QED BY <2>1, <2>2, <2>3, <2>4, <2>5, <2>6 DEF Next
<1> QED BY <1>1, <1>2, PTL DEF Spec

-----------------------------------------------------------------------------
(***************************************************************************)
(* The lease that a sweep loaded has the deadline that was loaded, unless  *)
(* its row was written since.                                              *)
(***************************************************************************)
AsLoaded(t) ==
    rows[t].deadline = sweep.found.deadline \/ rows[t].updated >= sweep.found.at

FoundIsAsLoaded ==
    sweep.found # NoneFound =>
        /\ sweep.found.task \in Task
        /\ sweep.found.at <= now
        /\ AsLoaded(sweep.found.task)

\* Time and writes keep what was found as it was found, or show it as written.
LEMMA FoundStays ==
    ASSUME TypeOK, FoundIsAsLoaded, sweep'.found = sweep.found, now' = now,
           rows' = rows \/ \E t \in Task : WritesRow(t)
    PROVE  FoundIsAsLoaded'
<1> SUFFICES ASSUME sweep.found # NoneFound
             PROVE  /\ sweep.found.task \in Task
                    /\ sweep.found.at <= now
                    /\ \/ rows'[sweep.found.task].deadline = sweep.found.deadline
                       \/ rows'[sweep.found.task].updated >= sweep.found.at
  BY DEF FoundIsAsLoaded, AsLoaded
<1>1. CASE rows' = rows
  BY <1>1 DEF FoundIsAsLoaded, AsLoaded
<1>2. ASSUME NEW t \in Task, WritesRow(t)
      PROVE  rows'[sweep.found.task] = rows[sweep.found.task]
             \/ rows'[sweep.found.task].updated = now
  BY <1>2 DEF WritesRow, Write, TypeOK
<1>3. sweep.found.at \in Nat /\ now \in Nat
  BY SweepQueueAssumption DEF TypeOK, Found
<1> QED BY <1>1, <1>2, <1>3 DEF FoundIsAsLoaded, AsLoaded

LEMMA FoundIsAsLoadedStep ==
    ASSUME TypeOK, FoundIsAsLoaded, [Next]_vars
    PROVE  FoundIsAsLoaded'
<1>1. ASSUME NEW t \in Task,
             (\E w \in Worker : LeaseTask(t, w)) \/ RenewLease(t) \/ ReportTask(t)
      PROVE  FoundIsAsLoaded'
  <2>1. UNCHANGED sweep /\ WritesRow(t)
    BY <1>1, WorkerWrites
  <2> QED BY <2>1, FoundStays DEF WritesRow, Write
<1>2. CASE Tick
  <2>1. now' = now + 1 /\ now \in Nat /\ sweep.found.at \in Nat
    BY <1>2, SweepQueueAssumption DEF Tick, TypeOK, Found
  <2> QED BY <1>2, <2>1 DEF Tick, FoundIsAsLoaded, AsLoaded
<1>3. CASE AvailableTimers \/ ExpiredLeases \/ SweepReturns
  <2>1. sweep'.found = NoneFound
    BY <1>3 DEF AvailableTimers, ExpiredLeases, List, SweepReturns, NoSweep
  <2> QED BY <2>1 DEF FoundIsAsLoaded
<1>4. ASSUME NEW t \in Task, LoadFails(t) \/ FireTimer(t) PROVE FoundIsAsLoaded'
  <2>1. sweep'.found = sweep.found
    BY <1>4 DEF LoadFails, AfterError, FireTimer, TypeOK
  <2>2. UNCHANGED <<now, rows>> \/ WritesRow(t)
    BY <1>4, HandleWrites DEF Handle
  <2> QED BY <2>1, <2>2, FoundStays DEF WritesRow, Write
<1>5. ASSUME NEW t \in Task, RecoverExpiredLease(t) PROVE FoundIsAsLoaded'
  <2> SUFFICES ASSUME sweep'.found # NoneFound PROVE FoundIsAsLoaded'
    BY DEF FoundIsAsLoaded
  <2>1. sweep'.found = [task |-> t, owner |-> rows[t].owner,
                        deadline |-> rows[t].deadline, at |-> now]
    BY <1>5 DEF RecoverExpiredLease, TypeOK
  <2>2. rows' = rows /\ now' = now /\ now \in Nat
    BY <1>5, SweepQueueAssumption DEF RecoverExpiredLease, TypeOK
  <2> QED BY <2>1, <2>2 DEF FoundIsAsLoaded, AsLoaded
<1>6. ASSUME NEW t \in Task, FailExpiredLease(t) PROVE FoundIsAsLoaded'
  BY <1>6 DEF FailExpiredLease, TypeOK, FoundIsAsLoaded
<1>7. CASE UNCHANGED vars
  BY <1>7 DEF vars, FoundIsAsLoaded, AsLoaded
<1> QED BY <1>1, <1>2, <1>3, <1>4, <1>5, <1>6, <1>7 DEF Next, Handle

(***************************************************************************)
(* Whatever a list says, a sweep looks at the deadline itself, and ends    *)
(* only what is overdue; but it looks at the deadline of a lease as it was *)
(* when loaded, so that a renewal since then is lost.                      *)
(***************************************************************************)
THEOREM SweepsEndWhatWasOverdue == Spec => SweptWasOverdue
<1> DEFINE Swept ==
             \A t \in Task : rows'[t] # rows[t] =>
                /\ t \in sweep.todo \ sweep'.todo => rows[t].deadline <= now
                /\ sweep.found # sweep'.found =>
                     /\ rows[t].owner = sweep.found.owner
                     /\ rows[t].deadline <= now \/ rows[t].updated >= sweep.found.at
<1>1. TypeOK /\ FoundIsAsLoaded /\ [Next]_vars => [Swept]_vars
  <2> SUFFICES ASSUME TypeOK, FoundIsAsLoaded, Next PROVE Swept
    OBVIOUS
  <2>1. ASSUME NEW t \in Task,
               (\E w \in Worker : LeaseTask(t, w)) \/ RenewLease(t) \/ ReportTask(t)
        PROVE  Swept
    BY <2>1, WorkerWrites
  <2>2. CASE Tick \/ AvailableTimers \/ ExpiredLeases \/ SweepReturns
    BY <2>2 DEF Tick, AvailableTimers, ExpiredLeases, List, SweepReturns
  <2>3. ASSUME NEW t \in Task, LoadFails(t) \/ RecoverExpiredLease(t) PROVE Swept
    BY <2>3 DEF LoadFails, RecoverExpiredLease
  <2>4. ASSUME NEW t \in Task, FireTimer(t) PROVE Swept
    <3>1. sweep'.found = sweep.found
      BY <2>4 DEF FireTimer, TypeOK
    <3>2. \A u \in Task : rows'[u] # rows[u] => u = t /\ Due(rows[t].deadline)
      BY <2>4 DEF FireTimer, Write, TypeOK
    <3> QED BY <3>1, <3>2 DEF Due
  <2>5. ASSUME NEW t \in Task, FailExpiredLease(t) PROVE Swept
    <3>1. sweep'.todo = sweep.todo
      BY <2>5 DEF FailExpiredLease, TypeOK
    <3>2. \A u \in Task : rows'[u] # rows[u] => /\ u = t
                                               /\ Due(sweep.found.deadline)
                                               /\ rows[t].owner = sweep.found.owner
      BY <2>5 DEF FailExpiredLease, FailTask, Write, TypeOK
    <3>3. AsLoaded(t)
      BY <2>5, SweepQueueAssumption DEF FailExpiredLease, FoundIsAsLoaded, NoneFound
    <3> QED BY <3>1, <3>2, <3>3 DEF AsLoaded, Due
  <2> QED BY <2>1, <2>2, <2>3, <2>4, <2>5 DEF Next, Handle
<1>2. Init => FoundIsAsLoaded
  BY DEF Init, NoSweep, FoundIsAsLoaded
<1>3. TypeOK /\ FoundIsAsLoaded /\ [Next]_vars => FoundIsAsLoaded'
  BY FoundIsAsLoadedStep
<1>4. Spec => [][Swept]_vars
  BY <1>1, <1>2, <1>3, SweepTypeCorrect, PTL DEF Spec
<1> QED BY <1>4 DEF SweptWasOverdue

-----------------------------------------------------------------------------
(***************************************************************************)
(* The text of a time is right to the second.                              *)
(***************************************************************************)
LEMMA DivFacts ==
    ASSUME NEW n \in Nat, NEW s \in Nat \ {0}
    PROVE  /\ n \div s \in Nat
           /\ (n \div s) * s <= n
           /\ n < (n \div s) * s + s
<1>1. n \div s \in Nat /\ n % s \in 0..(s - 1)
  OBVIOUS
<1>2. n = s * (n \div s) + (n % s)
  OBVIOUS
<1> QED BY <1>1, <1>2

LEMMA TextIsRightToTheSecond ==
    ASSUME NEW m \in Nat, NEW n \in Nat, TextAtMost(m, n)
    PROVE  m < n + Second
<1> DEFINE s == Second
           a == m \div s
           b == n \div s
<1>1. s \in Nat \ {0}
  BY SecondIsPositive
<1>2. a \in Nat /\ m < a * s + s
  BY <1>1, DivFacts
<1>3. b \in Nat /\ b * s <= n
  BY <1>1, DivFacts
<1>4. m = n \/ a <= b
  BY <1>2, <1>3 DEF TextAtMost, TextBefore
<1> HIDE DEF a, b, s
<1>5. CASE m = n
  BY <1>1, <1>5 DEF s
<1>6. CASE a <= b
  <2>1. a * s <= b * s
    <3>1. PICK k \in Nat : b = a + k
      BY <1>2, <1>3, <1>6
    <3>2. b * s = a * s + k * s /\ k * s \in Nat /\ a * s \in Nat
      BY <1>1, <1>2, <3>1
    <3> QED BY <3>2
  <2>2. a * s \in Nat /\ b * s \in Nat
    BY <1>1, <1>2, <1>3
  <2> QED BY <1>1, <1>2, <1>3, <2>1, <2>2 DEF s
<1> QED BY <1>4, <1>5, <1>6

(***************************************************************************)
(* A retry is handed out less than a second before its backoff is over,    *)
(* however many digits the fraction has and whatever their base.           *)
(***************************************************************************)
THEOREM LeasesAreLessThanASecondEarly == Spec => LeasedEarlyBySubsecond
<1> DEFINE Early == \A t \in Task : rows[t].status = "available" /\ rows'[t].status = "leased"
                                       => rows[t].deadline < now + Second
<1>1. TypeOK /\ [Next]_vars => [Early]_vars
  <2> SUFFICES ASSUME TypeOK, Next, NEW u \in Task,
                      rows[u].status = "available", rows'[u].status = "leased"
               PROVE  rows[u].deadline < now + Second
    OBVIOUS
  <2>1. ASSUME NEW t \in Task, NEW w \in Worker, LeaseTask(t, w)
        PROVE  rows[u].deadline < now + Second
    <3>1. u = t
      BY <2>1 DEF LeaseTask, Write, TypeOK
    <3>2. TextAtMost(rows[u].deadline, now)
      BY <2>1, <3>1 DEF LeaseTask, Leasable
    <3>3. rows[u].deadline \in Nat /\ now \in Nat
      BY SweepQueueAssumption DEF TypeOK, Row
    <3> QED BY <3>2, <3>3, TextIsRightToTheSecond
  <2>2. ASSUME NEW t \in Task, RenewLease(t) \/ ReportTask(t) PROVE FALSE
    <3>1. rows[t].status = "leased"
      BY <2>2 DEF RenewLease, ReportTask
    <3>2. \A v \in Task \ {t} : rows'[v] = rows[v]
      BY <2>2 DEF RenewLease, ReportTask, FailTask, Write, TypeOK
    <3> QED BY <3>1, <3>2
  <2>3. CASE Tick \/ AvailableTimers \/ ExpiredLeases \/ SweepReturns
    BY <2>3 DEF Tick, AvailableTimers, ExpiredLeases, List, SweepReturns
  <2>4. ASSUME NEW t \in Task, Handle(t) PROVE FALSE
    <3>1. rows'[u] = rows[u] \/ rows'[u] = EndedRow(u) \/ rows'[u] = RetryRow(u)
      BY <2>4 DEF Handle, LoadFails, FireTimer, RecoverExpiredLease, FailExpiredLease,
                  FailTask, Write, TypeOK
    <3> QED BY <3>1, NewRows
  <2> QED BY <2>1, <2>2, <2>3, <2>4 DEF Next
<1>2. Spec => [][Early]_vars
  BY <1>1, SweepTypeCorrect, PTL DEF Spec
<1> QED BY <1>2 DEF LeasedEarlyBySubsecond

\* A full list is longer than Poison, and one that is not full holds everything.
LEMMA ListingLeavesRoom ==
    ASSUME NEW S \in SUBSET Task, NEW L, IsListing(L, S),
           Cardinality(Poison) < Limit, S \ Poison # {}
    PROVE  L \ Poison # {}
<1> SUFFICES ASSUME L \subseteq Poison PROVE FALSE
  OBVIOUS
<1>1. IsFiniteSet(S) /\ IsFiniteSet(Poison)
  BY FS_Subset, SweepQueueAssumption
<1>2. Cardinality(L) <= Cardinality(Poison)
  BY <1>1, FS_Subset
<1>3. L \subseteq S /\ L # S
  BY DEF IsListing
<1>4. IsFiniteSet(L) /\ Cardinality(L) < Cardinality(S)
  BY <1>1, <1>3, FS_Subset, FS_CardinalityType
<1>5. Cardinality(L) = Limit
  BY <1>4, <1>1, FS_CardinalityType DEF IsListing
<1> QED BY <1>1, <1>2, <1>5, FS_CardinalityType, SweepQueueAssumption

(***************************************************************************)
(* Tasks that cannot be loaded, though they head every list, do not keep   *)
(* the others out of it while they are fewer than the limit of a sweep.    *)
(***************************************************************************)
THEOREM PoisonDoesNotStarve == Spec => PoisonLeavesRoom
<1> DEFINE due(phase) == IF phase = "timers" THEN Timers ELSE Leases
           Room == \A phase \in {"timers", "leases"} :
                      /\ sweep'.phase = phase /\ sweep.phase # phase
                      /\ Cardinality(Poison) < Limit
                      /\ due(phase) \ Poison # {}
                      => sweep'.todo \ Poison # {}
<1>1. TypeOK /\ [Next]_vars => [Room]_vars
  <2> SUFFICES ASSUME TypeOK, Next, NEW phase \in {"timers", "leases"},
                      sweep'.phase = phase, sweep.phase # phase,
                      Cardinality(Poison) < Limit, due(phase) \ Poison # {}
               PROVE  sweep'.todo \ Poison # {}
    OBVIOUS
  <2>1. Timers \in SUBSET Task /\ Leases \in SUBSET Task
    BY SweepQueueAssumption DEF Timers, Leases
  <2>2. CASE AvailableTimers
    <3>1. PICK L \in SUBSET Timers : /\ IsListing(L, Timers)
                                     /\ sweep'.phase = "timers" /\ sweep'.todo = L
      BY <2>2 DEF AvailableTimers, List
    <3> QED BY <2>1, <3>1, ListingLeavesRoom
  <2>3. CASE ExpiredLeases
    <3>1. PICK L \in SUBSET Leases : /\ IsListing(L, Leases)
                                     /\ sweep'.phase = "leases" /\ sweep'.todo = L
      BY <2>3 DEF ExpiredLeases, List
    <3> QED BY <2>1, <3>1, ListingLeavesRoom
  <2>4. CASE Tick \/ SweepReturns
    BY <2>4 DEF Tick, SweepReturns, NoSweep
  <2>5. ASSUME NEW t \in Task,
               (\E w \in Worker : LeaseTask(t, w)) \/ RenewLease(t) \/ ReportTask(t)
        PROVE  FALSE
    BY <2>5, WorkerWrites
  <2>6. ASSUME NEW t \in Task, Handle(t) PROVE FALSE
    <3>1. sweep'.phase = sweep.phase
      BY <2>6 DEF Handle, LoadFails, AfterError, FireTimer, RecoverExpiredLease,
                  FailExpiredLease, TypeOK
    <3> QED BY <3>1
  <2> QED BY <2>2, <2>3, <2>4, <2>5, <2>6 DEF Next
<1>2. Spec => [][Room]_vars
  BY <1>1, SweepTypeCorrect, PTL DEF Spec
<1> QED BY <1>2 DEF PoisonLeavesRoom
=============================================================================
