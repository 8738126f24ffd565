------------------------------ MODULE SweepQueue ------------------------------
(***************************************************************************)
(* Deadlines in the SQLite store, and the maintenance loop that acts on    *)
(* them: the tasks of many runs, a clock, and sweeps of limited length.    *)
(*                                                                         *)
(* Times are stored as RFC3339Nano text, whose fraction drops its trailing *)
(* zeros, and queries compare that text.  Times are natural numbers here,  *)
(* Base^Digits to the second.                                              *)
(***************************************************************************)
EXTENDS Naturals, FiniteSets

CONSTANTS
    Task,      \* the tasks in the store, of any run
    Timer,     \* those of kind "timer"
    Poison,    \* those whose run cannot be loaded: its workflow is not registered
    Worker,    \* worker ids
    None,      \* no worker, and no task
    Limit,     \* how many timers, and how many leases, one sweep takes: 32
    Attempts,  \* the attempts of every activity task
    LeaseTTL,  \* how long a lease lasts
    Delay,     \* how long a timer and a retry wait
    Base,      \* the values of a digit of the fraction: 10 in the code
    Digits,    \* how many digits the fraction has at most: 9 in the code
    Horizon    \* bound of the model: the clock stops there, at a full second

Second == Base^Digits

ASSUME SweepQueueAssumption ==
    /\ IsFiniteSet(Task)
    /\ Timer \subseteq Task /\ Poison \subseteq Task
    /\ None \notin Worker /\ None \notin Task
    /\ Limit \in Nat /\ Attempts \in Nat /\ LeaseTTL \in Nat /\ Delay \in Nat
    /\ Base \in Nat \ {0, 1} /\ Digits \in Nat \ {0}
    /\ Horizon \in Nat /\ Horizon % Second = 0

\* It follows, but the provers know nothing of powers.
ASSUME SecondIsPositive == Second \in Nat \ {0}

VARIABLES
    now,    \* the clock
    rows,   \* rows[t]: status, attempt, owner, the deadline that counts, last update
    sweep   \* the sweep under way: its phase, the tasks it still has to do, and the
            \* lease that it has loaded and may be about to fail

vars == <<now, rows, sweep>>

Status == {"available", "leased", "ended"}

Row == [status : Status, attempt : Nat, owner : Worker \cup {None},
        deadline : Nat, updated : Nat]

Phase == {"none", "timers", "leases"}

\* A lease as it was loaded, and when: at is kept for the properties only.
Found == [task : Task \cup {None}, owner : Worker \cup {None}, deadline : Nat, at : Nat]

NoneFound == [task |-> None, owner |-> None, deadline |-> 0, at |-> 0]

NoSweep == [phase |-> "none", todo |-> {}, found |-> NoneFound]

(***************************************************************************)
(* The text of a time: the date and time to the second have a fixed width, *)
(* then come the digits of the fraction up to the last one that is not     *)
(* zero, then "Z", which sorts after "." and after every digit.            *)
(***************************************************************************)
Digit(n, i) == (n \div Base^(Digits - i)) % Base

Shown(n) ==
    CHOOSE k \in 0..Digits :
        /\ n % Base^(Digits - k) = 0
        /\ \A j \in 0..Digits : n % Base^(Digits - j) = 0 => k <= j

FractionBefore(m, n) ==
    \E i \in 1..Shown(m) :
        /\ \A j \in 1..(i - 1) : j <= Shown(n) /\ Digit(m, j) = Digit(n, j)
        /\ i > Shown(n) \/ Digit(m, i) < Digit(n, i)

\* Fault: the text has no seconds.
TextBeforeUnpadded(m, n) == FractionBefore(m, n)

TextBefore(m, n) ==
    \/ m \div Second < n \div Second
    \/ m \div Second = n \div Second /\ FractionBefore(m, n)

TextAtMost(m, n) == m = n \/ TextBefore(m, n)

-----------------------------------------------------------------------------
(***************************************************************************)
(* Workers, seen from the store.                                           *)
(***************************************************************************)
Init ==
    /\ now = 0
    /\ rows = [t \in Task |->
                 [status |-> "available", attempt |-> 1, owner |-> None, updated |-> 0,
                  deadline |-> IF t \in Timer THEN Delay ELSE 0]]
    /\ sweep = NoSweep

Write(t, row) == rows' = [rows EXCEPT ![t] = row] /\ UNCHANGED now

EndedRow(t) == [rows[t] EXCEPT !.status = "ended", !.owner = None, !.updated = now]

RetryRow(t) ==
    [status |-> "available", attempt |-> rows[t].attempt + 1, owner |-> None,
     deadline |-> now + Delay, updated |-> now]

\* What the engine makes of a retryable failure.
FailTask(t) == Write(t, IF rows[t].attempt < Attempts THEN RetryRow(t) ELSE EndedRow(t))

Leasable == {t \in Task \ Timer : /\ rows[t].status = "available"
                                  /\ TextAtMost(rows[t].deadline, now)}

\* The one that has been available for longest, as the text has it.
LeaseTask(t, w) ==
    /\ t \in Leasable
    /\ \A u \in Leasable : ~TextBefore(rows[u].deadline, rows[t].deadline)
    /\ Write(t, [rows[t] EXCEPT !.status = "leased", !.owner = w,
                                !.deadline = now + LeaseTTL, !.updated = now])
    /\ UNCHANGED sweep

RenewLease(t) ==
    /\ rows[t].status = "leased"
    /\ Write(t, [rows[t] EXCEPT !.deadline = now + LeaseTTL, !.updated = now])
    /\ UNCHANGED sweep

\* The owner reports, on a task whose run can be loaded: the task ends, or failed
\* and is tried again.
ReportTask(t) ==
    /\ rows[t].status = "leased"
    /\ t \notin Poison
    /\ Write(t, EndedRow(t)) \/ FailTask(t)
    /\ UNCHANGED sweep

Tick ==
    /\ now < Horizon
    /\ now' = now + 1
    /\ UNCHANGED <<rows, sweep>>

(***************************************************************************)
(* Sweep: first the timers that are due, then the leases that expired, as  *)
(* the text has it, oldest update first and at most Limit of each.  What   *)
(* was listed is loaded again when its turn comes, and the deadline looked *)
(* at by the clock.  A timer fires on that load, while its row is still as *)
(* loaded.  A lease is failed on another load, which looks at the status   *)
(* and the owner only.  A task that cannot be loaded is logged and stays   *)
(* as it was.                                                              *)
(***************************************************************************)
Timers == {t \in Timer : /\ rows[t].status = "available"
                         /\ TextAtMost(rows[t].deadline, now)}

Leases == {t \in Task : /\ rows[t].status = "leased"
                        /\ TextAtMost(rows[t].deadline, now)}

\* ORDER BY updated_at LIMIT
IsListing(L, S) ==
    /\ L \subseteq S
    /\ Cardinality(L) = IF Cardinality(S) < Limit THEN Cardinality(S) ELSE Limit
    /\ \A t \in L, u \in S \ L : ~TextBefore(rows[u].updated, rows[t].updated)

List(from, to, S) ==
    /\ sweep.phase = from
    /\ sweep.todo = {} /\ sweep.found = NoneFound
    /\ \E L \in SUBSET S :
         IsListing(L, S) /\ sweep' = [phase |-> to, todo |-> L, found |-> NoneFound]
    /\ UNCHANGED <<now, rows>>

AvailableTimers == List("none", "timers", Timers)

ExpiredLeases == List("timers", "leases", Leases)

SweepReturns ==
    /\ sweep.phase = "leases"
    /\ sweep.todo = {} /\ sweep.found = NoneFound
    /\ sweep' = NoSweep
    /\ UNCHANGED <<now, rows>>

\* Fault: the sweep trusts its list.
DueWhenListed(deadline) == TRUE

Due(deadline) == deadline <= now

\* Fault: the first error ends the sweep.
AbortSweep(t) == NoSweep

AfterError(t) == [sweep EXCEPT !.todo = @ \ {t}]

\* The sweep comes to t on its list.
Turn(t) == t \in sweep.todo /\ sweep.found = NoneFound

LoadFails(t) ==
    /\ Turn(t)
    /\ t \in Poison
    /\ sweep' = AfterError(t)
    /\ UNCHANGED <<now, rows>>

\* Fault: a fired timer gets a status that no query knows.
FireTimerUnknown(t) ==
    /\ Turn(t) /\ sweep.phase = "timers"
    /\ t \notin Poison
    /\ sweep' = [sweep EXCEPT !.todo = @ \ {t}]
    /\ Write(t, [rows[t] EXCEPT !.status = "fired", !.updated = now])

FireTimer(t) ==
    /\ Turn(t) /\ sweep.phase = "timers"
    /\ t \notin Poison
    /\ sweep' = [sweep EXCEPT !.todo = @ \ {t}]
    /\ IF rows[t].status = "available" /\ Due(rows[t].deadline)
         THEN Write(t, EndedRow(t))
         ELSE UNCHANGED <<now, rows>>

\* The load of RecoverExpiredLease.
RecoverExpiredLease(t) ==
    /\ Turn(t) /\ sweep.phase = "leases"
    /\ t \notin Poison
    /\ sweep' = [sweep EXCEPT
                    !.todo = @ \ {t},
                    !.found = IF rows[t].status = "leased"
                                THEN [task |-> t, owner |-> rows[t].owner,
                                      deadline |-> rows[t].deadline, at |-> now]
                                ELSE NoneFound]
    /\ UNCHANGED <<now, rows>>

\* Its look at the clock, and the FailTask that it calls in the name of the owner
\* it loaded.  A deadline that has passed stays passed, so that the clock may be
\* read as late as the load of FailTask.
FailExpiredLease(t) ==
    /\ sweep.found.task = t
    /\ sweep' = [sweep EXCEPT !.found = NoneFound]
    /\ IF /\ Due(sweep.found.deadline)
          /\ rows[t].status = "leased" /\ rows[t].owner = sweep.found.owner
         THEN FailTask(t)
         ELSE UNCHANGED <<now, rows>>

Handle(t) ==
    \/ LoadFails(t)
    \/ FireTimer(t)
    \/ RecoverExpiredLease(t) \/ FailExpiredLease(t)

Next ==
    \/ \E t \in Task : \/ \E w \in Worker : LeaseTask(t, w)
                      \/ RenewLease(t)
                      \/ ReportTask(t)
    \/ Tick
    \/ AvailableTimers \/ ExpiredLeases \/ SweepReturns
    \/ \E t \in Task : Handle(t)

Spec == Init /\ [][Next]_vars

\* The ticker starts a sweep again and again, a sweep goes through its lists,
\* and time passes.  Nobody has to lease, to renew or to report.
Fairness ==
    /\ WF_vars(AvailableTimers) /\ WF_vars(ExpiredLeases) /\ WF_vars(SweepReturns)
    /\ WF_vars(\E t \in Task : Handle(t))
    /\ WF_vars(Tick)

FairSpec == Spec /\ Fairness

-----------------------------------------------------------------------------
(* Every variable keeps its type. *)
TypeOK ==
    /\ now \in 0..Horizon
    /\ rows \in [Task -> Row]
    /\ sweep \in [phase : Phase, todo : SUBSET Task, found : Found]

(***************************************************************************)
(* A sweep ends nothing that was not overdue when it looked.  No timer     *)
(* fires before its delay is over, although the text that the lists are    *)
(* made by may call a deadline past when it is not.  A lease is failed     *)
(* before its deadline only if its row was written since the sweep loaded  *)
(* it: a heartbeat that came before that load saves the lease, one that    *)
(* comes between it and the load that fails does not.  And it is failed in *)
(* the name of its owner: a worker with another id keeps the lease that it *)
(* has got meanwhile.                                                      *)
(***************************************************************************)
SweptWasOverdue ==
    [][\A t \in Task : rows'[t] # rows[t] =>
          /\ t \in sweep.todo \ sweep'.todo => rows[t].deadline <= now
          /\ sweep.found # sweep'.found =>
               /\ rows[t].owner = sweep.found.owner
               /\ rows[t].deadline <= now \/ rows[t].updated >= sweep.found.at]_vars

(***************************************************************************)
(* A lease has no second look, so a retry may be handed out before its     *)
(* backoff is over, but less than a second before.                         *)
(***************************************************************************)
LeasedEarlyBySubsecond ==
    [][\A t \in Task : rows[t].status = "available" /\ rows'[t].status = "leased"
                          => rows[t].deadline < now + Second]_vars

(***************************************************************************)
(* Tasks that cannot be loaded stay in the store, ever older, and come     *)
(* first in every list, but when they are fewer than a sweep takes they    *)
(* leave room: a list holds a task that can be loaded if any such is due.  *)
(***************************************************************************)
PoisonLeavesRoom ==
    [][\A phase \in {"timers", "leases"} :
          LET due == IF phase = "timers" THEN Timers ELSE Leases
          IN  /\ sweep'.phase = phase /\ sweep.phase # phase
              /\ Cardinality(Poison) < Limit
              /\ due \ Poison # {}
              => sweep'.todo \ Poison # {}]_vars

(***************************************************************************)
(* A timer that is due is fired and a lease that has expired is recovered, *)
(* unless it is renewed, reported or handed out anew, as long as the tasks *)
(* that cannot be loaded are fewer than a sweep takes: they stay in the    *)
(* store, ever older, and come first in every list.                        *)
(***************************************************************************)
Overdue(t) ==
    /\ rows[t].status = "leased" \/ (t \in Timer /\ rows[t].status = "available")
    /\ rows[t].deadline <= now

OverdueAreSwept == \A t \in Task \ Poison : Overdue(t) ~> ~Overdue(t)
=============================================================================
