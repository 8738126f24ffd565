--------------------------- MODULE OptimisticEngine ---------------------------
(***************************************************************************)
(* The commands of RunEngine as the service really makes them: a command   *)
(* reads the run row, then reads and replays the history, decides, and     *)
(* hands its batch to the store, which takes it only if the version of the *)
(* run is still the one that was read first.  A command that lost the race *)
(* starts over, MaxTries times at most.  In between anybody else may       *)
(* commit, and the process may stop.                                       *)
(*                                                                         *)
(* A transaction of the store is one step: SQLite has one connection.      *)
(* The third read of a load, ListTasks, comes after the history and only   *)
(* supplies columns that never change, so it is no step of its own.        *)
(***************************************************************************)
EXTENDS RunEngine

CONSTANTS
    Client,     \* goroutines that call the service: pool slots, API handlers
    Sweeper,    \* the maintenance loop
    MaxTries    \* the tries of withOptimisticRetry: 5 in the code

ASSUME OptimisticAssumption == Sweeper \notin Client /\ MaxTries \in Nat \ {0}

VARIABLES
    version,    \* the version column of the run row
    calls       \* calls[c]: the call that c is in, and what it has read so far

optimisticVars == <<vars, version, calls>>

Caller == Client \cup {Sweeper}

Op == {"complete", "fail", "cancel", "fire", "recover", "expire"}

\* "expire" is the FailTask that RecoverExpiredLease makes after its own load.
Request(op, t, w, retryable) ==
    [op |-> op, task |-> t, worker |-> w, retryable |-> retryable]

NoRequest == [op |-> "none", task |-> None, worker |-> None, retryable |-> FALSE]

NoRow == [status |-> "none", failure |-> None]

\* A call that is about to read the run row, for the n-th time.
Start(request, n) ==
    [pc |-> "run", request |-> request, tries |-> n, base |-> 0, seen |-> NoRow,
     length |-> 0, loaded |-> None]

Idle == [Start(NoRequest, 0) EXCEPT !.pc = "idle"]

\* A replay starts from the run row that was read, whose failure survives where
\* no event carries one (ReplayDerivesState is about the same two sources).
ReplayOver(row) ==
    [state EXCEPT !.failure = IF state.logged = None THEN row.failure ELSE state.logged]

\* The early returns of a command.
Accepted(r, row, st) ==
    CASE r.op \in {"complete", "fail", "expire"} -> Holds(st, r.task, r.worker)
      [] r.op = "cancel"  -> ~Terminal(row.status)
      [] r.op = "fire"    -> st.tasks[r.task].status = "available" /\ r.task \in due
      [] r.op = "recover" -> st.tasks[r.task].status = "leased" /\ r.task \in due

Command(r, st) ==
    CASE r.op = "complete" -> CompleteTaskOnce(st, r.task, r.worker)
      [] r.op \in {"fail", "expire"} -> FailTaskOnce(st, r.task, r.worker, r.retryable)
      [] r.op = "cancel"   -> CancelRunOnce(st)
      [] r.op = "fire"     -> FireTimerOnce(st, r.task)

\* What the sweep remembers of an expired lease is gone when its call returns.
SweepAfter(c) == IF c = Sweeper THEN NoSweep ELSE sweep

EndCall(c) ==
    /\ calls' = [calls EXCEPT ![c] = Idle]
    /\ sweep' = SweepAfter(c)

-----------------------------------------------------------------------------
OptimisticInit ==
    /\ Init
    /\ version = Len(history)
    /\ calls = [c \in Caller |-> Idle]

(***************************************************************************)
(* Calls.  A worker reports on a lease that the store gave to its id; by   *)
(* the time its call reads the run the lease may be somebody else's.       *)
(***************************************************************************)
Begin(c, request) ==
    /\ calls[c] = Idle
    /\ calls' = [calls EXCEPT ![c] = Start(request, 0)]
    /\ UNCHANGED <<vars, version>>

Report(c, w, t) ==
    /\ rows[t].status = "leased"
    /\ rows[t].owner = w
    /\ \/ Begin(c, Request("complete", t, w, FALSE))
       \/ \E retryable \in BOOLEAN : Begin(c, Request("fail", t, w, retryable))

Cancel(c) == Begin(c, Request("cancel", None, None, FALSE))

\* Fault: the sweep does not see the leases of compensations.
SweepForward(t) ==
    /\ t \in due
    /\ \/ /\ IsTimer(t)
          /\ rows[t].status = "available"
          /\ Begin(Sweeper, Request("fire", t, None, FALSE))
       \/ /\ IsForward(t)
          /\ rows[t].status = "leased"
          /\ Begin(Sweeper, Request("recover", t, None, TRUE))

\* Sweep goes through what AvailableTimers and ExpiredLeases list.
Sweep(t) ==
    /\ t \in due
    /\ \/ /\ IsTimer(t)
          /\ rows[t].status = "available"
          /\ Begin(Sweeper, Request("fire", t, None, FALSE))
       \/ /\ rows[t].status = "leased"
          /\ Begin(Sweeper, Request("recover", t, None, TRUE))

(***************************************************************************)
(* The load: two reads, with anything in between.                          *)
(***************************************************************************)
LoadRun(c) ==
    /\ calls[c].pc = "run"
    /\ calls' = [calls EXCEPT ![c].pc = "history", ![c].base = version, ![c].seen = run]
    /\ UNCHANGED <<vars, version>>

\* The history is read and replayed.  A refused command returns at once; an
\* expired lease is failed by a command that loads again.
LoadHistory(c) ==
    LET r == calls[c].request
        st == ReplayOver(calls[c].seen)
    IN  /\ calls[c].pc = "history"
        /\ UNCHANGED <<run, rows, history, state, due, version>>
        /\ IF ~Accepted(r, calls[c].seen, st)
             THEN EndCall(c)
           ELSE IF r.op = "recover"
             THEN LET owner == st.tasks[r.task].owner IN
                  /\ calls' = [calls EXCEPT ![c] = Start(Request("expire", r.task, owner, TRUE), 0)]
                  /\ sweep' = [task |-> r.task, owner |-> owner]
             ELSE /\ calls' = [calls EXCEPT ![c].pc = "commit", ![c].loaded = st,
                                            ![c].length = Len(history)]
                  /\ UNCHANGED sweep

(***************************************************************************)
(* The store takes the batch, or refuses it.                               *)
(***************************************************************************)
\* Fault: the row is updated whatever its version.
UnchangedSinceTrusted(c) == calls[c].pc = "commit"

UnchangedSince(c) == calls[c].pc = "commit" /\ version = calls[c].base

Commit(c) ==
    LET cmd == Command(calls[c].request, calls[c].loaded)
    IN  /\ UnchangedSince(c)
        /\ AppendRunChanges(cmd)
        /\ version' = calls[c].length + Len(cmd.events)
        /\ EndCall(c)

\* Fault: the command is made again without being decided again.
ConflictWithoutReload(c) ==
    /\ calls[c].pc = "commit"
    /\ version # calls[c].base
    /\ calls' = [calls EXCEPT ![c].base = version]
    /\ UNCHANGED <<vars, version>>

\* Fault: one try too many.
ConflictOnceMore(c) ==
    LET tried == calls[c].tries + 1
    IN  /\ calls[c].pc = "commit"
        /\ version # calls[c].base
        /\ UNCHANGED <<run, rows, history, state, due, version>>
        /\ IF tried <= MaxTries
             THEN calls' = [calls EXCEPT ![c] = Start(@.request, tried)] /\ UNCHANGED sweep
             ELSE EndCall(c)

Conflict(c) ==
    LET tried == calls[c].tries + 1
    IN  /\ calls[c].pc = "commit"
        /\ version # calls[c].base
        /\ UNCHANGED <<run, rows, history, state, due, version>>
        /\ IF tried < MaxTries
             THEN calls' = [calls EXCEPT ![c] = Start(@.request, tried)] /\ UNCHANGED sweep
             ELSE EndCall(c)

(***************************************************************************)
(* Everybody else.  A lease and a heartbeat number their event after the   *)
(* last one and make that the version of the run.                          *)
(***************************************************************************)
\* Fault: a direct write leaves the version of the run alone.
DirectWriteUnversioned(w, t) ==
    /\ LeaseTask(w, t) \/ HeartbeatTask(w, t)
    /\ UNCHANGED <<version, calls>>

DirectWrite(w, t) ==
    /\ LeaseTask(w, t) \/ HeartbeatTask(w, t)
    /\ version' = Len(history) + 1
    /\ UNCHANGED calls

PassDeadline(t) == Tick(t) /\ UNCHANGED <<version, calls>>

\* The process stops: every call in it is gone.
Stop ==
    /\ \E c \in Caller : calls[c] # Idle
    /\ calls' = [c \in Caller |-> Idle]
    /\ sweep' = NoSweep
    /\ UNCHANGED <<run, rows, history, state, due, version>>

OptimisticNext ==
    \/ \E c \in Client :
         \/ \E w \in Worker, t \in TaskID : Report(c, w, t)
         \/ Cancel(c)
    \/ \E t \in TaskID : Sweep(t) \/ PassDeadline(t)
    \/ \E c \in Caller : LoadRun(c) \/ LoadHistory(c) \/ Commit(c) \/ Conflict(c)
    \/ \E w \in Worker, t \in TaskID : DirectWrite(w, t)
    \/ Stop

OptimisticSpec == OptimisticInit /\ [][OptimisticNext]_optimisticVars

(***************************************************************************)
(* Pools poll, the maintenance loop sweeps, time passes, and a call of the *)
(* sweep that has begun goes on.  The process may stop and start again any *)
(* number of times, in the middle of any call, but not for ever: in the    *)
(* end it stays up.  Nobody is assumed to report, to renew or to cancel.   *)
(* (The last conjunct is Commit as far as the call itself is concerned:    *)
(* the store accepts the batch of a current version.)                      *)
(***************************************************************************)
StaysUp == <>[][~Stop]_optimisticVars

OptimisticFairness ==
    /\ WF_optimisticVars(\E w \in Worker, t \in TaskID : LeaseTask(w, t) /\ DirectWrite(w, t))
    /\ WF_optimisticVars(\E t \in TaskID : Sweep(t))
    /\ WF_optimisticVars(\E t \in TaskID : PassDeadline(t))
    /\ WF_optimisticVars(LoadRun(Sweeper) \/ LoadHistory(Sweeper))
    /\ WF_optimisticVars(Conflict(Sweeper))
    /\ WF_calls(UnchangedSince(Sweeper) /\ EndCall(Sweeper))
    /\ StaysUp

OptimisticFairSpec == OptimisticSpec /\ OptimisticFairness

-----------------------------------------------------------------------------
(***************************************************************************)
(* Properties.                                                             *)
(***************************************************************************)
CallType ==
    [pc : {"idle", "run", "history", "commit"},
     request : [op : Op, task : TaskID \cup {None}, worker : Worker \cup {None},
                retryable : BOOLEAN] \cup {NoRequest},
     tries : 0..(MaxTries - 1), base : Nat,
     seen : [status : RunStatus, failure : Failure] \cup {NoRow},
     length : Nat, loaded : RunState \cup {None}]

\* What the calls in flight have read has the type of what is stored.
OptimisticTypeOK == version \in Nat /\ calls \in [Caller -> CallType]

(***************************************************************************)
(* The version of the run is the number of its events, so the sequence     *)
(* numbers that commands take from the version and those that direct       *)
(* writes take from the history never clash and never leave a gap.         *)
(***************************************************************************)
VersionCountsHistory == version = Len(history)

(***************************************************************************)
(* The two reads of a load may see two versions of the run, and the        *)
(* version check covers only the first.  It is enough: if the version is   *)
(* unchanged when the batch is committed, both reads saw what is there.    *)
(***************************************************************************)
FreshLoadsAreCurrent ==
    \A c \in Caller :
        /\ calls[c].base <= version
        /\ calls[c].pc \in {"history", "commit"} /\ calls[c].base = version
             => calls[c].seen = run
        /\ calls[c].pc = "commit" /\ calls[c].base = version
             => calls[c].loaded = state /\ calls[c].length = Len(history)

(***************************************************************************)
(* The store that serves many calls at once is the RunEngine in which each *)
(* command is one step: a batch that is committed is the one the command   *)
(* would have made of the state it is applied to, a refusal was right when *)
(* the history was read, and a conflict changes nothing.                   *)
(***************************************************************************)
ImplementsRunEngine == Spec
=============================================================================
