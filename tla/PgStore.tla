------------------------------- MODULE PgStore -------------------------------
(***************************************************************************)
(* The Postgres store (internal/store/postgres): the operations of         *)
(* AtomicStore as transactions of several statements under READ COMMITTED, *)
(* interleaved statement by statement.                                     *)
(*                                                                         *)
(* What Postgres does (external to this repository): a statement sees what *)
(* is committed when it starts; an UPDATE or SELECT FOR UPDATE locks the   *)
(* row until its transaction ends, and one that finds the row locked waits *)
(* and then looks at the row again; an INSERT waits for another insert of  *)
(* the same key to end and fails if it was committed; of transactions that *)
(* wait for each other in a circle one is refused.  The foreign key of     *)
(* history_events takes a key-share lock of the run row, which conflicts   *)
(* with nothing here.                                                      *)
(***************************************************************************)
EXTENDS AtomicStore

CONSTANTS
    Session,   \* goroutines with a connection of their own
    MaxTries,  \* the tries of withOptimisticRetry: 5 in the code
    MaxLog     \* bound of the model: no call begins once the log is this long

ASSUME PgStoreAssumption == MaxTries \in Nat \ {0} /\ MaxLog \in Nat

VARIABLE tx   \* tx[c]: the call that session c is in, and its transaction

pgVars == <<storeVars, tx>>

NoLocks == [run |-> FALSE, tasks |-> {}, keys |-> {}]

NoCall == [op |-> "none", task |-> None, worker |-> None, next |-> {}]

\* call     what the session was asked for
\* base     the version a command loaded, the last number a direct write read
\* entries  the events to insert after base, and changed the rows to write
\* todo     the rows a command still has to update, in the order of its batch
\* held     the rows and keys that the transaction has locked
Idle ==
    [pc |-> "idle", call |-> NoCall, tries |-> 0, base |-> 0, entries |-> <<>>,
     changed |-> <<>>, todo |-> <<>>, held |-> NoLocks]

IsCommand(c) == tx[c].call.op \in {"complete", "retry", "cancel"}

Keys(c) == {tx[c].base + i : i \in DOMAIN tx[c].entries}

\* The sessions that hold what the next statement of c has to lock.  A row that
\* does not match the WHERE of an UPDATE, as it is committed, is not waited for.
BlockedBy(c) ==
    {d \in Session \ {c} :
        LET held == tx[d].held IN
        CASE tx[c].pc = "update_run"  -> held.run /\ version = tx[c].base
          [] tx[c].pc = "bump_run"    -> held.run
          [] tx[c].pc = "insert"      -> Keys(c) \cap held.keys # {}
          [] tx[c].pc = "update_task" -> Head(tx[c].todo) \in held.tasks
          [] tx[c].pc = "renew"       -> /\ tx[c].call.task \in held.tasks
                                         /\ rows[tx[c].call.task].owner = tx[c].call.worker
          [] OTHER -> FALSE}

At(c, pc) == tx[c].pc = pc /\ BlockedBy(c) = {}

\* A transaction takes its locks and goes on, writing nothing for others to see.
Continue(c, next) == tx' = [tx EXCEPT ![c] = next] /\ UNCHANGED storeVars

\* Fault: an error returns without a rollback.
EndWithoutRollback(c) == Continue(c, [Idle EXCEPT !.held = tx[c].held])

\* Rollback, and the call is over.
End(c) == Continue(c, Idle)

-----------------------------------------------------------------------------
PgInit == Init /\ tx = [c \in Session |-> Idle]

(***************************************************************************)
(* Commands.  One is begun by a caller that has a reason to: the worker of *)
(* a lease it was given, the sweep in its name, or anybody who cancels.    *)
(***************************************************************************)
BeginCommand(c) ==
    /\ tx[c] = Idle
    /\ Len(log) < MaxLog
    /\ \E cmd \in Command :
         /\ Permitted(log, cmd)
         /\ Continue(c, [Idle EXCEPT !.pc = "load", !.call = cmd])

\* loadRun and the decision.  (That a load is several reads is the subject of
\* OptimisticEngine.)
Load(c) ==
    LET cmd == tx[c].call IN
    /\ At(c, "load")
    /\ IF Permitted(log, cmd)
         THEN \E order \in SetToSeqs(Updates(log, cmd)) :
                Continue(c, [tx[c] EXCEPT !.pc = "update_run", !.base = version,
                                          !.entries = EntriesOf(log, cmd),
                                          !.changed = RowsOf(log, cmd), !.todo = order])
         ELSE End(c)

UpdateRun(c) ==
    LET tried == tx[c].tries + 1 IN
    /\ At(c, "update_run")
    /\ IF version = tx[c].base
         THEN Continue(c, [tx[c] EXCEPT !.pc = "insert", !.held.run = TRUE])
       ELSE IF tried < MaxTries
         THEN Continue(c, [Idle EXCEPT !.pc = "load", !.call = tx[c].call, !.tries = tried])
         ELSE End(c)

\* The events of a command, or the one of a direct write.  All their numbers
\* follow those that are there, so one of them is taken if the first one is.
InsertEvents(c) ==
    /\ At(c, "insert")
    /\ Keys(c) \cap DOMAIN log = {}
    /\ Continue(c, [tx[c] EXCEPT !.pc = IF IsCommand(c) THEN "update_task" ELSE "bump_run",
                                 !.held.keys = Keys(c)])

\* Fault: the row is written outside the transaction.
UpdateTaskAtOnce(c) ==
    LET t == Head(tx[c].todo) IN
    /\ At(c, "update_task")
    /\ rows' = [rows EXCEPT ![t] = tx[c].changed[t]]
    /\ tx' = [tx EXCEPT ![c].pc = IF Len(tx[c].todo) = 1 THEN "commit" ELSE @,
                        ![c].todo = Tail(@)]
    /\ UNCHANGED <<version, log>>

UpdateTask(c) ==
    /\ At(c, "update_task")
    /\ Continue(c, [tx[c] EXCEPT !.pc = IF Len(tx[c].todo) = 1 THEN "commit" ELSE @,
                                 !.todo = Tail(@),
                                 !.held.tasks = @ \cup {Head(tx[c].todo)}])

(***************************************************************************)
(* LeaseTasks and HeartbeatTask, for one task: neither looks at the run.   *)
(* The task rows that a lease finds locked are skipped.                    *)
(***************************************************************************)
\* Fault: the rows are selected without FOR UPDATE.
SelectTaskUnlocked(c, t, w) ==
    /\ tx[c] = Idle
    /\ Len(log) < MaxLog
    /\ rows[t] = Available
    /\ Continue(c, [Idle EXCEPT !.pc = "number",
                                !.call = [op |-> "lease", task |-> t, worker |-> w, next |-> {}],
                                !.entries = <<NewEntry("task.leased", t, w)>>,
                                !.changed = [u \in {t} |-> LeasedBy(w)]])

SelectTask(c, t, w) ==
    /\ tx[c] = Idle
    /\ Len(log) < MaxLog
    /\ rows[t] = Available
    /\ \A d \in Session : t \notin tx[d].held.tasks
    /\ Continue(c, [Idle EXCEPT !.pc = "number",
                                !.call = [op |-> "lease", task |-> t, worker |-> w, next |-> {}],
                                !.entries = <<NewEntry("task.leased", t, w)>>,
                                !.changed = [u \in {t} |-> LeasedBy(w)],
                                !.held.tasks = {t}])

\* The check reads without a lock.
CheckLease(c, t, w) ==
    /\ tx[c] = Idle
    /\ Len(log) < MaxLog
    /\ rows[t] = LeasedBy(w)
    /\ Continue(c, [Idle EXCEPT !.pc = "renew",
                                !.call = [op |-> "heartbeat", task |-> t, worker |-> w, next |-> {}],
                                !.entries = <<NewEntry("task.heartbeat", t, w)>>])

\* UPDATE ... AND leased_by = w: that it may have matched no row goes unnoticed.
RenewLease(c) ==
    LET call == tx[c].call IN
    /\ At(c, "renew")
    /\ Continue(c, [tx[c] EXCEPT !.pc = "number",
                                 !.held.tasks = IF rows[call.task].owner = call.worker
                                                  THEN {call.task} ELSE {}])

NextSequence(c) ==
    /\ At(c, "number")
    /\ Continue(c, [tx[c] EXCEPT !.pc = "insert", !.base = Len(log)])

\* Fault: the version of the run is left alone.
KeepRunVersion(c) ==
    /\ At(c, "bump_run")
    /\ log' = Append(log, Head(tx[c].entries))
    /\ rows' = [t \in Task |-> IF t \in DOMAIN tx[c].changed THEN tx[c].changed[t] ELSE rows[t]]
    /\ tx' = [tx EXCEPT ![c] = Idle]
    /\ UNCHANGED version

BumpRunVersion(c) ==
    /\ At(c, "bump_run")
    /\ Continue(c, [tx[c] EXCEPT !.pc = "commit", !.held.run = TRUE])

(***************************************************************************)
(* The end of a transaction.                                               *)
(***************************************************************************)
CommitTx(c) ==
    LET t == tx[c] IN
    /\ At(c, "commit")
    /\ log' = [n \in DOMAIN log \cup Keys(c) |->
                 IF n \in Keys(c) THEN t.entries[n - t.base] ELSE log[n]]
    /\ version' = t.base + Len(t.entries)
    /\ rows' = [u \in Task |-> IF u \in DOMAIN t.changed THEN t.changed[u] ELSE rows[u]]
    /\ tx' = [tx EXCEPT ![c] = Idle]

\* A circle of transactions that wait for each other.
Deadlocked(c) ==
    \E S \in SUBSET Session : c \in S /\ S = UNION {BlockedBy(d) : d \in S}

\* Postgres refuses a statement: neither error is a version conflict, so the
\* call is not made again.
Refused(c) ==
    /\ \/ At(c, "insert") /\ Keys(c) \cap DOMAIN log # {}
       \/ Deadlocked(c)
    /\ End(c)

\* The process stops, the connection breaks or the caller's context ends.
Abort(c) == tx[c] # Idle /\ End(c)

PgStep(c) ==
    \/ Load(c) \/ UpdateRun(c) \/ InsertEvents(c) \/ UpdateTask(c)
    \/ RenewLease(c) \/ NextSequence(c) \/ BumpRunVersion(c)
    \/ CommitTx(c) \/ Refused(c)

PgNext ==
    \E c \in Session :
        \/ BeginCommand(c)
        \/ \E t \in Task, w \in Worker : SelectTask(c, t, w) \/ CheckLease(c, t, w)
        \/ PgStep(c)
        \/ Abort(c)

PgSpec == PgInit /\ [][PgNext]_pgVars

\* Postgres grants a lock in the order of arrival, and every statement returns.
PgFairSpec == PgSpec /\ \A c \in Session : SF_pgVars(PgStep(c))

-----------------------------------------------------------------------------
(* Every variable keeps its type, and only a call under way holds locks.   *)
PgTypeOK ==
    /\ version \in Nat
    /\ log \in Seq(Entry)
    /\ rows \in [Task -> Row]
    /\ \A c \in Session :
         /\ tx[c].pc = "idle" => tx[c].held = NoLocks
         /\ tx[c].tries \in 0..(MaxTries - 1)
         /\ tx[c].held \in [run : BOOLEAN, tasks : SUBSET Task, keys : SUBSET Nat]

(***************************************************************************)
(* The numbers of the events are 1 to the version of the run, although     *)
(* commands number from the version they loaded and direct writes from the *)
(* last event they see, each without a lock on what it read.               *)
(***************************************************************************)
VersionCountsLog == DOMAIN log = 1..version

(***************************************************************************)
(* The status of every task row is the one that the log derives.           *)
(***************************************************************************)
StatusFollowsLog == \A t \in Task : rows[t].status = Derived(log, t).status

(***************************************************************************)
(* Interleaved statement by statement, with conflicts, deadlocks and       *)
(* stopped processes, the store does what AtomicStore does in one step:    *)
(* no task is leased twice, and no command writes over what it did not     *)
(* read.                                                                   *)
(***************************************************************************)
ImplementsAtomicStore == Spec

(***************************************************************************)
(* Every call comes to an end: nobody waits for a lock for ever.           *)
(***************************************************************************)
CallsEnd == \A c \in Session : tx[c].pc # "idle" ~> tx[c].pc = "idle"

-----------------------------------------------------------------------------
(***************************************************************************)
(* docs/google-interview-walkthrough.md:227-228, "Two operations race on   *)
(* the same run": the service "retries the orchestration step".  A command *)
(* that a deadlock with a lease or a heartbeat refuses is not retried.     *)
(***************************************************************************)
LostRacesAreRetried ==
    [][\A c \in Session : IsCommand(c) /\ Refused(c) => tx'[c].pc = "load"]_pgVars

(***************************************************************************)
(* docs/google-interview-walkthrough.md:193: history_events "is the        *)
(* authority", the task rows are views of it.  A heartbeat that passed its *)
(* check and is recorded after the lease has gone to somebody else makes   *)
(* its own worker the owner that replay sees.                              *)
(***************************************************************************)
RowsFollowLog == \A t \in Task : rows[t] = Derived(log, t)
=============================================================================
