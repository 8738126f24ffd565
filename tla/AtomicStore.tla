----------------------------- MODULE AtomicStore -----------------------------
(***************************************************************************)
(* What the engine is promised of a store (engine.Repository), for one run *)
(* and its activity tasks: the log of events only grows, the version of    *)
(* the run is its length, and each operation is one step that leaves log   *)
(* and task rows in agreement.  SQLite, with its one connection, is this   *)
(* store; what Postgres makes of it is in PgStore.                         *)
(*                                                                         *)
(* The engine is reduced to what it makes of a log: which reports it takes *)
(* and which task rows their events change.  Deadlines are left out: any   *)
(* leased task may be failed in the name of its owner at any time.         *)
(***************************************************************************)
EXTENDS Naturals, Sequences, FiniteSets, SequencesExt

CONSTANTS
    Task,             \* the activity tasks of the run
    Root,             \* those that are scheduled when the run starts
    Worker,           \* the ids under which pools lease
    None,             \* no task, no worker
    StrayHeartbeats   \* whether a heartbeat may outlive the lease it checked

ASSUME AtomicStoreAssumption ==
    /\ IsFiniteSet(Task)
    /\ Root \subseteq Task
    /\ None \notin Worker /\ None \notin Task
    /\ StrayHeartbeats \in BOOLEAN

VARIABLES
    version,  \* the version column of the run row
    log,      \* the run's rows of history_events, by sequence number
    rows      \* the task rows

storeVars == <<version, log, rows>>

RowStatus == {"none", "available", "leased", "completed", "cancelled"}

Row == [status : RowStatus, owner : Worker \cup {None}]

EntryType == {"task.scheduled", "task.leased", "task.heartbeat", "task.completed",
              "task.failed", "task.retry_scheduled", "task.cancelled",
              "run.cancel_requested"}

Entry == [type : EntryType, task : Task \cup {None}, worker : Worker \cup {None}]

NewEntry(type, t, w) == [type |-> type, task |-> t, worker |-> w]

\* One entry for each task of a set; their order is immaterial.
EntryForEach(type, T) ==
    LET q == SetToSeq(T) IN [i \in DOMAIN q |-> NewEntry(type, q[i], None)]

Unscheduled == [status |-> "none", owner |-> None]
Available == [status |-> "available", owner |-> None]
LeasedBy(w) == [status |-> "leased", owner |-> w]
Ended(status) == [status |-> status, owner |-> None]

(***************************************************************************)
(* The row of a task as replay derives it.  A heartbeat sets the owner and *)
(* looks at nothing; only a leased row shows an owner.                     *)
(***************************************************************************)
ReplayEntry(row, e) ==
    CASE e.type \in {"task.scheduled", "task.retry_scheduled"} -> Available
      [] e.type = "task.leased" -> LeasedBy(e.worker)
      [] e.type = "task.heartbeat" -> IF row.status = "leased" THEN LeasedBy(e.worker) ELSE row
      [] e.type = "task.completed" -> Ended("completed")
      [] e.type = "task.cancelled" -> Ended("cancelled")
      [] OTHER -> row

\* The events of other tasks leave the row alone.
ReplayFor(t, row, e) == IF e.task = t THEN ReplayEntry(row, e) ELSE row

Derived(l, t) == FoldLeft(LAMBDA row, e : ReplayFor(t, row, e), Unscheduled, l)

(***************************************************************************)
(* Commands.  A completion may schedule tasks that were not there before,  *)
(* a failure is retried, a cancellation ends all that is open.  (A failure *)
(* that ends a task has the shape of a completion: one row updated, others *)
(* inserted.)                                                              *)
(***************************************************************************)
Command ==
    [op : {"complete"}, task : Task, worker : Worker, next : SUBSET Task] \cup
    [op : {"retry"}, task : Task, worker : Worker, next : {{}}] \cup
    [op : {"cancel"}, task : {None}, worker : {None}, next : {{}}]

OpenTasks(l) == {t \in Task : Derived(l, t).status \in {"available", "leased"}}

Permitted(l, cmd) ==
    IF cmd.op = "cancel"
      THEN OpenTasks(l) # {}
      ELSE /\ Derived(l, cmd.task) = LeasedBy(cmd.worker)
           /\ \A t \in cmd.next : Derived(l, t).status = "none"

\* The rows that a command updates; it also inserts those of cmd.next.
Updates(l, cmd) == IF cmd.op = "cancel" THEN OpenTasks(l) ELSE {cmd.task}

EntriesOf(l, cmd) ==
    CASE cmd.op = "complete" -> <<NewEntry("task.completed", cmd.task, cmd.worker)>>
                                \o EntryForEach("task.scheduled", cmd.next)
      [] cmd.op = "retry"    -> <<NewEntry("task.failed", cmd.task, cmd.worker),
                                  NewEntry("task.retry_scheduled", cmd.task, None)>>
      [] cmd.op = "cancel"   -> <<NewEntry("run.cancel_requested", None, None)>>
                                \o EntryForEach("task.cancelled", OpenTasks(l))

RowsOf(l, cmd) ==
    [t \in Updates(l, cmd) \cup cmd.next |-> Derived(l \o EntriesOf(l, cmd), t)]

-----------------------------------------------------------------------------
Init ==
    /\ log = EntryForEach("task.scheduled", Root)
    /\ version = Len(log)
    /\ rows = [t \in Task |-> IF t \in Root THEN Available ELSE Unscheduled]

Record(entries, changed) ==
    /\ log' = log \o entries
    /\ version' = Len(log) + Len(entries)
    /\ rows' = [t \in Task |-> IF t \in DOMAIN changed THEN changed[t] ELSE rows[t]]

AppendRunChanges(cmd) ==
    /\ Permitted(log, cmd)
    /\ Record(EntriesOf(log, cmd), RowsOf(log, cmd))

LeaseTask(t, w) ==
    /\ rows[t] = Available
    /\ Record(<<NewEntry("task.leased", t, w)>>, [u \in {t} |-> LeasedBy(w)])

HeartbeatTask(t, w) ==
    /\ StrayHeartbeats \/ rows[t] = LeasedBy(w)
    /\ Record(<<NewEntry("task.heartbeat", t, w)>>, <<>>)

Next ==
    \/ \E t \in Task, w \in Worker :
         \/ LeaseTask(t, w)
         \/ HeartbeatTask(t, w)
    \/ \E cmd \in Command : AppendRunChanges(cmd)

Spec == Init /\ [][Next]_storeVars
=============================================================================
