----------------------------- MODULE PgInvariant -----------------------------
(***************************************************************************)
(* What holds between the transactions in flight on Postgres and the rows  *)
(* and events that are committed: the inductive invariant behind the       *)
(* safety properties of PgStore and its refinement of AtomicStore.         *)
(***************************************************************************)
EXTENDS PgStore

PC == {"idle", "load", "update_run", "insert", "update_task", "renew", "number",
       "bump_run", "commit"}

\* A lease or a heartbeat, which writes without looking at the run.
DirectWrite ==
    [op : {"lease", "heartbeat"}, task : Task, worker : Worker, next : {{}}]

Transaction ==
    [pc : PC, call : Command \cup DirectWrite \cup {NoCall}, tries : 0..(MaxTries - 1),
     base : Nat, entries : Seq(Entry), changed : UNION {[T -> Row] : T \in SUBSET Task},
     todo : Seq(Task), held : [run : BOOLEAN, tasks : SUBSET Task, keys : SUBSET Nat]]

\* The session has inserted its events and not yet committed them.
Inserted(c) == tx[c].pc \in {"update_task", "bump_run", "commit"}

(***************************************************************************)
(* What a session is doing at each place.                                  *)
(***************************************************************************)
CommandUnderWay(c) ==
    /\ tx[c].call \in Command
    /\ tx[c].pc \in {"load", "update_run", "insert", "update_task", "commit"}

LeaseUnderWay(c) ==
    LET call == tx[c].call IN
    /\ call \in DirectWrite /\ call.op = "lease"
    /\ tx[c].pc \in {"number", "insert", "bump_run", "commit"}
    /\ tx[c].entries = <<NewEntry("task.leased", call.task, call.worker)>>
    /\ tx[c].changed = [u \in {call.task} |-> LeasedBy(call.worker)]

HeartbeatUnderWay(c) ==
    LET call == tx[c].call IN
    /\ call \in DirectWrite /\ call.op = "heartbeat"
    /\ tx[c].pc \in {"renew", "number", "insert", "bump_run", "commit"}
    /\ tx[c].entries = <<NewEntry("task.heartbeat", call.task, call.worker)>>
    /\ DOMAIN tx[c].changed = {}

UnderWay(c) ==
    \/ tx[c] = Idle
    \/ CommandUnderWay(c)
    \/ LeaseUnderWay(c)
    \/ HeartbeatUnderWay(c)

(***************************************************************************)
(* A session numbers its events from a version that was there.  Once they  *)
(* are inserted that version still is: its first number is the next one,   *)
(* and nobody else holds it.                                               *)
(***************************************************************************)
Numbered(c) ==
    /\ tx[c].base <= version
    /\ Inserted(c) => /\ tx[c].base = version
                      /\ tx[c].held.keys = Keys(c)

InsertAlone ==
    \A c, d \in Session : Inserted(c) /\ Inserted(d) => c = d

(***************************************************************************)
(* As long as the version a command loaded is there, what it decided is    *)
(* what the engine decides on the log.  Whatever it will update is locked  *)
(* or still to be locked.                                                  *)
(***************************************************************************)
Decided(c) ==
    tx[c].call \in Command /\ tx[c].pc # "load" =>
        /\ tx[c].base = version =>
             /\ Permitted(log, tx[c].call)
             /\ tx[c].entries = EntriesOf(log, tx[c].call)
             /\ tx[c].changed = RowsOf(log, tx[c].call)
        /\ Len(tx[c].entries) > 0
        /\ DOMAIN tx[c].changed \ tx[c].call.next \subseteq tx[c].held.tasks \cup ToSet(tx[c].todo)
        /\ (tx[c].todo = <<>>) <=> (tx[c].pc = "commit")

\* The lock on the row that a lease selected keeps it as it was.
Selected(c) ==
    tx[c].call.op = "lease" => /\ tx[c].call.task \in tx[c].held.tasks
                               /\ rows[tx[c].call.task] = Available

LocksApart ==
    \A c, d \in Session : c # d => tx[c].held.tasks \cap tx[d].held.tasks = {}

(***************************************************************************)
(* The inductive invariant.  It says nothing of the lock on the run row:   *)
(* the numbers of the events, which are a key of the table, keep commits   *)
(* apart by themselves.                                                    *)
(***************************************************************************)
PgInv ==
    /\ PgTypeOK
    /\ tx \in [Session -> Transaction]
    /\ VersionCountsLog
    /\ StatusFollowsLog
    /\ \A c \in Session : UnderWay(c) /\ Numbered(c) /\ Decided(c) /\ Selected(c)
    /\ InsertAlone
    /\ LocksApart
=============================================================================
