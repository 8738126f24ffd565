-------------------------------- MODULE Saga --------------------------------
(***************************************************************************)
(* What a run promises to the client who started it, whoever works on it:  *)
(* steps complete once, after those they depend on; the run completes with *)
(* the last of them, and then undoes none; when it can not complete it     *)
(* undoes what completed, the latest step first and each step once; it     *)
(* ends as failed or cancelled only with nothing left to undo, and it      *)
(* never goes back to work.                                                *)
(*                                                                         *)
(* Promised is only that the undoing of a step begins: the compensation    *)
(* itself may fail or be cancelled.                                        *)
(*                                                                         *)
(* "failed" is not the end, as section 5 of the README shows: steps that   *)
(* were leased may still complete, and another failure reopens the run,    *)
(* but only to undo more.                                                  *)
(*                                                                         *)
(* RunEngine implements this (ImplementsSaga in RunProperties).            *)
(***************************************************************************)
EXTENDS Naturals, SequencesExt

CONSTANTS
    Step,         \* the ids of the steps
    Deps,         \* Deps[s]: the steps s depends on
    Compensable   \* the steps that can be undone

VARIABLES
    status,       \* the status of the run
    done,         \* the steps that have completed, in that order
    undoing,      \* the steps whose compensation has begun
    cancelled     \* a cancellation was requested

vars == <<status, done, undoing, cancelled>>

\* The places of an order at which there is a step still to be undone.
ToUndo(order) == {i \in DOMAIN order : order[i] \in Compensable \ undoing}

\* Undoing begins for the step that completed last.
Undo(order) ==
    \E i \in ToUndo(order) :
        /\ \A j \in ToUndo(order) : j <= i
        /\ undoing' = undoing \cup {order[i]}

\* The run ends without success, when nothing is left to undo.
Stop(order) ==
    /\ ToUndo(order) = {}
    /\ status' = IF cancelled' THEN "cancelled" ELSE "failed"
    /\ UNCHANGED undoing

Unwind == (Undo(done) /\ status' = "compensating") \/ Stop(done)

Init ==
    /\ status = "running"
    /\ done = <<>>
    /\ undoing = {}
    /\ cancelled = FALSE

\* A step completes; late, when the run is not running any more.
Complete(s) ==
    /\ ~cancelled
    /\ s \notin ToSet(done)
    /\ Deps[s] \subseteq ToSet(done)
    /\ done' = Append(done, s)
    /\ UNCHANGED cancelled
    /\ \/ /\ status = "running"
          /\ status' = IF ToSet(done') = Step THEN "completed" ELSE "running"
          /\ UNCHANGED undoing
       \/ /\ status \in {"compensating", "failed"}
          /\ UNCHANGED <<status, undoing>>
       \/ /\ status = "failed"
          /\ undoing # {}
          /\ Undo(done')
          /\ UNCHANGED status

\* A step, or a compensation, has failed for good.
Fail ==
    /\ status \in {"running", "compensating", "failed"}
    /\ Unwind
    /\ UNCHANGED <<done, cancelled>>

\* A compensation has completed.
Undone ==
    /\ status \in {"compensating", "failed"}
    /\ undoing # {}
    /\ (Undo(done) /\ UNCHANGED status) \/ Stop(done)
    /\ UNCHANGED <<done, cancelled>>

Cancel ==
    /\ status \in {"running", "compensating"}
    /\ cancelled' = TRUE
    /\ Unwind
    /\ UNCHANGED done

Next ==
    \/ \E s \in Step : Complete(s)
    \/ Fail
    \/ Undone
    \/ Cancel

Spec == Init /\ [][Next]_vars
=============================================================================
