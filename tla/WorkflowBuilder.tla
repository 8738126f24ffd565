--------------------------- MODULE WorkflowBuilder ---------------------------
(***************************************************************************)
(* The workflow builder (pkg/workflow): steps are put one by one and in    *)
(* any order, and Build checks them, the last time by a depth-first search *)
(* of the dependencies for a cycle.  What Build promises is the assumption *)
(* of Workflow, on which the engine and its proofs rest.                   *)
(*                                                                         *)
(* The search is a recursive closure in the code; here its calls in        *)
(* progress are a stack, and each call or return is a step.                *)
(***************************************************************************)
EXTENDS Backoff, Sequences, FiniteSets

CONSTANTS
    ID,        \* step ids, those that nobody puts included
    Input,     \* the steps that a caller may put
    NoQueue    \* the empty queue name

ASSUME WorkflowBuilderAssumption ==
    /\ IsFiniteSet(ID) /\ NoQueue # "default"
    /\ \A s \in Input :
         /\ DOMAIN s = {"id", "kind", "filled", "queue", "deps", "retry"}
         /\ s.id \in ID
         /\ s.filled \in BOOLEAN
         /\ s.deps \subseteq ID
         /\ s.retry \in Policy

VARIABLES
    steps,   \* the steps by id, a function on the ids that were put
    order,   \* those ids, in the order in which they were first put
    phase,   \* what the builder is doing, and how its last Build ended
    cursor,  \* how many of the ids Build has visited
    color,   \* color[id]: "white", "grey" while it is visited, "black" after
    stack    \* the ids being visited, the innermost last

vars == <<steps, order, phase, cursor, color, stack>>

Phase == {"building", "visiting", "built", "refused"}

Ids == DOMAIN steps

White == [i \in ID |-> "white"]

Top == stack[Len(stack)]

-----------------------------------------------------------------------------
Init ==
    /\ steps = [i \in {} |-> {}]
    /\ order = <<>>
    /\ phase = "building"
    /\ cursor = 0
    /\ color = White
    /\ stack = <<>>

\* Fault: a step that is put again is listed again.
OrderAfterEach(s) == Append(order, s.id)

OrderAfter(s) == IF s.id \in Ids THEN order ELSE Append(order, s.id)

\* An activity always has a queue; "filled" is its activity name, or the
\* positive delay of a timer.
Put(s) ==
    /\ phase # "visiting"
    /\ LET step == [s EXCEPT !.retry = Normalize(@),
                             !.queue = IF @ = NoQueue /\ s.kind = "activity" THEN "default" ELSE @]
       IN  steps' = [i \in Ids \cup {s.id} |-> IF i = s.id THEN step ELSE steps[i]]
    /\ order' = OrderAfter(s)
    /\ phase' = "building"
    /\ UNCHANGED <<cursor, color, stack>>

\* The checks of one step.
StepAccepted(s) ==
    /\ s.kind \in {"activity", "timer"}
    /\ s.filled
    /\ s.id \notin s.deps
    /\ s.deps \subseteq Ids

Build ==
    /\ phase = "building"
    /\ IF Ids # {} /\ \A i \in Ids : StepAccepted(steps[i])
         THEN phase' = "visiting"
         ELSE phase' = "refused"
    /\ cursor' = 0
    /\ color' = White
    /\ stack' = <<>>
    /\ UNCHANGED <<steps, order>>

(***************************************************************************)
(* visit.                                                                  *)
(***************************************************************************)
Enter(i) ==
    /\ color' = [color EXCEPT ![i] = "grey"]
    /\ stack' = Append(stack, i)

\* Fault: an id that was visited before is looked at for ever.
CursorAfterEntering == IF color[order[cursor + 1]] = "white" THEN cursor + 1 ELSE cursor

CursorAfter == cursor + 1

\* The next id of the order, when no call is in progress.
VisitNext ==
    /\ phase = "visiting"
    /\ stack = <<>>
    /\ cursor < Len(order)
    /\ IF color[order[cursor + 1]] = "white"
         THEN Enter(order[cursor + 1])
         ELSE UNCHANGED <<color, stack>>
    /\ cursor' = CursorAfter
    /\ UNCHANGED <<steps, order, phase>>

\* Fault: a visit counts when it begins.
VisitedOnceEntered(i) == color[i] # "white"

Visited(i) == color[i] = "black"

\* A dependency whose visit is still in progress closes a cycle.
VisitDependency(i) ==
    /\ phase = "visiting"
    /\ stack # <<>>
    /\ i \in steps[Top].deps
    /\ ~Visited(i)
    /\ IF color[i] = "grey"
         THEN phase' = "refused" /\ UNCHANGED <<color, stack>>
         ELSE Enter(i) /\ UNCHANGED phase
    /\ UNCHANGED <<steps, order, cursor>>

\* Faults: a step that was visited stays grey, or gets a color nobody knows.
AfterVisitGrey == color

AfterVisitUnknown == [color EXCEPT ![Top] = "done"]

AfterVisit == [color EXCEPT ![Top] = "black"]

Leave ==
    /\ phase = "visiting"
    /\ stack # <<>>
    /\ \A i \in steps[Top].deps : Visited(i)
    /\ color' = AfterVisit
    /\ stack' = SubSeq(stack, 1, Len(stack) - 1)
    /\ UNCHANGED <<steps, order, phase, cursor>>

Accept ==
    /\ phase = "visiting"
    /\ stack = <<>>
    /\ cursor = Len(order)
    /\ phase' = "built"
    /\ UNCHANGED <<steps, order, cursor, color, stack>>

Next ==
    \/ \E s \in Input : Put(s)
    \/ Build
    \/ VisitNext
    \/ \E i \in ID : VisitDependency(i)
    \/ Leave
    \/ Accept

Spec == Init /\ [][Next]_vars

\* A call of Build returns; nobody has to make one.
FairSpec ==
    Spec /\ WF_vars(VisitNext \/ (\E i \in ID : VisitDependency(i)) \/ Leave \/ Accept)

-----------------------------------------------------------------------------
(* Every variable keeps its type. *)
TypeOK ==
    /\ Ids \subseteq ID
    /\ \A i \in Ids : /\ steps[i].id = i
                      /\ steps[i].deps \subseteq ID
                      /\ steps[i].retry \in Policy
    /\ order \in Seq(ID)
    /\ phase \in Phase
    /\ cursor \in 0..Len(order)
    /\ color \in [ID -> {"white", "grey", "black"}]
    /\ stack \in Seq(ID)

(***************************************************************************)
(* The order lists every step once, however often and in whatever way its  *)
(* steps were put: the engine goes through the order, never through the    *)
(* map.                                                                    *)
(***************************************************************************)
OrderListsSteps ==
    /\ {order[n] : n \in DOMAIN order} = Ids
    /\ \A m, n \in DOMAIN order : order[m] = order[n] => m = n

(***************************************************************************)
(* What the engine may assume of a definition (WorkflowAssumption): its    *)
(* dependencies are steps of it and no set of steps waits for itself.      *)
(***************************************************************************)
Acyclic ==
    \A S \in SUBSET Ids : S # {} => \E i \in S : steps[i].deps \cap S = {}

WellFormed ==
    /\ Ids # {}
    /\ \A i \in Ids :
         /\ steps[i].deps \subseteq Ids
         /\ steps[i].kind \in {"activity", "timer"} /\ steps[i].filled
    /\ Acyclic

BuiltIsWellFormed ==
    phase = "built" =>
        /\ WellFormed
        /\ \A i \in Ids : steps[i].retry.attempts >= 1
        /\ \A i \in Ids : steps[i].kind = "activity" => steps[i].queue # NoQueue

(***************************************************************************)
(* Build refuses nothing else: steps that share dependencies, or that are  *)
(* reached along several paths, are no cycle.                              *)
(***************************************************************************)
RefusedIsIllFormed == phase = "refused" => ~WellFormed

(***************************************************************************)
(* The retries of a built step wait longer and longer, up to the maximum   *)
(* of its policy, unless its first backoff is above the default maximum:   *)
(* that one stands, and the later ones fall below it.                      *)
(***************************************************************************)
RetriesSlowDown ==
    phase = "built" => \A i \in Ids :
        LET policy == steps[i].retry
            delay(n) == BackoffForAttempt(policy, n)
        IN  policy.initial <= DefaultMax =>
              \A n \in 1..policy.attempts :
                 /\ delay(n) <= policy.max
                 /\ delay(n) <= delay(n + 1)
                 /\ delay(n + 1) \in {2 * delay(n), policy.max}

(***************************************************************************)
(* Every Build returns, whatever the dependencies.                         *)
(***************************************************************************)
BuildReturns == phase = "visiting" ~> phase # "visiting"
=============================================================================
