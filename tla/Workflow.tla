------------------------------ MODULE Workflow ------------------------------
(***************************************************************************)
(* One validated workflow definition (pkg/workflow): the DAG of steps a    *)
(* run executes, as the engine reads it.  The definition never changes     *)
(* while a run is alive, so it is a set of constants.                      *)
(***************************************************************************)
EXTENDS Naturals, FiniteSets

CONSTANTS
    Step,         \* the ids of the steps
    Deps,         \* Deps[s]: the steps s depends on
    Timer,        \* the steps of kind "timer"; every other one is an activity
    Compensable,  \* the steps with a compensation activity
    MaxAttempts,  \* MaxAttempts[s]: retry policy after Normalize
    Queue,        \* Queue[s]: the queue of step s
    CompQueue,    \* CompQueue[s]: its compensation queue, NoQueue when empty
    NoQueue       \* the empty queue name, what a timer step has by default

\* What Build accepts: dependencies name steps of the workflow, and the graph
\* has no cycle: every non-empty set of steps has one with no dependency in it.
ASSUME WorkflowAssumption ==
    /\ IsFiniteSet(Step)
    /\ Step # {}
    /\ Deps \in [Step -> SUBSET Step]
    /\ \A S \in SUBSET Step : S # {} => \E s \in S : Deps[s] \cap S = {}
    /\ Timer \subseteq Step
    /\ Compensable \subseteq Step
    /\ MaxAttempts \in [Step -> Nat \ {0}]
    /\ DOMAIN Queue = Step
    /\ DOMAIN CompQueue = Step

(***************************************************************************)
(* Tasks.  A step has at most one forward task and one compensation task   *)
(* (the run never schedules either twice, a property checked on the        *)
(* recorded history), so a task's uuid is abstracted to the step and phase.*)
(***************************************************************************)
Phase == {"forward", "compensation"}
TaskID == Step \X Phase

Forward(s) == <<s, "forward">>
Compensation(s) == <<s, "compensation">>

StepOf(t) == t[1]
IsForward(t) == t[2] = "forward"

\* A compensation is an activity even when its step is a timer.
IsTimer(t) == IsForward(t) /\ StepOf(t) \in Timer

\* A compensation goes to the compensation queue, or else to the step's own.
\* (Timer tasks are never leased: their reserved queue is not told apart.)
QueueOf(t) ==
    IF IsForward(t) \/ CompQueue[StepOf(t)] = NoQueue
      THEN Queue[StepOf(t)]
      ELSE CompQueue[StepOf(t)]
=============================================================================
