------------------------------- MODULE Planner -------------------------------
(***************************************************************************)
(* The strategic layer of rfsn_kernel/planner.py: a goal becomes a list of *)
(* subgoals; its caller advances, reports steps without progress and       *)
(* escalates, in any order.                                                *)
(***************************************************************************)
EXTENDS Integers, Sequences, FiniteSets, FiniteSetsExt

CONSTANTS
    Sizes,           \* numbers of subgoals of the templates
    MaxAttempts,     \* Subgoal.max_attempts
    MaxStagnation,   \* bound: steps without progress that are counted
    MaxEscalations   \* bound: escalations that are counted

ASSUME PlannerAssumption ==
    /\ Sizes \subseteq Nat
    /\ MaxAttempts \in Nat \ {0}
    /\ MaxStagnation \in Nat /\ MaxEscalations \in Nat

VARIABLES
    subgoals,    \* each with completed and attempts
    focus,       \* current_subgoal_idx, from 1
    gauges,      \* progress as the completed subgoals it was computed from, stability in tenths,
                 \* stagnation_count and escalation_count
    advanced     \* history: subgoals that advance_subgoal completed

plannerVars == <<subgoals, focus, gauges, advanced>>

FreshGauges == [progress |-> 0, stability |-> 10, stagnation |-> 0, escalations |-> 0]

PlannerInit ==
    /\ subgoals = <<>> /\ focus = 1
    /\ gauges = FreshGauges
    /\ advanced = {}

ResetPlanner ==
    /\ subgoals' = <<>> /\ focus' = 1
    /\ gauges' = FreshGauges
    /\ advanced' = {}

\* The counters of the goal before stay.
SetGoal(n) ==
    /\ subgoals' = [i \in 1..n |-> [completed |-> FALSE, attempts |-> 0]]
    /\ focus' = 1
    /\ gauges' = [gauges EXCEPT !.progress = 0]
    /\ advanced' = {}

Incomplete(gs) == {i \in DOMAIN gs : ~gs[i].completed}
\* The subgoal in focus while it is incomplete, or the first that is; the focus stays
\* where it is when there is none.
Current(gs) == IF focus \in Incomplete(gs) \/ Incomplete(gs) = {} THEN focus ELSE Min(Incomplete(gs))
Completed(gs) == Cardinality(DOMAIN gs \ Incomplete(gs))

Advance ==
    LET i == Current(subgoals)
        gs == [subgoals EXCEPT ![i].completed = TRUE]
    IN /\ Incomplete(subgoals) # {}
       /\ subgoals' = gs
       /\ gauges' = [gauges EXCEPT !.progress = Completed(gs), !.stagnation = 0]
       /\ focus' = Current(gs)
       /\ advanced' = advanced \cup {i}

RecordNoProgress ==
    /\ gauges.stagnation < MaxStagnation
    /\ gauges' = [gauges EXCEPT !.stagnation = @ + 1, !.stability = IF @ > 0 THEN @ - 1 ELSE 0]
    /\ UNCHANGED <<subgoals, focus, advanced>>

\* Bug: the attempt that exhausts a subgoal does not count as one.
ExhaustedLate(attempts) == attempts > MaxAttempts
Exhausted(attempts) == attempts >= MaxAttempts

Escalate ==
    LET i == Current(subgoals)
        tried == [subgoals EXCEPT ![i].attempts = @ + 1]
        skips == Exhausted(tried[i].attempts)
        gs == IF skips THEN [tried EXCEPT ![i].completed = TRUE] ELSE tried
        counted == [gauges EXCEPT !.escalations = @ + 1, !.stagnation = 0]
    IN /\ gauges.escalations < MaxEscalations
       /\ IF Incomplete(subgoals) = {}
          THEN gauges' = counted /\ UNCHANGED <<subgoals, focus>>
          ELSE /\ subgoals' = gs
               /\ focus' = IF skips THEN Current(gs) ELSE i
               /\ gauges' = IF skips THEN [counted EXCEPT !.progress = Completed(gs)] ELSE counted
       /\ UNCHANGED advanced

PlannerNext ==
    \/ ResetPlanner
    \/ \E n \in Sizes : SetGoal(n)
    \/ Advance \/ RecordNoProgress \/ Escalate

PlannerSpec == PlannerInit /\ [][PlannerNext]_plannerVars

-----------------------------------------------------------------------------
(* Properties *)

\* Whatever the caller does in whatever order, no subgoal is passed over: those that
\* are complete come before those that are not, each was advanced past or had all its
\* attempts, the focus is on the first incomplete one, and the progress told is the
\* one made (planner.py:180-240).
NoSubgoalPassedOver ==
    /\ \A i \in Incomplete(subgoals), j \in DOMAIN subgoals \ Incomplete(subgoals) : j < i
    /\ \A i \in DOMAIN subgoals :
           subgoals[i].completed <=> i \in advanced \/ subgoals[i].attempts = MaxAttempts
    /\ gauges.progress = Completed(subgoals)
    /\ Incomplete(subgoals) # {} => focus = Min(Incomplete(subgoals))
=============================================================================
