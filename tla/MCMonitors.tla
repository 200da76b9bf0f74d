----------------------------- MODULE MCMonitors -----------------------------
(***************************************************************************)
(* Seven small parts that watch, plan or estimate, side by side: they      *)
(* share no state, so one of them is at work in a behaviour and the others *)
(* stay.                                                                   *)
(***************************************************************************)
EXTENDS CircuitBreaker, SelfHealing, Corrections, Swarm, Planner, StateExplorer, RiskScore

CONSTANTS n0, n1, n2, n3, n4, raise   \* states that are explored

VARIABLE here   \* the part that is at work

\* StateExplorer: a line with a short cut and an exception, and a knot of cycles.
Line ==
    [s \in Nodes |-> CASE s = n0 -> <<n2, n1>> [] s = n1 -> <<n3>> [] s = n3 -> <<n4, n0>>
                       [] s = n2 -> <<n4, raise>> [] OTHER -> <<>>]
Knot ==
    [s \in Nodes |-> CASE s = n0 -> <<n1, n0, n1, raise>> [] s = n1 -> <<n2, n3>> [] s = n2 -> <<n3, n1>>
                       [] s = n3 -> <<n4>> [] OTHER -> <<n0>>]
SomeGraphs == {Line, Knot}

Init ==
    /\ here \in {"breaker", "healing", "correct", "swarm", "planner", "explorer", "risk"}
    /\ BreakerInit /\ HealingInit /\ CorrectInit /\ SwarmInit /\ PlannerInit /\ ExplorerInit /\ RiskInit
    /\ here # "explorer" => search = [how |-> "bfs", graph |-> Line, bad |-> {}, budget |-> 3]

Breaker(A) ==
    here = "breaker" /\ A
    /\ UNCHANGED <<here, healingVars, correctVars, swarmVars, plannerVars, explorerVars, situation>>
Healing(A) ==
    here = "healing" /\ A
    /\ UNCHANGED <<here, breakerVars, correctVars, swarmVars, plannerVars, explorerVars, situation>>
Correcting(A) ==
    here = "correct" /\ A
    /\ UNCHANGED <<here, breakerVars, healingVars, swarmVars, plannerVars, explorerVars, situation>>
Swarming(A) ==
    here = "swarm" /\ A
    /\ UNCHANGED <<here, breakerVars, healingVars, correctVars, plannerVars, explorerVars, situation>>
Planning(A) ==
    here = "planner" /\ A
    /\ UNCHANGED <<here, breakerVars, healingVars, correctVars, swarmVars, explorerVars, situation>>
Exploring(A) ==
    here = "explorer" /\ A
    /\ UNCHANGED <<here, breakerVars, healingVars, correctVars, swarmVars, plannerVars, situation>>
Scoring(A) ==
    here = "risk" /\ A
    /\ UNCHANGED <<here, breakerVars, healingVars, correctVars, swarmVars, plannerVars, explorerVars>>

Next ==
    \/ \E c \in Callers :
        \/ Breaker(EnterCall(c)) \/ Breaker(CallSucceeds(c))
        \/ Breaker(CallFails(c)) \/ Breaker(CallExcluded(c))
    \/ Breaker(RecoveryTimeout) \/ Breaker(Heals)
    \/ Healing(IngestSuccess) \/ Healing(ResetHealing)
    \/ \E f \in Fingerprints : Healing(IngestFailure(f))
    \/ \E k \in Kinds : Correcting(Fails(k))
    \/ \E dry \in BOOLEAN : Correcting(RunCycle(dry))
    \/ Correcting(ApplyAction) \/ Correcting(EvaluateAndCorrect) \/ Correcting(CooldownEnds)
    \/ Swarming(ArchitectDecomposes) \/ Swarming(CoderProposes) \/ Swarming(Approves) \/ Swarming(Rejects)
    \/ Swarming(Escalates) \/ Swarming(RequestsChanges)
    \/ Swarming(AgentRaises) \/ Swarming(LedgerRaises)
    \/ \E n \in Sizes : Planning(SetGoal(n))
    \/ Planning(ResetPlanner) \/ Planning(Advance) \/ Planning(RecordNoProgress) \/ Planning(Escalate)
    \/ Exploring(ViolatingState) \/ Exploring(DepthReached) \/ Exploring(Deadlocked) \/ Exploring(Expand)
    \/ Scoring(ProposesPatch) \/ Scoring(ProposesTests) \/ Scoring(ProposesOther) \/ Scoring(Fares)
    \/ Scoring(Guards) \/ Scoring(Predicts) \/ Scoring(Repeats)

vars == <<here, breakerVars, healingVars, correctVars, swarmVars, plannerVars, explorerVars, situation>>

\* Callers are served, what they call returns, and time passes.
Spec ==
    /\ Init /\ [][Next]_vars
    /\ \A c \in Callers : WF_vars(Breaker(EnterCall(c))) /\ WF_vars(Breaker(ReturnCall(c)))
    /\ WF_vars(Breaker(RecoveryTimeout))
=============================================================================
