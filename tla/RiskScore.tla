------------------------------ MODULE RiskScore ------------------------------
(***************************************************************************)
(* What the kernel computes before it decides: the risk of a proposal      *)
(* (rfsn_kernel/risk.py), the cost and the drift it is computed from       *)
(* (simulate.py), and the checks that come before the risk threshold       *)
(* (decide.py).  The situation moves on one dimension at a time, as the    *)
(* proposals, the outcomes and the learner's priors come.                  *)
(*                                                                         *)
(* Ratios are in percent; weighted sums in the unit that keeps them whole. *)
(* HardKernel takes the effective risk as an input: here is what it can be.*)
(***************************************************************************)
EXTENDS Integers

CONSTANTS
    Lines,      \* lengths of patches
    Timeouts,   \* timeout_s of run_tests
    Percents    \* bound: the ratios that are looked at

ASSUME LinesAssumption == Lines \subseteq Nat /\ 0 \in Lines
ASSUME TimeoutsAssumption == Timeouts \subseteq Nat /\ 0 \in Timeouts
ASSUME PercentsAssumption == Percents \subseteq 0..100 /\ 0 \in Percents

VARIABLE situation

Reading == {"repo_search", "repo_read_range", "read_file", "detect_project", "detect_workdirs"}
Actions == Reading \cup {"apply_patch", "run_tests", "run_cmd_template", "format_fix", "ensure_deps"}

\* failing: recent_failures of step_count; success, loop: what simulate() predicts.
\* lines is 0 unless it is a patch, timeout unless it runs tests.  Nothing ever sets
\* drift_variance, so it is left out.
Situations == [action : Actions, lines : Nat, timeout : Nat, failing : 0..100, safety : 0..2,
               success : 0..100, loop : 0..100]

RiskInit == situation = [action |-> "repo_search", lines |-> 0, timeout |-> 0, failing |-> 0,
                         safety |-> 0, success |-> 100, loop |-> 0]

AtMost(n, bound) == IF n > bound THEN bound ELSE n

ActionRisk ==
    [apply_patch |-> 60, ensure_deps |-> 30, format_fix |-> 25, run_cmd_template |-> 20, run_tests |-> 15,
     repo_search |-> 5, detect_workdirs |-> 5, detect_project |-> 3, read_file |-> 2, repo_read_range |-> 2]
BaseCost ==
    [run_tests |-> 500, run_cmd_template |-> 400, format_fix |-> 350, apply_patch |-> 300, ensure_deps |-> 200,
     detect_workdirs |-> 60, repo_search |-> 50, detect_project |-> 30, repo_read_range |-> 30, read_file |-> 20]

\* In percent.
ExecutionRisk(s) ==
    ActionRisk[s.action]
    + (IF s.action # "apply_patch" \/ s.lines <= 50 THEN 0 ELSE IF s.lines <= 100 THEN 10 ELSE 20)

\* In hundredths of a percent.
EnvironmentRisk(failing, safety) == AtMost(50 * failing + 1500 * safety, 10000)

\* Bug: what is likely to succeed counts as uncertain.
UncertaintyOfSuccess(success) == success
Uncertainty(success) == 100 - success

\* Cost estimates are in thousandths, doubled: a cost of 2 is the whole of the risk.
CostEstimate(base, lines, timeout) == 2 * base + 10 * lines + timeout
CostRisk(estimate) == AtMost(estimate, 4000)   \* 4000 is 1

\* In millionths, from the five dimensions.
TotalRisk(exec, env, unc, cost, loop) ==
    AtMost(3000 * exec + 20 * env + 2000 * unc + 25 * cost + 2000 * loop, 1000000)
ExpectedValue(s) ==
    IF s.action # "apply_patch" THEN 0
    ELSE IF s.lines <= 20 THEN 300000 ELSE IF s.lines <= 50 THEN 150000 ELSE 50000

\* In ten-millionths.  Bug: the risk is taken whole, the bonus weighted.
WeightedWhole(total, value) == 10 * total - 3 * value
Weighted(total, value) == 7 * total - 3 * value

EffectiveRisk(s) ==
    Weighted(TotalRisk(ExecutionRisk(s),
                       EnvironmentRisk(s.failing, s.safety),
                       Uncertainty(s.success),
                       CostRisk(CostEstimate(BaseCost[s.action], s.lines, s.timeout)),
                       s.loop),
             ExpectedValue(s))

DriftRisk(failing) == AtMost(2 * failing, 100)

\* risk_max, 0.6, in the same unit.
Threshold == 6000000

\* What decide() has let pass when it comes to the threshold, and validate() before
\* it: no loop, no drift, and a system that is not locked.
ReachesThreshold(s) ==
    /\ s.safety < 2
    /\ s.loop <= 80
    /\ DriftRisk(s.failing) <= 85

Proposal(a, n, t) == [situation EXCEPT !.action = a, !.lines = n, !.timeout = t]
ProposesPatch == \E n \in Lines : situation' = Proposal("apply_patch", n, 0)
ProposesTests == \E t \in Timeouts : situation' = Proposal("run_tests", 0, t)
ProposesOther ==
    \E a \in Actions \ {"apply_patch", "run_tests"} : situation' = Proposal(a, 0, 0)
Fares == \E p \in Percents : situation' = [situation EXCEPT !.failing = p]
Guards == \E l \in 0..2 : situation' = [situation EXCEPT !.safety = l]
Predicts == \E p \in Percents : situation' = [situation EXCEPT !.success = p]
Repeats == \E p \in Percents : situation' = [situation EXCEPT !.loop = p]

RiskNext ==
    \/ ProposesPatch \/ ProposesTests \/ ProposesOther
    \/ Fares \/ Guards \/ Predicts \/ Repeats

RiskSpec == RiskInit /\ [][RiskNext]_situation

-----------------------------------------------------------------------------
(* Properties *)

\* The threshold of the risk, 0.65 in decide.py:43 and 0.6 in
\* policies/gate_policy.yaml:22, rejects nothing before the kernel has tightened it:
\* a proposal that gets as far as the threshold is always below it.
RiskGateIdle == ReachesThreshold(situation) => EffectiveRisk(situation) < Threshold

\* A situation that is as bad in every dimension and worse in one is never less risky:
\* no cap, no size class of a patch and no bonus turns the order round
\* (risk.py:63-163).
NoBetter(s, t) ==
    /\ s.action = t.action /\ s.lines <= t.lines /\ s.timeout <= t.timeout
    /\ s.failing <= t.failing /\ s.safety <= t.safety
    /\ s.success >= t.success /\ s.loop <= t.loop
RiskOrdered ==
    [][NoBetter(situation, situation') => EffectiveRisk(situation) <= EffectiveRisk(situation')]_situation
=============================================================================
