----------------------------- MODULE MCHardKernel -----------------------------
(* Instances of HardKernel for TLC. *)
EXTENDS HardKernel, TLC

CONSTANTS
    TestEdits,  \* TRUE if steps that tier 0 refuses are planned, too
    MCBudget    \* max_total_steps of every tier

RunSymmetry == Permutations(Runs)

MCStep(a, touches, size) ==
    [action |-> a, enabled |-> TRUE, valid |-> TRUE, touches |-> touches,
     size |-> [d \in Dims |-> size]]

\* A test run, a patch of the code and, if asked for, a patch of a test that is
\* too large for tier 0, and a step of a disabled tool.
MCSteps ==
    {MCStep("run_tests", {}, 0), MCStep("apply_patch", {"code"}, 1)}
    \cup IF TestEdits THEN {MCStep("apply_patch", {"tests"}, 2),
                            [MCStep("run_tests", {}, 0) EXCEPT !.enabled = FALSE]}
         ELSE {}

\* A likely step and, where the tiers are not in focus, a vetoed one.
MCEstimates ==
    {[success |-> 50, risk |-> 40, veto |-> v] :
        v \in {FALSE} \cup (IF TestEdits THEN {} ELSE {TRUE})}

\* Small budgets; patches may grow with the tier as in gate_policy_tiers.yaml.
MCMaxTotalSteps == [t \in 0..3 |-> MCBudget]
MCPatchBudget == [t \in 0..3 |-> [d \in Dims |-> t + 1]]
MCEscalateOn ==
    [t \in 1..3 |-> FailureKinds \cap
        IF t = 1 THEN {"tests_failed"} ELSE IF t = 2 THEN {"deps_install_failed"} ELSE {"ci_failed"}]

MCAllowedEdits == [t \in 0..3 |-> IF t = 0 THEN {"code"} ELSE {"code", "tests"}]
===============================================================================
