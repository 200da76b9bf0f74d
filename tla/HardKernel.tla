------------------------------ MODULE HardKernel ------------------------------
(***************************************************************************)
(* rfsn_kernel/kernel.py: the HardKernel object that every tool execution  *)
(* goes through, with the parts it is made of: tier_policy.py, validate.py,*)
(* simulate.py, decide.py, verify.py, state.py and run_state.py.           *)
(*                                                                         *)
(* The orchestrator owns ONE kernel and calls kernel_step from one daemon  *)
(* thread per run without a lock, so the object's counters are shared by   *)
(* the runs.  A call is cut where another thread can change what it reads  *)
(* next: the gates (Refuse, Check), the decision (Reject, Approve), the    *)
(* return of execute_fn with the counters it moves (Settle), the rollback  *)
(* check (Announce) and the tier (Backtrack), verification (Verify), each  *)
(* read and write of _adaptive_tighten, and the ledger commit (Conclude).  *)
(* Statements that call nothing between reading and writing an attribute   *)
(* (step_count += 1) are one step, as the interpreter switches threads at  *)
(* calls.  Every append to the ledger may raise: the call ends there and   *)
(* leaves what it changed before.                                          *)
(*                                                                         *)
(* Probabilities and risks are percentages.  What the simulator computes   *)
(* from floating point history is an input (Estimates); what it computes   *)
(* from the shared counters (loop and drift risk) is computed here.        *)
(***************************************************************************)
EXTENDS Integers, Sequences, FiniteSets

CONSTANTS
    Runs,                 \* run ids, one daemon thread each
    Actions,              \* step types
    PathClasses,          \* classes of touched paths that a tier may forbid
    FailureKinds,         \* results of extract_failure_kinds
    Dims,                 \* what a patch is measured by: bytes, files, lines
    Steps,                \* the steps planned
    Estimates,            \* simulated success, effective risk, other vetoes
    AllowedEdits,         \* tier -> path classes its "allow" section permits
    MaxTotalSteps,        \* tier -> budgets.max_total_steps, 0 for none
    PatchBudget,          \* tier -> dimension -> budget, 0 for none
    EscalateOn,           \* target tier -> failure kinds that lead to it
    PolicyMaxSteps,       \* policy max_total_steps (100)
    FailClusterThreshold, \* policy fail_cluster_threshold (8)
    MaxHistory,           \* max_history of record_action (20)
    Maintenance,          \* TRUE if callers reset and relax the kernel
    MaxExecutions         \* bound: steps executed

Tiers == 0..3

Step == [action : Actions \cup {"none"}, enabled : BOOLEAN, valid : BOOLEAN,
         touches : SUBSET PathClasses, size : [Dims -> Nat]]

\* veto: cluster_failure is predicted, or the learner's prior loop risk is
\* above loop_max.
Estimate == [success : 0..100, risk : 0..100, veto : BOOLEAN]

ASSUME RunsAssumption == IsFiniteSet(Runs) /\ Runs # {}
ASSUME ActionsAssumption == Actions \subseteq STRING \ {"none"}
ASSUME StepsAssumption == Steps \subseteq {s \in Step : s.action \in Actions}
ASSUME EstimatesAssumption == Estimates \subseteq Estimate
ASSUME TierAssumption ==
    /\ AllowedEdits \in [Tiers -> SUBSET PathClasses]
    /\ MaxTotalSteps \in [Tiers -> Nat]
    /\ PatchBudget \in [Tiers -> [Dims -> Nat]]
    /\ EscalateOn \in [1..3 -> SUBSET FailureKinds]
ASSUME PolicyAssumption ==
    /\ PolicyMaxSteps \in Nat /\ FailClusterThreshold \in Nat \ {0}
    /\ MaxHistory \in Nat \ {0} /\ Maintenance \in BOOLEAN
    /\ MaxExecutions \in Nat

VARIABLES
    step_count, recent_failures, safety_level, recent_actions, \* SystemState
    consecutive_failures, risk_max, success_min,   \* the kernel and its policy
    committed,      \* self._step_count: steps with an APPROVE record
    lost,           \* history: executed steps whose call raised before that
    tier,           \* RunState.tier per run
    failure_kinds,  \* RunState.failure_kinds per run
    phase,          \* where the run's call of kernel_step is
    step,           \* the step it was called with
    outcome,        \* outcome.success of the run's execution
    seen,           \* what _adaptive_tighten of the run has read
    kindsSeen,      \* history: failure kinds of the run since its tier was 0
    streak          \* history: the action last executed and how often it was,
                    \* no other action recorded in between

state == <<step_count, recent_failures, safety_level, recent_actions>>
policy == <<risk_max, success_min>>
runState == <<tier, failure_kinds>>
call == <<phase, step, outcome, seen>>
history == <<lost, kindsSeen, streak>>
vars == <<state, consecutive_failures, policy, committed, runState, call, history>>

NoStep == [action |-> "none", enabled |-> FALSE, valid |-> FALSE, touches |-> {},
           size |-> [d \in Dims |-> 0]]
NoStreak == [action |-> "none", n |-> 0]
NothingSeen == [level |-> 0, risk |-> 30, success |-> 10]

InPhase(p) == {r \in Runs : phase[r] = p}
InFlight == InPhase("checked") \cup InPhase("executing")

Init ==
    /\ step_count = 0 /\ recent_failures = 0 /\ safety_level = 0
    /\ recent_actions = <<>>
    /\ consecutive_failures = 0
    /\ risk_max = 65 /\ success_min = 15
    /\ committed = 0
    /\ tier = [r \in Runs |-> 0]
    /\ failure_kinds = [r \in Runs |-> {}]
    /\ phase = [r \in Runs |-> "idle"]
    /\ step = [r \in Runs |-> NoStep]
    /\ outcome = [r \in Runs |-> FALSE]
    /\ seen = [r \in Runs |-> NothingSeen]
    /\ lost = 0
    /\ kindsSeen = [r \in Runs |-> {}]
    /\ streak = NoStreak
-------------------------------------------------------------------------------
\* Bug: the step budget is off by one.
WithinTierBudgetOrAt(r, s) ==
    /\ MaxTotalSteps[tier[r]] > 0 => step_count <= MaxTotalSteps[tier[r]]
    /\ s.action = "apply_patch" =>
          \A d \in Dims : PatchBudget[tier[r]][d] > 0 => s.size[d] <= PatchBudget[tier[r]][d]

\* The budgets of the run's tier, first the number of steps executed by the
\* kernel, then the size of a patch in each dimension.
WithinTierBudget(r, s) ==
    /\ MaxTotalSteps[tier[r]] > 0 => step_count < MaxTotalSteps[tier[r]]
    /\ s.action = "apply_patch" =>
          \A d \in Dims : PatchBudget[tier[r]][d] > 0 => s.size[d] <= PatchBudget[tier[r]][d]

\* Every path a step names, read or written, must be of a permitted class.
TierAllowsStep(r, s) == s.touches \subseteq AllowedEdits[tier[r]]

\* Bug: every outcome escalates, whatever its failure kinds.
PickNextTierAlways(current, kinds) == IF current < 3 THEN current + 1 ELSE current

\* The lowest tier above the current one that some failure kind leads to.
PickNextTier(current, kinds) ==
    LET up == {t \in 1..3 : t > current /\ EscalateOn[t] \cap kinds # {}}
    IN  IF up = {} THEN current ELSE CHOOSE t \in up : \A u \in up : t <= u

Validates(s) ==
    /\ s.enabled
    /\ safety_level < 2
    /\ step_count < PolicyMaxSteps
    /\ s.valid

\* _detect_loop, as far as decide reads it: the last four recorded actions,
\* executed or rejected, are the proposed one (loop_risk 0.95 > loop_max 0.8).
LoopDetected(a) ==
    /\ Len(recent_actions) >= 4
    /\ \A i \in 0..3 : recent_actions[Len(recent_actions) - i] = a

\* _detect_drift > drift_max, in integers: 2 * failures / steps > 0.85.
DriftDetected == step_count > 0 /\ 200 * recent_failures > 85 * step_count

\* Bug: drift is not looked at.
DecidesWithoutDrift(s, est) ==
    ~LoopDetected(s.action) /\ ~est.veto /\ est.risk <= risk_max /\ est.success >= success_min

Decides(s, est) ==
    /\ ~LoopDetected(s.action)
    /\ ~DriftDetected
    /\ ~est.veto
    /\ est.risk <= risk_max
    /\ est.success >= success_min

\* Bug: the history is cut to one action less.
RecordActionShort(a) ==
    LET all == Append(recent_actions, a)
    IN  recent_actions' =
          IF Len(all) >= MaxHistory THEN SubSeq(all, Len(all) - MaxHistory + 2, Len(all))
          ELSE all

\* record_action keeps the last MaxHistory actions.
RecordAction(a) ==
    LET all == Append(recent_actions, a)
    IN  recent_actions' =
          IF Len(all) > MaxHistory THEN SubSeq(all, Len(all) - MaxHistory + 1, Len(all))
          ELSE all

Enter(r, p) == phase' = [phase EXCEPT ![r] = p]

\* Return or raise: what the caller gets is nothing the kernel reads again.
Return(r) ==
    /\ Enter(r, "idle")
    /\ step' = [step EXCEPT ![r] = NoStep]
    /\ outcome' = [outcome EXCEPT ![r] = FALSE]

\* The early returns before simulation: the call leaves nothing behind but
\* its ledger records, or not even those when the append raises.
Refuse(r, s) ==
    /\ phase[r] = "idle"
    /\ ~(WithinTierBudget(r, s) /\ TierAllowsStep(r, s) /\ Validates(s))
    /\ Return(r)
    /\ UNCHANGED <<state, consecutive_failures, policy, committed, runState,
                   seen, history>>

\* Every gate lets the step pass.
Check(r, s) ==
    /\ phase[r] = "idle"
    /\ committed + lost + Cardinality({q \in Runs : phase[q] # "idle"}) < MaxExecutions
    /\ WithinTierBudget(r, s) /\ TierAllowsStep(r, s) /\ Validates(s)
    /\ Enter(r, "checked")
    /\ step' = [step EXCEPT ![r] = s]
    /\ UNCHANGED <<state, consecutive_failures, policy, committed, runState,
                   outcome, seen, history>>

\* decide rejects: the action is recorded for loop detection all the same,
\* before the append that may raise.
Reject(r, est) ==
    LET a == step[r].action
    IN  /\ phase[r] = "checked"
        /\ ~Decides(step[r], est)
        /\ RecordAction(a)
        /\ streak' = IF streak.action = a THEN streak ELSE NoStreak
        /\ Return(r)
        /\ UNCHANGED <<step_count, recent_failures, safety_level, consecutive_failures,
                       policy, committed, runState, seen, lost, kindsSeen>>

\* decide approves and execute_fn is called.
Approve(r, est) ==
    /\ phase[r] = "checked"
    /\ Decides(step[r], est)
    /\ Enter(r, "executing")
    /\ UNCHANGED <<state, consecutive_failures, policy, committed, runState, step,
                   outcome, seen, history>>

\* record_success, record_failure and the kernel's own counter.
CountOutcome(ok) ==
    /\ recent_failures' =
         IF ~ok THEN recent_failures + 1
         ELSE IF recent_failures = 0 THEN 0 ELSE recent_failures - 1
    /\ consecutive_failures' = IF ok THEN 0 ELSE consecutive_failures + 1

\* execute_fn returned, or raised, which is a failed outcome.
Settle(r, ok) ==
    LET a == step[r].action
    IN  /\ phase[r] = "executing"
        /\ Enter(r, "settled")
        /\ outcome' = [outcome EXCEPT ![r] = ok]
        /\ step_count' = step_count + 1
        /\ RecordAction(a)
        /\ CountOutcome(ok)
        /\ streak' = [action |-> a, n |-> IF streak.action = a THEN streak.n + 1 ELSE 1]
        /\ UNCHANGED <<safety_level, policy, committed, runState, step,
                       seen, lost, kindsSeen>>

\* Bug: the threshold is off by one.
RollbackDueLate == consecutive_failures > 3

RollbackDue == consecutive_failures >= 3

\* _check_and_trigger_rollback finds three failures in a row, of whatever
\* run, and prints that this run's were detected.
Announce(r) ==
    /\ phase[r] = "settled"
    /\ RollbackDue
    /\ Enter(r, "announcing")
    /\ UNCHANGED <<state, consecutive_failures, policy, committed, runState, step,
                   outcome, seen, history>>

\* It resets the counter, and the override message goes into the outcome of
\* this run, whichever runs failed; no workspace is touched.
CheckRollback(r) ==
    \/ /\ phase[r] = "settled" /\ ~RollbackDue
       /\ UNCHANGED consecutive_failures
    \/ /\ phase[r] = "announcing"
       /\ consecutive_failures' = 0

\* extract_failure_kinds reads the status as int(status or 1), so a status of
\* 0 does not stop it: the kinds come from the logs of any outcome.
Escalate(r, kinds) ==
    /\ failure_kinds' = [failure_kinds EXCEPT ![r] = kinds]
    /\ tier' = [tier EXCEPT ![r] = PickNextTier(@, kinds)]
    /\ kindsSeen' = [kindsSeen EXCEPT ![r] = @ \cup kinds]

\* The call raises after its step was executed.
Lose(r) == Return(r) /\ lost' = lost + 1

\* A raised tier is appended as an event after it was raised.
Backtrack(r, kinds) ==
    /\ CheckRollback(r)
    /\ Escalate(r, kinds)
    /\ \/ Enter(r, "verifying") /\ UNCHANGED <<step, outcome, lost>>
       \/ PickNextTier(tier[r], kinds) # tier[r] /\ Lose(r)
    /\ UNCHANGED <<state, policy, committed, seen, streak>>

\* The FAILURE_CLUSTER violation of verify.
FailureCluster == recent_failures >= FailClusterThreshold

Verify(r) ==
    /\ phase[r] = "verifying"
    /\ Enter(r, IF FailureCluster THEN "cluster" ELSE "verified")
    /\ UNCHANGED <<state, consecutive_failures, policy, committed, runState, step,
                   outcome, seen, history>>

\* One statement of _adaptive_tighten, from phase p to phase q.
Tightens(r, p, q) ==
    /\ phase[r] = p
    /\ Enter(r, q)
    /\ UNCHANGED <<step_count, recent_failures, recent_actions, consecutive_failures,
                   committed, runState, step, outcome, history>>

ReadsLevel(r) ==
    /\ Tightens(r, "cluster", "levelRead")
    /\ seen' = [seen EXCEPT ![r].level = safety_level]
    /\ UNCHANGED <<safety_level, policy>>

WritesLevel(r) ==
    /\ Tightens(r, "levelRead", "raised")
    /\ safety_level' = IF seen[r].level < 2 THEN seen[r].level + 1 ELSE 2
    /\ UNCHANGED <<policy, seen>>

ReadsRisk(r) ==
    /\ Tightens(r, "raised", "riskRead")
    /\ seen' = [seen EXCEPT ![r].risk = risk_max]
    /\ UNCHANGED <<safety_level, policy>>

ReadsSuccess(r) ==
    /\ Tightens(r, "riskRead", "bothRead")
    /\ seen' = [seen EXCEPT ![r].success = success_min]
    /\ UNCHANGED <<safety_level, policy>>

\* Bug: the risk threshold is forgotten.
WritesRiskNot(r) ==
    /\ Tightens(r, "bothRead", "riskWritten")
    /\ UNCHANGED <<safety_level, policy, seen>>

WritesRisk(r) ==
    /\ Tightens(r, "bothRead", "riskWritten")
    /\ risk_max' = IF seen[r].risk - 10 < 30 THEN 30 ELSE seen[r].risk - 10
    /\ UNCHANGED <<safety_level, success_min, seen>>

WritesSuccess(r) ==
    /\ Tightens(r, "riskWritten", "verified")
    /\ success_min' = IF seen[r].success + 5 > 50 THEN 50 ELSE seen[r].success + 5
    /\ seen' = [seen EXCEPT ![r] = NothingSeen]
    /\ UNCHANGED <<safety_level, risk_max>>

\* It runs without a lock, so runs may tighten side by side.
AdaptiveTighten(r) ==
    \/ ReadsLevel(r) \/ WritesLevel(r) \/ ReadsRisk(r)
    \/ ReadsSuccess(r) \/ WritesRisk(r) \/ WritesSuccess(r)

\* Bug: a step that failed is not committed.
ConcludeSuccessOnly(r) ==
    /\ phase[r] = "verified"
    /\ \/ /\ committed' = IF outcome[r] THEN committed + 1 ELSE committed
          /\ Return(r) /\ UNCHANGED lost
       \/ Lose(r) /\ UNCHANGED committed
    /\ UNCHANGED <<state, consecutive_failures, policy, runState, seen,
                   kindsSeen, streak>>

\* APPROVE record and return, or the append raises.
Conclude(r) ==
    /\ phase[r] = "verified"
    /\ \/ committed' = committed + 1 /\ Return(r) /\ UNCHANGED lost
       \/ Lose(r) /\ UNCHANGED committed
    /\ UNCHANGED <<state, consecutive_failures, policy, runState, seen,
                   kindsSeen, streak>>
-------------------------------------------------------------------------------
\* What callers may do between steps.  The orchestrator does none of it.

\* reset_for_run: a new SystemState and tier 0 for the run; the kernel's
\* consecutive_failures and the tightened policy stay as they are.
ResetForRun(r) ==
    /\ Maintenance
    /\ \A q \in Runs : phase[q] = "idle"
    /\ step_count' = 0 /\ recent_failures' = 0 /\ safety_level' = 0
    /\ recent_actions' = <<>>
    /\ tier' = [tier EXCEPT ![r] = 0]
    /\ failure_kinds' = [failure_kinds EXCEPT ![r] = {}]
    /\ kindsSeen' = [kindsSeen EXCEPT ![r] = {}]
    /\ streak' = NoStreak
    /\ UNCHANGED <<consecutive_failures, policy, committed, lost, call>>

\* end_run: the run's tier state is forgotten and starts at 0 when asked for.
EndRun(r) ==
    /\ Maintenance
    /\ phase[r] = "idle"
    /\ tier' = [tier EXCEPT ![r] = 0]
    /\ failure_kinds' = [failure_kinds EXCEPT ![r] = {}]
    /\ kindsSeen' = [kindsSeen EXCEPT ![r] = {}]
    /\ UNCHANGED <<state, consecutive_failures, policy, committed, call, lost, streak>>

AdaptiveRelax ==
    /\ Maintenance
    /\ \A q \in Runs : phase[q] = "idle"
    /\ safety_level' = IF safety_level > 0 THEN safety_level - 1 ELSE 0
    /\ risk_max' = IF risk_max + 5 > 80 THEN 80 ELSE risk_max + 5
    /\ success_min' = IF success_min - 2 < 10 THEN 10 ELSE success_min - 2
    /\ UNCHANGED <<step_count, recent_failures, recent_actions, consecutive_failures,
                   committed, runState, call, history>>

ResetForIteration ==
    /\ Maintenance
    /\ \A q \in Runs : phase[q] = "idle"
    /\ recent_actions' = <<>>
    /\ UNCHANGED <<step_count, recent_failures, safety_level, consecutive_failures,
                   policy, committed, runState, call, history>>

KernelStep(r) ==
    \/ \E s \in Steps : Refuse(r, s) \/ Check(r, s)
    \/ \E est \in Estimates : Reject(r, est) \/ Approve(r, est)
    \/ \E ok \in BOOLEAN : Settle(r, ok)
    \/ Announce(r)
    \/ \E kinds \in SUBSET FailureKinds : Backtrack(r, kinds)
    \/ Verify(r) \/ AdaptiveTighten(r)
    \/ Conclude(r)

Next ==
    \/ \E r \in Runs : KernelStep(r) \/ ResetForRun(r) \/ EndRun(r)
    \/ AdaptiveRelax
    \/ ResetForIteration

Spec == Init /\ [][Next]_vars
-------------------------------------------------------------------------------
\* Between the rise of the safety level and the thresholds that go with it.
Tightening == {"cluster", "levelRead", "raised", "riskRead", "bothRead", "riskWritten"}

\* Past the execution, before the ledger commit.
AfterExecution == {"settled", "announcing", "verifying", "verified"} \cup Tightening

Phases == {"idle", "checked", "executing"} \cup AfterExecution

TypeOK ==
    /\ step_count \in Nat /\ recent_failures \in Nat /\ safety_level \in 0..2
    /\ recent_actions \in Seq(Actions) /\ Len(recent_actions) <= MaxHistory
    /\ consecutive_failures \in Nat
    /\ risk_max \in 30..80 /\ success_min \in 10..50
    /\ committed \in Nat /\ lost \in Nat
    /\ tier \in [Runs -> Tiers]
    /\ failure_kinds \in [Runs -> SUBSET FailureKinds]
    /\ phase \in [Runs -> Phases]
    /\ step \in [Runs -> Step]
    /\ \A r \in Runs : phase[r] # "idle" => step[r] \in Steps
    /\ outcome \in [Runs -> BOOLEAN]
    /\ seen \in [Runs -> [level : 0..2, risk : 30..80, success : 10..50]]
    /\ kindsSeen \in [Runs -> SUBSET FailureKinds]
    /\ streak \in [action : Actions \cup {"none"}, n : Nat]

\* The steps a run may execute at a tier: the tier's budget, or the policy's.
StepLimit(t) ==
    IF MaxTotalSteps[t] \in 1..PolicyMaxSteps THEN MaxTotalSteps[t] ELSE PolicyMaxSteps

\* The gate reads step_count, which moves when a step returns: runs that are
\* let in side by side overrun the budget, but never by as many steps as
\* there are runs.
BudgetOverrunBounded ==
    \E t \in Tiers : step_count + Cardinality(InFlight) <= StepLimit(t) - 1 + Cardinality(Runs)

\* A step that touches what tier 0 forbids is let in only in a run one of
\* whose outcomes since it was at tier 0 had a failure kind that leads to a
\* tier which permits it.
EditsEarned ==
    \A r \in Runs : phase[r] # "idle" /\ ~(step[r].touches \subseteq AllowedEdits[0]) =>
        \E t \in 1..3 : /\ step[r].touches \subseteq AllowedEdits[t]
                        /\ EscalateOn[t] \cap kindsSeen[r] # {}

\* decide's loop check lets no action be executed more than four times with
\* no other action recorded in between, plus the runs that passed the check
\* before the fourth returned.
LoopsEnd == streak.n <= 3 + Cardinality(Runs)

Uncommitted == {r \in Runs : phase[r] \in AfterExecution}

\* Every executed step has its APPROVE record, or its call is on the way to
\* it, or the caller was told by an exception that the ledger failed; no step
\* is executed and answered without its record.
ExecutionsCommitted == step_count = committed + lost + Cardinality(Uncommitted)

\* Three failures in a row never go by unannounced: whatever the runs do side
\* by side, a row longer than two is made of calls that are still between
\* their outcome and the rollback check.
RowAnnounced ==
    consecutive_failures <= 2 + Cardinality(InPhase("settled") \cup InPhase("announcing"))

\* Failures in a row are failures the drift and cluster checks still count.
ConsecWithinRecent == consecutive_failures <= recent_failures

\* Thresholds and safety level are tightened and relaxed by different
\* amounts and reset apart, and runs that tighten side by side overwrite each
\* other's thresholds.  Still, while no run is tightening, every level stands
\* for as much as the two relaxations that take it back would loosen.
EnvelopeCoupled ==
    (\A r \in Runs : phase[r] \notin Tightening) =>
        /\ risk_max <= 80 - 5 * safety_level
        /\ success_min >= 10 + 2 * safety_level

\* Drift found while no step is in flight is found for ever: no step can be
\* executed any more that would bring the failure ratio down.
DriftLocksOut == [](DriftDetected /\ InFlight = {} => []DriftDetected)

\* After reset_for_run nothing an earlier run left behind decides anything:
\* the counters and thresholds are those of a new kernel.
NoLeakAfterReset ==
    [][\A r \in Runs : ResetForRun(r) =>
          consecutive_failures' = 0 /\ risk_max' >= 65 /\ success_min' <= 15]_vars
===============================================================================
