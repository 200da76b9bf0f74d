-------------------------- MODULE HardKernel_proofs --------------------------
(***************************************************************************)
(* Proofs about HardKernel for any number of runs, any tier policy, any    *)
(* step budget and any interleaving of the runs' calls.                    *)
(***************************************************************************)
EXTENDS HardKernel, FiniteSetTheorems, TLAPS

\* The tier that pick_next_tier returns is a tier, not below the current one,
\* and a raised one has a failure kind that leads to it.
LEMMA PickedTier ==
    ASSUME NEW c \in Tiers, NEW kinds \in SUBSET FailureKinds
    PROVE  /\ PickNextTier(c, kinds) \in Tiers
           /\ PickNextTier(c, kinds) # c =>
                EscalateOn[PickNextTier(c, kinds)] \cap kinds # {}
<1> DEFINE up == {t \in 1..3 : t > c /\ EscalateOn[t] \cap kinds # {}}
<1>1. CASE up = {}
  BY <1>1 DEF PickNextTier
<1>2. CASE up # {}
  <2>1. \E t \in up : \A u \in up : t <= u
    <3>1. CASE 1 \in up  BY <3>1
    <3>2. CASE 1 \notin up /\ 2 \in up  BY <3>2
    <3>3. CASE 1 \notin up /\ 2 \notin up  BY <3>3, <1>2
    <3> QED  BY <3>1, <3>2, <3>3
  <2>2. PickNextTier(c, kinds) = CHOOSE t \in up : \A u \in up : t <= u
    BY <1>2 DEF PickNextTier
  <2>3. PickNextTier(c, kinds) \in up
    BY <2>1, <2>2
  <2> QED  BY <2>3 DEF Tiers
<1> QED  BY <1>1, <1>2

\* record_action keeps a history of actions of at most MaxHistory elements.
LEMMA RecordedActions ==
    ASSUME recent_actions \in Seq(Actions), Len(recent_actions) <= MaxHistory,
           NEW a \in Actions, RecordAction(a)
    PROVE  recent_actions' \in Seq(Actions) /\ Len(recent_actions') <= MaxHistory
<1> DEFINE all == Append(recent_actions, a)
<1>1. all \in Seq(Actions) /\ Len(all) = Len(recent_actions) + 1 /\ Len(all) \in Nat
  OBVIOUS
<1>2. MaxHistory \in Nat \ {0}
  BY PolicyAssumption
<1>3. CASE Len(all) > MaxHistory
  <2> DEFINE m == Len(all) - MaxHistory + 1
  <2>1. recent_actions' = SubSeq(all, m, Len(all))
    BY <1>3 DEF RecordAction
  <2>2. m \in 1..Len(all) /\ Len(all) - m + 1 = MaxHistory
    BY <1>1, <1>2, <1>3
  <2> HIDE DEF all, m
  <2>3. SubSeq(all, m, Len(all)) \in Seq(Actions)
        /\ Len(SubSeq(all, m, Len(all))) = Len(all) - m + 1
    BY <1>1, <2>2
  <2> QED  BY <2>1, <2>2, <2>3, <1>2
<1>4. CASE ~(Len(all) > MaxHistory)
  BY <1>1, <1>2, <1>4 DEF RecordAction
<1> QED  BY <1>3, <1>4

\* The initial state is of the declared types.
LEMMA TypeInit == Init => TypeOK
BY PolicyAssumption
   DEF Init, TypeOK, Tiers, Phases, NoStep, NoStreak, NothingSeen, Step

\* The statements of _adaptive_tighten keep levels and thresholds in range.
LEMMA TightenedTypes ==
    ASSUME safety_level \in 0..2, risk_max \in 30..80, success_min \in 10..50,
           seen \in [Runs -> [level : 0..2, risk : 30..80, success : 10..50]],
           NEW r \in Runs, AdaptiveTighten(r)
    PROVE  /\ safety_level' \in 0..2 /\ risk_max' \in 30..80 /\ success_min' \in 10..50
           /\ seen' \in [Runs -> [level : 0..2, risk : 30..80, success : 10..50]]
<1>1. seen[r].level \in 0..2 /\ seen[r].risk \in 30..80 /\ seen[r].success \in 10..50
  OBVIOUS
<1>2. CASE ReadsLevel(r)
  <2>1. seen' = [seen EXCEPT ![r].level = safety_level] /\ UNCHANGED <<safety_level, policy>>
    BY <1>2 DEF ReadsLevel
  <2> QED  BY <2>1 DEF policy
<1>3. CASE WritesLevel(r)
  <2>1. /\ safety_level' = IF seen[r].level < 2 THEN seen[r].level + 1 ELSE 2
        /\ UNCHANGED <<policy, seen>>
    BY <1>3 DEF WritesLevel
  <2> QED  BY <1>1, <2>1 DEF policy
<1>4. CASE ReadsRisk(r)
  <2>1. seen' = [seen EXCEPT ![r].risk = risk_max] /\ UNCHANGED <<safety_level, policy>>
    BY <1>4 DEF ReadsRisk
  <2> QED  BY <2>1 DEF policy
<1>5. CASE ReadsSuccess(r)
  <2>1. seen' = [seen EXCEPT ![r].success = success_min] /\ UNCHANGED <<safety_level, policy>>
    BY <1>5 DEF ReadsSuccess
  <2> QED  BY <2>1 DEF policy
<1>6. CASE WritesRisk(r)
  <2>1. /\ risk_max' = IF seen[r].risk - 10 < 30 THEN 30 ELSE seen[r].risk - 10
        /\ UNCHANGED <<safety_level, success_min, seen>>
    BY <1>6 DEF WritesRisk
  <2>2. risk_max' \in 30..80
    BY <1>1, <2>1
  <2> QED  BY <2>1, <2>2
<1>7. CASE WritesSuccess(r)
  <2>1. /\ success_min' = IF seen[r].success + 5 > 50 THEN 50 ELSE seen[r].success + 5
        /\ seen' = [seen EXCEPT ![r] = NothingSeen]
        /\ UNCHANGED <<safety_level, risk_max>>
    BY <1>7 DEF WritesSuccess
  <2>2. success_min' \in 10..50
    BY <1>1, <2>1
  <2>3. NothingSeen \in [level : 0..2, risk : 30..80, success : 10..50]
    BY DEF NothingSeen
  <2> QED  BY <2>1, <2>2, <2>3
<1> QED  BY <1>2, <1>3, <1>4, <1>5, <1>6, <1>7 DEF AdaptiveTighten

\* Every step of the kernel and of its callers keeps the types.
LEMMA TypeNext == TypeOK /\ [Next]_vars => TypeOK'
<1> SUFFICES ASSUME TypeOK, [Next]_vars PROVE TypeOK'
  OBVIOUS
<1> USE DEF TypeOK
<1>1. ASSUME NEW r \in Runs, NEW s \in Steps, Refuse(r, s) PROVE TypeOK'
  BY <1>1 DEF Refuse, Return, Enter, NoStep, Step, Phases, state, policy, runState, history
<1>2. ASSUME NEW r \in Runs, NEW s \in Steps, Check(r, s) PROVE TypeOK'
  BY <1>2, StepsAssumption DEF Check, Enter, Phases, state, policy, runState, history
<1>3. ASSUME NEW r \in Runs, NEW est \in Estimates, Reject(r, est) PROVE TypeOK'
  <2>1. step[r].action \in Actions
    BY <1>3, StepsAssumption DEF Reject
  <2>2. recent_actions' \in Seq(Actions) /\ Len(recent_actions') <= MaxHistory
    BY <1>3, <2>1, RecordedActions DEF Reject
  <2>3. streak' \in [action : Actions \cup {"none"}, n : Nat]
    BY <1>3 DEF Reject, NoStreak
  <2> QED
    BY <1>3, <2>2, <2>3 DEF Reject, Return, Enter, NoStep, Step, Phases, policy, runState
<1>4. ASSUME NEW r \in Runs, NEW est \in Estimates, Approve(r, est) PROVE TypeOK'
  BY <1>4 DEF Approve, Enter, Phases, state, policy, runState, history
<1>5. ASSUME NEW r \in Runs, NEW ok \in BOOLEAN, Settle(r, ok) PROVE TypeOK'
  <2>1. step[r].action \in Actions
    BY <1>5, StepsAssumption DEF Settle
  <2>2. recent_actions' \in Seq(Actions) /\ Len(recent_actions') <= MaxHistory
    BY <1>5, <2>1, RecordedActions DEF Settle
  <2>3. streak' \in [action : Actions \cup {"none"}, n : Nat]
    BY <1>5, <2>1 DEF Settle
  <2>4. recent_failures' \in Nat /\ consecutive_failures' \in Nat
    BY <1>5 DEF Settle, CountOutcome
  <2> QED
    BY <1>5, <2>2, <2>3, <2>4 DEF Settle, Enter, Phases, AfterExecution, policy, runState
<1>6. ASSUME NEW r \in Runs, NEW kinds \in SUBSET FailureKinds, Backtrack(r, kinds)
      PROVE TypeOK'
  <2>1. PickNextTier(tier[r], kinds) \in Tiers
    BY PickedTier
  <2>2. tier' \in [Runs -> Tiers] /\ failure_kinds' \in [Runs -> SUBSET FailureKinds]
        /\ kindsSeen' \in [Runs -> SUBSET FailureKinds]
    BY <1>6, <2>1 DEF Backtrack, Escalate
  <2>3. consecutive_failures' \in Nat /\ phase[r] # "idle"
    BY <1>6 DEF Backtrack, CheckRollback
  <2>4. UNCHANGED <<state, policy, committed, seen, streak>>
    BY <1>6 DEF Backtrack
  <2>5. /\ phase' \in [Runs -> Phases] /\ step' \in [Runs -> Step]
        /\ outcome' \in [Runs -> BOOLEAN] /\ lost' \in Nat
        /\ \A q \in Runs : phase'[q] # "idle" => step'[q] \in Steps
    <3>1. CASE Enter(r, "verifying") /\ UNCHANGED <<step, outcome, lost>>
      BY <2>3, <3>1 DEF Enter, Phases, AfterExecution
    <3>2. CASE Lose(r)
      BY <3>2 DEF Lose, Return, Enter, NoStep, Step, Phases
    <3> QED  BY <1>6, <3>1, <3>2 DEF Backtrack
  <2> QED
    BY <2>2, <2>3, <2>4, <2>5 DEF state, policy
<1>7. ASSUME NEW r \in Runs, Conclude(r) PROVE TypeOK'
  <2>1. committed' \in Nat /\ lost' \in Nat
    BY <1>7 DEF Conclude, Lose
  <2>2. Return(r) /\ UNCHANGED <<state, consecutive_failures, policy, runState, seen, kindsSeen, streak>>
    BY <1>7 DEF Conclude, Lose
  <2> QED
    BY <2>1, <2>2 DEF Return, Enter, NoStep, Step, Phases, state, policy, runState
<1>13. ASSUME NEW r \in Runs, Announce(r) \/ Verify(r) PROVE TypeOK'
  BY <1>13 DEF Announce, Verify, Enter, Phases, AfterExecution, Tightening,
               state, policy, runState, history
<1>14. ASSUME NEW r \in Runs, AdaptiveTighten(r) PROVE TypeOK'
  <2>1. phase' \in [Runs -> Phases] /\ \A q \in Runs : phase'[q] # "idle" => step'[q] \in Steps
    BY <1>14 DEF AdaptiveTighten, ReadsLevel, WritesLevel, ReadsRisk, ReadsSuccess, WritesRisk,
                 WritesSuccess, Tightens, Enter, Phases, AfterExecution, Tightening
  <2>2. /\ safety_level' \in 0..2 /\ risk_max' \in 30..80 /\ success_min' \in 10..50
        /\ seen' \in [Runs -> [level : 0..2, risk : 30..80, success : 10..50]]
    BY <1>14, TightenedTypes
  <2> QED
    BY <1>14, <2>1, <2>2
       DEF AdaptiveTighten, ReadsLevel, WritesLevel, ReadsRisk, ReadsSuccess, WritesRisk,
           WritesSuccess, Tightens, runState, history
<1>8. ASSUME NEW r \in Runs, ResetForRun(r) PROVE TypeOK'
  BY <1>8, PolicyAssumption DEF ResetForRun, NoStreak, Tiers, policy, call
<1>9. ASSUME NEW r \in Runs, EndRun(r) PROVE TypeOK'
  BY <1>9 DEF EndRun, Tiers, state, policy, call
<1>10. ASSUME AdaptiveRelax PROVE TypeOK'
  BY <1>10 DEF AdaptiveRelax, runState, call, history
<1>11. ASSUME ResetForIteration PROVE TypeOK'
  BY <1>11, PolicyAssumption DEF ResetForIteration, policy, runState, call, history
<1>12. ASSUME UNCHANGED vars PROVE TypeOK'
  BY <1>12 DEF vars, state, policy, runState, call, history
<1> QED
  BY <1>1, <1>2, <1>3, <1>4, <1>5, <1>6, <1>7, <1>8, <1>9, <1>10, <1>11, <1>12, <1>13, <1>14
     DEF Next, KernelStep

\* The kernel's counters, thresholds and tiers keep their types in every
\* behaviour: the clamps of _adaptive_tighten and adaptive_relax hold the
\* thresholds in range, and record_action bounds the history.
THEOREM Typing == Spec => []TypeOK
BY TypeInit, TypeNext, PTL DEF Spec
-------------------------------------------------------------------------------
\* The steps between the outcome and the commit that only move the call on, and
\* the safety envelope.
Passes(r) == Announce(r) \/ Verify(r) \/ AdaptiveTighten(r)

\* They keep the call after its execution, and everything but the envelope and what
\* the run has read of it.
LEMMA PassageKept ==
    ASSUME NEW r \in Runs, Passes(r)
    PROVE  /\ UNCHANGED <<step_count, recent_failures, recent_actions, consecutive_failures,
                          committed, lost, tier, failure_kinds, step, outcome, kindsSeen, streak>>
           /\ phase[r] \in AfterExecution
           /\ \E p \in AfterExecution : phase' = [phase EXCEPT ![r] = p]
<1>1. CASE Announce(r)
  BY <1>1 DEF Announce, Enter, AfterExecution, state, runState, history
<1>2. CASE Verify(r)
  BY <1>2 DEF Verify, Enter, AfterExecution, Tightening, state, runState, history
<1>3. CASE AdaptiveTighten(r)
  BY <1>3 DEF AdaptiveTighten, ReadsLevel, WritesLevel, ReadsRisk, ReadsSuccess, WritesRisk,
              WritesSuccess, Tightens, Enter, AfterExecution, Tightening, runState, history
<1> QED  BY <1>1, <1>2, <1>3 DEF Passes

\* The envelope while runs are tightening: whoever has written a risk threshold and
\* not yet the other keeps the first one tight, as what others write is tight, too.
EnvelopeInv ==
    /\ EnvelopeCoupled
    /\ \A r \in Runs : phase[r] = "riskWritten" => risk_max <= 70

\* Outside of _adaptive_tighten nobody enters or leaves its inside, and only the
\* callers' resets, which wait for idle runs, move the envelope.
LEMMA EnvelopeKept ==
    ASSUME TypeOK, NEW r \in Runs, KernelStep(r) \/ EndRun(r), ~AdaptiveTighten(r)
    PROVE  /\ UNCHANGED <<safety_level, risk_max, success_min>>
           /\ \A q \in Runs : /\ phase[q] \in Tightening => phase'[q] \in Tightening
                              /\ phase'[q] = "riskWritten" => phase[q] = "riskWritten"
<1>0. phase \in [Runs -> Phases]
  BY DEF TypeOK
<1>1. ASSUME NEW s \in Steps, Refuse(r, s) \/ Check(r, s)
      PROVE  /\ UNCHANGED <<safety_level, risk_max, success_min>>
             /\ phase[r] \notin Tightening
             /\ \E p \in Phases \ {"riskWritten"} : phase' = [phase EXCEPT ![r] = p]
  BY <1>1 DEF Refuse, Check, Return, Enter, Tightening, Phases, state, policy
<1>2. ASSUME NEW est \in Estimates, Reject(r, est) \/ Approve(r, est)
      PROVE  /\ UNCHANGED <<safety_level, risk_max, success_min>>
             /\ phase[r] \notin Tightening
             /\ \E p \in Phases \ {"riskWritten"} : phase' = [phase EXCEPT ![r] = p]
  BY <1>2 DEF Reject, Approve, Return, Enter, Tightening, Phases, state, policy
<1>3. ASSUME NEW ok \in BOOLEAN, Settle(r, ok)
      PROVE  /\ UNCHANGED <<safety_level, risk_max, success_min>>
             /\ phase[r] \notin Tightening
             /\ \E p \in Phases \ {"riskWritten"} : phase' = [phase EXCEPT ![r] = p]
  BY <1>3 DEF Settle, Enter, Tightening, Phases, AfterExecution, policy
<1>4. ASSUME NEW kinds \in SUBSET FailureKinds, Backtrack(r, kinds)
      PROVE  /\ UNCHANGED <<safety_level, risk_max, success_min>>
             /\ phase[r] \notin Tightening
             /\ \E p \in Phases \ {"riskWritten"} : phase' = [phase EXCEPT ![r] = p]
  BY <1>4 DEF Backtrack, CheckRollback, Lose, Return, Enter, Tightening, Phases, AfterExecution,
              state, policy
<1>5. ASSUME Announce(r) \/ Verify(r) \/ Conclude(r)
      PROVE  /\ UNCHANGED <<safety_level, risk_max, success_min>>
             /\ phase[r] \notin Tightening
             /\ \E p \in Phases \ {"riskWritten"} : phase' = [phase EXCEPT ![r] = p]
  BY <1>5 DEF Announce, Verify, Conclude, Lose, Return, Enter, Tightening, Phases, AfterExecution,
              state, policy
<1>6. CASE EndRun(r)
  BY <1>6 DEF EndRun, call, state, policy
<1>7. ASSUME NEW p \in Phases \ {"riskWritten"}, phase[r] \notin Tightening,
             phase' = [phase EXCEPT ![r] = p]
      PROVE  \A q \in Runs : /\ phase[q] \in Tightening => phase'[q] \in Tightening
                             /\ phase'[q] = "riskWritten" => phase[q] = "riskWritten"
  BY <1>0, <1>7
<1> QED  BY <1>1, <1>2, <1>3, <1>4, <1>5, <1>6, <1>7 DEF KernelStep

\* Every step of a tightening, relaxing and resetting keep the envelope coupled.
LEMMA EnvelopeNext == TypeOK /\ EnvelopeInv /\ [Next]_vars => EnvelopeInv'
<1> SUFFICES ASSUME TypeOK, EnvelopeInv, [Next]_vars PROVE EnvelopeInv'
  OBVIOUS
<1>0. /\ safety_level \in 0..2 /\ risk_max \in 30..80 /\ success_min \in 10..50
      /\ phase \in [Runs -> Phases]
      /\ seen \in [Runs -> [level : 0..2, risk : 30..80, success : 10..50]]
  BY DEF TypeOK
<1>1. ASSUME NEW r \in Runs, KernelStep(r) \/ EndRun(r), ~AdaptiveTighten(r) PROVE EnvelopeInv'
  <2>1. /\ UNCHANGED <<safety_level, risk_max, success_min>>
        /\ \A q \in Runs : /\ phase[q] \in Tightening => phase'[q] \in Tightening
                           /\ phase'[q] = "riskWritten" => phase[q] = "riskWritten"
    BY <1>1, EnvelopeKept
  <2>u. safety_level' = safety_level /\ risk_max' = risk_max /\ success_min' = success_min
    BY <2>1
  <2>2. EnvelopeCoupled'
    <3> SUFFICES ASSUME \A q \in Runs : phase'[q] \notin Tightening
                 PROVE  risk_max <= 80 - 5 * safety_level /\ success_min >= 10 + 2 * safety_level
      BY <2>u DEF EnvelopeCoupled
    <3>1. \A q \in Runs : phase[q] \notin Tightening
      BY <2>1
    <3> QED  BY <3>1 DEF EnvelopeInv, EnvelopeCoupled
  <2>3. \A q \in Runs : phase'[q] = "riskWritten" => risk_max <= 70
    BY <2>1 DEF EnvelopeInv
  <2> QED  BY <2>u, <2>2, <2>3 DEF EnvelopeInv
<1>2. ASSUME NEW r \in Runs, ReadsLevel(r) \/ WritesLevel(r) \/ ReadsRisk(r) \/ ReadsSuccess(r)
      PROVE EnvelopeInv'
  <2>1. /\ phase'[r] \in Tightening /\ phase'[r] # "riskWritten"
        /\ \A q \in Runs \ {r} : phase'[q] = phase[q]
        /\ risk_max' = risk_max
    BY <1>0, <1>2 DEF ReadsLevel, WritesLevel, ReadsRisk, ReadsSuccess, Tightens, Enter,
                      Tightening, policy
  <2> QED  BY <2>1 DEF EnvelopeInv, EnvelopeCoupled
<1>3. ASSUME NEW r \in Runs, WritesRisk(r) PROVE EnvelopeInv'
  <2>1. phase'[r] \in Tightening
    BY <1>0, <1>3 DEF WritesRisk, Tightens, Enter, Tightening
  <2>2. seen[r].risk \in 30..80
    BY <1>0
  <2>3. risk_max' <= 70
    BY <1>3, <2>2 DEF WritesRisk
  <2> QED  BY <2>1, <2>3 DEF EnvelopeInv, EnvelopeCoupled
<1>4. ASSUME NEW r \in Runs, WritesSuccess(r) PROVE EnvelopeInv'
  <2>1. /\ phase[r] = "riskWritten" /\ phase'[r] = "verified"
        /\ \A q \in Runs \ {r} : phase'[q] = phase[q]
        /\ UNCHANGED <<risk_max, safety_level>>
    BY <1>0, <1>4 DEF WritesSuccess, Tightens, Enter
  <2>2. seen[r].success \in 10..50
    BY <1>0
  <2>3. success_min' >= 15
    BY <1>4, <2>2 DEF WritesSuccess
  <2>4. risk_max <= 70
    BY <2>1 DEF EnvelopeInv
  <2>5. EnvelopeCoupled'
    <3>1. risk_max' <= 80 - 5 * safety_level'
      BY <1>0, <2>1, <2>4
    <3>2. success_min' \in 10..50
      BY TypeNext DEF TypeOK
    <3>3. success_min' >= 10 + 2 * safety_level'
      BY <1>0, <2>1, <2>3, <3>2
    <3> QED  BY <3>1, <3>3 DEF EnvelopeCoupled
  <2> QED  BY <2>1, <2>4, <2>5 DEF EnvelopeInv
<1>5. ASSUME NEW r \in Runs, ResetForRun(r) PROVE EnvelopeInv'
  BY <1>0, <1>5 DEF ResetForRun, policy, call, EnvelopeInv, EnvelopeCoupled
<1>6. ASSUME AdaptiveRelax PROVE EnvelopeInv'
  <2>1. /\ \A q \in Runs : phase[q] = "idle" /\ phase'[q] = "idle"
        /\ risk_max <= 80 - 5 * safety_level /\ success_min >= 10 + 2 * safety_level
    BY <1>6 DEF AdaptiveRelax, call, EnvelopeInv, EnvelopeCoupled, Tightening
  <2>2. risk_max' <= 80 - 5 * safety_level' /\ success_min' >= 10 + 2 * safety_level'
    BY <1>0, <1>6, <2>1 DEF AdaptiveRelax
  <2> QED  BY <2>1, <2>2 DEF EnvelopeInv, EnvelopeCoupled
<1>7. ASSUME ResetForIteration \/ UNCHANGED vars PROVE EnvelopeInv'
  <2>1. UNCHANGED <<safety_level, risk_max, success_min, phase>>
    BY <1>7 DEF ResetForIteration, vars, state, policy, call
  <2> QED  BY <2>1 DEF EnvelopeInv, EnvelopeCoupled
<1> QED
  BY <1>1, <1>2, <1>3, <1>4, <1>5, <1>6, <1>7 DEF Next, AdaptiveTighten

\* However often callers reset and relax, and however many runs tighten side by
\* side and overwrite each other's thresholds (kernel.py:901-914), as soon as none
\* is tightening the thresholds are as tight as the level stands for.
THEOREM Envelope == Spec => []EnvelopeCoupled
<1>1. Init => EnvelopeInv
  BY DEF Init, EnvelopeInv, EnvelopeCoupled
<1>2. EnvelopeInv => EnvelopeCoupled
  BY DEF EnvelopeInv
<1> QED  BY <1>1, <1>2, Typing, EnvelopeNext, PTL DEF Spec
-------------------------------------------------------------------------------
\* A tier above 0 was reached by a failure kind the run had.
TierEarned == \A r \in Runs : tier[r] # 0 => EscalateOn[tier[r]] \cap kindsSeen[r] # {}

\* Check asks the tier, Backtrack raises it for a kind it remembers, and the
\* resets only strike an idle run.
LEMMA EarnedNext ==
    TypeOK /\ TierEarned /\ EditsEarned /\ [Next]_vars => TierEarned' /\ EditsEarned'
<1> SUFFICES ASSUME TypeOK, TierEarned, EditsEarned, [Next]_vars
             PROVE  TierEarned' /\ EditsEarned'
  OBVIOUS
<1>0. /\ tier \in [Runs -> Tiers] /\ kindsSeen \in [Runs -> SUBSET FailureKinds]
      /\ phase \in [Runs -> Phases] /\ step \in [Runs -> Step]
  BY DEF TypeOK
\* The other runs are as before, and the run that moves is in order.
<1> DEFINE Kept(q) == /\ tier'[q] = tier[q] /\ kindsSeen'[q] = kindsSeen[q]
                      /\ phase'[q] = "idle" \/ (phase[q] # "idle" /\ step'[q] = step[q])
<1>1. ASSUME NEW q \in Runs, Kept(q)
      PROVE  /\ tier'[q] # 0 => EscalateOn[tier'[q]] \cap kindsSeen'[q] # {}
             /\ phase'[q] # "idle" /\ ~(step'[q].touches \subseteq AllowedEdits[0]) =>
                  \E t \in 1..3 : /\ step'[q].touches \subseteq AllowedEdits[t]
                                  /\ EscalateOn[t] \cap kindsSeen'[q] # {}
  BY <1>1 DEF TierEarned, EditsEarned
<1>2. ASSUME \A q \in Runs : Kept(q) PROVE TierEarned' /\ EditsEarned'
  BY <1>1, <1>2 DEF TierEarned, EditsEarned
<1>3. ASSUME NEW r \in Runs, NEW s \in Steps, Refuse(r, s) PROVE \A q \in Runs : Kept(q)
  BY <1>0, <1>3 DEF Refuse, Return, Enter, runState, history
<1>4. ASSUME NEW r \in Runs, NEW s \in Steps, Check(r, s) PROVE TierEarned' /\ EditsEarned'
  <2>1. UNCHANGED <<tier, kindsSeen>>
    BY <1>4 DEF Check, runState, history
  <2>2. \A q \in Runs \ {r} : Kept(q)
    BY <1>0, <1>4, <2>1 DEF Check, Enter
  <2>3. step'[r] = s /\ s.touches \subseteq AllowedEdits[tier[r]]
    BY <1>0, <1>4 DEF Check, TierAllowsStep
  <2>4. ASSUME ~(step'[r].touches \subseteq AllowedEdits[0])
        PROVE  \E t \in 1..3 : /\ step'[r].touches \subseteq AllowedEdits[t]
                               /\ EscalateOn[t] \cap kindsSeen'[r] # {}
    <3>1. tier[r] # 0 /\ tier[r] \in 1..3
      BY <1>0, <2>3, <2>4 DEF Tiers
    <3> QED  BY <2>1, <2>3, <3>1 DEF TierEarned
  <2>5. TierEarned'
    BY <2>1 DEF TierEarned
  <2>6. EditsEarned'
    BY <2>2, <2>4, <1>1 DEF EditsEarned
  <2> QED  BY <2>5, <2>6
<1>5. ASSUME NEW r \in Runs, NEW est \in Estimates, Reject(r, est) PROVE \A q \in Runs : Kept(q)
  BY <1>0, <1>5 DEF Reject, Return, Enter, runState
<1>6. ASSUME NEW r \in Runs, NEW est \in Estimates, Approve(r, est) PROVE \A q \in Runs : Kept(q)
  BY <1>0, <1>6 DEF Approve, Enter, runState, history
<1>7. ASSUME NEW r \in Runs, NEW ok \in BOOLEAN, Settle(r, ok) PROVE \A q \in Runs : Kept(q)
  BY <1>0, <1>7 DEF Settle, Enter, runState
<1>8. ASSUME NEW r \in Runs, NEW kinds \in SUBSET FailureKinds, Backtrack(r, kinds)
      PROVE  TierEarned' /\ EditsEarned'
  <2>1. /\ tier' = [tier EXCEPT ![r] = PickNextTier(@, kinds)]
        /\ kindsSeen' = [kindsSeen EXCEPT ![r] = @ \cup kinds]
        /\ phase[r] # "idle"
    BY <1>8 DEF Backtrack, CheckRollback, Escalate
  <2>2. /\ \A q \in Runs \ {r} : Kept(q)
        /\ phase'[r] = "idle" \/ step'[r] = step[r]
    <3>1. CASE Enter(r, "verifying") /\ UNCHANGED <<step, outcome, lost>>
      BY <1>0, <2>1, <3>1 DEF Enter
    <3>2. CASE Lose(r)
      BY <1>0, <2>1, <3>2 DEF Lose, Return, Enter
    <3> QED  BY <1>8, <3>1, <3>2 DEF Backtrack
  <2>3. kindsSeen'[r] = kindsSeen[r] \cup kinds /\ tier'[r] = PickNextTier(tier[r], kinds)
    BY <1>0, <2>1
  <2>4. ASSUME tier'[r] # 0 PROVE EscalateOn[tier'[r]] \cap kindsSeen'[r] # {}
    <3>1. CASE tier'[r] = tier[r]
      BY <2>3, <2>4, <3>1 DEF TierEarned
    <3>2. CASE tier'[r] # tier[r]
      BY <1>0, <2>3, <3>2, PickedTier
    <3> QED  BY <3>1, <3>2
  <2>5. ASSUME phase'[r] # "idle", ~(step'[r].touches \subseteq AllowedEdits[0])
        PROVE  \E t \in 1..3 : /\ step'[r].touches \subseteq AllowedEdits[t]
                               /\ EscalateOn[t] \cap kindsSeen'[r] # {}
    BY <2>1, <2>2, <2>3, <2>5 DEF EditsEarned
  <2>6. TierEarned'
    BY <2>2, <2>4, <1>1 DEF TierEarned
  <2>7. EditsEarned'
    BY <2>2, <2>5, <1>1 DEF EditsEarned
  <2> QED  BY <2>6, <2>7
<1>9. ASSUME NEW r \in Runs, Conclude(r) PROVE \A q \in Runs : Kept(q)
  BY <1>0, <1>9 DEF Conclude, Lose, Return, Enter, runState
<1>12. ASSUME NEW r \in Runs, Passes(r) PROVE \A q \in Runs : Kept(q)
  BY <1>0, <1>12, PassageKept DEF AfterExecution, Tightening
<1>10. ASSUME NEW r \in Runs, ResetForRun(r) \/ EndRun(r) PROVE TierEarned' /\ EditsEarned'
  <2>1. /\ tier' = [tier EXCEPT ![r] = 0] /\ kindsSeen' = [kindsSeen EXCEPT ![r] = {}]
        /\ phase[r] = "idle" /\ UNCHANGED <<phase, step>>
    BY <1>10 DEF ResetForRun, EndRun, call
  <2>2. \A q \in Runs \ {r} : Kept(q)
    BY <1>0, <2>1
  <2> QED  BY <1>0, <2>1, <2>2, <1>1 DEF TierEarned, EditsEarned
<1>11. ASSUME AdaptiveRelax \/ ResetForIteration \/ UNCHANGED vars PROVE \A q \in Runs : Kept(q)
  BY <1>11 DEF AdaptiveRelax, ResetForIteration, vars, runState, call, history
<1> HIDE DEF Kept
<1> QED
  BY <1>2, <1>3, <1>4, <1>5, <1>6, <1>7, <1>8, <1>9, <1>10, <1>11, <1>12
     DEF Next, KernelStep, Passes

\* In every run, a step that touches tests, dependencies or CI files is let
\* in only after an outcome whose failure kind leads to a tier permitting it.
THEOREM Earned == Spec => []EditsEarned
<1>1. Init => TierEarned /\ EditsEarned
  BY DEF Init, TierEarned, EditsEarned
<1> QED  BY <1>1, Typing, EarnedNext, PTL DEF Spec
-------------------------------------------------------------------------------
\* Only Check and Settle can raise the number of executed and admitted steps:
\* Check finds it below the limit, Settle moves a step from one to the other.
LEMMA BudgetNext == TypeOK /\ BudgetOverrunBounded /\ [Next]_vars => BudgetOverrunBounded'
<1> SUFFICES ASSUME TypeOK, BudgetOverrunBounded, [Next]_vars PROVE BudgetOverrunBounded'
  OBVIOUS
<1>1. InFlight \in SUBSET Runs /\ InFlight' \in SUBSET Runs
  BY DEF InFlight, InPhase
<1>2. /\ IsFiniteSet(InFlight) /\ Cardinality(InFlight) \in Nat
      /\ Cardinality(InFlight) <= Cardinality(Runs)
      /\ IsFiniteSet(InFlight') /\ Cardinality(InFlight') \in Nat
      /\ Cardinality(InFlight') <= Cardinality(Runs) /\ Cardinality(Runs) \in Nat
  BY <1>1, RunsAssumption, FS_Subset, FS_CardinalityType
<1>3. \A t \in Tiers : StepLimit(t) \in Nat
  BY PolicyAssumption, TierAssumption DEF StepLimit
<1>4. step_count \in Nat /\ step_count' \in Nat
  BY TypeNext DEF TypeOK
<1>5. ASSUME step_count' <= step_count, InFlight' \subseteq InFlight
      PROVE  BudgetOverrunBounded'
  <2>1. Cardinality(InFlight') <= Cardinality(InFlight)
    BY <1>2, <1>5, FS_Subset
  <2> QED  BY <1>2, <1>3, <1>4, <1>5, <2>1 DEF BudgetOverrunBounded, StepLimit
<1>6. ASSUME NEW r \in Runs, NEW s \in Steps, Check(r, s) PROVE BudgetOverrunBounded'
  <2>1. tier[r] \in Tiers
    BY DEF TypeOK
  <2>2. step_count < StepLimit(tier[r]) /\ step_count' = step_count
    BY <1>4, <1>6, <2>1, PolicyAssumption, TierAssumption
       DEF Check, WithinTierBudget, Validates, StepLimit, state
  <2> QED  BY <1>2, <1>3, <1>4, <2>1, <2>2 DEF BudgetOverrunBounded, StepLimit
<1>7. ASSUME NEW r \in Runs, NEW ok \in BOOLEAN, Settle(r, ok) PROVE BudgetOverrunBounded'
  <2>1. r \in InFlight /\ InFlight' = InFlight \ {r}
    BY <1>7 DEF Settle, Enter, InFlight, InPhase, TypeOK
  <2>2. Cardinality(InFlight') = Cardinality(InFlight) - 1
    BY <1>2, <2>1, FS_RemoveElement
  <2>3. step_count' = step_count + 1
    BY <1>7 DEF Settle
  <2> QED  BY <1>2, <1>3, <1>4, <2>2, <2>3 DEF BudgetOverrunBounded, StepLimit
<1>8. ASSUME NEW r \in Runs, NEW s \in Steps, Refuse(r, s)
      PROVE  step_count' <= step_count /\ InFlight' \subseteq InFlight
  BY <1>4, <1>8 DEF Refuse, Return, Enter, InFlight, InPhase, TypeOK, state
<1>9. ASSUME NEW r \in Runs, NEW est \in Estimates, Reject(r, est) \/ Approve(r, est)
      PROVE  step_count' <= step_count /\ InFlight' \subseteq InFlight
  BY <1>4, <1>9 DEF Reject, Approve, Return, Enter, InFlight, InPhase, TypeOK, state
<1>10. ASSUME NEW r \in Runs, NEW kinds \in SUBSET FailureKinds, Backtrack(r, kinds)
       PROVE  step_count' <= step_count /\ InFlight' \subseteq InFlight
  BY <1>4, <1>10 DEF Backtrack, Lose, Return, Enter, InFlight, InPhase, TypeOK, state
<1>11. ASSUME NEW r \in Runs, Conclude(r)
       PROVE  step_count' <= step_count /\ InFlight' \subseteq InFlight
  BY <1>4, <1>11 DEF Conclude, Lose, Return, Enter, InFlight, InPhase, TypeOK, state
<1>14. ASSUME NEW r \in Runs, Passes(r)
       PROVE  step_count' <= step_count /\ InFlight' \subseteq InFlight
  BY <1>4, <1>14, PassageKept DEF InFlight, InPhase, TypeOK, AfterExecution, Tightening
<1>12. ASSUME NEW r \in Runs, ResetForRun(r) \/ EndRun(r)
       PROVE  step_count' <= step_count /\ InFlight' \subseteq InFlight
  BY <1>4, <1>12 DEF ResetForRun, EndRun, InFlight, InPhase, state, call
<1>13. ASSUME AdaptiveRelax \/ ResetForIteration \/ UNCHANGED vars
       PROVE  step_count' <= step_count /\ InFlight' \subseteq InFlight
  BY <1>4, <1>13 DEF AdaptiveRelax, ResetForIteration, InFlight, InPhase, vars, state, call
<1> QED
  BY <1>5, <1>6, <1>7, <1>8, <1>9, <1>10, <1>11, <1>12, <1>13, <1>14
     DEF Next, KernelStep, Passes

\* For any number of concurrent runs the step budget is overrun by less than
\* their number.
THEOREM Budget == Spec => []BudgetOverrunBounded
<1>1. Init => BudgetOverrunBounded
  <2> SUFFICES ASSUME Init PROVE BudgetOverrunBounded
    OBVIOUS
  <2>1. InFlight = {}
    BY DEF Init, InFlight, InPhase
  <2>2. Cardinality(InFlight) = 0
    BY <2>1, FS_EmptySet
  <2>3. Cardinality(Runs) \in Nat \ {0}
    BY RunsAssumption, FS_CardinalityType, FS_EmptySet
  <2>4. StepLimit(0) \in Nat /\ 0 \in Tiers
    BY PolicyAssumption, TierAssumption DEF StepLimit, Tiers
  <2> QED  BY <2>2, <2>3, <2>4 DEF Init, BudgetOverrunBounded
<1> QED  BY <1>1, Typing, BudgetNext, PTL DEF Spec
-------------------------------------------------------------------------------
\* A run leaves the calls that are not committed by a commit or an exception.
LEMMA UncommittedLeft ==
    ASSUME TypeOK, NEW r \in Runs, phase[r] \in AfterExecution, Return(r)
    PROVE  Cardinality(Uncommitted') = Cardinality(Uncommitted) - 1
<1>1. r \in Uncommitted /\ Uncommitted' = Uncommitted \ {r}
  BY DEF TypeOK, Return, Enter, Uncommitted, AfterExecution, Tightening
<1>2. IsFiniteSet(Uncommitted)
  BY RunsAssumption, FS_Subset DEF Uncommitted
<1> QED  BY <1>1, <1>2, FS_RemoveElement

\* Without the callers' resets every step moves the counters the same way.
LEMMA CommitNext ==
    ASSUME ~Maintenance, TypeOK, ExecutionsCommitted, ConsecWithinRecent, [Next]_vars
    PROVE  ExecutionsCommitted' /\ ConsecWithinRecent'
<1>1. Uncommitted \in SUBSET Runs /\ Uncommitted' \in SUBSET Runs
  BY DEF Uncommitted
<1>2. /\ IsFiniteSet(Uncommitted) /\ Cardinality(Uncommitted) \in Nat
      /\ IsFiniteSet(Uncommitted') /\ Cardinality(Uncommitted') \in Nat
  BY <1>1, RunsAssumption, FS_Subset, FS_CardinalityType
<1>3. /\ step_count \in Nat /\ committed \in Nat /\ lost \in Nat
      /\ consecutive_failures \in Nat /\ recent_failures \in Nat
      /\ phase \in [Runs -> Phases]
      /\ step_count = committed + lost + Cardinality(Uncommitted)
      /\ consecutive_failures <= recent_failures
  BY DEF TypeOK, ExecutionsCommitted, ConsecWithinRecent
<1>4. ASSUME Uncommitted' = Uncommitted,
             UNCHANGED <<step_count, committed, lost, recent_failures, consecutive_failures>>
      PROVE  ExecutionsCommitted' /\ ConsecWithinRecent'
  BY <1>3, <1>4 DEF ExecutionsCommitted, ConsecWithinRecent
<1>5. ASSUME NEW r \in Runs, NEW ok \in BOOLEAN, Settle(r, ok)
      PROVE  ExecutionsCommitted' /\ ConsecWithinRecent'
  <2>1. r \notin Uncommitted /\ Uncommitted' = Uncommitted \cup {r}
    BY <1>3, <1>5 DEF Settle, Enter, Uncommitted, AfterExecution, Tightening
  <2>2. Cardinality(Uncommitted') = Cardinality(Uncommitted) + 1
    BY <1>2, <2>1, FS_AddElement
  <2>3. step_count' = step_count + 1 /\ committed' = committed /\ lost' = lost
    BY <1>5 DEF Settle
  <2>4. consecutive_failures' <= recent_failures'
    BY <1>3, <1>5 DEF Settle, CountOutcome
  <2> QED
    BY <1>2, <1>3, <2>2, <2>3, <2>4 DEF ExecutionsCommitted, ConsecWithinRecent
<1>6. ASSUME NEW r \in Runs, NEW kinds \in SUBSET FailureKinds, Backtrack(r, kinds)
      PROVE  ExecutionsCommitted' /\ ConsecWithinRecent'
  <2>1. phase[r] \in AfterExecution
    BY <1>6 DEF Backtrack, CheckRollback, AfterExecution
  <2>2. UNCHANGED <<step_count, committed, recent_failures>>
    BY <1>6 DEF Backtrack, state
  <2>3. consecutive_failures' <= recent_failures'
    BY <1>3, <1>6, <2>2 DEF Backtrack, CheckRollback
  <2>4. CASE Enter(r, "verifying") /\ UNCHANGED <<step, outcome, lost>>
    <3>1. Uncommitted' = Uncommitted
      BY <1>3, <2>1, <2>4 DEF Enter, Uncommitted, AfterExecution
    <3> QED  BY <1>3, <2>2, <2>3, <2>4, <3>1 DEF ExecutionsCommitted, ConsecWithinRecent
  <2>5. CASE Lose(r)
    <3>1. Cardinality(Uncommitted') = Cardinality(Uncommitted) - 1 /\ lost' = lost + 1
      BY <2>1, <2>5, UncommittedLeft DEF Lose
    <3> QED  BY <1>2, <1>3, <2>2, <2>3, <3>1 DEF ExecutionsCommitted, ConsecWithinRecent
  <2> QED  BY <1>6, <2>4, <2>5 DEF Backtrack
<1>7. ASSUME NEW r \in Runs, Conclude(r) PROVE ExecutionsCommitted' /\ ConsecWithinRecent'
  <2>1. phase[r] \in AfterExecution /\ Return(r)
    BY <1>7 DEF Conclude, Lose, AfterExecution
  <2>2. Cardinality(Uncommitted') = Cardinality(Uncommitted) - 1
    BY <2>1, UncommittedLeft
  <2>3. /\ \/ committed' = committed + 1 /\ lost' = lost
           \/ committed' = committed /\ lost' = lost + 1
        /\ UNCHANGED <<step_count, recent_failures, consecutive_failures>>
    BY <1>7 DEF Conclude, Lose, state
  <2>4. step_count' = committed' + lost' + Cardinality(Uncommitted')
    BY <1>2, <1>3, <2>2, <2>3
  <2> QED
    BY <1>3, <2>3, <2>4 DEF ExecutionsCommitted, ConsecWithinRecent
<1>8. ASSUME NEW r \in Runs, NEW s \in Steps, Refuse(r, s) \/ Check(r, s)
      PROVE  /\ Uncommitted' = Uncommitted
             /\ UNCHANGED <<step_count, committed, lost, recent_failures, consecutive_failures>>
  BY <1>3, <1>8 DEF Refuse, Check, Return, Enter, Uncommitted, AfterExecution, Tightening,
                    state, history
<1>9. ASSUME NEW r \in Runs, NEW est \in Estimates, Reject(r, est) \/ Approve(r, est)
      PROVE  /\ Uncommitted' = Uncommitted
             /\ UNCHANGED <<step_count, committed, lost, recent_failures, consecutive_failures>>
  BY <1>3, <1>9 DEF Reject, Approve, Return, Enter, Uncommitted, AfterExecution, Tightening,
                    state, history
<1>10. ASSUME UNCHANGED vars
       PROVE  /\ Uncommitted' = Uncommitted
              /\ UNCHANGED <<step_count, committed, lost, recent_failures, consecutive_failures>>
  BY <1>10 DEF vars, state, call, history, Uncommitted
<1>11. ASSUME NEW r \in Runs, Passes(r)
       PROVE  /\ Uncommitted' = Uncommitted
              /\ UNCHANGED <<step_count, committed, lost, recent_failures, consecutive_failures>>
  <2>1. PICK p \in AfterExecution : phase' = [phase EXCEPT ![r] = p]
    BY <1>11, PassageKept
  <2> QED  BY <1>3, <1>11, <2>1, PassageKept DEF Uncommitted
<1> QED
  BY <1>4, <1>5, <1>6, <1>7, <1>8, <1>9, <1>10, <1>11
     DEF Next, KernelStep, Passes, ResetForRun, EndRun, AdaptiveRelax, ResetForIteration

\* As the orchestrator uses the kernel, an executed step has its APPROVE record, is
\* about to get it, or its call raised because the ledger did (kernel.py:770, 799);
\* and a row of failures is never longer than what the drift and cluster checks
\* still hold against the runs.
THEOREM Committed ==
    ASSUME ~Maintenance
    PROVE  Spec => [](ExecutionsCommitted /\ ConsecWithinRecent)
<1> DEFINE Inv == ExecutionsCommitted /\ ConsecWithinRecent
<1>1. Init => Inv
  <2> SUFFICES ASSUME Init PROVE Inv
    OBVIOUS
  <2>1. Uncommitted = {}
    BY DEF Init, Uncommitted, AfterExecution, Tightening
  <2>2. Cardinality(Uncommitted) = 0
    BY <2>1, FS_EmptySet
  <2> QED  BY <2>2 DEF Init, ExecutionsCommitted, ConsecWithinRecent
<1>2. TypeOK /\ Inv /\ [Next]_vars => Inv'
  BY CommitNext
<1> QED  BY <1>1, <1>2, Typing, PTL DEF Spec
-------------------------------------------------------------------------------
\* The calls that have counted their outcome and not yet looked at the row.
Unchecked == InPhase("settled") \cup InPhase("announcing")

\* A failure makes the row and the unchecked calls one more each; a call that looks
\* finds the row short, or resets it.
LEMMA RowNext == TypeOK /\ RowAnnounced /\ [Next]_vars => RowAnnounced'
<1> SUFFICES ASSUME TypeOK, RowAnnounced, [Next]_vars PROVE RowAnnounced'
  OBVIOUS
<1>1. Unchecked \in SUBSET Runs /\ Unchecked' \in SUBSET Runs
  BY DEF Unchecked, InPhase
<1>2. /\ IsFiniteSet(Unchecked) /\ Cardinality(Unchecked) \in Nat
      /\ IsFiniteSet(Unchecked') /\ Cardinality(Unchecked') \in Nat
  BY <1>1, RunsAssumption, FS_Subset, FS_CardinalityType
<1>3. /\ consecutive_failures \in Nat /\ phase \in [Runs -> Phases]
      /\ consecutive_failures <= 2 + Cardinality(Unchecked)
  BY DEF TypeOK, RowAnnounced, Unchecked
<1>4. ASSUME Unchecked \subseteq Unchecked', consecutive_failures' = consecutive_failures
      PROVE  RowAnnounced'
  <2>1. Cardinality(Unchecked) <= Cardinality(Unchecked')
    BY <1>2, <1>4, FS_Subset
  <2> QED  BY <1>2, <1>3, <1>4, <2>1 DEF RowAnnounced, Unchecked
<1>5. ASSUME NEW r \in Runs, NEW ok \in BOOLEAN, Settle(r, ok) PROVE RowAnnounced'
  <2>1. r \notin Unchecked /\ Unchecked' = Unchecked \cup {r}
    BY <1>3, <1>5 DEF Settle, Enter, Unchecked, InPhase
  <2>2. Cardinality(Unchecked') = Cardinality(Unchecked) + 1
    BY <1>2, <2>1, FS_AddElement
  <2>3. consecutive_failures' \in {0, consecutive_failures + 1}
    BY <1>5 DEF Settle, CountOutcome
  <2> QED  BY <1>2, <1>3, <2>2, <2>3 DEF RowAnnounced, Unchecked
<1>6. ASSUME NEW r \in Runs, NEW kinds \in SUBSET FailureKinds, Backtrack(r, kinds)
      PROVE  RowAnnounced'
  <2>1. consecutive_failures' \in Nat /\ consecutive_failures' <= 2
    BY <1>3, <1>6 DEF Backtrack, CheckRollback, RollbackDue
  <2> QED  BY <1>2, <2>1 DEF RowAnnounced, Unchecked
<1>7. ASSUME NEW r \in Runs, Announce(r)
      PROVE  Unchecked \subseteq Unchecked' /\ consecutive_failures' = consecutive_failures
  BY <1>3, <1>7 DEF Announce, Enter, Unchecked, InPhase
<1>8. ASSUME NEW r \in Runs, Verify(r) \/ AdaptiveTighten(r)
      PROVE  Unchecked \subseteq Unchecked' /\ consecutive_failures' = consecutive_failures
  <2>1. phase[r] \notin {"settled", "announcing"}
    BY <1>8 DEF Verify, AdaptiveTighten, ReadsLevel, WritesLevel, ReadsRisk, ReadsSuccess,
                WritesRisk, WritesSuccess, Tightens
  <2> QED  BY <1>3, <1>8, <2>1, PassageKept DEF Passes, Unchecked, InPhase
<1>9. ASSUME NEW r \in Runs, Conclude(r)
      PROVE  Unchecked \subseteq Unchecked' /\ consecutive_failures' = consecutive_failures
  BY <1>3, <1>9 DEF Conclude, Lose, Return, Enter, Unchecked, InPhase
<1>10. ASSUME NEW r \in Runs, NEW s \in Steps, Refuse(r, s) \/ Check(r, s)
       PROVE  Unchecked \subseteq Unchecked' /\ consecutive_failures' = consecutive_failures
  BY <1>3, <1>10 DEF Refuse, Check, Return, Enter, Unchecked, InPhase
<1>11. ASSUME NEW r \in Runs, NEW est \in Estimates, Reject(r, est) \/ Approve(r, est)
       PROVE  Unchecked \subseteq Unchecked' /\ consecutive_failures' = consecutive_failures
  BY <1>3, <1>11 DEF Reject, Approve, Return, Enter, Unchecked, InPhase
<1>12. ASSUME NEW r \in Runs, ResetForRun(r) \/ EndRun(r)
       PROVE  Unchecked \subseteq Unchecked' /\ consecutive_failures' = consecutive_failures
  BY <1>12 DEF ResetForRun, EndRun, call, Unchecked, InPhase
<1>13. ASSUME AdaptiveRelax \/ ResetForIteration \/ UNCHANGED vars
       PROVE  Unchecked \subseteq Unchecked' /\ consecutive_failures' = consecutive_failures
  BY <1>13 DEF AdaptiveRelax, ResetForIteration, vars, call, Unchecked, InPhase
<1> QED
  BY <1>4, <1>5, <1>6, <1>7, <1>8, <1>9, <1>10, <1>11, <1>12, <1>13 DEF Next, KernelStep

\* For any number of runs on the kernel, with or without resets: a row of three
\* failures, of whichever runs, is announced before all of its calls have passed the
\* rollback check (kernel.py:718-725).
THEOREM RowsAnnounced == Spec => []RowAnnounced
<1>1. Init => RowAnnounced
  <2> SUFFICES ASSUME Init PROVE RowAnnounced
    OBVIOUS
  <2>1. InPhase("settled") \cup InPhase("announcing") = {}
    BY DEF Init, InPhase
  <2>2. Cardinality(InPhase("settled") \cup InPhase("announcing")) = 0
    BY <2>1, FS_EmptySet
  <2> QED  BY <2>2 DEF Init, RowAnnounced
<1> QED  BY <1>1, RowNext, Typing, PTL DEF Spec
-------------------------------------------------------------------------------
\* The last m recorded actions are a.
LastAre(a, m) ==
    /\ m <= Len(recent_actions)
    /\ \A i \in 0..(m - 1) : recent_actions[Len(recent_actions) - i] = a

\* Recording an action that the last m were makes it one more, as far as the
\* history reaches.
LEMMA LastRecorded ==
    ASSUME recent_actions \in Seq(Actions), Len(recent_actions) <= MaxHistory,
           NEW a \in Actions, RecordAction(a), NEW m \in Nat, LastAre(a, m),
           NEW k \in Nat, k <= m + 1, k <= MaxHistory
    PROVE  LastAre(a, k)'
<1> DEFINE all == Append(recent_actions, a)
           n == Len(recent_actions) + 1
<1>1. /\ all \in Seq(Actions) /\ Len(all) = n /\ n \in Nat /\ all[n] = a
      /\ \A j \in 1..Len(recent_actions) : all[j] = recent_actions[j]
  OBVIOUS
<1>2. MaxHistory \in Nat \ {0} /\ m <= Len(recent_actions)
  BY PolicyAssumption DEF LastAre
<1>3. ASSUME NEW i \in 0..(k - 1) PROVE n - i \in 1..n /\ all[n - i] = a
  <2>1. CASE i = 0
    BY <1>1, <2>1
  <2>2. CASE i # 0
    <3>1. /\ i - 1 \in 0..(m - 1) /\ n - i = Len(recent_actions) - (i - 1)
          /\ n - i \in 1..Len(recent_actions)
      BY <1>1, <1>2, <2>2
    <3>2. recent_actions[Len(recent_actions) - (i - 1)] = a
      BY <3>1 DEF LastAre
    <3>3. all[n - i] = recent_actions[n - i]
      BY <1>1, <3>1
    <3> QED  BY <1>1, <3>1, <3>2, <3>3
  <2> QED  BY <2>1, <2>2
<1>4. CASE n > MaxHistory
  <2> DEFINE f == n - MaxHistory + 1
             cut == SubSeq(all, f, n)
  <2>1. recent_actions' = cut
    BY <1>1, <1>4 DEF RecordAction
  <2>2. f \in 1..n /\ n - f + 1 = MaxHistory
    BY <1>1, <1>2, <1>4
  <2> HIDE DEF all, n, f
  <2>3. Len(cut) = MaxHistory /\ \A j \in 1..MaxHistory : cut[j] = all[f + j - 1]
    BY <1>1, <2>2
  <2>4. ASSUME NEW i \in 0..(k - 1) PROVE cut[MaxHistory - i] = a
    <3>1. MaxHistory - i \in 1..MaxHistory /\ f + (MaxHistory - i) - 1 = n - i
      BY <1>1, <1>2, <2>2
    <3> QED  BY <1>3, <2>3, <3>1
  <2> QED  BY <2>1, <2>3, <2>4 DEF LastAre
<1>5. CASE ~(n > MaxHistory)
  <2>1. recent_actions' = all
    BY <1>1, <1>5 DEF RecordAction
  <2> HIDE DEF all, n
  <2>2. k <= n
    BY <1>2 DEF n
  <2> QED  BY <1>1, <1>3, <2>1, <2>2 DEF LastAre
<1> QED  BY <1>4, <1>5

\* The executions of the looping action that decide has already let through.
Looping == {r \in InPhase("executing") : step[r].action = streak.action}

\* What decide's check sees of a streak, and how far one can still grow that
\* the check finds.
LoopInv ==
    /\ LastAre(streak.action, IF streak.n >= 4 THEN 4 ELSE streak.n)
    /\ streak.n >= 4 => streak.n + Cardinality(Looping) <= 3 + Cardinality(Runs)

\* Approve lets a streak of four be joined by nobody, and Settle turns a run that
\* was let through into one more in the row.
LEMMA LoopNext ==
    ASSUME ~Maintenance, MaxHistory >= 4, TypeOK, LoopInv, [Next]_vars
    PROVE  LoopInv'
<1>0. /\ recent_actions \in Seq(Actions) /\ Len(recent_actions) <= MaxHistory
      /\ phase \in [Runs -> Phases] /\ step \in [Runs -> Step]
      /\ \A r \in Runs : phase[r] # "idle" => step[r].action \in Actions
      /\ streak \in [action : Actions \cup {"none"}, n : Nat]
      /\ streak.n \in Nat /\ MaxHistory \in Nat
  BY StepsAssumption, PolicyAssumption DEF TypeOK
<1>1. PICK m \in 0..4 : /\ m = IF streak.n >= 4 THEN 4 ELSE streak.n
                        /\ LastAre(streak.action, m)
  BY <1>0 DEF LoopInv
<1>2. Looping \in SUBSET Runs /\ Looping' \in SUBSET Runs
  BY DEF Looping, InPhase
<1>3. /\ IsFiniteSet(Looping) /\ Cardinality(Looping) \in Nat
      /\ IsFiniteSet(Looping') /\ Cardinality(Looping') \in Nat /\ Cardinality(Runs) \in Nat
  BY <1>2, RunsAssumption, FS_Subset, FS_CardinalityType
<1>4. ASSUME UNCHANGED <<recent_actions, streak>>, streak.n >= 4 => Looping' \subseteq Looping
      PROVE  LoopInv'
  <2>1. streak.n >= 4 => Cardinality(Looping') <= Cardinality(Looping)
    BY <1>3, <1>4, FS_Subset
  <2>2. LastAre(streak.action, m)'
    BY <1>1, <1>4 DEF LastAre
  <2> QED  BY <1>0, <1>1, <1>3, <1>4, <2>1, <2>2 DEF LoopInv
<1>5. ASSUME NEW r \in Runs, NEW est \in Estimates, Reject(r, est) PROVE LoopInv'
  <2>0. PICK a \in Actions : a = step[r].action
    BY <1>0, <1>5 DEF Reject
  <2>1. /\ RecordAction(a)
        /\ streak' = IF streak.action = a THEN streak ELSE NoStreak
        /\ phase' = [phase EXCEPT ![r] = "idle"] /\ step' = [step EXCEPT ![r] = NoStep]
    BY <1>0, <1>5, <2>0 DEF Reject, Return, Enter
  <2>2. CASE streak.action = a
    <3>1. LastAre(a, m)'
      BY <1>0, <1>1, <2>1, <2>2, LastRecorded
    <3>2. streak' = streak /\ Looping' \subseteq Looping
      BY <1>0, <2>1, <2>2 DEF Looping, InPhase
    <3>3. Cardinality(Looping') <= Cardinality(Looping)
      BY <1>3, <3>2, FS_Subset
    <3>4. LastAre(streak.action, m)'
      BY <2>2, <3>1, <3>2
    <3> QED  BY <1>0, <1>1, <1>3, <3>2, <3>3, <3>4 DEF LoopInv
  <2>3. CASE streak.action # a
    <3>1. streak'.n = 0
      BY <2>1, <2>3 DEF NoStreak
    <3>2. LastAre(streak.action, 0)'
      <4>1. recent_actions' \in Seq(Actions)
        BY <1>0, <2>1, RecordedActions
      <4> QED  BY <4>1 DEF LastAre
    <3> QED  BY <3>1, <3>2 DEF LoopInv
  <2> QED  BY <2>2, <2>3
<1>6. ASSUME NEW r \in Runs, NEW est \in Estimates, Approve(r, est) PROVE LoopInv'
  <2>1. /\ UNCHANGED <<recent_actions, streak, step>>
        /\ phase' = [phase EXCEPT ![r] = "executing"] /\ ~LoopDetected(step[r].action)
    BY <1>6 DEF Approve, Decides, Enter, state, history
  <2>2. ASSUME streak.n >= 4 PROVE Looping' \subseteq Looping
    <3>1. LoopDetected(streak.action)
      <4>1. LastAre(streak.action, 4)
        BY <1>1, <2>2
      <4> QED  BY <4>1 DEF LastAre, LoopDetected
    <3>2. step[r].action # streak.action
      BY <2>1, <3>1
    <3> QED  BY <1>0, <2>1, <3>2 DEF Looping, InPhase
  <2> QED  BY <1>4, <2>1, <2>2
<1>7. ASSUME NEW r \in Runs, NEW ok \in BOOLEAN, Settle(r, ok) PROVE LoopInv'
  <2>0. PICK a \in Actions : a = step[r].action
    BY <1>0, <1>7 DEF Settle
  <2>n. PICK n \in Nat : n = IF streak.action = a THEN streak.n + 1 ELSE 1
    BY <1>0
  <2>1. /\ RecordAction(a) /\ phase[r] = "executing"
        /\ streak' = [action |-> a, n |-> n]
        /\ phase' = [phase EXCEPT ![r] = "settled"] /\ step' = step
    BY <1>0, <1>7, <2>0, <2>n DEF Settle, Enter
  <2>2. streak'.action = a /\ streak'.n = n
    BY <1>0, <2>1
  <2>3. LastAre(a, IF n >= 4 THEN 4 ELSE n)'
    <3>0. PICK k \in Nat : k = (IF n >= 4 THEN 4 ELSE n) /\ k <= MaxHistory
      BY <1>0
    <3>1. CASE streak.action = a
      <4>1. LastAre(a, m) /\ k <= m + 1
        BY <1>0, <1>1, <2>n, <3>0, <3>1
      <4> QED  BY <1>0, <2>1, <3>0, <4>1, LastRecorded
    <3>2. CASE streak.action # a
      <4>1. LastAre(a, 0) /\ k <= 0 + 1
        BY <1>0, <2>n, <3>0, <3>2 DEF LastAre
      <4> QED  BY <1>0, <2>1, <3>0, <4>1, LastRecorded
    <3> QED  BY <3>1, <3>2
  <2>4. ASSUME n >= 4 PROVE n + Cardinality(Looping') <= 3 + Cardinality(Runs)
    <3>1. streak.action = a /\ n = streak.n + 1
      BY <2>n, <2>4
    <3>2. r \in Looping /\ Looping' = Looping \ {r}
      BY <1>0, <2>0, <2>1, <2>2, <3>1 DEF Looping, InPhase
    <3>3. Cardinality(Looping') = Cardinality(Looping) - 1
      BY <1>3, <3>2, FS_RemoveElement
    <3>4. CASE streak.n >= 4
      BY <1>0, <1>3, <3>1, <3>3, <3>4 DEF LoopInv
    <3>5. CASE streak.n < 4
      <4>1. Cardinality(Looping) <= Cardinality(Runs)
        BY <1>2, RunsAssumption, FS_Subset
      <4> QED  BY <1>0, <1>3, <2>4, <3>1, <3>3, <3>5, <4>1
    <3> QED  BY <1>0, <3>4, <3>5
  <2> QED  BY <2>2, <2>3, <2>4 DEF LoopInv
<1>8. ASSUME NEW r \in Runs, NEW s \in Steps, Refuse(r, s) \/ Check(r, s) PROVE LoopInv'
  <2>1. UNCHANGED <<recent_actions, streak>> /\ Looping' \subseteq Looping
    BY <1>0, <1>8 DEF Refuse, Check, Return, Enter, Looping, InPhase, state, history
  <2> QED  BY <1>4, <2>1
<1>9. ASSUME NEW r \in Runs, NEW kinds \in SUBSET FailureKinds, Backtrack(r, kinds) PROVE LoopInv'
  <2>1. UNCHANGED <<recent_actions, streak>> /\ Looping' \subseteq Looping
    BY <1>0, <1>9 DEF Backtrack, Lose, Return, Enter, Looping, InPhase, state
  <2> QED  BY <1>4, <2>1
<1>10. ASSUME NEW r \in Runs, Conclude(r) PROVE LoopInv'
  <2>1. UNCHANGED <<recent_actions, streak>> /\ Looping' \subseteq Looping
    BY <1>0, <1>10 DEF Conclude, Lose, Return, Enter, Looping, InPhase, state
  <2> QED  BY <1>4, <2>1
<1>11. ASSUME UNCHANGED vars PROVE LoopInv'
  <2>1. UNCHANGED <<recent_actions, streak>> /\ Looping' \subseteq Looping
    BY <1>11 DEF vars, state, call, history, Looping, InPhase
  <2> QED  BY <1>4, <2>1
<1>12. ASSUME NEW r \in Runs, Passes(r) PROVE LoopInv'
  <2>1. UNCHANGED <<recent_actions, streak>> /\ Looping' \subseteq Looping
    BY <1>0, <1>12, PassageKept DEF Looping, InPhase, AfterExecution, Tightening
  <2> QED  BY <1>4, <2>1
<1> QED
  BY <1>5, <1>6, <1>7, <1>8, <1>9, <1>10, <1>11, <1>12
     DEF Next, KernelStep, Passes, ResetForRun, EndRun, AdaptiveRelax, ResetForIteration

\* For any number of concurrent runs, and a history that holds the four actions
\* the loop check looks at, no action is executed in a row more often than three
\* times and once per run.
THEOREM Loops ==
    ASSUME ~Maintenance, MaxHistory >= 4
    PROVE  Spec => []LoopsEnd
<1>1. Init => LoopInv
  BY DEF Init, LoopInv, LastAre, NoStreak
<1>2. TypeOK /\ LoopInv /\ [Next]_vars => LoopInv'
  BY LoopNext
<1>3. TypeOK /\ LoopInv => LoopsEnd
  <2> SUFFICES ASSUME TypeOK, LoopInv PROVE streak.n <= 3 + Cardinality(Runs)
    BY DEF LoopsEnd
  <2>1. Looping \in SUBSET Runs
    BY DEF Looping, InPhase
  <2>2. Cardinality(Looping) \in Nat /\ Cardinality(Runs) \in Nat
    BY <2>1, RunsAssumption, FS_Subset, FS_CardinalityType
  <2>3. streak.n \in Nat
    BY DEF TypeOK
  <2> QED  BY <2>2, <2>3 DEF LoopInv
<1> QED  BY <1>1, <1>2, <1>3, Typing, PTL DEF Spec
-------------------------------------------------------------------------------
\* Drift is detected and nothing is executing that could still change the ratio.
DriftLocked == DriftDetected /\ InPhase("executing") = {}

\* What a run's step leaves locked: decide lets no call pass while drift is detected.
LEMMA LockedStep ==
    ASSUME TypeOK, DriftLocked, NEW r \in Runs, KernelStep(r)
    PROVE  DriftLocked'
<1>1. phase \in [Runs -> Phases]
  BY DEF TypeOK
<1>2. phase[r] # "executing" /\ DriftDetected
  BY DEF DriftLocked, InPhase
<1>3. ASSUME UNCHANGED <<step_count, recent_failures>>, NEW p \in Phases, p # "executing",
             phase' = [phase EXCEPT ![r] = p]
      PROVE  DriftLocked'
  <2>1. DriftDetected'
    BY <1>2, <1>3 DEF DriftDetected
  <2>2. ASSUME NEW q \in Runs PROVE phase'[q] # "executing"
    BY <1>1, <1>3 DEF DriftLocked, InPhase
  <2>. QED  BY <2>1, <2>2 DEF DriftLocked, InPhase
<1>4. ASSUME NEW s \in Steps, Refuse(r, s) \/ Check(r, s)
      PROVE  DriftLocked'
  BY <1>3, <1>4 DEF Refuse, Check, Return, Enter, state, Phases
<1>5. ASSUME NEW est \in Estimates, Reject(r, est) PROVE DriftLocked'
  BY <1>3, <1>5 DEF Reject, Return, Enter, Phases
<1>6. ASSUME NEW est \in Estimates, Approve(r, est) PROVE DriftLocked'
  BY <1>2, <1>6 DEF Approve, Decides
<1>7. ASSUME NEW ok \in BOOLEAN, Settle(r, ok) PROVE DriftLocked'
  BY <1>2, <1>7 DEF Settle
<1>8. ASSUME NEW kinds \in SUBSET FailureKinds, Backtrack(r, kinds) PROVE DriftLocked'
  BY <1>3, <1>8 DEF Backtrack, Lose, Return, Enter, state, Phases, AfterExecution
<1>9. ASSUME Conclude(r) PROVE DriftLocked'
  BY <1>3, <1>9 DEF Conclude, Lose, Return, Enter, state, Phases
<1>10. ASSUME Passes(r) PROVE DriftLocked'
  <2>1. PICK p \in AfterExecution : phase' = [phase EXCEPT ![r] = p]
    BY <1>10, PassageKept
  <2>2. p \in Phases /\ p # "executing"
    BY DEF Phases, AfterExecution, Tightening
  <2>. QED  BY <1>3, <1>10, <2>1, <2>2, PassageKept
<1>. QED  BY <1>4, <1>5, <1>6, <1>7, <1>8, <1>9, <1>10 DEF KernelStep, Passes

\* Unless somebody resets the state, drift that is found while nothing is in flight is
\* found for ever, however many runs go on proposing steps (simulate.py:186-197,
\* decide.py:57-61).
THEOREM DriftIsForEver ==
    ASSUME ~Maintenance
    PROVE  Spec => DriftLocksOut
<1>1. TypeOK /\ DriftLocked /\ [Next]_vars => DriftLocked'
  <2>. SUFFICES ASSUME TypeOK, DriftLocked, [Next]_vars PROVE DriftLocked'
    OBVIOUS
  <2>1. CASE UNCHANGED vars
    BY <2>1 DEF vars, state, call, DriftLocked, DriftDetected, InPhase
  <2>. QED  BY <2>1, LockedStep DEF Next, ResetForRun, EndRun, AdaptiveRelax, ResetForIteration
<1>2. DriftDetected /\ InFlight = {} => DriftLocked
  BY DEF DriftLocked, InFlight
<1>3. DriftLocked => DriftDetected
  BY DEF DriftLocked
<1>. QED  BY <1>1, <1>2, <1>3, Typing, PTL DEF Spec, DriftLocksOut
===============================================================================
