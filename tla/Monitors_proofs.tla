-------------------------- MODULE Monitors_proofs ---------------------------
(***************************************************************************)
(* The ceiling of the effective risk and its order, for every length of a  *)
(* patch, every timeout and every ratio; and the order in which the        *)
(* planner completes subgoals, for goals of any size; and the failures the *)
(* immune system remembers, for every size of its memory and window; and   *)
(* what the ledger of a swarm tells, for any subtasks and revisions; and   *)
(* what the autofix cycle and the corrector do to the environment, for     *)
(* logs of any length; and what the kernel's explorer finds, for graphs,   *)
(* depths and budgets of any size.                                         *)
(***************************************************************************)
EXTENDS RiskScore, Planner, SelfHealing, Swarm, Corrections, StateExplorer,
        FiniteSetTheorems, SequenceTheorems, WellFoundedInduction, TLAPS

\* The situation is always one.
RiskTypeOK == situation \in Situations

THEOREM RiskTypeCorrect == RiskSpec => []RiskTypeOK
<1>1. RiskInit => RiskTypeOK
  BY DEF RiskInit, RiskTypeOK, Situations, Actions, Reading
<1>2. RiskTypeOK /\ [RiskNext]_situation => RiskTypeOK'
  <2>. SUFFICES ASSUME RiskTypeOK, [RiskNext]_situation
                PROVE  RiskTypeOK'
    OBVIOUS
  <2>. USE LinesAssumption, TimeoutsAssumption, PercentsAssumption
  <2>1. ASSUME NEW a \in Actions, NEW n \in Nat, NEW t \in Nat, situation' = Proposal(a, n, t)
        PROVE  RiskTypeOK'
    BY <2>1 DEF RiskTypeOK, Situations, Proposal
  <2>2. CASE ProposesPatch
    BY <2>2, <2>1 DEF ProposesPatch, Actions
  <2>3. CASE ProposesTests
    BY <2>3, <2>1 DEF ProposesTests, Actions
  <2>4. CASE ProposesOther
    BY <2>4, <2>1 DEF ProposesOther
  <2>5. CASE Fares
    BY <2>5 DEF Fares, RiskTypeOK, Situations
  <2>7. CASE Guards
    BY <2>7 DEF Guards, RiskTypeOK, Situations
  <2>8. CASE Predicts
    BY <2>8 DEF Predicts, RiskTypeOK, Situations
  <2>9. CASE Repeats
    BY <2>9 DEF Repeats, RiskTypeOK, Situations
  <2>10. CASE UNCHANGED situation
    BY <2>10 DEF RiskTypeOK
  <2>. QED
    BY <2>2, <2>3, <2>4, <2>5, <2>7, <2>8, <2>9, <2>10 DEF RiskNext
<1>. QED  BY <1>1, <1>2, PTL DEF RiskSpec

\* The ranges of the dimensions, where a proposal has come to the threshold.
Percent == 0..100
Executions == 0..80
Environments == 0..3600
Costs == 0..4000
Loops == 0..80
Unlocked == 0..1
Steady(f) == DriftRisk(f) <= 85

LEMMA EnvironmentBound ==
  \A f \in Percent, g \in Unlocked : Steady(f) => EnvironmentRisk(f, g) \in Environments
BY SMT DEF EnvironmentRisk, DriftRisk, AtMost, Percent, Unlocked, Steady, Environments

LEMMA ExecutionBound == \A s \in Situations : ExecutionRisk(s) \in Executions
<1>. TAKE s \in Situations
<1>1. s.lines \in Nat /\ s.action \in Actions
  BY DEF Situations
<1>2. ActionRisk[s.action] \in 0..60
  BY <1>1 DEF ActionRisk, Actions, Reading
<1>. QED  BY <1>1, <1>2 DEF ExecutionRisk, Executions

LEMMA CostBound == \A b \in Nat, n \in Nat, t \in Nat : CostRisk(CostEstimate(b, n, t)) \in Costs
BY SMT DEF CostRisk, CostEstimate, AtMost, Costs

LEMMA EffectiveBound ==
  \A x \in Executions, e \in Environments, u \in Percent, c \in Costs, l \in Loops, value \in Nat :
      Weighted(TotalRisk(x, e, u, c, l), value) < Threshold
BY SMT DEF Weighted, TotalRisk, AtMost, Threshold, Executions, Environments, Percent, Costs, Loops

\* The risk threshold rejects nothing before it was tightened.
THEOREM RiskGateNeverBites == RiskSpec => []RiskGateIdle
<1>1. ASSUME NEW s \in Situations, ReachesThreshold(s)
      PROVE  EffectiveRisk(s) < Threshold
  <2> DEFINE around == EnvironmentRisk(s.failing, s.safety)
             cost == CostRisk(CostEstimate(BaseCost[s.action], s.lines, s.timeout))
  <2>1. /\ s.failing \in Percent /\ s.success \in Percent
        /\ s.lines \in Nat /\ s.timeout \in Nat /\ s.action \in Actions
    BY DEF Situations, Percent
  <2>2. s.safety \in Unlocked
    BY <1>1 DEF Situations, ReachesThreshold, Unlocked
  <2>3. s.loop \in Loops
    BY <1>1 DEF Situations, ReachesThreshold, Loops
  <2>4. Steady(s.failing)
    BY <1>1 DEF ReachesThreshold, Steady
  <2>5. around \in Environments
    BY <2>1, <2>2, <2>4, EnvironmentBound
  <2>6. ExecutionRisk(s) \in Executions
    BY ExecutionBound
  <2>7. Uncertainty(s.success) \in Percent
    BY <2>1, SMT DEF Uncertainty, Percent
  <2>8. BaseCost[s.action] \in Nat
    BY <2>1 DEF BaseCost, Actions, Reading
  <2>9. cost \in Costs
    BY <2>1, <2>8, CostBound
  <2>10. ExpectedValue(s) \in Nat
    BY SMT DEF ExpectedValue
  <2> HIDE DEF around, cost
  <2>11. Weighted(TotalRisk(ExecutionRisk(s), around, Uncertainty(s.success), cost, s.loop), ExpectedValue(s))
             < Threshold
    BY <2>3, <2>5, <2>6, <2>7, <2>9, <2>10, EffectiveBound
  <2>. QED
    BY <2>11 DEF EffectiveRisk, around, cost
<1>2. RiskTypeOK => RiskGateIdle
  BY <1>1 DEF RiskTypeOK, RiskGateIdle
<1>. QED  BY <1>2, RiskTypeCorrect, PTL

\* Each dimension keeps the order of what it is computed from.
LEMMA EnvironmentOrder ==
  \A f1, f2 \in Percent, g1, g2 \in Nat :
      f1 <= f2 /\ g1 <= g2 => EnvironmentRisk(f1, g1) <= EnvironmentRisk(f2, g2)
BY SMT DEF EnvironmentRisk, AtMost, Percent

LEMMA CostOrder ==
  \A b, n1, n2, t1, t2 \in Nat :
      n1 <= n2 /\ t1 <= t2 => CostRisk(CostEstimate(b, n1, t1)) <= CostRisk(CostEstimate(b, n2, t2))
BY SMT DEF CostRisk, CostEstimate, AtMost

LEMMA TotalOrder ==
  \A x1, x2, e1, e2, u1, u2, c1, c2, l1, l2 \in Nat :
      x1 <= x2 /\ e1 <= e2 /\ u1 <= u2 /\ c1 <= c2 /\ l1 <= l2 =>
          TotalRisk(x1, e1, u1, c1, l1) <= TotalRisk(x2, e2, u2, c2, l2)
BY SMT DEF TotalRisk, AtMost

LEMMA TotalType ==
  \A x, e, u, c, l \in Nat : TotalRisk(x, e, u, c, l) \in Nat
BY SMT DEF TotalRisk, AtMost

LEMMA WeightedOrder ==
  \A t1, t2, v1, v2 \in Nat : t1 <= t2 /\ v2 <= v1 => Weighted(t1, v1) <= Weighted(t2, v2)
BY SMT DEF Weighted

\* The dimensions are numbers.
LEMMA DimensionTypes ==
  \A s \in Situations :
      /\ s.failing \in Percent /\ s.safety \in Nat
      /\ s.lines \in Nat /\ s.timeout \in Nat /\ s.action \in Actions /\ s.loop \in Nat
      /\ ExecutionRisk(s) \in Nat
      /\ EnvironmentRisk(s.failing, s.safety) \in Nat
      /\ Uncertainty(s.success) \in Nat
      /\ BaseCost[s.action] \in Nat
      /\ CostRisk(CostEstimate(BaseCost[s.action], s.lines, s.timeout)) \in Nat
      /\ ExpectedValue(s) \in Nat
<1>. TAKE s \in Situations
<1>1. /\ s.failing \in Percent /\ s.safety \in Nat /\ s.success \in Percent
      /\ s.lines \in Nat /\ s.timeout \in Nat /\ s.action \in Actions /\ s.loop \in Nat
  BY DEF Situations, Percent
<1>2. ExecutionRisk(s) \in Nat
  BY ExecutionBound, SMT DEF Executions
<1>3. \A f \in Percent, g \in Nat : EnvironmentRisk(f, g) \in Nat
  BY SMT DEF EnvironmentRisk, AtMost, Percent
<1>4. Uncertainty(s.success) \in Nat
  BY <1>1, SMT DEF Uncertainty, Percent
<1>5. BaseCost[s.action] \in Nat
  BY <1>1 DEF BaseCost, Actions, Reading
<1>6. \A b, n, t \in Nat : CostRisk(CostEstimate(b, n, t)) \in Nat
  BY SMT DEF CostRisk, CostEstimate, AtMost
<1>7. ExpectedValue(s) \in Nat
  BY SMT DEF ExpectedValue
<1>. QED  BY <1>1, <1>2, <1>3, <1>4, <1>5, <1>6, <1>7

\* A step that makes the situation worse never makes it less risky.
THEOREM RiskKeepsOrder == RiskSpec => RiskOrdered
<1>1. ASSUME NEW s \in Situations, NEW t \in Situations, NoBetter(s, t)
      PROVE  EffectiveRisk(s) <= EffectiveRisk(t)
  <2> DEFINE around(q) == EnvironmentRisk(q.failing, q.safety)
             cost(q) == CostRisk(CostEstimate(BaseCost[q.action], q.lines, q.timeout))
             total(q) == TotalRisk(ExecutionRisk(q), around(q), Uncertainty(q.success), cost(q), q.loop)
  <2>1. ExecutionRisk(s) <= ExecutionRisk(t)
    <3>1. ActionRisk[s.action] \in Nat
      BY DEF Situations, ActionRisk, Actions, Reading
    <3>2. s.lines \in Nat /\ t.lines \in Nat /\ s.lines <= t.lines /\ s.action = t.action
      BY <1>1 DEF Situations, NoBetter
    <3>. QED  BY <3>1, <3>2, SMT DEF ExecutionRisk
  <2>2. around(s) <= around(t)
    BY <1>1, DimensionTypes, EnvironmentOrder DEF NoBetter
  <2>3. Uncertainty(s.success) <= Uncertainty(t.success)
    BY <1>1, SMT DEF NoBetter, Uncertainty, Situations
  <2>4. cost(s) <= cost(t)
    BY <1>1, DimensionTypes, CostOrder DEF NoBetter
  <2>5. ExpectedValue(t) <= ExpectedValue(s)
    <3>1. s.lines \in Nat /\ t.lines \in Nat /\ s.lines <= t.lines /\ s.action = t.action
      BY <1>1 DEF Situations, NoBetter
    <3>. QED  BY <3>1, SMT DEF ExpectedValue
  <2>6. s.loop <= t.loop
    BY <1>1 DEF NoBetter
  <2>7. total(s) \in Nat /\ total(t) \in Nat /\ ExpectedValue(s) \in Nat /\ ExpectedValue(t) \in Nat
    BY DimensionTypes, TotalType
  <2>8. total(s) <= total(t)
    <3> HIDE DEF around, cost
    <3>1. /\ ExecutionRisk(s) \in Nat /\ around(s) \in Nat /\ Uncertainty(s.success) \in Nat
          /\ cost(s) \in Nat /\ s.loop \in Nat
      BY DimensionTypes DEF around, cost
    <3>2. /\ ExecutionRisk(t) \in Nat /\ around(t) \in Nat /\ Uncertainty(t.success) \in Nat
          /\ cost(t) \in Nat /\ t.loop \in Nat
      BY DimensionTypes DEF around, cost
    <3>. QED  BY <2>1, <2>2, <2>3, <2>4, <2>6, <3>1, <3>2, TotalOrder
  <2> HIDE DEF total
  <2>9. Weighted(total(s), ExpectedValue(s)) <= Weighted(total(t), ExpectedValue(t))
    BY <2>5, <2>7, <2>8, WeightedOrder
  <2>. QED
    BY <2>9 DEF EffectiveRisk, total
<1>2. RiskTypeOK /\ RiskTypeOK' => (NoBetter(situation, situation') => EffectiveRisk(situation) <= EffectiveRisk(situation'))
  BY <1>1 DEF RiskTypeOK
<1>. QED  BY <1>2, RiskTypeCorrect, PTL DEF RiskOrdered

-----------------------------------------------------------------------------
(* The planner *)

Subgoals == [completed : BOOLEAN, attempts : Nat]
Gauges == [progress : Nat, stability : Nat, stagnation : Nat, escalations : Nat]

\* The first m subgoals are done, the others are not; each of the first was advanced
\* past or had all its attempts, none of the others was.
DoneUpTo(m) ==
    /\ m \in 0..Len(subgoals)
    /\ Incomplete(subgoals) = (m + 1)..Len(subgoals)
    /\ gauges.progress = m
    /\ m < Len(subgoals) => focus = m + 1
    /\ \A i \in 1..m : i \in advanced \/ subgoals[i].attempts = MaxAttempts
    /\ \A i \in (m + 1)..Len(subgoals) : i \notin advanced /\ subgoals[i].attempts < MaxAttempts

PlannerTypeOK == subgoals \in Seq(Subgoals) /\ gauges \in Gauges
PlannerInv == PlannerTypeOK /\ \E m \in Nat : DoneUpTo(m)

LEMMA MinOfInterval ==
  ASSUME NEW a \in Nat, NEW b \in Nat, a <= b
  PROVE  Min(a..b) = a
<1>1. a \in a..b /\ \A y \in a..b : a <= y
  OBVIOUS
<1>2. Min(a..b) \in a..b /\ \A y \in a..b : Min(a..b) <= y
  BY <1>1 DEF Min
<1>. QED  BY <1>1, <1>2

LEMMA InitialSize == ASSUME NEW m \in Nat PROVE Cardinality(1..m) = m
BY FS_Interval, m \in Int, 1 \in Int, SMT

\* What the invariant says of the subgoals counted and of the one in focus.
LEMMA Progress ==
  ASSUME NEW gs \in Seq(Subgoals), NEW m \in 0..Len(gs), Incomplete(gs) = (m + 1)..Len(gs)
  PROVE  Completed(gs) = m
<1>1. DOMAIN gs \ Incomplete(gs) = 1..m /\ m \in Nat
  OBVIOUS
<1>. QED  BY <1>1, InitialSize, Zenon DEF Completed

LEMMA InFocus ==
  ASSUME PlannerTypeOK, NEW m \in Nat, DoneUpTo(m), Incomplete(subgoals) # {}
  PROVE  m < Len(subgoals) /\ focus = m + 1 /\ Current(subgoals) = m + 1
<1>1. Len(subgoals) \in Nat
  BY DEF PlannerTypeOK
<1>2. m < Len(subgoals)
  BY <1>1 DEF DoneUpTo
<1>. QED  BY <1>1, <1>2 DEF DoneUpTo, Current

\* Completing the first incomplete subgoal moves the border by one.
LEMMA NextBorder ==
  ASSUME NEW gs \in Seq(Subgoals), NEW m \in Nat, m < Len(gs),
         Incomplete(gs) = (m + 1)..Len(gs)
  PROVE  LET done == [gs EXCEPT ![m + 1].completed = TRUE] IN
         /\ done \in Seq(Subgoals) /\ Len(done) = Len(gs)
         /\ Incomplete(done) = (m + 2)..Len(gs)
         /\ \A i \in 1..Len(gs) : done[i].attempts = gs[i].attempts
<1> DEFINE k == m + 1
           q == [gs[k] EXCEPT !.completed = TRUE]
           done == [gs EXCEPT ![k].completed = TRUE]
<1>1. k \in 1..Len(gs) /\ k \in DOMAIN gs
  OBVIOUS
<1>2. gs[k] \in Subgoals
  BY <1>1
<1>3. q \in Subgoals /\ q.completed /\ q.attempts = gs[k].attempts
  BY <1>2 DEF Subgoals
<1>4. done = [gs EXCEPT ![k] = q]
  OBVIOUS
<1> HIDE DEF q, done
<1>5. done \in Seq(Subgoals) /\ Len(done) = Len(gs) /\ DOMAIN done = 1..Len(gs)
  BY <1>1, <1>3, <1>4
<1>6. done[k] = q /\ \A i \in 1..Len(gs) : i # k => done[i] = gs[i]
  BY <1>1, <1>4
<1>7. Incomplete(done) = Incomplete(gs) \ {k}
  <2>1. ASSUME NEW i \in 1..Len(gs)
        PROVE  ~done[i].completed <=> ~gs[i].completed /\ i # k
    BY <2>1, <1>3, <1>6, Zenon
  <2>2. DOMAIN gs = 1..Len(gs)
    OBVIOUS
  <2>. QED  BY <2>1, <2>2, <1>5, Zenon DEF Incomplete
<1>8. Incomplete(done) = (m + 2)..Len(gs)
  BY <1>7
<1>. QED  BY <1>3, <1>5, <1>6, <1>8 DEF done

LEMMA PlannerFresh ==
  ASSUME PlannerInit \/ ResetPlanner
  PROVE  (PlannerInit => PlannerInv) /\ (ResetPlanner => PlannerInv')
<1>1. <<>> \in Seq(Subgoals) /\ FreshGauges \in Gauges /\ FreshGauges.progress = 0
  BY DEF FreshGauges, Gauges
<1>2. PlannerInit => PlannerTypeOK /\ DoneUpTo(0)
  BY <1>1 DEF PlannerInit, PlannerTypeOK, DoneUpTo, Incomplete
<1>3. ResetPlanner => PlannerTypeOK' /\ DoneUpTo(0)'
  BY <1>1 DEF ResetPlanner, PlannerTypeOK, DoneUpTo, Incomplete
<1>. QED  BY <1>2, <1>3 DEF PlannerInv

LEMMA PlannerNewGoal ==
  ASSUME PlannerInv, NEW n \in Sizes, SetGoal(n)
  PROVE  PlannerInv'
<1> DEFINE fresh == [completed |-> FALSE, attempts |-> 0]
<1>. USE PlannerAssumption
<1>1. fresh \in Subgoals /\ ~fresh.completed /\ fresh.attempts = 0
  BY DEF Subgoals
<1>2. subgoals' = [i \in 1..n |-> fresh] /\ n \in Nat
  BY DEF SetGoal
<1> HIDE DEF fresh
<1>3. subgoals' \in Seq(Subgoals) /\ Len(subgoals') = n /\ DOMAIN subgoals' = 1..n
  BY <1>1, <1>2
<1>4. \A i \in 1..n : subgoals'[i] = fresh
  BY <1>2
<1>5. Incomplete(subgoals') = 1..n
  BY <1>1, <1>3, <1>4, Zenon DEF Incomplete
<1>6. gauges' \in Gauges /\ gauges'.progress = 0
  BY DEF SetGoal, PlannerInv, PlannerTypeOK, Gauges
<1>7. DoneUpTo(0)'
  BY <1>1, <1>3, <1>4, <1>5, <1>6 DEF DoneUpTo, SetGoal
<1>. QED  BY <1>3, <1>6, <1>7 DEF PlannerInv, PlannerTypeOK

\* After the subgoal in focus is completed, the focus is on the next or stays.
LEMMA FocusMoves ==
  ASSUME PlannerTypeOK, NEW m \in Nat, NEW gs \in Seq(Subgoals), m < Len(gs), focus = m + 1,
         Incomplete(gs) = (m + 2)..Len(gs)
  PROVE  m + 1 < Len(gs) => Current(gs) = m + 2
<1>1. m + 1 < Len(gs) => Min((m + 2)..Len(gs)) = m + 2
  BY MinOfInterval, m + 2 \in Nat
<1>2. m + 1 < Len(gs) => m + 2 \in Incomplete(gs)
  OBVIOUS
<1>3. focus \notin Incomplete(gs)
  OBVIOUS
<1>. QED  BY <1>1, <1>2, <1>3 DEF Current

LEMMA PlannerAdvances ==
  ASSUME PlannerInv, Advance
  PROVE  PlannerInv'
<1>1. PICK m \in Nat : DoneUpTo(m)
  BY DEF PlannerInv
<1>2. PlannerTypeOK /\ subgoals \in Seq(Subgoals) /\ gauges \in Gauges
  BY DEF PlannerInv, PlannerTypeOK
<1>3. m < Len(subgoals) /\ focus = m + 1 /\ Current(subgoals) = m + 1
  BY <1>1, <1>2, InFocus DEF Advance
<1> DEFINE gs == [subgoals EXCEPT ![m + 1].completed = TRUE]
<1>4. /\ subgoals' = gs /\ focus' = Current(gs) /\ advanced' = advanced \cup {m + 1}
      /\ gauges' = [gauges EXCEPT !.progress = Completed(gs), !.stagnation = 0]
  BY <1>3 DEF Advance
<1>5. Incomplete(subgoals) = (m + 1)..Len(subgoals)
  BY <1>1 DEF DoneUpTo
<1>6. /\ gs \in Seq(Subgoals) /\ Len(gs) = Len(subgoals)
      /\ Incomplete(gs) = (m + 2)..Len(subgoals)
      /\ \A i \in 1..Len(subgoals) : gs[i].attempts = subgoals[i].attempts
  BY <1>2, <1>3, <1>5, NextBorder
<1> HIDE DEF gs
<1>7. Completed(gs) = m + 1
  BY <1>3, <1>6, Progress, m + 1 \in 0..Len(gs)
<1>8. m + 1 < Len(gs) => Current(gs) = m + 2
  BY <1>2, <1>3, <1>6, FocusMoves
<1>9. gauges' \in Gauges /\ gauges'.progress = m + 1
  <2>1. gauges' = [gauges EXCEPT !.progress = m + 1, !.stagnation = 0] /\ m + 1 \in Nat
    BY <1>4, <1>7
  <2>. QED  BY <1>2, <2>1 DEF Gauges
<1>10. DoneUpTo(m + 1)'
  BY <1>1, <1>3, <1>4, <1>6, <1>8, <1>9, SMTT(30) DEF DoneUpTo
<1>. QED  BY <1>4, <1>6, <1>9, <1>10, m + 1 \in Nat DEF PlannerInv, PlannerTypeOK

LEMMA PlannerStalls ==
  ASSUME PlannerInv, RecordNoProgress
  PROVE  PlannerInv'
<1>1. PICK m \in Nat : DoneUpTo(m)
  BY DEF PlannerInv
<1>2. gauges \in Gauges
  BY DEF PlannerInv, PlannerTypeOK
<1>3. gauges' \in Gauges /\ gauges'.progress = gauges.progress
  <2> DEFINE s == IF gauges.stability > 0 THEN gauges.stability - 1 ELSE 0
             n == gauges.stagnation + 1
  <2>1. s \in Nat /\ n \in Nat
    BY <1>2 DEF Gauges
  <2>2. gauges' = [gauges EXCEPT !.stagnation = n, !.stability = s]
    BY DEF RecordNoProgress
  <2> HIDE DEF s, n
  <2>. QED  BY <1>2, <2>1, <2>2 DEF Gauges
<1>4. DoneUpTo(m)'
  BY <1>1, <1>3 DEF DoneUpTo, RecordNoProgress
<1>. QED  BY <1>3, <1>4 DEF PlannerInv, PlannerTypeOK, RecordNoProgress

LEMMA PlannerEscalates ==
  ASSUME PlannerInv, Escalate
  PROVE  PlannerInv'
<1>1. PICK m \in Nat : DoneUpTo(m)
  BY DEF PlannerInv
<1>2. PlannerTypeOK /\ subgoals \in Seq(Subgoals) /\ gauges \in Gauges
  BY DEF PlannerInv, PlannerTypeOK
<1> DEFINE counted == [gauges EXCEPT !.escalations = @ + 1, !.stagnation = 0]
<1>3. counted \in Gauges /\ counted.progress = gauges.progress
  <2> DEFINE n == gauges.escalations + 1
  <2>1. n \in Nat /\ gauges \in Gauges
    BY <1>2 DEF Gauges
  <2>2. counted = [gauges EXCEPT !.escalations = n, !.stagnation = 0]
    OBVIOUS
  <2> HIDE DEF n, counted
  <2>. QED  BY <2>1, <2>2 DEF Gauges
<1>4. advanced' = advanced
  BY DEF Escalate
<1>5. CASE Incomplete(subgoals) = {}
  <2>1. gauges' = counted /\ UNCHANGED <<subgoals, focus>>
    BY <1>5 DEF Escalate
  <2> HIDE DEF counted
  <2>2. DoneUpTo(m)'
    BY <1>1, <1>3, <1>4, <2>1 DEF DoneUpTo
  <2>. QED  BY <1>2, <1>3, <2>1, <2>2 DEF PlannerInv, PlannerTypeOK
<1>6. CASE Incomplete(subgoals) # {}
  <2>1. m < Len(subgoals) /\ focus = m + 1 /\ Current(subgoals) = m + 1
    BY <1>1, <1>2, <1>6, InFocus
  <2> DEFINE k == m + 1
             tried == [subgoals EXCEPT ![k].attempts = @ + 1]
             q == [subgoals[k] EXCEPT !.attempts = @ + 1]
             gs == [tried EXCEPT ![k].completed = TRUE]
  <2>2. k \in 1..Len(subgoals) /\ k \in DOMAIN subgoals /\ subgoals[k] \in Subgoals
    BY <1>2, <2>1
  <2>3. q \in Subgoals /\ q.attempts = subgoals[k].attempts + 1
    BY <2>2 DEF Subgoals
  <2>4. q.completed = subgoals[k].completed
    BY <2>2, Zenon DEF Subgoals
  <2>5. tried = [subgoals EXCEPT ![k] = q]
    OBVIOUS
  <2>6. Incomplete(subgoals) = k..Len(subgoals)
    BY <1>1 DEF DoneUpTo
  <2>7. subgoals[k].attempts < MaxAttempts /\ subgoals[k].attempts \in Nat /\ MaxAttempts \in Nat
    BY <1>1, <2>2, PlannerAssumption DEF DoneUpTo, Subgoals
  <2>8. /\ Exhausted(tried[k].attempts) =>
               subgoals' = gs /\ focus' = Current(gs) /\ gauges' = [counted EXCEPT !.progress = Completed(gs)]
        /\ ~Exhausted(tried[k].attempts) =>
               subgoals' = tried /\ focus' = k /\ gauges' = counted
    BY <1>6, <2>1 DEF Escalate
  <2> HIDE DEF q, tried, counted
  <2>9. /\ tried \in Seq(Subgoals) /\ Len(tried) = Len(subgoals) /\ DOMAIN tried = 1..Len(subgoals)
        /\ tried[k] = q /\ \A i \in 1..Len(subgoals) : i # k => tried[i] = subgoals[i]
    BY <1>2, <2>2, <2>3, <2>5
  <2>10. Incomplete(tried) = k..Len(subgoals)
    <3>1. ASSUME NEW i \in 1..Len(subgoals)
          PROVE  ~tried[i].completed <=> ~subgoals[i].completed
      BY <3>1, <2>4, <2>9, Zenon
    <3>2. DOMAIN subgoals = 1..Len(subgoals)
      BY <1>2
    <3>3. Incomplete(tried) = Incomplete(subgoals)
      BY <3>1, <3>2, <2>9, Zenon DEF Incomplete
    <3>. QED  BY <3>3, <2>6
  <2>11. CASE Exhausted(tried[k].attempts)
    <3>1. /\ gs \in Seq(Subgoals) /\ Len(gs) = Len(subgoals)
          /\ Incomplete(gs) = (m + 2)..Len(subgoals)
          /\ \A i \in 1..Len(subgoals) : gs[i].attempts = tried[i].attempts
      BY <2>1, <2>9, <2>10, NextBorder, ZenonT(30)
    <3> HIDE DEF gs
    <3>2. Completed(gs) = m + 1
      BY <2>1, <3>1, Progress, m + 1 \in 0..Len(gs)
    <3>3. m + 1 < Len(gs) => Current(gs) = m + 2
      BY <1>2, <2>1, <3>1, FocusMoves
    <3>4. gauges' \in Gauges /\ gauges'.progress = m + 1
      BY <1>3, <2>8, <2>11, <3>2 DEF Gauges
    <3>5. gs[k].attempts = MaxAttempts
      <4>1. gs[k].attempts = subgoals[k].attempts + 1 /\ tried[k].attempts = subgoals[k].attempts + 1
        BY <2>2, <2>3, <2>9, <3>1
      <4>. QED  BY <4>1, <2>7, <2>11 DEF Exhausted
    <3>6. \A i \in 1..Len(subgoals) : i # k => gs[i].attempts = subgoals[i].attempts
      BY <2>9, <3>1
    <3>7. /\ \A i \in 1..(m + 1) : i \in advanced \/ gs[i].attempts = MaxAttempts
          /\ \A i \in (m + 2)..Len(subgoals) : i \notin advanced /\ gs[i].attempts < MaxAttempts
      BY <1>1, <2>1, <3>5, <3>6 DEF DoneUpTo
    <3>8. DoneUpTo(m + 1)'
      BY <1>4, <2>1, <2>8, <2>11, <3>1, <3>3, <3>4, <3>7 DEF DoneUpTo
    <3>. QED  BY <2>8, <2>11, <3>1, <3>4, <3>8, m + 1 \in Nat DEF PlannerInv, PlannerTypeOK
  <2>12. CASE ~Exhausted(tried[k].attempts)
    <3>1. tried[k].attempts < MaxAttempts
      BY <2>3, <2>7, <2>9, <2>12 DEF Exhausted
    <3>2. \A i \in 1..Len(subgoals) : i # k => tried[i].attempts = subgoals[i].attempts
      BY <2>9
    <3>3. /\ \A i \in 1..m : i \in advanced \/ tried[i].attempts = MaxAttempts
          /\ \A i \in k..Len(subgoals) : i \notin advanced /\ tried[i].attempts < MaxAttempts
      BY <1>1, <2>1, <3>1, <3>2 DEF DoneUpTo
    <3>4. DoneUpTo(m)'
      BY <1>1, <1>3, <1>4, <2>1, <2>8, <2>9, <2>10, <2>12, <3>3 DEF DoneUpTo
    <3>. QED  BY <1>3, <2>8, <2>9, <2>12, <3>4 DEF PlannerInv, PlannerTypeOK
  <2>. QED  BY <2>11, <2>12
<1>. QED  BY <1>5, <1>6

LEMMA PlannerKeeps == PlannerInv /\ [PlannerNext]_plannerVars => PlannerInv'
<1>. SUFFICES ASSUME PlannerInv, [PlannerNext]_plannerVars PROVE PlannerInv'
  OBVIOUS
<1>1. CASE ResetPlanner
  BY <1>1, PlannerFresh
<1>2. ASSUME NEW n \in Sizes, SetGoal(n) PROVE PlannerInv'
  BY <1>2, PlannerNewGoal
<1>3. CASE Advance
  BY <1>3, PlannerAdvances
<1>4. CASE RecordNoProgress
  BY <1>4, PlannerStalls
<1>5. CASE Escalate
  BY <1>5, PlannerEscalates
<1>6. CASE UNCHANGED plannerVars
  BY <1>6 DEF plannerVars, PlannerInv, PlannerTypeOK, DoneUpTo
<1>. QED  BY <1>1, <1>2, <1>3, <1>4, <1>5, <1>6 DEF PlannerNext

LEMMA PlannerShows == PlannerInv => NoSubgoalPassedOver
<1>. SUFFICES ASSUME PlannerInv PROVE NoSubgoalPassedOver
  OBVIOUS
<1>1. PICK m \in Nat : DoneUpTo(m)
  BY DEF PlannerInv
<1>2. /\ subgoals \in Seq(Subgoals) /\ DOMAIN subgoals = 1..Len(subgoals) /\ Len(subgoals) \in Nat
  BY DEF PlannerInv, PlannerTypeOK
<1>3. Incomplete(subgoals) = (m + 1)..Len(subgoals) /\ m \in 0..Len(subgoals)
  BY <1>1 DEF DoneUpTo
<1>4. \A i \in Incomplete(subgoals), j \in DOMAIN subgoals \ Incomplete(subgoals) : j < i
  BY <1>2, <1>3
<1>5. ASSUME NEW i \in DOMAIN subgoals
      PROVE  subgoals[i].completed <=> i \in advanced \/ subgoals[i].attempts = MaxAttempts
  <2>1. subgoals[i].attempts \in Nat /\ MaxAttempts \in Nat
    <3>1. subgoals[i] \in Subgoals
      BY <1>2
    <3>. QED  BY <3>1, PlannerAssumption DEF Subgoals
  <2>2. i <= m => i \in advanced \/ subgoals[i].attempts = MaxAttempts
    BY <1>1, <1>2 DEF DoneUpTo
  <2>3. ~(i <= m) => ~(i \in advanced \/ subgoals[i].attempts = MaxAttempts)
    BY <1>1, <1>2, <2>1 DEF DoneUpTo
  <2>4. i \in Incomplete(subgoals) <=> ~(i <= m)
    BY <1>2, <1>3
  <2>5. i \in Incomplete(subgoals) <=> ~subgoals[i].completed
    BY <1>5, Zenon DEF Incomplete
  <2>. QED  BY <2>2, <2>3, <2>4, <2>5, Zenon
<1>6. gauges.progress = Completed(subgoals)
  BY <1>1, <1>2, <1>3, Progress DEF DoneUpTo
<1>7. Incomplete(subgoals) # {} => focus = Min(Incomplete(subgoals))
  <2>1. m < Len(subgoals) => Min((m + 1)..Len(subgoals)) = m + 1
    BY <1>2, MinOfInterval, m + 1 \in Nat, m < Len(subgoals) => m + 1 <= Len(subgoals)
  <2>. QED  BY <1>1, <1>2, <1>3, <2>1 DEF DoneUpTo
<1>. QED  BY <1>4, <1>5, <1>6, <1>7 DEF NoSubgoalPassedOver

\* Goals of any size, any number of attempts: the planner passes over no subgoal,
\* however its caller mixes advances, stalls, escalations and new goals.
THEOREM PlannerInOrder == PlannerSpec => []NoSubgoalPassedOver
<1>1. PlannerInit => PlannerInv
  BY PlannerFresh
<1>. QED  BY <1>1, PlannerKeeps, PlannerShows, PTL DEF PlannerSpec

-----------------------------------------------------------------------------
(* Self-healing *)

\* s has no element twice; x is an element of s.
Distinct(s) == \A i, j \in 1..Len(s) : s[i] = s[j] => i = j
Holds(s, x) == \E i \in 1..Len(s) : s[i] = x

LEMMA RemoveFirstIsRemoveAt ==
  ASSUME NEW S, NEW s \in Seq(S), Distinct(s), NEW p \in 1..Len(s), NEW x, x = s[p]
  PROVE  RemoveFirst(s, x) = RemoveAt(s, p)
<1>. DEFINE I == {i \in 1..Len(s) : s[i] = x}
<1>1. I = {p}
  BY DEF Distinct
<1>2. Min(I) = p
  BY <1>1, p \in Nat DEF Min
<1>. HIDE DEF I
<1>3. SelectInSeq(s, LAMBDA v : v = x) = p
  BY <1>2, <1>1, Zenon DEF SelectInSeq, I
<1>4. \E i \in 1..Len(s) : s[i] = x
  OBVIOUS
<1>. QED BY <1>3, <1>4, Zenon DEF RemoveFirst

\* t is s without the element at p.
Removed(s, t, p) ==
  /\ Len(t) = Len(s) - 1
  /\ \A i \in 1..(Len(s) - 1) : t[i] = IF i < p THEN s[i] ELSE s[i + 1]

LEMMA RemoveFirstPresent ==
  ASSUME NEW S, NEW s \in Seq(S), Distinct(s), NEW p \in 1..Len(s), NEW x, s[p] = x,
         NEW t, t = RemoveFirst(s, x)
  PROVE  t \in Seq(S) /\ Removed(s, t, p)
<1>. DEFINE n == Len(s)
            a == SubSeq(s, 1, p - 1)
            b == SubSeq(s, p + 1, n)
<1>1. n \in Nat /\ p \in 1..n /\ \A i \in 1..n : s[i] \in S
  OBVIOUS
<1>2. RemoveFirst(s, x) = a \o b
  BY RemoveFirstIsRemoveAt, Zenon DEF RemoveAt
<1>. HIDE DEF n
<1>3. a \in Seq(S) /\ Len(a) = p - 1 /\ \A i \in 1..(p - 1) : a[i] = s[i]
  <2>1. 1 \in Int /\ p - 1 \in Int /\ \A i \in 1..(p - 1) : s[i] \in S
    BY <1>1
  <2>2. /\ a \in Seq(S) /\ Len(a) = IF 1 <= p - 1 THEN p - 1 - 1 + 1 ELSE 0
        /\ \A i \in 1..(p - 1 - 1 + 1) : a[i] = s[1 + i - 1]
    BY <2>1, SubSeqProperties
  <2>. HIDE DEF a
  <2>. QED  BY <1>1, <2>2
<1>4. b \in Seq(S) /\ Len(b) = n - p /\ \A i \in 1..(n - p) : b[i] = s[p + i]
  <2>1. p + 1 \in Int /\ n \in Int /\ \A i \in (p + 1)..n : s[i] \in S
    BY <1>1
  <2>2. /\ b \in Seq(S) /\ Len(b) = IF p + 1 <= n THEN n - (p + 1) + 1 ELSE 0
        /\ \A i \in 1..(n - (p + 1) + 1) : b[i] = s[(p + 1) + i - 1]
    BY <2>1, SubSeqProperties
  <2>. HIDE DEF b
  <2>. QED  BY <1>1, <2>2
<1>. HIDE DEF a, b
<1>. DEFINE c == a \o b
<1>5. /\ c \in Seq(S) /\ Len(c) = Len(a) + Len(b)
      /\ \A i \in 1..(Len(a) + Len(b)) : c[i] = IF i <= Len(a) THEN a[i] ELSE b[i - Len(a)]
  BY <1>3, <1>4, ConcatProperties, Zenon
<1>. HIDE DEF c
<1>6. Len(c) = n - 1
  BY <1>5, <1>3, <1>4, <1>1
<1>7. \A i \in 1..(n - 1) : c[i] = IF i < p THEN s[i] ELSE s[i + 1]
  <2>. TAKE i \in 1..(n - 1)
  <2>1. CASE i < p
    <3>1. i \in 1..(p - 1) /\ i <= Len(a) /\ i \in 1..(Len(a) + Len(b))
      BY <2>1, <1>1, <1>3, <1>4
    <3>. QED  BY <3>1, <2>1, <1>3, <1>5
  <2>2. CASE ~ (i < p)
    <3>1. i - (p - 1) \in 1..(n - p) /\ ~ (i <= Len(a)) /\ i \in 1..(Len(a) + Len(b))
          /\ i - Len(a) = i - (p - 1) /\ p + (i - (p - 1)) = i + 1
      BY <2>2, <1>1, <1>3, <1>4
    <3>2. c[i] = b[i - (p - 1)]
      BY <3>1, <1>5
    <3>. QED  BY <3>1, <3>2, <2>2, <1>4
  <2>. QED  BY <2>1, <2>2
<1>8. t = c
  BY <1>2 DEF c
<1>. QED  BY <1>5, <1>6, <1>7, <1>8 DEF n, Removed

\* Where the element at i comes from when the one at p goes to the end.
Source(n, p, i) == IF i = n THEN p ELSE IF i < p THEN i ELSE i + 1

\* t is s with the element at p moved to the end, or with x added there.
Moved(s, t, n, p) ==
  /\ Len(s) = n /\ Len(t) = n
  /\ \A i \in 1..n : t[i] = s[Source(n, p, i)]
Added(s, t, n, x) ==
  /\ Len(s) = n /\ Len(t) = n + 1
  /\ \A i \in 1..(n + 1) : t[i] = IF i = n + 1 THEN x ELSE s[i]

LEMMA SourcePermutes ==
  ASSUME NEW n \in Nat, NEW p \in 1..n
  PROVE  /\ \A i \in 1..n : Source(n, p, i) \in 1..n
         /\ \A i, j \in 1..n : Source(n, p, i) = Source(n, p, j) => i = j
         /\ \A i \in 1..n : \E j \in 1..n : Source(n, p, j) = i
<1>1. \A i \in 1..n : Source(n, p, i) \in 1..n
  BY DEF Source
<1>2. \A i, j \in 1..n : Source(n, p, i) = Source(n, p, j) => i = j
  BY DEF Source
<1>3. ASSUME NEW i \in 1..n PROVE \E j \in 1..n : Source(n, p, j) = i
  <2>1. CASE i < p
    BY <2>1 DEF Source
  <2>2. CASE i = p
    <3>1. n \in 1..n /\ Source(n, p, n) = i
      BY <2>2 DEF Source
    <3>. QED  BY <3>1
  <2>3. CASE i > p
    <3>1. i - 1 \in 1..n /\ Source(n, p, i - 1) = i
      BY <2>3 DEF Source
    <3>. QED  BY <3>1
  <2>. QED  BY <2>1, <2>2, <2>3
<1>. QED  BY <1>1, <1>2, <1>3

LEMMA LatelyMoves ==
  ASSUME NEW S, NEW s \in Seq(S), NEW n \in Nat, Len(s) = n, Distinct(s),
         NEW p \in 1..n, NEW x, s[p] = x, NEW t, t = Lately(s, x)
  PROVE  t \in Seq(S) /\ Moved(s, t, n, p)
<1>. DEFINE w == RemoveFirst(s, x)
<1>1. w \in Seq(S) /\ Removed(s, w, p)
  BY RemoveFirstPresent
<1>2. t = Append(w, x)
  BY DEF Lately
<1>3. x \in S
  OBVIOUS
<1>. HIDE DEF w
<1>. QED  BY <1>1, <1>2, <1>3 DEF Source, Moved, Removed

LEMMA LatelyAdds ==
  ASSUME NEW S, NEW s \in Seq(S), NEW n \in Nat, Len(s) = n, NEW x \in S, ~ Holds(s, x),
         NEW t, t = Lately(s, x)
  PROVE  t \in Seq(S) /\ Added(s, t, n, x)
<1>1. RemoveFirst(s, x) = s
  BY Zenon DEF RemoveFirst, Holds
<1>2. t = Append(s, x)
  BY <1>1 DEF Lately
<1>. QED  BY <1>2 DEF Added

\* Moving an element of a sequence without repetition to its end, or adding one.
LEMMA MovedDistinct ==
  ASSUME NEW s, NEW t, NEW n \in Nat, NEW p \in 1..n, Distinct(s), Moved(s, t, n, p)
  PROVE  Distinct(t)
<1>. USE DEF Moved
<1>. SUFFICES ASSUME NEW i \in 1..n, NEW j \in 1..n, t[i] = t[j] PROVE i = j
  BY DEF Distinct
<1>1. s[Source(n, p, i)] = s[Source(n, p, j)]
  OBVIOUS
<1>2. Source(n, p, i) \in 1..n /\ Source(n, p, j) \in 1..n
  BY SourcePermutes
<1>3. Source(n, p, i) = Source(n, p, j)
  BY <1>1, <1>2, Zenon DEF Distinct
<1>. QED  BY <1>3, SourcePermutes, Zenon

LEMMA MovedHolds ==
  ASSUME NEW s, NEW t, NEW n \in Nat, NEW p \in 1..n, Moved(s, t, n, p), NEW g
  PROVE  Holds(t, g) <=> Holds(s, g)
<1>. USE DEF Moved
<1>1. ASSUME NEW i \in 1..n, t[i] = g PROVE Holds(s, g)
  BY <1>1, SourcePermutes, Zenon DEF Holds
<1>2. ASSUME NEW i \in 1..n, s[i] = g PROVE Holds(t, g)
  <2>1. PICK j \in 1..n : Source(n, p, j) = i
    BY SourcePermutes, Zenon
  <2>. QED  BY <2>1, <1>2, Zenon DEF Holds
<1>. QED  BY <1>1, <1>2, Zenon DEF Holds

LEMMA AddedDistinct ==
  ASSUME NEW s, NEW t, NEW n \in Nat, NEW x, Distinct(s), ~ Holds(s, x), Added(s, t, n, x)
  PROVE  Distinct(t)
<1>. USE DEF Added
<1>. SUFFICES ASSUME NEW i \in 1..(n + 1), NEW j \in 1..(n + 1), t[i] = t[j] PROVE i = j
  BY DEF Distinct
<1>1. \A m \in 1..(n + 1) : m = n + 1 \/ m \in 1..n
  OBVIOUS
<1>2. \A m \in 1..n : t[m] = s[m] /\ s[m] # x
  BY DEF Holds
<1>3. n + 1 \in 1..(n + 1) /\ t[n + 1] = x
  OBVIOUS
<1>. QED  BY <1>1, <1>2, <1>3, Zenon DEF Distinct

LEMMA AddedHolds ==
  ASSUME NEW s, NEW t, NEW n \in Nat, NEW x, Added(s, t, n, x), NEW g
  PROVE  Holds(t, g) <=> g = x \/ Holds(s, g)
<1>. USE DEF Added
<1>1. \A m \in 1..(n + 1) : m = n + 1 \/ m \in 1..n
  OBVIOUS
<1>2. \A m \in 1..n : m \in 1..(n + 1) /\ t[m] = s[m]
  OBVIOUS
<1>3. n + 1 \in 1..(n + 1) /\ t[n + 1] = x
  OBVIOUS
<1>. QED  BY <1>1, <1>2, <1>3, Zenon DEF Holds

\* The window and the level that follows from it.
Level == outcomes # <<>> => hardening = AdjustHardening(outcomes)

\* The memory is the end of the history, as much of it as there is room for.
Aligned(n, k) ==
  /\ recent \in Seq(Fingerprints) /\ Len(recent) = n /\ Distinct(recent)
  /\ seen \in Seq(Fingerprints) /\ Len(seen) = k
  /\ k = IF n <= MaxClusters THEN n ELSE MaxClusters
  /\ \A i \in 1..k : seen[i] = recent[n - k + i]

EndOfHistory == \E n, k \in Nat : Aligned(n, k)

Counted == \A f \in Fingerprints : clusters[f] > 0 <=> Holds(seen, f)

HealingTypeOK == outcomes \in Seq(BOOLEAN) /\ clusters \in [Fingerprints -> Nat]

HealingInv == HealingTypeOK /\ Level /\ EndOfHistory /\ Counted

LEMMA FreshIsAligned == recent = <<>> /\ seen = <<>> => Aligned(0, 0)
BY HealingAssumption DEF Aligned, Distinct

LEMMA FreshIsCounted == clusters = [f \in Fingerprints |-> 0] /\ seen = <<>> => Counted
BY DEF Counted, Holds

LEMMA HealingStarts == HealingInit => HealingInv
BY FreshIsAligned, FreshIsCounted
DEF HealingInit, HealingInv, HealingTypeOK, Level, EndOfHistory

LEMMA WindowGrows ==
  ASSUME NEW o \in BOOLEAN, outcomes \in Seq(BOOLEAN)
  PROVE  Windowed(o) \in Seq(BOOLEAN)
<1>. DEFINE s == Append(outcomes, o)
<1>1. s \in Seq(BOOLEAN) /\ Len(s) \in Nat /\ Len(s) >= 1
  OBVIOUS
<1>2. Windowed(o) = SubSeq(s, IF Len(s) > WindowSize THEN 2 ELSE 1, Len(s))
  BY DEF Windowed
<1>. HIDE DEF s
<1>3. \A i \in 1..2 : SubSeq(s, i, Len(s)) \in Seq(BOOLEAN)
  BY <1>1, SubSeqProperties
<1>. QED  BY <1>2, <1>3

LEMMA Hardens ==
  ASSUME NEW o \in BOOLEAN, outcomes \in Seq(BOOLEAN), outcomes' = Windowed(o),
         hardening' = AdjustHardening(outcomes')
  PROVE  outcomes' \in Seq(BOOLEAN) /\ Level'
BY WindowGrows, Zenon DEF Level

LEMMA SeenOnce ==
  ASSUME NEW n \in Nat, NEW k \in Nat, Aligned(n, k)
  PROVE  Distinct(seen) /\ k <= n /\ n - k \in Nat
<1>1. k <= n /\ n - k \in Nat
  BY HealingAssumption DEF Aligned
<1>2. ASSUME NEW i \in 1..k, NEW j \in 1..k, seen[i] = seen[j] PROVE i = j
  <2>1. n - k + i \in 1..n /\ n - k + j \in 1..n
    BY <1>1
  <2>2. recent[n - k + i] = recent[n - k + j]
    BY <1>2 DEF Aligned
  <2>3. n - k + i = n - k + j
    BY <2>1, <2>2, Zenon DEF Aligned, Distinct
  <2>. QED  BY <2>3
<1>3. Len(seen) = k
  BY DEF Aligned
<1>. QED  BY <1>1, <1>2, <1>3 DEF Distinct

LEMMA Recurs ==
  ASSUME HealingInv, NEW f \in Fingerprints, IngestFailure(f), clusters[f] > 0
  PROVE  EndOfHistory' /\ Counted' /\ clusters' \in [Fingerprints -> Nat]
<1>1. PICK n \in Nat, k \in Nat : Aligned(n, k)
  BY DEF HealingInv, EndOfHistory
<1>2. Distinct(seen) /\ k <= n /\ n - k \in Nat
  BY <1>1, SeenOnce
<1>3. /\ recent \in Seq(Fingerprints) /\ Len(recent) = n /\ Distinct(recent)
      /\ seen \in Seq(Fingerprints) /\ Len(seen) = k
      /\ \A i \in 1..k : seen[i] = recent[n - k + i]
  BY <1>1 DEF Aligned
<1>4. PICK p \in 1..k : seen[p] = f
  BY <1>3 DEF HealingInv, Counted, Holds
<1>5. recent[n - k + p] = f /\ n - k + p \in 1..n
  BY <1>2, <1>3, <1>4
<1>6. seen' = Lately(seen, f) /\ recent' = Lately(recent, f)
  BY DEF IngestFailure, Remaining
<1>7. /\ seen' \in Seq(Fingerprints) /\ Moved(seen, seen', k, p)
  BY <1>2, <1>3, <1>4, <1>6, LatelyMoves, Zenon
<1>8. /\ recent' \in Seq(Fingerprints) /\ Moved(recent, recent', n, n - k + p)
  BY <1>3, <1>5, <1>6, LatelyMoves, Zenon
<1>9. Distinct(recent')
  BY <1>3, <1>5, <1>8, MovedDistinct, Zenon
<1>10. ASSUME NEW i \in 1..k PROVE (seen')[i] = (recent')[n - k + i]
  <2>1. Source(k, p, i) \in 1..k /\ n - k + i \in 1..n
        /\ Source(n, n - k + p, n - k + i) = n - k + Source(k, p, i)
    BY <1>2 DEF Source
  <2>. QED  BY <2>1, <1>3, <1>7, <1>8 DEF Moved
<1>11. Aligned(n, k)'
  BY <1>1, <1>7, <1>8, <1>9, <1>10 DEF Aligned, Moved
<1>12. clusters' = [clusters EXCEPT ![f] = @ + 1] /\ clusters \in [Fingerprints -> Nat]
  BY DEF IngestFailure, Recorded, HealingInv, HealingTypeOK
<1>13. clusters' \in [Fingerprints -> Nat]
       /\ \A g \in Fingerprints : (clusters')[g] > 0 <=> clusters[g] > 0
  BY <1>12
<1>14. \A g \in Fingerprints : Holds(seen', g) <=> Holds(seen, g)
  BY <1>3, <1>7, MovedHolds, Zenon
<1>15. Counted'
  BY <1>13, <1>14 DEF Counted, HealingInv
<1>. QED  BY <1>11, <1>13, <1>15 DEF EndOfHistory

LEMMA Remembers ==
  ASSUME HealingInv, NEW f \in Fingerprints, IngestFailure(f),
         ~ (clusters[f] > 0), Len(seen) < MaxClusters
  PROVE  EndOfHistory' /\ Counted' /\ clusters' \in [Fingerprints -> Nat]
<1>1. PICK n \in Nat, k \in Nat : Aligned(n, k)
  BY DEF HealingInv, EndOfHistory
<1>2. k = n /\ n + 1 <= MaxClusters /\ n + 1 \in Nat
  BY <1>1, HealingAssumption DEF Aligned
<1>3. /\ recent \in Seq(Fingerprints) /\ Len(recent) = n /\ Distinct(recent)
      /\ seen \in Seq(Fingerprints) /\ Len(seen) = n
      /\ \A i \in 1..n : seen[i] = recent[i]
  BY <1>1, <1>2 DEF Aligned
<1>4. ~ Holds(seen, f)
  BY DEF HealingInv, Counted
<1>5. ~ Holds(recent, f)
  BY <1>3, <1>4 DEF Holds
<1>6. seen' = Lately(seen, f) /\ recent' = Lately(recent, f)
  BY DEF IngestFailure, Remaining
<1>7. /\ seen' \in Seq(Fingerprints) /\ Added(seen, seen', n, f)
  BY <1>3, <1>4, <1>6, LatelyAdds, Zenon
<1>8. /\ recent' \in Seq(Fingerprints) /\ Added(recent, recent', n, f)
  BY <1>3, <1>5, <1>6, LatelyAdds, Zenon
<1>9. Distinct(recent')
  BY <1>3, <1>5, <1>8, AddedDistinct, Zenon
<1>10. \A i \in 1..(n + 1) : (seen')[i] = (recent')[n + 1 - (n + 1) + i]
  BY <1>3, <1>7, <1>8 DEF Added
<1>11. Aligned(n + 1, n + 1)'
  BY <1>2, <1>7, <1>8, <1>9, <1>10 DEF Aligned, Added
<1>12. clusters' = [clusters EXCEPT ![f] = @ + 1] /\ clusters \in [Fingerprints -> Nat]
  BY DEF IngestFailure, Recorded, HealingInv, HealingTypeOK
<1>13. clusters' \in [Fingerprints -> Nat]
       /\ \A g \in Fingerprints : (clusters')[g] > 0 <=> (g = f \/ clusters[g] > 0)
  BY <1>12
<1>14. \A g \in Fingerprints : Holds(seen', g) <=> (g = f \/ Holds(seen, g))
  BY <1>3, <1>7, AddedHolds, Zenon
<1>15. Counted'
  BY <1>13, <1>14 DEF Counted, HealingInv
<1>. QED  BY <1>2, <1>11, <1>13, <1>15 DEF EndOfHistory

LEMMA Forgets ==
  ASSUME HealingInv, NEW f \in Fingerprints, IngestFailure(f),
         ~ (clusters[f] > 0), ~ (Len(seen) < MaxClusters)
  PROVE  EndOfHistory' /\ Counted' /\ clusters' \in [Fingerprints -> Nat]
<1>. DEFINE w == RemoveFirst(seen, Oldest)
<1>1. PICK n \in Nat, k \in Nat : Aligned(n, k)
  BY DEF HealingInv, EndOfHistory
<1>2. Distinct(seen) /\ k <= n /\ n - k \in Nat
  BY <1>1, SeenOnce
<1>3. /\ recent \in Seq(Fingerprints) /\ Len(recent) = n /\ Distinct(recent)
      /\ seen \in Seq(Fingerprints) /\ Len(seen) = k
      /\ \A i \in 1..k : seen[i] = recent[n - k + i]
  BY <1>1 DEF Aligned
<1>4. k = MaxClusters /\ k >= 1 /\ k - 1 \in Nat
  BY <1>1, <1>3, HealingAssumption DEF Aligned
<1>5. ~ Holds(seen, f)
  BY DEF HealingInv, Counted
<1>6. Oldest = seen[1] /\ 1 \in 1..k /\ Oldest \in Fingerprints
  BY <1>3, <1>4 DEF Oldest
<1>7. w \in Seq(Fingerprints) /\ Len(w) = k - 1 /\ \A i \in 1..(k - 1) : w[i] = seen[i + 1]
  <2>1. 1 \in 1..Len(seen) /\ seen[1] = Oldest
    BY <1>3, <1>6
  <2>2. w \in Seq(Fingerprints) /\ Removed(seen, w, 1)
    BY <1>2, <1>3, <2>1, RemoveFirstPresent, Zenon
  <2>. HIDE DEF w
  <2>. QED  BY <2>2, <1>3 DEF Removed
<1>8. seen' = Lately(w, f) /\ recent' = Lately(recent, f)
  BY DEF IngestFailure, Remaining
<1>. HIDE DEF w
<1>9. \A i \in 1..(k - 1) : i + 1 \in 1..k
  OBVIOUS
<1>10. ~ Holds(w, f)
  <2>1. ASSUME NEW i \in 1..(k - 1), w[i] = f PROVE FALSE
    BY <2>1, <1>3, <1>5, <1>7, <1>9 DEF Holds
  <2>. QED  BY <2>1, <1>7 DEF Holds
<1>11. /\ seen' \in Seq(Fingerprints) /\ Added(w, seen', k - 1, f)
  BY <1>4, <1>7, <1>8, <1>10, LatelyAdds, Zenon
<1>12. /\ Len(seen') = k
       /\ \A i \in 1..k : (seen')[i] = IF i = k THEN f ELSE seen[i + 1]
  BY <1>7, <1>11 DEF Added
<1>13. EndOfHistory'
  <2>1. CASE Holds(recent, f)
    <3>1. PICK p \in 1..n : recent[p] = f
      BY <2>1, <1>3 DEF Holds
    <3>2. p <= n - k
      <4>. SUFFICES ASSUME p > n - k PROVE FALSE
        BY <1>2
      <4>1. p - (n - k) \in 1..k /\ n - k + (p - (n - k)) = p
        BY <1>2
      <4>2. seen[p - (n - k)] = f
        BY <4>1, <3>1, <1>3
      <4>. QED  BY <4>1, <4>2, <1>3, <1>5 DEF Holds
    <3>3. recent' \in Seq(Fingerprints) /\ Moved(recent, recent', n, p)
      BY <1>3, <1>8, <3>1, LatelyMoves, Zenon
    <3>4. Distinct(recent')
      BY <1>3, <3>1, <3>3, MovedDistinct, Zenon
    <3>5. ASSUME NEW i \in 1..k PROVE (seen')[i] = (recent')[n - k + i]
      <4>1. CASE i = k
        <5>1. n \in 1..n /\ n - k + i = n /\ Source(n, p, n) = p
          BY <4>1, <1>2, <1>4 DEF Source
        <5>. QED  BY <5>1, <4>1, <3>1, <3>3, <1>12 DEF Moved
      <4>2. CASE i # k
        <5>1. n - k + i \in 1..n /\ i + 1 \in 1..k
              /\ Source(n, p, n - k + i) = n - k + (i + 1)
          BY <4>2, <1>2, <3>2 DEF Source
        <5>. QED  BY <5>1, <4>2, <3>3, <1>3, <1>12 DEF Moved
      <4>. QED  BY <4>1, <4>2
    <3>6. Aligned(n, k)'
      BY <1>1, <1>11, <1>12, <3>3, <3>4, <3>5 DEF Aligned, Moved
    <3>. QED  BY <3>6 DEF EndOfHistory
  <2>2. CASE ~ Holds(recent, f)
    <3>1. recent' \in Seq(Fingerprints) /\ Added(recent, recent', n, f)
      BY <1>3, <1>8, <2>2, LatelyAdds, Zenon
    <3>2. Distinct(recent')
      BY <1>3, <2>2, <3>1, AddedDistinct, Zenon
    <3>3. ASSUME NEW i \in 1..k PROVE (seen')[i] = (recent')[n + 1 - k + i]
      <4>1. n + 1 - k + i \in 1..(n + 1) /\ (n + 1 - k + i = n + 1 <=> i = k)
            /\ n + 1 - k + i = n - k + (i + 1)
        BY <1>2
      <4>2. i # k => i + 1 \in 1..k
        OBVIOUS
      <4>. QED  BY <4>1, <4>2, <1>3, <1>12, <3>1 DEF Added
    <3>4. k = IF n + 1 <= MaxClusters THEN n + 1 ELSE MaxClusters
      BY <1>2, <1>4
    <3>5. Aligned(n + 1, k)'
      <4>1. \A i \in 1..k : (seen')[i] = (recent')[(n + 1) - k + i]
        BY <3>3
      <4>. QED  BY <1>11, <1>12, <3>1, <3>2, <3>4, <4>1 DEF Aligned, Added
    <3>. QED  BY <3>5 DEF EndOfHistory
  <2>. QED  BY <2>1, <2>2
<1>14. clusters' = [clusters EXCEPT ![Oldest] = 0, ![f] = 1] /\ clusters \in [Fingerprints -> Nat]
  BY DEF IngestFailure, Recorded, HealingInv, HealingTypeOK
<1>15. Oldest # f
  BY <1>3, <1>5, <1>6 DEF Holds
<1>16. clusters' \in [Fingerprints -> Nat]
       /\ \A g \in Fingerprints : (clusters')[g] > 0 <=> (g = f \/ (g # Oldest /\ clusters[g] > 0))
  BY <1>14, <1>15, <1>6
<1>17. \A g \in Fingerprints : Holds(seen', g) <=> (g = f \/ Holds(w, g))
  BY <1>4, <1>7, <1>11, AddedHolds, Zenon
<1>18. \A g \in Fingerprints : Holds(w, g) <=> (g # Oldest /\ Holds(seen, g))
  <2>. TAKE g \in Fingerprints
  <2>1. ASSUME NEW i \in 1..(k - 1), w[i] = g PROVE g # Oldest /\ Holds(seen, g)
    <3>1. i + 1 \in 1..k /\ seen[i + 1] = g /\ i + 1 # 1
      BY <2>1, <1>7
    <3>. QED  BY <3>1, <1>2, <1>3, <1>6 DEF Holds, Distinct
  <2>2. ASSUME g # Oldest, NEW i \in 1..k, seen[i] = g PROVE Holds(w, g)
    <3>1. i - 1 \in 1..(k - 1) /\ i - 1 + 1 = i
      BY <2>2, <1>6
    <3>2. w[i - 1] = g
      BY <3>1, <2>2, <1>7
    <3>. QED  BY <3>1, <3>2, <1>7 DEF Holds
  <2>. QED  BY <2>1, <2>2, <1>3, <1>7 DEF Holds
<1>19. Counted'
  BY <1>16, <1>17, <1>18 DEF Counted, HealingInv
<1>. QED  BY <1>13, <1>16, <1>19

LEMMA HealingKeeps == HealingInv /\ [HealingNext]_healingVars => HealingInv'
<1>. SUFFICES ASSUME HealingInv, [HealingNext]_healingVars
              PROVE  HealingInv'
  OBVIOUS
<1>1. CASE IngestSuccess
  <2>1. outcomes' \in Seq(BOOLEAN) /\ Level'
    BY <1>1, Hardens DEF IngestSuccess, HealingInv, HealingTypeOK
  <2>2. UNCHANGED <<clusters, seen, recent>>
    BY <1>1 DEF IngestSuccess
  <2>3. EndOfHistory' /\ Counted'
    BY <2>2 DEF HealingInv, EndOfHistory, Aligned, Counted
  <2>. QED  BY <2>1, <2>2, <2>3 DEF HealingInv, HealingTypeOK
<1>2. ASSUME NEW f \in Fingerprints, IngestFailure(f)
      PROVE  HealingInv'
  <2>1. outcomes' \in Seq(BOOLEAN) /\ Level'
    BY <1>2, Hardens DEF IngestFailure, HealingInv, HealingTypeOK
  <2>2. EndOfHistory' /\ Counted' /\ clusters' \in [Fingerprints -> Nat]
    BY <1>2, Recurs, Remembers, Forgets
  <2>. QED  BY <2>1, <2>2 DEF HealingInv, HealingTypeOK
<1>3. CASE ResetHealing
  <2>1. outcomes' = <<>> /\ clusters' = [f \in Fingerprints |-> 0]
        /\ recent' = <<>> /\ seen' = <<>>
    BY <1>3 DEF ResetHealing
  <2>2. Aligned(0, 0)'
    BY <2>1, HealingAssumption DEF Aligned, Distinct
  <2>3. Counted'
    BY <2>1 DEF Counted, Holds
  <2>. QED  BY <2>1, <2>2, <2>3 DEF HealingInv, HealingTypeOK, Level, EndOfHistory
<1>4. CASE UNCHANGED healingVars
  BY <1>4 DEF healingVars, HealingInv, HealingTypeOK, Level, EndOfHistory, Aligned, Counted
<1>. QED  BY <1>1, <1>2, <1>3, <1>4 DEF HealingNext

LEMMA HealingShows == HealingInv => RecentFailuresKept
<1>. SUFFICES ASSUME HealingInv PROVE RecentFailuresKept
  OBVIOUS
<1>1. ASSUME NEW i \in DOMAIN recent
      PROVE  (clusters[recent[i]] > 0) <=> (i > Len(recent) - MaxClusters)
  <2>1. PICK n \in Nat, k \in Nat : Aligned(n, k)
    BY DEF HealingInv, EndOfHistory
  <2>2. Len(recent) = n /\ Len(seen) = k /\ i \in 1..n /\ recent[i] \in Fingerprints
        /\ Distinct(recent) /\ \A j \in 1..k : seen[j] = recent[n - k + j]
    BY <1>1, <2>1 DEF Aligned
  <2>3. k <= n /\ n - k \in Nat
    BY <2>1, SeenOnce
  <2>4. (clusters[recent[i]] > 0) <=> Holds(seen, recent[i])
    BY <2>2 DEF HealingInv, Counted
  <2>5. ASSUME NEW j \in 1..k, seen[j] = recent[i] PROVE i > n - k
    <3>1. n - k + j \in 1..n /\ recent[n - k + j] = recent[i]
      BY <2>2, <2>3, <2>5
    <3>2. n - k + j = i
      BY <3>1, <2>2, Zenon DEF Distinct
    <3>. QED  BY <3>2, <2>3
  <2>6. ASSUME i > n - k PROVE Holds(seen, recent[i])
    <3>1. i - (n - k) \in 1..k /\ n - k + (i - (n - k)) = i
      BY <2>2, <2>3, <2>6
    <3>2. seen[i - (n - k)] = recent[i]
      BY <3>1, <2>2
    <3>. QED  BY <3>1, <3>2, <2>2 DEF Holds
  <2>7. i > n - k <=> i > n - MaxClusters
    BY <2>1, <2>2, HealingAssumption DEF Aligned
  <2>8. Holds(seen, recent[i]) => i > n - k
    BY <2>5, <2>2 DEF Holds
  <2>. QED  BY <2>2, <2>4, <2>6, <2>7, <2>8
<1>2. ASSUME outcomes # <<>>
      PROVE  /\ Successes(outcomes) = 0 => hardening = "hardened"
             /\ Successes(outcomes) = Len(outcomes) => hardening = "fast"
  <2>1. Len(outcomes) \in Nat /\ Len(outcomes) > 0
    BY <1>2 DEF HealingInv, HealingTypeOK
  <2>2. hardening = AdjustHardening(outcomes)
    BY <1>2 DEF HealingInv, Level
  <2>. QED  BY <2>1, <2>2 DEF AdjustHardening
<1>. QED  BY <1>1, <1>2 DEF RecentFailuresKept

\* For every size of the memory and of the window: the memory holds exactly the failures
\* that were seen last, and no window of one kind leaves the level of the other
\* (memory.py:119-139, core.py:140-149).
THEOREM FailuresRemembered == HealingSpec => []RecentFailuresKept
<1>. QED  BY HealingStarts, HealingKeeps, HealingShows, PTL DEF HealingSpec

-----------------------------------------------------------------------------
(* Swarm *)

\* The types of what a run keeps.
RowTypes == {"SWARM_START", "DECOMPOSITION", "PATCH_PROPOSAL", "REVIEW_VERDICT",
             "SUBTASK_REJECTED", "SUBTASK_ESCALATED", "SWARM_END"}
RunStatuses == {"pending", "completed", "partial", "failed"}
LedgerRows == [type : RowTypes, index : Nat, what : Nat \cup Verdicts \cup RunStatuses]
SubtaskResults == [status : {"approved", "rejected", "escalated"}, revisions : Nat]

SwarmTypeOK ==
  /\ swarm \in [pc : {"architect", "coder", "qa", "done", "raised"},
                subtasks : Nat, revision : Nat, request : Nat]
  /\ results \in Seq(SubtaskResults)
  /\ outcome \in [status : RunStatuses, revisions : Nat]
  /\ debate \in Seq(LedgerRows)

\* A subtask in hand: k proposals and l reviews, in turns.
Turns(d, i, k, l) ==
  /\ Cardinality(Rows(d, "PATCH_PROPOSAL", i)) = k
  /\ Cardinality(Rows(d, "REVIEW_VERDICT", i)) = l
  /\ \A p \in Rows(d, "PATCH_PROPOSAL", i) :
       /\ Cardinality(Before(Rows(d, "PATCH_PROPOSAL", i), p)) = d[p].what
       /\ Cardinality(Before(Rows(d, "REVIEW_VERDICT", i), p)) = d[p].what

\* Nothing is said of a subtask that is not in hand yet.
Unheard(d, n) ==
  \A i \in Nat : i > n =>
    Rows(d, "PATCH_PROPOSAL", i) = {} /\ Rows(d, "REVIEW_VERDICT", i) = {}

Talking ==
  /\ swarm.pc \in {"architect", "coder"} =>
       Turns(debate, Len(results) + 1, swarm.revision, swarm.revision)
  /\ swarm.pc = "qa" =>
       Turns(debate, Len(results) + 1, swarm.revision + 1, swarm.revision)
  /\ swarm.pc \in {"architect", "coder", "qa"} =>
       /\ swarm.request = swarm.revision /\ swarm.revision <= MaxRevisions
       /\ Unheard(debate, Len(results) + 1)
  /\ swarm.pc \in {"coder", "qa"} => Len(results) < swarm.subtasks
  /\ swarm.pc = "architect" => results = <<>>

Earned ==
  /\ swarm.pc # "done" => Ends = {}
  /\ swarm.pc \in {"architect", "coder", "qa"} => outcome.status = "pending"
  /\ swarm.pc = "done" => Ends = {Len(debate)} /\ debate[Len(debate)].what = outcome.status
  /\ outcome.status = "completed" =>
       Len(results) = swarm.subtasks /\ \A i \in 1..Len(results) : results[i].status = "approved"

SettledIn(d, n) == {p \in 1..Len(d) : d[p].type = "PATCH_PROPOSAL" /\ d[p].index \in 1..n}
Accounted ==
  /\ \A i \in 1..Len(results) : Told(debate, i, results[i])
  /\ Cardinality(SettledIn(debate, Len(results))) = outcome.revisions + Len(results)

SwarmInv == SwarmTypeOK /\ Talking /\ Earned /\ Accounted

LEMMA RowsInside ==
  ASSUME NEW d \in Seq(LedgerRows), NEW t, NEW i
  PROVE  /\ Rows(d, t, i) = {p \in 1..Len(d) : d[p].type = t /\ d[p].index = i}
         /\ IsFiniteSet(Rows(d, t, i))
<1>1. Rows(d, t, i) = {p \in 1..Len(d) : d[p].type = t /\ d[p].index = i}
  BY DEF Rows
<1>2. IsFiniteSet(1..Len(d))
  BY FS_Interval, 1 \in Int, Len(d) \in Int
<1>3. Rows(d, t, i) \subseteq 1..Len(d)
  BY <1>1
<1>4. IsFiniteSet(Rows(d, t, i))
  BY <1>2, <1>3, FS_Subset, Zenon
<1>. QED  BY <1>1, <1>4

\* f is d and one row more: what was there stays, and one place is new.
OneRowMore(d, e, f) ==
  /\ f \in Seq(LedgerRows) /\ Len(f) = Len(d) + 1 /\ f[Len(d) + 1] = e
  /\ \A p \in 1..Len(d) : f[p] = d[p]
  /\ \A t, i : (e.type = t /\ e.index = i) => Rows(f, t, i) = Rows(d, t, i) \cup {Len(d) + 1}
  /\ \A t, i : ~ (e.type = t /\ e.index = i) => Rows(f, t, i) = Rows(d, t, i)

LEMMA Appended ==
  ASSUME NEW d \in Seq(LedgerRows), NEW e \in LedgerRows, NEW f, f = Append(d, e)
  PROVE  OneRowMore(d, e, f)
<1>1. /\ f \in Seq(LedgerRows) /\ Len(f) = Len(d) + 1 /\ f[Len(d) + 1] = e
      /\ \A p \in 1..Len(d) : f[p] = d[p]
  OBVIOUS
<1>. DEFINE n == Len(d)
<1>2. n \in Nat /\ 1..(n + 1) = 1..n \cup {n + 1}
  OBVIOUS
<1>3. DOMAIN f = 1..(n + 1) /\ DOMAIN d = 1..n
  BY <1>1
<1>. HIDE DEF n
<1>4. ASSUME NEW t, NEW i
      PROVE  Rows(f, t, i) = {p \in 1..n : d[p].type = t /\ d[p].index = i}
                             \cup {p \in {n + 1} : e.type = t /\ e.index = i}
  BY <1>1, <1>2, <1>3 DEF Rows, n
<1>5. ASSUME NEW t, NEW i
      PROVE  Rows(d, t, i) = {p \in 1..n : d[p].type = t /\ d[p].index = i}
  BY <1>3 DEF Rows
<1>6. ASSUME NEW t, NEW i, e.type = t, e.index = i
      PROVE  Rows(f, t, i) = Rows(d, t, i) \cup {n + 1}
  BY <1>4, <1>5, <1>6
<1>7. ASSUME NEW t, NEW i, ~ (e.type = t /\ e.index = i)
      PROVE  Rows(f, t, i) = Rows(d, t, i)
  <2>. DEFINE new == {p \in {n + 1} : e.type = t /\ e.index = i}
  <2>1. new = {}
    BY <1>7
  <2>2. Rows(f, t, i) = {p \in 1..n : d[p].type = t /\ d[p].index = i} \cup new
    BY <1>4
  <2>. HIDE DEF new
  <2>. QED  BY <1>5, <2>1, <2>2
<1>. QED  BY <1>1, <1>6, <1>7 DEF n, OneRowMore

\* What is known of a subtask depends on its proposals and reviews alone.
Same(d, f, i) ==
  /\ \A p \in 1..Len(d) : f[p] = d[p]
  /\ Rows(f, "PATCH_PROPOSAL", i) = Rows(d, "PATCH_PROPOSAL", i)
  /\ Rows(f, "REVIEW_VERDICT", i) = Rows(d, "REVIEW_VERDICT", i)

LEMMA ToldStays ==
  ASSUME NEW d \in Seq(LedgerRows), NEW f, NEW i, NEW r, Same(d, f, i), Told(d, i, r)
  PROVE  Told(f, i, r)
<1>1. \A t : \A p \in Rows(d, t, i) : f[p] = d[p]
  BY RowsInside DEF Same
<1>2. \A w : LastSays(f, Rows(f, "REVIEW_VERDICT", i), w) <=> LastSays(d, Rows(d, "REVIEW_VERDICT", i), w)
  BY <1>1 DEF Same, LastSays
<1>. QED  BY <1>1, <1>2 DEF Same, Told

LEMMA TurnsStay ==
  ASSUME NEW d \in Seq(LedgerRows), NEW f, NEW i, NEW k, NEW l, Same(d, f, i), Turns(d, i, k, l)
  PROVE  Turns(f, i, k, l)
<1>1. \A t : \A p \in Rows(d, t, i) : f[p] = d[p]
  BY RowsInside DEF Same
<1>. QED  BY <1>1 DEF Same, Turns

\* A place after n joins the k places of S, which lie before it.
NewIsLast(S, k, n) ==
  /\ Cardinality(S \cup {n + 1}) = k + 1
  /\ Before(S \cup {n + 1}, n + 1) = S /\ Before(S, n + 1) = S
  /\ \A p \in 1..n : Before(S \cup {n + 1}, p) = Before(S, p)

LEMMA OneMore ==
  ASSUME NEW S, IsFiniteSet(S), NEW k \in Nat, Cardinality(S) = k, NEW n \in Nat, S \subseteq 1..n
  PROVE  NewIsLast(S, k, n)
<1>1. n + 1 \notin S /\ \A p \in S : p \in Nat /\ p < n + 1
  OBVIOUS
<1>2. Cardinality(S \cup {n + 1}) = k + 1
  BY <1>1, FS_AddElement
<1>3. Before(S \cup {n + 1}, n + 1) = S /\ Before(S, n + 1) = S
  <2>1. ~ (n + 1 < n + 1) /\ \A p \in S : p < n + 1
    BY <1>1
  <2>. QED  BY <2>1 DEF Before
<1>4. ASSUME NEW p \in 1..n PROVE Before(S \cup {n + 1}, p) = Before(S, p)
  <2>1. ~ (n + 1 < p)
    OBVIOUS
  <2>. QED  BY <2>1 DEF Before
<1>. QED  BY <1>2, <1>3, <1>4 DEF NewIsLast

LEMMA Proposes ==
  ASSUME NEW d \in Seq(LedgerRows), NEW i \in Nat, NEW k \in Nat, Turns(d, i, k, k),
         NEW f, f = Append(d, Said("PATCH_PROPOSAL", i, k))
  PROVE  Turns(f, i, k + 1, k)
<1>. DEFINE e == Said("PATCH_PROPOSAL", i, k)
            P == Rows(d, "PATCH_PROPOSAL", i)
            R == Rows(d, "REVIEW_VERDICT", i)
            n == Len(d)
<1>1. f = Append(d, e)
      /\ e \in LedgerRows /\ e.type = "PATCH_PROPOSAL" /\ e.index = i /\ e.what = k
  BY DEF Said, LedgerRows, RowTypes
<1>2. n \in Nat /\ P \subseteq 1..n /\ R \subseteq 1..n /\ IsFiniteSet(P) /\ IsFiniteSet(R)
  BY RowsInside
<1>. HIDE DEF e
<1>3. /\ f[n + 1] = e /\ \A p \in 1..n : f[p] = d[p]
      /\ Rows(f, "PATCH_PROPOSAL", i) = P \cup {n + 1} /\ Rows(f, "REVIEW_VERDICT", i) = R
  <2>1. /\ f[n + 1] = e /\ \A p \in 1..n : f[p] = d[p]
        /\ \A t, j : (e.type = t /\ e.index = j) => Rows(f, t, j) = Rows(d, t, j) \cup {n + 1}
        /\ \A t, j : ~ (e.type = t /\ e.index = j) => Rows(f, t, j) = Rows(d, t, j)
    <3>1. OneRowMore(d, e, f)
      BY <1>1, Appended, Zenon
    <3>. QED  BY <3>1 DEF OneRowMore, n
  <2>2. "PATCH_PROPOSAL" # "REVIEW_VERDICT"
    OBVIOUS
  <2>. QED  BY <1>1, <2>1, <2>2, Zenon
<1>4. Cardinality(P) = k /\ Cardinality(R) = k
      /\ \A p \in P : Cardinality(Before(P, p)) = d[p].what /\ Cardinality(Before(R, p)) = d[p].what
  BY DEF Turns
<1>. HIDE DEF e, P, R, n
<1>5. /\ Cardinality(P \cup {n + 1}) = k + 1 /\ Before(P \cup {n + 1}, n + 1) = P
      /\ \A p \in P : Before(P \cup {n + 1}, p) = Before(P, p)
  <2>1. NewIsLast(P, k, n)
    BY <1>2, <1>4, OneMore, Zenon
  <2>. QED  BY <2>1, <1>2 DEF NewIsLast
<1>6. Before(R, n + 1) = R
  <2>1. NewIsLast(R, k, n)
    BY <1>2, <1>4, OneMore, Zenon
  <2>. QED  BY <2>1, <1>2 DEF NewIsLast
<1>7. ASSUME NEW p \in P \cup {n + 1}
      PROVE  Cardinality(Before(P \cup {n + 1}, p)) = f[p].what /\ Cardinality(Before(R, p)) = f[p].what
  <2>1. CASE p \in P
    BY <2>1, <1>2, <1>3, <1>4, <1>5
  <2>2. CASE p = n + 1
    BY <2>2, <1>1, <1>3, <1>4, <1>5, <1>6
  <2>. QED  BY <2>1, <2>2
<1>. QED  BY <1>3, <1>4, <1>5, <1>7 DEF Turns

FinalWord(d, i, v) == \A w : LastSays(d, Rows(d, "REVIEW_VERDICT", i), w) <=> w = v

LEMMA Reviews ==
  ASSUME NEW d \in Seq(LedgerRows), NEW i \in Nat, NEW k \in Nat, Turns(d, i, k + 1, k),
         NEW v \in Verdicts, NEW f, f = Append(d, Said("REVIEW_VERDICT", i, v))
  PROVE  Turns(f, i, k + 1, k + 1) /\ FinalWord(f, i, v)
<1>. DEFINE e == Said("REVIEW_VERDICT", i, v)
            P == Rows(d, "PATCH_PROPOSAL", i)
            R == Rows(d, "REVIEW_VERDICT", i)
            n == Len(d)
<1>1. f = Append(d, e)
      /\ e \in LedgerRows /\ e.type = "REVIEW_VERDICT" /\ e.index = i /\ e.what = v
  BY DEF Said, LedgerRows, RowTypes
<1>2. n \in Nat /\ P \subseteq 1..n /\ R \subseteq 1..n /\ IsFiniteSet(R)
  BY RowsInside
<1>. HIDE DEF e
<1>3. /\ f[n + 1] = e /\ \A p \in 1..n : f[p] = d[p]
      /\ Rows(f, "REVIEW_VERDICT", i) = R \cup {n + 1} /\ Rows(f, "PATCH_PROPOSAL", i) = P
  <2>1. /\ f[n + 1] = e /\ \A p \in 1..n : f[p] = d[p]
        /\ \A t, j : (e.type = t /\ e.index = j) => Rows(f, t, j) = Rows(d, t, j) \cup {n + 1}
        /\ \A t, j : ~ (e.type = t /\ e.index = j) => Rows(f, t, j) = Rows(d, t, j)
    <3>1. OneRowMore(d, e, f)
      BY <1>1, Appended, Zenon
    <3>. QED  BY <3>1 DEF OneRowMore, n
  <2>2. "PATCH_PROPOSAL" # "REVIEW_VERDICT"
    OBVIOUS
  <2>. QED  BY <1>1, <2>1, <2>2, Zenon
<1>4. Cardinality(P) = k + 1 /\ Cardinality(R) = k
      /\ \A p \in P : Cardinality(Before(P, p)) = d[p].what /\ Cardinality(Before(R, p)) = d[p].what
  BY DEF Turns
<1>. HIDE DEF e, P, R, n
<1>5. /\ Cardinality(R \cup {n + 1}) = k + 1
      /\ \A p \in 1..n : Before(R \cup {n + 1}, p) = Before(R, p)
  <2>1. NewIsLast(R, k, n)
    BY <1>2, <1>4, OneMore, Zenon
  <2>. QED  BY <2>1 DEF NewIsLast
<1>6. Turns(f, i, k + 1, k + 1)
  BY <1>2, <1>3, <1>4, <1>5 DEF Turns
<1>7. ASSUME NEW w PROVE LastSays(f, R \cup {n + 1}, w) <=> w = v
  <2>1. \A q \in R \cup {n + 1} : q \in Nat /\ q <= n + 1
    BY <1>2
  <2>2. \A q \in R \cup {n + 1} : (\A r \in R \cup {n + 1} : r <= q) => q = n + 1
    <3>. TAKE q \in R \cup {n + 1}
    <3>1. n + 1 \in R \cup {n + 1} /\ q \in Nat /\ q <= n + 1
      BY <2>1
    <3>2. n + 1 <= q => q = n + 1
      BY <3>1, <1>2
    <3>. QED  BY <3>1, <3>2, Zenon
  <2>3. f[n + 1].what = v
    BY <1>1, <1>3
  <2>. QED  BY <2>1, <2>2, <2>3, Zenon DEF LastSays
<1>. QED  BY <1>3, <1>6, <1>7 DEF FinalWord

\* A row that is neither a proposal nor a review says nothing of any subtask.
LEMMA Remarks ==
  ASSUME NEW d \in Seq(LedgerRows), NEW e \in LedgerRows, NEW f, f = Append(d, e),
         e.type # "PATCH_PROPOSAL", e.type # "REVIEW_VERDICT"
  PROVE  \A i : Same(d, f, i)
<1>1. /\ \A p \in 1..Len(d) : f[p] = d[p]
      /\ \A t, i : ~ (e.type = t /\ e.index = i) => Rows(f, t, i) = Rows(d, t, i)
  <2>1. OneRowMore(d, e, f)
    BY Appended, Zenon
  <2>. QED  BY <2>1, Zenon DEF OneRowMore
<1>. QED  BY <1>1, Zenon DEF Same

LEMMA SettledStays ==
  ASSUME NEW d \in Seq(LedgerRows), NEW e \in LedgerRows, NEW f, f = Append(d, e), NEW n \in Nat,
         e.type # "PATCH_PROPOSAL" \/ e.index > n
  PROVE  SettledIn(f, n) = SettledIn(d, n)
<1>1. /\ Len(f) = Len(d) + 1 /\ f[Len(d) + 1] = e /\ Len(d) \in Nat
      /\ \A p \in 1..Len(d) : f[p] = d[p]
  OBVIOUS
<1>2. e.index \in Nat
  BY DEF LedgerRows
<1>3. ASSUME NEW p PROVE p \in SettledIn(f, n) <=> p \in SettledIn(d, n)
  BY <1>1, <1>2 DEF SettledIn
<1>. QED  BY <1>3

LEMMA RemarkSettlesNothing ==
  ASSUME NEW d \in Seq(LedgerRows), NEW e \in LedgerRows, NEW f, f = Append(d, e),
         e.type # "PATCH_PROPOSAL"
  PROVE  \A n \in Nat : SettledIn(f, n) = SettledIn(d, n)
<1>. TAKE n \in Nat
<1>. QED  BY SettledStays

LEMMA SettledGrows ==
  ASSUME NEW d \in Seq(LedgerRows), NEW n \in Nat, NEW k \in Nat, NEW c \in Nat,
         Cardinality(Rows(d, "PATCH_PROPOSAL", n + 1)) = k, Cardinality(SettledIn(d, n)) = c
  PROVE  Cardinality(SettledIn(d, n + 1)) = c + k
<1>. DEFINE P == Rows(d, "PATCH_PROPOSAL", n + 1)
            S == SettledIn(d, n)
            T == SettledIn(d, n + 1)
<1>1. P = {p \in 1..Len(d) : d[p].type = "PATCH_PROPOSAL" /\ d[p].index = n + 1} /\ IsFiniteSet(P)
  BY RowsInside
<1>2. IsFiniteSet(S)
  <2>1. IsFiniteSet(1..Len(d))
    BY FS_Interval, 1 \in Int, Len(d) \in Int
  <2>2. S \subseteq 1..Len(d)
    BY DEF SettledIn
  <2>. QED  BY <2>1, <2>2, FS_Subset, Zenon
<1>3. 1..(n + 1) = 1..n \cup {n + 1} /\ n + 1 \notin 1..n
  OBVIOUS
<1>4. T = S \cup P /\ S \cap P = {}
  BY <1>1, <1>3 DEF SettledIn
<1>. HIDE DEF P, S, T
<1>5. Cardinality(S \cup P) = Cardinality(S) + Cardinality(P) - Cardinality(S \cap P)
  BY <1>1, <1>2, FS_Union, Zenon
<1>6. Cardinality(S) = c /\ Cardinality(P) = k /\ Cardinality({}) = 0
  BY FS_EmptySet DEF P, S
<1>7. Cardinality(S \cup P) = c + k
  <2>1. Cardinality(S \cap P) = 0
    BY <1>4, <1>6, Zenon
  <2>. QED  BY <1>5, <1>6, <2>1
<1>. QED  BY <1>4, <1>7 DEF T

\* What the ledger says when the subtask in hand has its status.
Concluded(said, status) ==
  /\ said \in Seq(LedgerRows) /\ Len(debate) <= Len(said)
  /\ \A i \in Nat : i # Len(results) + 1 => Same(debate, said, i)
  /\ Told(said, Len(results) + 1, [status |-> status, revisions |-> swarm.revision])
  /\ Cardinality(SettledIn(said, Len(results))) = outcome.revisions + Len(results)
  /\ Cardinality(Rows(said, "PATCH_PROPOSAL", Len(results) + 1)) = swarm.revision + 1
  /\ Rows(said, "SWARM_END", 0) = {}

LEMMA ConcludesReview ==
  ASSUME SwarmInv, swarm.pc = "qa", NEW v \in Verdicts, NEW status,
         status = "approved" <=> v = "APPROVE",
         status = "escalated" <=> (v = "REQUEST_CHANGES" /\ swarm.revision = MaxRevisions)
  PROVE  Concluded(Reviewed(v), status)
<1>. DEFINE n == Len(results)
            k == swarm.revision
            e == Said("REVIEW_VERDICT", n + 1, v)
            said == Reviewed(v)
            r == [status |-> status, revisions |-> k]
<1>1. n \in Nat /\ k \in Nat /\ n + 1 \in Nat /\ debate \in Seq(LedgerRows)
  BY DEF SwarmInv, SwarmTypeOK
<1>2. Turns(debate, n + 1, k + 1, k) /\ Unheard(debate, n + 1)
  BY DEF SwarmInv, Talking
<1>3. Ends = {} /\ Cardinality(SettledIn(debate, n)) = outcome.revisions + n
  BY DEF SwarmInv, Earned, Accounted
<1>4. said = Append(debate, e)
  BY DEF Reviewed, InHand
<1>5. e \in LedgerRows /\ e.type = "REVIEW_VERDICT" /\ e.index = n + 1
  BY <1>1 DEF Said, LedgerRows, RowTypes
<1>6. Turns(said, n + 1, k + 1, k + 1) /\ FinalWord(said, n + 1, v)
  <2>1. said = Append(debate, Said("REVIEW_VERDICT", n + 1, v))
    BY <1>4
  <2>. HIDE DEF e, said, n, k
  <2>. QED  BY <1>1, <1>2, <2>1, Reviews, Zenon
<1>. HIDE DEF e, said, n, k
<1>7. OneRowMore(debate, e, said)
  BY <1>1, <1>4, <1>5, Appended, Zenon
<1>8. said \in Seq(LedgerRows) /\ Len(debate) <= Len(said)
  BY <1>1, <1>7 DEF OneRowMore
<1>9. \A i \in Nat : i # n + 1 => Same(debate, said, i)
  BY <1>5, <1>7 DEF OneRowMore, Same
<1>10. Told(said, n + 1, r)
  <2>1. r.status = status /\ r.revisions = k
    OBVIOUS
  <2>. HIDE DEF r
  <2>2. Cardinality(Rows(said, "PATCH_PROPOSAL", n + 1)) = r.revisions + 1
        /\ Cardinality(Rows(said, "REVIEW_VERDICT", n + 1)) = r.revisions + 1
        /\ \A p \in Rows(said, "PATCH_PROPOSAL", n + 1) :
             /\ Cardinality(Before(Rows(said, "PATCH_PROPOSAL", n + 1), p)) = said[p].what
             /\ Cardinality(Before(Rows(said, "REVIEW_VERDICT", n + 1), p)) = said[p].what
    BY <1>6, <2>1 DEF Turns
  <2>3. r.status = "approved" <=> LastSays(said, Rows(said, "REVIEW_VERDICT", n + 1), "APPROVE")
    BY <1>6, <2>1 DEF FinalWord
  <2>4. r.status = "escalated" <=>
          LastSays(said, Rows(said, "REVIEW_VERDICT", n + 1), "REQUEST_CHANGES") /\ r.revisions = MaxRevisions
    BY <1>6, <2>1 DEF k, FinalWord
  <2>. QED  BY <2>2, <2>3, <2>4, Zenon DEF Told
<1>11. SettledIn(said, n) = SettledIn(debate, n)
  BY <1>1, <1>4, <1>5, SettledStays
<1>12. Rows(said, "SWARM_END", 0) = {}
  BY <1>3, <1>5, <1>7 DEF OneRowMore, Ends
<1>13. Cardinality(Rows(said, "PATCH_PROPOSAL", n + 1)) = k + 1
  BY <1>6 DEF Turns
<1>. QED  BY <1>3, <1>8, <1>9, <1>10, <1>11, <1>12, <1>13, Zenon DEF Concluded, n, k, said

LEMMA ConcludesRemark ==
  ASSUME NEW said, NEW status, Concluded(said, status), SwarmInv,
         NEW e \in LedgerRows, e.type \notin {"PATCH_PROPOSAL", "REVIEW_VERDICT", "SWARM_END"}
  PROVE  Concluded(Append(said, e), status)
<1>. DEFINE n == Len(results)
            f == Append(said, e)
            r == [status |-> status, revisions |-> swarm.revision]
<1>1. n \in Nat /\ n + 1 \in Nat /\ debate \in Seq(LedgerRows) /\ Len(debate) \in Nat
  BY DEF SwarmInv, SwarmTypeOK
<1>2. /\ said \in Seq(LedgerRows) /\ Len(debate) <= Len(said)
      /\ \A i \in Nat : i # n + 1 => Same(debate, said, i)
      /\ Told(said, n + 1, r)
      /\ Cardinality(SettledIn(said, n)) = outcome.revisions + n
      /\ Cardinality(Rows(said, "PATCH_PROPOSAL", n + 1)) = swarm.revision + 1
      /\ Rows(said, "SWARM_END", 0) = {}
  BY Zenon DEF Concluded
<1>3. f = Append(said, e)
  OBVIOUS
<1>. HIDE DEF f, n, r
<1>4. OneRowMore(said, e, f)
  BY <1>2, <1>3, Appended, Zenon
<1>5. \A i : Same(said, f, i)
  BY <1>2, <1>3, Remarks
<1>6. f \in Seq(LedgerRows) /\ Len(debate) <= Len(f)
  BY <1>1, <1>2, <1>4 DEF OneRowMore
<1>7. \A i \in Nat : i # n + 1 => Same(debate, f, i)
  <2>1. 1..Len(debate) \subseteq 1..Len(said)
    BY <1>1, <1>2
  <2>. QED  BY <1>2, <1>5, <2>1 DEF Same
<1>8. Told(f, n + 1, r)
  BY <1>2, <1>5, ToldStays, Zenon
<1>9. SettledIn(f, n) = SettledIn(said, n)
  <2>1. e.type # "PATCH_PROPOSAL"
    OBVIOUS
  <2>2. \A m \in Nat : SettledIn(f, m) = SettledIn(said, m)
    BY <2>1, <1>2, <1>3, RemarkSettlesNothing, Zenon
  <2>. QED  BY <2>2, <1>1, Zenon
<1>10. Rows(f, "SWARM_END", 0) = {}
  BY <1>2, <1>4 DEF OneRowMore
<1>11. Rows(f, "PATCH_PROPOSAL", n + 1) = Rows(said, "PATCH_PROPOSAL", n + 1)
  BY <1>5 DEF Same
<1>. QED  BY <1>2, <1>6, <1>7, <1>8, <1>9, <1>10, <1>11, Zenon DEF Concluded, n, r, f

LEMMA Settles ==
  ASSUME SwarmInv, swarm.pc = "qa", NEW said, NEW status \in {"approved", "rejected", "escalated"},
         NEW end \in Endings, Concluded(said, status), Settled(status, said, end)
  PROVE  SwarmInv'
<1>. DEFINE n == Len(results)
            r == [status |-> status, revisions |-> swarm.revision]
            rs == Append(results, r)
            last == Len(rs) = swarm.subtasks
            e == Said("SWARM_END", 0, StatusOf(rs))
<1>1. /\ n \in Nat /\ n + 1 \in Nat /\ debate \in Seq(LedgerRows) /\ Len(debate) \in Nat
      /\ results \in Seq(SubtaskResults) /\ swarm.revision \in Nat /\ swarm.subtasks \in Nat
      /\ outcome.revisions \in Nat
      /\ swarm \in [pc : {"architect", "coder", "qa", "done", "raised"},
                    subtasks : Nat, revision : Nat, request : Nat]
      /\ outcome \in [status : RunStatuses, revisions : Nat]
  BY DEF SwarmInv, SwarmTypeOK
<1>2. /\ said \in Seq(LedgerRows) /\ Len(debate) <= Len(said)
      /\ \A i \in Nat : i # n + 1 => Same(debate, said, i)
      /\ Told(said, n + 1, r)
      /\ Cardinality(SettledIn(said, n)) = outcome.revisions + n
      /\ Cardinality(Rows(said, "PATCH_PROPOSAL", n + 1)) = swarm.revision + 1
      /\ Rows(said, "SWARM_END", 0) = {}
  BY Zenon DEF Concluded
<1>3. /\ results' = rs
      /\ outcome' = [status |-> IF last THEN StatusOf(rs) ELSE outcome.status,
                     revisions |-> outcome.revisions + swarm.revision]
      /\ swarm' = [swarm EXCEPT !.pc = IF last THEN end ELSE "coder",
                                !.revision = 0, !.request = 0]
      /\ debate' = IF last /\ end = "done" THEN Append(said, e) ELSE said
      /\ end \in {"done", "raised"}
  BY Zenon DEF Settled, FirstRequest, Endings
<1>4. r \in SubtaskResults
  BY <1>1 DEF SubtaskResults
<1>5. StatusOf(rs) \in RunStatuses
  BY DEF StatusOf, RunStatuses
<1>6. e \in LedgerRows /\ e.type = "SWARM_END" /\ e.index = 0 /\ e.what = StatusOf(rs)
  BY <1>5 DEF Said, LedgerRows, RowTypes
<1>7. /\ rs \in Seq(SubtaskResults) /\ Len(rs) = n + 1 /\ rs[n + 1] = r
      /\ \A i \in 1..n : rs[i] = results[i]
  BY <1>1, <1>4
<1>8. StatusOf(rs) = "completed" => \A i \in 1..(n + 1) : rs[i].status = "approved"
  BY <1>7 DEF StatusOf
<1>. HIDE DEF e, r, rs, n
<1>9. /\ debate' \in Seq(LedgerRows) /\ \A i : Same(said, debate', i)
      /\ SettledIn(debate', n + 1) = SettledIn(said, n + 1)
  <2>1. CASE last /\ end = "done"
    <3>1. debate' = Append(said, e)
      BY <2>1, <1>3
    <3>2. OneRowMore(said, e, debate')
      BY <3>1, <1>2, <1>6, Appended, Zenon
    <3>3. e.type # "PATCH_PROPOSAL" /\ e.type # "REVIEW_VERDICT"
      BY <1>6
    <3>4. \A i : Same(said, debate', i)
      BY <3>1, <3>3, <1>2, <1>6, Remarks, Zenon
    <3>5. SettledIn(debate', n + 1) = SettledIn(said, n + 1)
      <4>1. PICK m \in Nat : m = n + 1
        BY <1>1
      <4>2. SettledIn(debate', m) = SettledIn(said, m)
        BY <3>1, <3>3, <1>2, <1>6, SettledStays
      <4>. QED  BY <4>1, <4>2
    <3>. QED  BY <3>2, <3>4, <3>5 DEF OneRowMore
  <2>2. CASE ~ (last /\ end = "done")
    BY <2>2, <1>2, <1>3 DEF Same
  <2>. QED  BY <2>1, <2>2
<1>10. SwarmTypeOK'
  <2>1. results' \in Seq(SubtaskResults) /\ debate' \in Seq(LedgerRows)
    BY <1>3, <1>7, <1>9
  <2>2. outcome' \in [status : RunStatuses, revisions : Nat]
    BY <1>1, <1>3, <1>5
  <2>3. swarm' \in [pc : {"architect", "coder", "qa", "done", "raised"},
                    subtasks : Nat, revision : Nat, request : Nat]
    BY <1>1, <1>3
  <2>. QED  BY <2>1, <2>2, <2>3 DEF SwarmTypeOK
<1>11. ASSUME NEW i \in 1..(n + 1) PROVE Told(debate', i, rs[i])
  <2>1. Told(said, i, rs[i])
    <3>1. CASE i = n + 1
      BY <3>1, <1>2, <1>7
    <3>2. CASE i \in 1..n
      <4>1. Told(debate, i, results[i]) /\ Same(debate, said, i)
        BY <3>2, <1>1, <1>2 DEF SwarmInv, Accounted, n
      <4>. QED  BY <3>2, <4>1, <1>1, <1>7, ToldStays
    <3>. QED  BY <3>1, <3>2, <1>1
  <2>. QED  BY <2>1, <1>2, <1>9, ToldStays, Zenon
<1>12. Cardinality(SettledIn(debate', n + 1)) = outcome.revisions + swarm.revision + (n + 1)
  <2>1. outcome.revisions + n \in Nat /\ swarm.revision + 1 \in Nat
    BY <1>1
  <2>2. Cardinality(SettledIn(said, n + 1)) = (outcome.revisions + n) + (swarm.revision + 1)
    <3>. DEFINE c == outcome.revisions + n
                k == swarm.revision + 1
    <3>1. c \in Nat /\ k \in Nat /\ Cardinality(SettledIn(said, n)) = c
          /\ Cardinality(Rows(said, "PATCH_PROPOSAL", n + 1)) = k
      BY <2>1, <1>2
    <3>. HIDE DEF c, k
    <3>2. Cardinality(SettledIn(said, n + 1)) = c + k
      BY <3>1, <1>1, <1>2, SettledGrows
    <3>. QED  BY <3>2 DEF c, k
  <2>. QED  BY <2>2, <1>1, <1>9
<1>13. Accounted'
  <2>1. outcome'.revisions = outcome.revisions + swarm.revision /\ Len(results') = n + 1
    BY <1>3, <1>7
  <2>. QED  BY <2>1, <1>3, <1>11, <1>12 DEF Accounted
<1>14. swarm'.pc = (IF last THEN end ELSE "coder") /\ swarm'.revision = 0
       /\ swarm'.request = 0 /\ swarm'.subtasks = swarm.subtasks
  BY <1>1, <1>3
<1>15. outcome'.status = IF last THEN StatusOf(rs) ELSE outcome.status
  BY <1>3
<1>16. Talking'
  <2>1. CASE last
    <3>1. swarm'.pc \notin {"architect", "coder", "qa"}
      BY <2>1, <1>3, <1>14
    <3>. QED  BY <3>1 DEF Talking
  <2>2. CASE ~ last
    <3>1. swarm'.pc = "coder" /\ debate' = said /\ Len(results') = n + 1
      BY <2>2, <1>3, <1>7, <1>14
    <3>2. ASSUME NEW i \in Nat, i > n + 1
          PROVE  Rows(said, "PATCH_PROPOSAL", i) = {} /\ Rows(said, "REVIEW_VERDICT", i) = {}
      <4>1. Rows(debate, "PATCH_PROPOSAL", i) = {} /\ Rows(debate, "REVIEW_VERDICT", i) = {}
        BY <3>2 DEF SwarmInv, Talking, Unheard, n
      <4>2. Same(debate, said, i)
        BY <3>2, <1>1, <1>2
      <4>. QED  BY <4>1, <4>2 DEF Same
    <3>3. Turns(said, n + 1 + 1, 0, 0)
      <4>1. Rows(said, "PATCH_PROPOSAL", n + 1 + 1) = {} /\ Rows(said, "REVIEW_VERDICT", n + 1 + 1) = {}
        BY <3>2, <1>1
      <4>. QED  BY <4>1, FS_EmptySet DEF Turns
    <3>4. Unheard(said, n + 1 + 1)
      BY <3>2, <1>1 DEF Unheard
    <3>5. n + 1 < swarm.subtasks
      BY <2>2, <1>1, <1>7 DEF SwarmInv, Talking, n
    <3>. QED  BY <3>1, <3>3, <3>4, <3>5, <1>14, SwarmAssumption DEF Talking
  <2>. QED  BY <2>1, <2>2
<1>17. Earned'
  <2>1. outcome.status = "pending"
    BY DEF SwarmInv, Earned
  <2>5. last => /\ swarm'.pc = end /\ outcome'.status = StatusOf(rs)
                /\ outcome'.status = "completed" =>
                     Len(results') = swarm'.subtasks /\ \A i \in 1..Len(results') : results'[i].status = "approved"
    BY <1>3, <1>7, <1>8, <1>14, <1>15
  <2>2. CASE last /\ end = "done"
    <3>1. debate' = Append(said, e)
      BY <2>2, <1>3
    <3>2. OneRowMore(said, e, debate')
      BY <3>1, <1>2, <1>6, Appended, Zenon
    <3>3. Rows(debate', "SWARM_END", 0) = {Len(debate')} /\ debate'[Len(debate')] = e
      BY <3>2, <1>2, <1>6 DEF OneRowMore
    <3>4. Ends' = {Len(debate')} /\ debate'[Len(debate')].what = outcome'.status
      BY <2>2, <3>3, <1>6, <1>15 DEF Ends
    <3>6. swarm'.pc = "done"
      BY <2>2, <1>14
    <3>. QED  BY <2>2, <2>5, <3>4, <3>6 DEF Earned
  <2>4. CASE last /\ end = "raised"
    <3>1. debate' = said /\ swarm'.pc = "raised"
      BY <2>4, <1>3, <1>14
    <3>2. Ends' = {}
      BY <3>1, <1>2 DEF Ends
    <3>. QED  BY <2>4, <2>5, <3>1, <3>2 DEF Earned
  <2>3. CASE ~ last
    <3>1. swarm'.pc = "coder" /\ debate' = said /\ outcome'.status = "pending"
      BY <2>1, <2>3, <1>3, <1>14, <1>15
    <3>2. Ends' = {}
      BY <3>1, <1>2 DEF Ends
    <3>. QED  BY <3>1, <3>2 DEF Earned
  <2>. QED  BY <2>2, <2>3, <2>4, <1>3
<1>. QED  BY <1>10, <1>13, <1>16, <1>17 DEF SwarmInv

LEMMA SwarmStarts == SwarmInit => SwarmInv
<1>. SUFFICES ASSUME SwarmInit PROVE SwarmInv
  OBVIOUS
<1>. DEFINE e == Said("SWARM_START", 0, 0)
<1>1. /\ debate = <<e>> /\ results = <<>>
      /\ swarm = [pc |-> "architect", subtasks |-> 0, revision |-> 0, request |-> 0]
      /\ outcome = [status |-> "pending", revisions |-> 0]
  BY DEF SwarmInit
<1>2. e \in LedgerRows /\ e.type = "SWARM_START"
  BY DEF Said, LedgerRows, RowTypes
<1>. HIDE DEF e
<1>3. debate \in Seq(LedgerRows) /\ Len(debate) = 1 /\ debate[1] = e
  BY <1>1, <1>2
<1>4. SwarmTypeOK
  BY <1>1, <1>3 DEF SwarmTypeOK, RunStatuses
<1>5. ASSUME NEW i
      PROVE  /\ Rows(debate, "PATCH_PROPOSAL", i) = {} /\ Rows(debate, "REVIEW_VERDICT", i) = {}
             /\ Rows(debate, "SWARM_END", i) = {}
  BY <1>2, <1>3 DEF Rows
<1>6. Len(results) = 0
  BY <1>1
<1>7. Turns(debate, Len(results) + 1, 0, 0) /\ Unheard(debate, Len(results) + 1)
  BY <1>5, FS_EmptySet DEF Turns, Unheard
<1>8. Talking
  BY <1>1, <1>7, SwarmAssumption DEF Talking
<1>9. Earned
  BY <1>1, <1>5 DEF Earned, Ends
<1>10. SettledIn(debate, Len(results)) = {}
  BY <1>6 DEF SettledIn
<1>11. Accounted
  <2>1. Cardinality(SettledIn(debate, Len(results))) = 0
    BY <1>10, FS_EmptySet, Zenon
  <2>2. outcome.revisions = 0 /\ 1..Len(results) = {}
    BY <1>1, <1>6
  <2>. QED  BY <2>1, <2>2, <1>6 DEF Accounted
<1>. QED  BY <1>4, <1>8, <1>9, <1>11 DEF SwarmInv

LEMMA Decomposes == SwarmInv /\ ArchitectDecomposes => SwarmInv'
<1>. SUFFICES ASSUME SwarmInv, ArchitectDecomposes PROVE SwarmInv'
  OBVIOUS
<1>1. PICK n \in 0..MaxSubtasks, end \in Endings :
        LET said == Append(debate, Said("DECOMPOSITION", 0, n)) IN
        /\ swarm' = [swarm EXCEPT !.subtasks = n, !.pc = IF n = 0 THEN end ELSE "coder"]
        /\ outcome' = IF n = 0 THEN [outcome EXCEPT !.status = "failed"] ELSE outcome
        /\ debate' = IF n = 0 /\ end = "done" THEN Append(said, Said("SWARM_END", 0, "failed")) ELSE said
  BY DEF ArchitectDecomposes
<1>. DEFINE d == Said("DECOMPOSITION", 0, n)
            e == Said("SWARM_END", 0, "failed")
            said == Append(debate, d)
<1>2. /\ debate \in Seq(LedgerRows) /\ outcome.revisions \in Nat /\ n \in Nat
      /\ swarm \in [pc : {"architect", "coder", "qa", "done", "raised"},
                    subtasks : Nat, revision : Nat, request : Nat]
      /\ outcome \in [status : RunStatuses, revisions : Nat]
  BY SwarmAssumption DEF SwarmInv, SwarmTypeOK
<1>3. swarm.pc = "architect" /\ results' = results
  BY DEF ArchitectDecomposes
<1>4. /\ results = <<>> /\ Len(results) = 0 /\ swarm.request = swarm.revision
      /\ swarm.revision <= MaxRevisions
      /\ Turns(debate, 1, swarm.revision, swarm.revision) /\ Unheard(debate, 1)
  BY <1>3 DEF SwarmInv, Talking
<1>5. Ends = {} /\ outcome.status = "pending"
  BY <1>3 DEF SwarmInv, Earned
<1>6. Cardinality(SettledIn(debate, 0)) = outcome.revisions + 0
  BY <1>4 DEF SwarmInv, Accounted
<1>7. d \in LedgerRows /\ d.type = "DECOMPOSITION" /\ e \in LedgerRows /\ e.type = "SWARM_END"
      /\ d.index = 0 /\ e.index = 0 /\ e.what = "failed"
  BY <1>2 DEF Said, LedgerRows, RowTypes, RunStatuses
<1>8. /\ swarm' = [swarm EXCEPT !.subtasks = n, !.pc = IF n = 0 THEN end ELSE "coder"]
      /\ outcome' = IF n = 0 THEN [outcome EXCEPT !.status = "failed"] ELSE outcome
      /\ debate' = IF n = 0 /\ end = "done" THEN Append(said, e) ELSE said
      /\ said = Append(debate, d) /\ end \in {"done", "raised"}
  BY <1>1 DEF Endings
<1>. HIDE DEF d, e, said
<1>9. OneRowMore(debate, d, said) /\ \A i : Same(debate, said, i)
  <2>1. d.type # "PATCH_PROPOSAL" /\ d.type # "REVIEW_VERDICT"
    BY <1>7
  <2>. QED  BY <2>1, <1>2, <1>7, <1>8, Appended, Remarks, Zenon
<1>10. said \in Seq(LedgerRows) /\ Rows(said, "SWARM_END", 0) = {}
  BY <1>5, <1>7, <1>9 DEF OneRowMore, Ends
<1>11. SettledIn(debate', 0) = {} /\ SettledIn(debate, 0) = {}
  BY DEF SettledIn
<1>12. outcome'.revisions = outcome.revisions /\ outcome' \in [status : RunStatuses, revisions : Nat]
  BY <1>2, <1>8 DEF RunStatuses
<1>13. /\ swarm' \in [pc : {"architect", "coder", "qa", "done", "raised"},
                      subtasks : Nat, revision : Nat, request : Nat]
       /\ swarm'.pc = (IF n = 0 THEN end ELSE "coder") /\ swarm'.subtasks = n
       /\ swarm'.revision = swarm.revision /\ swarm'.request = swarm.request
  BY <1>2, <1>8
<1>14. Accounted'
  <2>1. Len(results') = 0 /\ 1..Len(results') = {}
    BY <1>3, <1>4
  <2>2. Cardinality(SettledIn(debate', 0)) = outcome.revisions + 0
    BY <1>6, <1>11
  <2>. QED  BY <2>1, <2>2, <1>12 DEF Accounted
<1>17. CASE n = 0 /\ end = "raised"
  <2>1. debate' = said /\ outcome'.status = "failed" /\ swarm'.pc = "raised"
    BY <1>2, <1>8, <1>13, <1>17
  <2>2. SwarmTypeOK'
    BY <2>1, <1>3, <1>10, <1>12, <1>13 DEF SwarmInv, SwarmTypeOK
  <2>3. Earned'
    BY <2>1, <1>10 DEF Earned, Ends
  <2>4. Talking'
    BY <2>1 DEF Talking
  <2>. QED  BY <2>2, <2>3, <2>4, <1>14 DEF SwarmInv
<1>15. CASE n = 0 /\ end = "done"
  <2>1. debate' = Append(said, e) /\ outcome'.status = "failed"
    BY <1>2, <1>8, <1>15
  <2>2. OneRowMore(said, e, debate')
    BY <2>1, <1>7, <1>10, Appended, Zenon
  <2>3. debate' \in Seq(LedgerRows) /\ Rows(debate', "SWARM_END", 0) = {Len(debate')}
        /\ debate'[Len(debate')].what = "failed"
    BY <2>2, <1>7, <1>10 DEF OneRowMore
  <2>4. SwarmTypeOK'
    BY <2>3, <1>3, <1>12, <1>13 DEF SwarmInv, SwarmTypeOK
  <2>5. Earned'
    BY <2>1, <2>3, <1>13, <1>15 DEF Earned, Ends
  <2>6. Talking'
    BY <1>13, <1>15 DEF Talking
  <2>. QED  BY <2>4, <2>5, <2>6, <1>14 DEF SwarmInv
<1>16. CASE n # 0
  <2>1. debate' = said /\ outcome' = outcome /\ swarm'.pc = "coder"
    BY <1>8, <1>13, <1>16
  <2>2. SwarmTypeOK'
    BY <2>1, <1>3, <1>10, <1>12, <1>13 DEF SwarmInv, SwarmTypeOK
  <2>3. Earned'
    BY <2>1, <1>5, <1>10 DEF Earned, Ends
  <2>4. Turns(debate', 1, swarm.revision, swarm.revision) /\ Unheard(debate', 1)
    <3>1. Turns(said, 1, swarm.revision, swarm.revision)
      BY <1>2, <1>4, <1>9, TurnsStay, Zenon
    <3>2. Unheard(said, 1)
      BY <1>4, <1>9 DEF Unheard, Same
    <3>. QED  BY <2>1, <3>1, <3>2
  <2>5. Talking'
    BY <2>1, <2>4, <1>2, <1>3, <1>4, <1>13, <1>16 DEF Talking
  <2>. QED  BY <2>2, <2>3, <2>5, <1>14 DEF SwarmInv
<1>. QED  BY <1>8, <1>15, <1>16, <1>17

\* A row about the subtask in hand changes nothing that is known of the others.
LEMMA OthersStay ==
  ASSUME SwarmInv, NEW e \in LedgerRows, e.index = Len(results) + 1,
         e.type \in {"PATCH_PROPOSAL", "REVIEW_VERDICT"},
         results' = results, outcome' = outcome, debate' = Append(debate, e),
         swarm.pc \in {"coder", "qa"}, swarm'.pc # "done"
  PROVE  Accounted' /\ Earned' /\ debate' \in Seq(LedgerRows)
         /\ (Unheard(debate, Len(results) + 1) => Unheard(debate', Len(results) + 1))
<1>. DEFINE n == Len(results)
<1>1. debate \in Seq(LedgerRows) /\ n \in Nat /\ e.index = n + 1
  BY DEF SwarmInv, SwarmTypeOK
<1>2. OneRowMore(debate, e, debate')
  BY <1>1, Appended, Zenon
<1>3. \A i \in Nat : i # n + 1 => Same(debate, debate', i)
  BY <1>1, <1>2 DEF OneRowMore, Same
<1>4. debate' \in Seq(LedgerRows)
  BY <1>2 DEF OneRowMore
<1>5. SettledIn(debate', n) = SettledIn(debate, n)
  <2>1. e.index > n
    BY <1>1
  <2>. HIDE DEF n
  <2>. QED  BY <2>1, <1>1, SettledStays
<1>6. ASSUME NEW i \in 1..n PROVE Told(debate', i, results[i])
  <2>1. Told(debate, i, results[i]) /\ Same(debate, debate', i)
    BY <1>1, <1>3 DEF SwarmInv, Accounted
  <2>. QED  BY <2>1, <1>1, ToldStays, Zenon
<1>7. Accounted'
  BY <1>5, <1>6 DEF SwarmInv, Accounted
<1>8. Ends' = {}
  <2>1. Rows(debate, "SWARM_END", 0) = {}
    BY DEF SwarmInv, Earned, Ends
  <2>. QED  BY <2>1, <1>2 DEF OneRowMore, Ends
<1>9. Earned'
  BY <1>8 DEF SwarmInv, Earned
<1>10. Unheard(debate, n + 1) => Unheard(debate', n + 1)
  BY <1>1, <1>3 DEF Unheard, Same
<1>. QED  BY <1>4, <1>7, <1>9, <1>10

LEMMA CoderKeeps == SwarmInv /\ CoderProposes => SwarmInv'
<1>. SUFFICES ASSUME SwarmInv, CoderProposes PROVE SwarmInv'
  OBVIOUS
<1>. DEFINE n == Len(results)
            k == swarm.revision
            e == Said("PATCH_PROPOSAL", n + 1, k)
<1>1. /\ debate \in Seq(LedgerRows) /\ n \in Nat /\ n + 1 \in Nat /\ k \in Nat
      /\ swarm \in [pc : {"architect", "coder", "qa", "done", "raised"},
                    subtasks : Nat, revision : Nat, request : Nat]
  BY DEF SwarmInv, SwarmTypeOK
<1>2. swarm.pc = "coder" /\ swarm' = [swarm EXCEPT !.pc = "qa"] /\ results' = results /\ outcome' = outcome
      /\ debate' = Append(debate, Said("PATCH_PROPOSAL", n + 1, swarm.request))
  BY DEF CoderProposes, InHand
<1>3. /\ Turns(debate, n + 1, k, k) /\ swarm.request = k /\ k <= MaxRevisions
      /\ Unheard(debate, n + 1) /\ n < swarm.subtasks
  BY <1>2 DEF SwarmInv, Talking
<1>4. debate' = Append(debate, e)
  BY <1>2, <1>3
<1>5. e \in LedgerRows /\ e.type = "PATCH_PROPOSAL" /\ e.index = n + 1
  BY <1>1 DEF Said, LedgerRows, RowTypes
<1>6. swarm' \in [pc : {"architect", "coder", "qa", "done", "raised"},
                  subtasks : Nat, revision : Nat, request : Nat]
      /\ swarm'.pc = "qa" /\ swarm'.revision = k /\ swarm'.request = k /\ swarm'.subtasks = swarm.subtasks
  BY <1>1, <1>2, <1>3
<1>7. Turns(debate', n + 1, k + 1, k)
  <2>. HIDE DEF n, k
  <2>. QED  BY <1>1, <1>3, <1>4, Proposes
<1>8. Accounted' /\ Earned' /\ debate' \in Seq(LedgerRows) /\ Unheard(debate', n + 1)
  <2>1. swarm.pc \in {"coder", "qa"} /\ swarm'.pc # "done" /\ e.type \in {"PATCH_PROPOSAL", "REVIEW_VERDICT"}
    BY <1>2, <1>5, <1>6
  <2>. HIDE DEF e
  <2>. QED  BY <2>1, <1>2, <1>3, <1>4, <1>5, OthersStay
<1>9. Talking'
  BY <1>2, <1>3, <1>6, <1>7, <1>8 DEF Talking
<1>10. SwarmTypeOK'
  BY <1>2, <1>6, <1>8 DEF SwarmInv, SwarmTypeOK
<1>. QED  BY <1>8, <1>9, <1>10 DEF SwarmInv

LEMMA RequestKeeps == SwarmInv /\ RequestsChanges => SwarmInv'
<1>. SUFFICES ASSUME SwarmInv, RequestsChanges PROVE SwarmInv'
  OBVIOUS
<1>. DEFINE n == Len(results)
            k == swarm.revision
            e == Said("REVIEW_VERDICT", n + 1, "REQUEST_CHANGES")
<1>1. /\ debate \in Seq(LedgerRows) /\ n \in Nat /\ n + 1 \in Nat /\ k \in Nat
      /\ swarm \in [pc : {"architect", "coder", "qa", "done", "raised"},
                    subtasks : Nat, revision : Nat, request : Nat]
  BY DEF SwarmInv, SwarmTypeOK
<1>2. swarm.pc = "qa" /\ results' = results /\ outcome' = outcome /\ ~ (k >= MaxRevisions)
      /\ swarm' = [swarm EXCEPT !.pc = "coder", !.revision = @ + 1, !.request = swarm.revision + 1]
      /\ debate' = Append(debate, e)
  BY DEF RequestsChanges, OutOfRevisions, Reviewed, InHand
<1>3. Turns(debate, n + 1, k + 1, k) /\ Unheard(debate, n + 1) /\ n < swarm.subtasks
  BY <1>2 DEF SwarmInv, Talking
<1>4. e \in LedgerRows /\ e.type = "REVIEW_VERDICT" /\ e.index = n + 1 /\ "REQUEST_CHANGES" \in Verdicts
  BY <1>1 DEF Said, LedgerRows, RowTypes, Verdicts
<1>5. swarm' \in [pc : {"architect", "coder", "qa", "done", "raised"},
                  subtasks : Nat, revision : Nat, request : Nat]
      /\ swarm'.pc = "coder" /\ swarm'.revision = k + 1 /\ swarm'.request = k + 1
      /\ swarm'.subtasks = swarm.subtasks
  <2>1. swarm' = [swarm EXCEPT !.pc = "coder", !.revision = k + 1, !.request = k + 1] /\ k + 1 \in Nat
    BY <1>1, <1>2
  <2>. DEFINE m == k + 1
  <2>2. swarm' = [swarm EXCEPT !.pc = "coder", !.revision = m, !.request = m] /\ m \in Nat
    BY <2>1
  <2>. HIDE DEF m
  <2>3. swarm' \in [pc : {"architect", "coder", "qa", "done", "raised"},
                    subtasks : Nat, revision : Nat, request : Nat]
        /\ swarm'.pc = "coder" /\ swarm'.revision = m /\ swarm'.request = m
        /\ swarm'.subtasks = swarm.subtasks
    BY <1>1, <2>2
  <2>. QED  BY <2>3 DEF m
<1>6. Turns(debate', n + 1, k + 1, k + 1)
  <2>. HIDE DEF n, k
  <2>. QED  BY <1>1, <1>2, <1>3, <1>4, Reviews
<1>7. Accounted' /\ Earned' /\ debate' \in Seq(LedgerRows) /\ Unheard(debate', n + 1)
  <2>1. swarm.pc \in {"coder", "qa"} /\ swarm'.pc # "done" /\ e.type \in {"PATCH_PROPOSAL", "REVIEW_VERDICT"}
    BY <1>2, <1>4, <1>5
  <2>. HIDE DEF e
  <2>. QED  BY <2>1, <1>2, <1>3, <1>4, OthersStay
<1>8. k + 1 <= MaxRevisions
  BY <1>1, <1>2, SwarmAssumption
<1>9. Talking'
  BY <1>2, <1>3, <1>5, <1>6, <1>7, <1>8 DEF Talking
<1>10. SwarmTypeOK'
  BY <1>2, <1>5, <1>7 DEF SwarmInv, SwarmTypeOK
<1>. QED  BY <1>7, <1>9, <1>10 DEF SwarmInv

LEMMA LedgerKeeps == SwarmInv /\ LedgerRaises => SwarmInv'
<1>. SUFFICES ASSUME SwarmInv, LedgerRaises PROVE SwarmInv'
  OBVIOUS
<1>1. PICK v \in Verdicts : debate' = Append(debate, Said("REVIEW_VERDICT", Len(results) + 1, v))
  BY DEF LedgerRaises, Reviewed, InHand, Verdicts
<1>. DEFINE e == Said("REVIEW_VERDICT", Len(results) + 1, v)
<1>2. /\ swarm.pc = "qa" /\ swarm' = [swarm EXCEPT !.pc = "raised"]
      /\ results' = results /\ outcome' = outcome
  BY DEF LedgerRaises
<1>3. swarm \in [pc : {"architect", "coder", "qa", "done", "raised"},
                 subtasks : Nat, revision : Nat, request : Nat]
      /\ Len(results) \in Nat
  BY DEF SwarmInv, SwarmTypeOK
<1>4. swarm' \in [pc : {"architect", "coder", "qa", "done", "raised"},
                  subtasks : Nat, revision : Nat, request : Nat]
      /\ swarm'.pc = "raised"
  BY <1>2, <1>3
<1>5. e \in LedgerRows /\ e.type \in {"PATCH_PROPOSAL", "REVIEW_VERDICT"} /\ e.index = Len(results) + 1
  BY <1>3 DEF Said, LedgerRows, RowTypes
<1>6. Accounted' /\ Earned' /\ debate' \in Seq(LedgerRows)
  <2>1. swarm.pc \in {"coder", "qa"} /\ swarm'.pc # "done" /\ debate' = Append(debate, e)
    BY <1>1, <1>2, <1>4
  <2>. HIDE DEF e
  <2>. QED  BY <2>1, <1>2, <1>5, OthersStay
<1>7. Talking'
  BY <1>4 DEF Talking
<1>8. SwarmTypeOK'
  BY <1>2, <1>4, <1>6 DEF SwarmInv, SwarmTypeOK
<1>. QED  BY <1>6, <1>7, <1>8 DEF SwarmInv

LEMMA SwarmKeeps == SwarmInv /\ [SwarmNext]_swarmVars => SwarmInv'
<1>. SUFFICES ASSUME SwarmInv, [SwarmNext]_swarmVars PROVE SwarmInv'
  OBVIOUS
<1>1. CASE ArchitectDecomposes
  BY <1>1, Decomposes
<1>2. CASE CoderProposes
  BY <1>2, CoderKeeps
<1>3. CASE Approves
  <2>1. PICK end \in Endings : swarm.pc = "qa" /\ Settled("approved", Reviewed("APPROVE"), end)
    BY <1>3 DEF Approves
  <2>2. "APPROVE" \in Verdicts
    BY DEF Verdicts
  <2>3. Concluded(Reviewed("APPROVE"), "approved")
    BY <2>1, <2>2, ConcludesReview
  <2>. QED  BY <2>1, <2>3, Settles
<1>4. CASE Rejects
  <2>. DEFINE e == Said("SUBTASK_REJECTED", InHand, 0)
  <2>1. PICK end \in Endings : swarm.pc = "qa" /\ Settled("rejected", Append(Reviewed("REJECT"), e), end)
    BY <1>4 DEF Rejects
  <2>2. "REJECT" \in Verdicts
    BY DEF Verdicts
  <2>3. Concluded(Reviewed("REJECT"), "rejected")
    BY <2>1, <2>2, ConcludesReview
  <2>4. e \in LedgerRows /\ e.type = "SUBTASK_REJECTED"
    BY DEF SwarmInv, SwarmTypeOK, InHand, Said, LedgerRows, RowTypes
  <2>. HIDE DEF e
  <2>5. Concluded(Append(Reviewed("REJECT"), e), "rejected")
    BY <2>3, <2>4, ConcludesRemark
  <2>. QED  BY <2>1, <2>5, Settles
<1>5. CASE Escalates
  <2>. DEFINE e == Said("SUBTASK_ESCALATED", InHand, 0)
  <2>1. PICK end \in Endings :
          swarm.pc = "qa" /\ Settled("escalated", Append(Reviewed("REQUEST_CHANGES"), e), end)
    BY <1>5 DEF Escalates
  <2>7. swarm.revision >= MaxRevisions
    BY <1>5 DEF Escalates, OutOfRevisions
  <2>2. "REQUEST_CHANGES" \in Verdicts
    BY DEF Verdicts
  <2>3. swarm.revision = MaxRevisions
    BY <2>1, <2>7, SwarmAssumption DEF SwarmInv, SwarmTypeOK, Talking
  <2>4. Concluded(Reviewed("REQUEST_CHANGES"), "escalated")
    BY <2>1, <2>2, <2>3, ConcludesReview
  <2>5. e \in LedgerRows /\ e.type = "SUBTASK_ESCALATED"
    BY DEF SwarmInv, SwarmTypeOK, InHand, Said, LedgerRows, RowTypes
  <2>. HIDE DEF e
  <2>6. Concluded(Append(Reviewed("REQUEST_CHANGES"), e), "escalated")
    BY <2>4, <2>5, ConcludesRemark
  <2>. QED  BY <2>1, <2>6, Settles
<1>6. CASE RequestsChanges
  BY <1>6, RequestKeeps
<1>7. CASE AgentRaises
  <2>1. swarm \in [pc : {"architect", "coder", "qa", "done", "raised"},
                   subtasks : Nat, revision : Nat, request : Nat]
    BY DEF SwarmInv, SwarmTypeOK
  <2>2. swarm' = [swarm EXCEPT !.pc = "raised"] /\ swarm.pc # "done"
        /\ UNCHANGED <<results, outcome, debate>>
    BY <1>7 DEF AgentRaises
  <2>3. swarm' \in [pc : {"architect", "coder", "qa", "done", "raised"},
                    subtasks : Nat, revision : Nat, request : Nat]
        /\ swarm'.pc = "raised"
    BY <2>1, <2>2
  <2>4. Talking'
    BY <2>3 DEF Talking
  <2>5. Earned'
    BY <2>2, <2>3 DEF SwarmInv, Earned, Ends
  <2>6. SwarmTypeOK' /\ Accounted'
    BY <2>2, <2>3 DEF SwarmInv, SwarmTypeOK, Accounted
  <2>. QED  BY <2>4, <2>5, <2>6 DEF SwarmInv
<1>9. CASE LedgerRaises
  BY <1>9, LedgerKeeps
<1>8. CASE UNCHANGED swarmVars
  BY <1>8 DEF swarmVars, SwarmInv, SwarmTypeOK, Talking, Earned, Ends, Accounted
<1>. QED  BY <1>1, <1>2, <1>3, <1>4, <1>5, <1>6, <1>7, <1>8, <1>9 DEF SwarmNext

LEMMA SwarmShows == SwarmInv => SwarmAccounted
<1>. SUFFICES ASSUME SwarmInv PROVE SwarmAccounted
  OBVIOUS
<1>1. results \in Seq(SubtaskResults) /\ debate \in Seq(LedgerRows)
  BY DEF SwarmInv, SwarmTypeOK
<1>2. DOMAIN results = 1..Len(results) /\ DOMAIN debate = 1..Len(debate)
  BY <1>1
<1>3. ProposalsSettled = SettledIn(debate, Len(results))
  BY <1>2, Zenon DEF ProposalsSettled, SettledIn
<1>4. \A i \in DOMAIN results : Told(debate, i, results[i])
  BY <1>2 DEF SwarmInv, Accounted
<1>5. Cardinality(ProposalsSettled) = outcome.revisions + Len(results)
  BY <1>3 DEF SwarmInv, Accounted
<1>6. swarm.pc = "done" <=> Ends # {}
  BY DEF SwarmInv, Earned
<1>7. \A p \in Ends : p = Len(debate) /\ debate[p].what = outcome.status
  BY DEF SwarmInv, Earned
<1>8. outcome.status = "completed" =>
        Len(results) = swarm.subtasks /\ \A i \in DOMAIN results : results[i].status = "approved"
  BY <1>2 DEF SwarmInv, Earned
<1>. QED  BY <1>4, <1>5, <1>6, <1>7, <1>8 DEF SwarmAccounted

\* However many subtasks and revisions: the ledger of a debate tells what its result
\* tells, and a subtask settled earlier is not told anew by what is said of later ones
\* (coordinator.py:166-196, 213-285).
THEOREM DebateAccounted == SwarmSpec => []SwarmAccounted
<1>. QED  BY SwarmStarts, SwarmKeeps, SwarmShows, PTL DEF SwarmSpec

-----------------------------------------------------------------------------
(* Corrections *)

\* The places of the fixable failures number them from one on.
LEMMA FixableInside ==
  ASSUME NEW s \in Seq(Kinds)
  PROVE  /\ Fixable(s) \subseteq 1..Len(s) /\ IsFiniteSet(Fixable(s))
         /\ \A i \in Fixable(s) : i \in Nat /\ s[i] \in Kinds
<1>1. Fixable(s) \subseteq 1..Len(s)
  BY DEF Fixable
<1>2. IsFiniteSet(1..Len(s))
  BY FS_Interval, 1 \in Int, Len(s) \in Int
<1>3. IsFiniteSet(Fixable(s))
  BY <1>1, <1>2, FS_Subset, Zenon
<1>. QED  BY <1>1, <1>3

LEMMA SeverityIsNumber == \A k : Severity(k) \in Nat
BY DEF Severity

UpTo(s, i) == {j \in Fixable(s) : j = i \/ Outranks(s, j, i)}

\* A failure that outranks another is placed before it.
LEMMA PlaceGrows ==
  ASSUME NEW s \in Seq(Kinds), NEW i \in Fixable(s), NEW j \in Fixable(s), Outranks(s, i, j)
  PROVE  Place(s, i) < Place(s, j)
<1>1. \A m \in Fixable(s) : m \in Nat /\ Severity(s[m]) \in Nat
  BY FixableInside, SeverityIsNumber
<1>2. UpTo(s, i) \subseteq UpTo(s, j)
  BY <1>1 DEF UpTo, Outranks
<1>3. j \in UpTo(s, j) /\ j \notin UpTo(s, i)
  BY <1>1 DEF UpTo, Outranks
<1>4. IsFiniteSet(UpTo(s, j))
  <2>1. UpTo(s, j) \subseteq Fixable(s)
    BY DEF UpTo
  <2>. QED  BY <2>1, FixableInside, FS_Subset, Zenon
<1>5. /\ Cardinality(UpTo(s, i)) <= Cardinality(UpTo(s, j))
      /\ Cardinality(UpTo(s, i)) = Cardinality(UpTo(s, j)) => UpTo(s, i) = UpTo(s, j)
  BY <1>2, <1>4, FS_Subset
<1>6. Cardinality(UpTo(s, i)) \in Nat /\ Cardinality(UpTo(s, j)) \in Nat
  BY <1>2, <1>4, FS_Subset, FS_CardinalityType
<1>7. Cardinality(UpTo(s, i)) < Cardinality(UpTo(s, j))
  BY <1>3, <1>5, <1>6
<1>. QED  BY <1>7, Zenon DEF Place, UpTo

LEMMA PlaceNumbers ==
  ASSUME NEW s \in Seq(Kinds)
  PROVE  /\ \A i \in Fixable(s) : Place(s, i) \in 1..Cardinality(Fixable(s))
         /\ \A i, j \in Fixable(s) : Place(s, i) = Place(s, j) => i = j
         /\ \A n \in 1..Cardinality(Fixable(s)) : \E i \in Fixable(s) : Place(s, i) = n
<1>. DEFINE F == Fixable(s)
            c == Cardinality(F)
            f == [i \in F |-> Place(s, i)]
<1>1. IsFiniteSet(F) /\ c \in Nat
  BY FixableInside, FS_CardinalityType
<1>2. ASSUME NEW i \in F PROVE Place(s, i) \in 1..c
  <2>1. UpTo(s, i) \subseteq F /\ i \in UpTo(s, i)
    BY DEF UpTo
  <2>2. IsFiniteSet(UpTo(s, i)) /\ Cardinality(UpTo(s, i)) <= c /\ Cardinality(UpTo(s, i)) \in Nat
    BY <1>1, <2>1, FS_Subset, FS_CardinalityType
  <2>3. Cardinality(UpTo(s, i)) # 0
    BY <2>1, <2>2, FS_EmptySet
  <2>4. Place(s, i) = Cardinality(UpTo(s, i))
    BY Zenon DEF Place, UpTo
  <2>. QED  BY <1>1, <2>2, <2>3, <2>4
<1>3. ASSUME NEW i \in F, NEW j \in F, Place(s, i) = Place(s, j) PROVE i = j
  <2>1. i \in Nat /\ j \in Nat /\ Severity(s[i]) \in Nat /\ Severity(s[j]) \in Nat
    BY FixableInside, SeverityIsNumber
  <2>2. i = j \/ Outranks(s, i, j) \/ Outranks(s, j, i)
    BY <2>1 DEF Outranks
  <2>3. Place(s, i) \in Nat /\ Place(s, j) \in Nat
    BY <1>1, <1>2
  <2>. QED  BY <1>3, <2>2, <2>3, PlaceGrows
<1>4. f \in Injection(F, 1..c)
  BY <1>2, <1>3 DEF Injection, IsInjective
<1>5. Cardinality(1..c) = c
  <2>1. Cardinality(1..c) = IF 1 > c THEN 0 ELSE c - 1 + 1
    BY FS_Interval, <1>1, 1 \in Int, c \in Int
  <2>. HIDE DEF c
  <2>. QED  BY <2>1, <1>1
<1>6. f \in Surjection(F, 1..c)
  <2>1. PICK T : T = 1..c
    OBVIOUS
  <2>2. f \in Injection(F, T) /\ Cardinality(F) = Cardinality(T) /\ IsFiniteSet(F)
    <3>1. f \in Injection(F, T)
      BY <2>1, <1>4, Zenon
    <3>. QED  BY <3>1, <2>1, <1>1, <1>5, Zenon
  <2>3. IsFiniteSet(T)
    BY <2>1, <1>1, FS_Interval, 1 \in Int, c \in Int, Zenon
  <2>. HIDE DEF f, F, c
  <2>4. f \in Surjection(F, T)
    BY <2>2, <2>3, FS_Injection
  <2>. QED  BY <2>1, <2>4, Zenon
<1>7. \A n \in 1..c : \E i \in F : f[i] = n
  BY <1>6 DEF Surjection
<1>. QED  BY <1>2, <1>3, <1>7

\* What a cycle acts on.
LEMMA ActsOnForemost ==
  ASSUME NEW s \in Seq(Kinds)
  PROVE  /\ Room(s) \in Nat /\ Acted(s) \in Seq(Kinds) /\ Len(Acted(s)) = Room(s)
         /\ Room(s) <= MaxAuto
         /\ Left(s) # {} => Room(s) = MaxAuto
         /\ \A n \in 1..Room(s), k \in Left(s) : Severity(Acted(s)[n]) >= Severity(k)
<1>. DEFINE c == Cardinality(Fixable(s))
<1>1. c \in Nat
  BY FixableInside, FS_CardinalityType
<1>2. Room(s) \in Nat /\ Room(s) <= MaxAuto /\ Room(s) <= c
  BY <1>1, CorrectAssumption DEF Room
<1>3. ASSUME NEW n \in 1..Room(s)
      PROVE  At(s, n) \in Fixable(s) /\ Place(s, At(s, n)) = n
  <2>1. n \in 1..c
    BY <1>1, <1>2
  <2>2. \E i \in Fixable(s) : Place(s, i) = n
    BY <2>1, PlaceNumbers, Zenon
  <2>. QED  BY <2>2, Zenon DEF At
<1>4. ASSUME NEW n \in 1..Room(s) PROVE s[At(s, n)] \in Kinds
  BY <1>3, FixableInside
<1>5. Acted(s) \in Seq(Kinds) /\ Len(Acted(s)) = Room(s)
      /\ \A n \in 1..Room(s) : Acted(s)[n] = s[At(s, n)]
  BY <1>2, <1>4 DEF Acted
<1>6. ASSUME NEW k \in Left(s)
      PROVE  \E i \in Fixable(s) : s[i] = k /\ Place(s, i) > MaxAuto
  BY DEF Left
<1>7. Left(s) # {} => Room(s) = MaxAuto
  <2>. SUFFICES ASSUME NEW k \in Left(s) PROVE Room(s) = MaxAuto
    OBVIOUS
  <2>1. PICK i \in Fixable(s) : Place(s, i) > MaxAuto
    BY <1>6
  <2>2. Place(s, i) \in 1..c
    BY PlaceNumbers, Zenon
  <2>. QED  BY <1>1, <2>1, <2>2, CorrectAssumption DEF Room
<1>8. ASSUME NEW n \in 1..Room(s), NEW k \in Left(s)
      PROVE  Severity(Acted(s)[n]) >= Severity(k)
  <2>1. PICK i \in Fixable(s) : s[i] = k /\ Place(s, i) > MaxAuto
    BY <1>6
  <2>2. PICK j \in Fixable(s) : j = At(s, n) /\ Place(s, j) = n
    BY <1>3
  <2>3. Place(s, i) \in Nat /\ n \in Nat /\ n <= MaxAuto /\ ~ (Place(s, i) < n)
    BY <1>1, <1>2, <2>1, PlaceNumbers, CorrectAssumption
  <2>4. ~ Outranks(s, i, j)
    BY <2>2, <2>3, PlaceGrows
  <2>5. Severity(s[i]) \in Nat /\ Severity(s[j]) \in Nat /\ Acted(s)[n] = s[j]
    BY <1>5, <2>2, SeverityIsNumber
  <2>. QED  BY <2>1, <2>4, <2>5 DEF Outranks
<1>. QED  BY <1>2, <1>5, <1>7, <1>8

Settings == [timeout : Nat, workers : Nat \ {0}, batch : Nat \ {0}, paused : BOOLEAN]
Planned == [type : Kinds, timeout : Nat]

CorrectTypeOK ==
  /\ log \in Seq(Kinds) /\ env \in Settings /\ todo \in Seq(Planned) /\ due \in Nat

\* All time limits that are planned are the one that is due, and it was reached or is planned.
LimitAhead ==
  /\ \A n \in 1..Len(todo) : todo[n].type = "timeout" => todo[n].timeout = due
  /\ \/ env.timeout = due
     \/ 2 * env.timeout = due /\ \E n \in 1..Len(todo) : todo[n].type = "timeout"

Reported ==
  /\ \A n \in DOMAIN report.acted, k \in report.left : Severity(report.acted[n]) >= Severity(k)
  /\ report.left # {} => Len(report.acted) = MaxAuto

CorrectInv == CorrectTypeOK /\ LimitAhead /\ Reported

LEMMA CorrectStarts == CorrectInit => CorrectInv
<1>. SUFFICES ASSUME CorrectInit PROVE CorrectInv
  OBVIOUS
<1>1. log = <<>> /\ env = [timeout |-> 1, workers |-> 4, batch |-> 10, paused |-> FALSE]
      /\ todo = <<>> /\ due = 1
  BY DEF CorrectInit
<1>2. env \in Settings
  BY <1>1 DEF Settings
<1>3. CorrectTypeOK
  BY <1>1, <1>2 DEF CorrectTypeOK
<1>4. LimitAhead
  BY <1>1 DEF LimitAhead
<1>5. report.acted = <<>> /\ report.left = {}
  BY DEF CorrectInit
<1>6. Reported
  BY <1>5 DEF Reported
<1>. QED  BY <1>3, <1>4, <1>6 DEF CorrectInv

LEMMA HalvedPositive == \A n \in Nat \ {0} : Halved(n) \in Nat \ {0}
BY DEF Halved

LEMMA CycleKeeps ==
  ASSUME CorrectInv, NEW dry \in BOOLEAN, RunCycle(dry)
  PROVE  CorrectInv'
<1>1. /\ log \in Seq(Kinds) /\ env \in Settings /\ due \in Nat /\ env.timeout \in Nat
  BY DEF CorrectInv, CorrectTypeOK, Settings
<1>2. /\ todo = <<>> /\ log' = log /\ env' = env
      /\ todo' = (IF dry THEN <<>> ELSE Plans(log, env))
      /\ due' = (IF \E n \in DOMAIN todo' : todo'[n].type = "timeout" THEN 2 * due ELSE due)
  BY DEF RunCycle
<1>3. report'.acted = Acted(log) /\ report'.left = Left(log)
  BY DEF RunCycle
<1>4. /\ Room(log) \in Nat /\ Acted(log) \in Seq(Kinds) /\ Len(Acted(log)) = Room(log)
      /\ Left(log) # {} => Room(log) = MaxAuto
      /\ \A n \in 1..Room(log), k \in Left(log) : Severity(Acted(log)[n]) >= Severity(k)
  BY <1>1, ActsOnForemost
<1>5. Reported'
  <2>1. DOMAIN Acted(log) = 1..Room(log)
    BY <1>4
  <2>. QED  BY <1>3, <1>4, <2>1 DEF Reported
<1>6. env.timeout = due
  <2>1. Len(todo) = 0
    BY <1>2
  <2>. QED  BY <2>1 DEF CorrectInv, LimitAhead
<1>7. todo' \in Seq(Planned) /\ \A n \in 1..Len(todo') : todo'[n].timeout = 2 * due
  <2>1. CASE dry
    BY <2>1, <1>2
  <2>2. CASE ~ dry
    <3>1. todo' = [n \in 1..Room(log) |-> Plan(Acted(log)[n], env)]
      BY <2>2, <1>2 DEF Plans
    <3>2. ASSUME NEW n \in 1..Room(log)
          PROVE  Plan(Acted(log)[n], env) \in Planned /\ Plan(Acted(log)[n], env).timeout = 2 * due
      <4>1. Acted(log)[n] \in Kinds
        BY <1>4
      <4>. QED  BY <4>1, <1>1, <1>6 DEF Plan, Planned
    <3>. QED  BY <3>1, <3>2, <1>4
  <2>. QED  BY <2>1, <2>2
<1>8. DOMAIN todo' = 1..Len(todo')
  BY <1>7
<1>9. due' \in Nat
  BY <1>1, <1>2
<1>10. LimitAhead'
  <2>1. CASE \E n \in DOMAIN todo' : todo'[n].type = "timeout"
    <3>1. due' = 2 * due
      BY <2>1, <1>2
    <3>. QED  BY <2>1, <3>1, <1>2, <1>6, <1>7, <1>8 DEF LimitAhead
  <2>2. CASE ~ \E n \in DOMAIN todo' : todo'[n].type = "timeout"
    <3>1. due' = due
      BY <2>2, <1>2
    <3>. QED  BY <2>2, <3>1, <1>2, <1>6, <1>8 DEF LimitAhead
  <2>. QED  BY <2>1, <2>2
<1>11. CorrectTypeOK'
  BY <1>1, <1>2, <1>7, <1>9 DEF CorrectTypeOK
<1>. QED  BY <1>5, <1>10, <1>11 DEF CorrectInv

LEMMA ApplyKeeps == CorrectInv /\ ApplyAction => CorrectInv'
<1>. SUFFICES ASSUME CorrectInv, ApplyAction PROVE CorrectInv'
  OBVIOUS
<1>. DEFINE a == todo[1]
            h == Halved(env.workers)
<1>1. /\ log \in Seq(Kinds) /\ env \in Settings /\ due \in Nat /\ env.timeout \in Nat
      /\ todo \in Seq(Planned) /\ env.workers \in Nat \ {0}
  BY DEF CorrectInv, CorrectTypeOK, Settings
<1>2. todo # <<>> /\ env' = Handled(env, Head(todo)) /\ todo' = Tail(todo)
      /\ UNCHANGED <<log, report, due>>
  BY DEF ApplyAction
<1>3. /\ Len(todo) \in Nat /\ Len(todo) >= 1 /\ Head(todo) = a /\ a \in Planned
      /\ todo' \in Seq(Planned) /\ Len(todo') = Len(todo) - 1
      /\ \A n \in 1..Len(todo') : todo'[n] = todo[n + 1]
  BY <1>1, <1>2
<1>4. h \in Nat \ {0}
  BY <1>1, HalvedPositive
<1>5. a.timeout \in Nat
  BY <1>3 DEF Planned
<1>6. env' = IF a.type = "timeout" THEN [env EXCEPT !.timeout = a.timeout]
             ELSE IF a.type = "oom" THEN [env EXCEPT !.workers = h] ELSE env
  BY <1>2, <1>3 DEF Handled
<1>7. \A n \in 1..Len(todo) : todo[n].type = "timeout" => todo[n].timeout = due
  BY DEF CorrectInv, LimitAhead
<1>. HIDE DEF a, h
<1>8. env' \in Settings
  BY <1>1, <1>4, <1>5, <1>6 DEF Settings
<1>9. IF a.type = "timeout" THEN env'.timeout = a.timeout ELSE env'.timeout = env.timeout
  BY <1>1, <1>6 DEF Settings
<1>10. \A n \in 1..Len(todo') : todo'[n].type = "timeout" => todo'[n].timeout = due
  BY <1>3, <1>7
<1>11. env'.timeout = due
       \/ (2 * env'.timeout = due /\ \E n \in 1..Len(todo') : todo'[n].type = "timeout")
  <2>1. CASE a.type = "timeout"
    <3>1. a.timeout = due
      BY <2>1, <1>3, <1>7 DEF a
    <3>. QED  BY <2>1, <3>1, <1>9
  <2>2. CASE a.type # "timeout" /\ env.timeout = due
    BY <2>2, <1>9
  <2>3. CASE a.type # "timeout" /\ env.timeout # due
    <3>1. 2 * env.timeout = due
      BY <2>3 DEF CorrectInv, LimitAhead
    <3>2. PICK n \in 1..Len(todo) : todo[n].type = "timeout"
      BY <2>3 DEF CorrectInv, LimitAhead
    <3>3. n # 1
      BY <2>3, <3>2 DEF a
    <3>4. n - 1 \in 1..Len(todo') /\ todo'[n - 1] = todo[n]
      BY <3>3, <1>3
    <3>. QED  BY <2>3, <3>1, <3>2, <3>4, <1>9
  <2>. QED  BY <2>1, <2>2, <2>3
<1>12. LimitAhead'
  BY <1>2, <1>10, <1>11 DEF LimitAhead
<1>13. CorrectTypeOK' /\ Reported'
  BY <1>1, <1>2, <1>3, <1>8 DEF CorrectInv, CorrectTypeOK, Reported
<1>. QED  BY <1>12, <1>13 DEF CorrectInv

LEMMA EvaluateKeeps == CorrectInv /\ EvaluateAndCorrect => CorrectInv'
<1>. SUFFICES ASSUME CorrectInv, EvaluateAndCorrect PROVE CorrectInv'
  OBVIOUS
<1>. DEFINE h == Halved(env.batch)
            w == IF env.workers > 1 THEN env.workers - 1 ELSE env.workers
<1>1. env \in Settings /\ env.batch \in Nat \ {0} /\ env.workers \in Nat \ {0}
  BY DEF CorrectInv, CorrectTypeOK, Settings
<1>2. UNCHANGED <<log, todo, report, due>>
  BY DEF EvaluateAndCorrect
<1>3. PICK levels \in Levels : env' = Corrected(env, levels)
  BY DEF EvaluateAndCorrect
<1>4. h \in Nat \ {0} /\ w \in Nat \ {0}
  BY <1>1, HalvedPositive
<1>5. \/ env' = [env EXCEPT !.batch = h]
      \/ env' = [env EXCEPT !.paused = TRUE]
      \/ env' = [env EXCEPT !.workers = w]
  BY <1>3 DEF Corrected, Throttled
<1>. HIDE DEF h, w
<1>6. env' \in Settings /\ env'.timeout = env.timeout
  <2>1. CASE env' = [env EXCEPT !.batch = h]
    BY <2>1, <1>1, <1>4 DEF Settings
  <2>2. CASE env' = [env EXCEPT !.paused = TRUE]
    BY <2>2, <1>1 DEF Settings
  <2>3. CASE env' = [env EXCEPT !.workers = w]
    BY <2>3, <1>1, <1>4 DEF Settings
  <2>. QED  BY <1>5, <2>1, <2>2, <2>3
<1>. QED  BY <1>2, <1>6 DEF CorrectInv, CorrectTypeOK, LimitAhead, Reported

LEMMA CorrectKeeps == CorrectInv /\ [CorrectNext]_correctVars => CorrectInv'
<1>. SUFFICES ASSUME CorrectInv, [CorrectNext]_correctVars PROVE CorrectInv'
  OBVIOUS
<1>1. ASSUME NEW k \in Kinds, Fails(k) PROVE CorrectInv'
  <2>1. log' \in Seq(Kinds) /\ UNCHANGED <<env, todo, report, due>>
    BY <1>1 DEF Fails, CorrectInv, CorrectTypeOK
  <2>. QED  BY <2>1 DEF CorrectInv, CorrectTypeOK, LimitAhead, Reported
<1>2. CASE CooldownEnds
  BY <1>2 DEF CooldownEnds, CorrectInv, CorrectTypeOK, LimitAhead, Reported
<1>3. CASE UNCHANGED correctVars
  BY <1>3 DEF correctVars, CorrectInv, CorrectTypeOK, LimitAhead, Reported
<1>. QED  BY <1>1, <1>2, <1>3, CycleKeeps, ApplyKeeps, EvaluateKeeps DEF CorrectNext

LEMMA CorrectShows == CorrectInv => CorrectionsBounded
<1>. SUFFICES ASSUME CorrectInv PROVE CorrectionsBounded
  OBVIOUS
<1>1. env.workers \in Nat \ {0} /\ env.batch \in Nat \ {0}
  BY DEF CorrectInv, CorrectTypeOK, Settings
<1>2. env.workers >= 1 /\ env.batch >= 1
  BY <1>1
<1>3. env.timeout = due \/ (2 * env.timeout = due /\ todo # <<>>)
  BY DEF CorrectInv, LimitAhead
<1>. QED  BY <1>2, <1>3 DEF CorrectInv, Reported, CorrectionsBounded

\* Logs of any length, any limit of actions: a cycle doubles the time limit at most once
\* and acts on the most severe failures first, and every sequence of cycles and corrections
\* leaves at least one worker and a batch of at least one (controller.py:56-60,
\* apply.py:186-197).
THEOREM CorrectionsStayBounded == CorrectSpec => []CorrectionsBounded
<1>. QED  BY CorrectStarts, CorrectKeeps, CorrectShows, PTL DEF CorrectSpec

-----------------------------------------------------------------------------
(* The explorer *)

\* The natural numbers are well ordered: what an induction over them rests on.
Less == {p \in Nat \X Nat : p[1] < p[2]}

LEMMA LeastOf == ASSUME NEW T \in SUBSET Nat, T # {} PROVE \E x \in T : \A y \in T : x <= y
<1>1. IsWellFoundedOn(Less, Nat)
  <2>1. OpToRel(<, Nat) = Less
    BY DEF OpToRel, Less
  <2>. QED  BY <2>1, NatLessThanWellFounded
<1>2. PICK x \in T : \A y \in T : ~ (<<y, x>> \in Less)
  BY <1>1, WFMin
<1>3. ASSUME NEW y \in T PROVE x <= y
  <2>1. x \in Nat /\ y \in Nat /\ <<y, x>> \in Nat \X Nat
    OBVIOUS
  <2>2. ~ (<<y, x>>[1] < <<y, x>>[2])
    BY <1>2, <2>1, Zenon DEF Less
  <2>. QED  BY <2>1, <2>2
<1>. QED  BY <1>3

-----------------------------------------------------------------------------
(* The states that are met for the first time *)

NotAfter(S, i) == {j \in S : j <= i}

\* The members of a finite set of numbers have their numbers in it.
LEMMA NumbersFill ==
  ASSUME NEW S \in SUBSET Nat, IsFiniteSet(S)
  PROVE  /\ \A k \in 1..Cardinality(S) : Nth(S, k) \in S
         /\ \A k, l \in 1..Cardinality(S) : Nth(S, k) = Nth(S, l) => k = l
         /\ \A i \in S : \E k \in 1..Cardinality(S) : Nth(S, k) = i
<1>. DEFINE c == Cardinality(S)
            p(i) == Cardinality(NotAfter(S, i))
            f == [i \in S |-> p(i)]
<1>1. c \in Nat
  BY FS_CardinalityType
<1>2. ASSUME NEW i \in S
      PROVE  IsFiniteSet(NotAfter(S, i)) /\ p(i) \in 1..c /\ i \in NotAfter(S, i)
  <2>1. NotAfter(S, i) \subseteq S /\ i \in NotAfter(S, i)
    BY DEF NotAfter
  <2>2. IsFiniteSet(NotAfter(S, i)) /\ p(i) <= c /\ p(i) \in Nat
    BY <1>1, <2>1, FS_Subset, FS_CardinalityType
  <2>3. p(i) # 0
    BY <2>1, <2>2, FS_EmptySet
  <2>. QED  BY <1>1, <2>1, <2>2, <2>3
<1>3. ASSUME NEW i \in S, NEW j \in S, p(i) = p(j), i < j PROVE FALSE
  <2>1. NotAfter(S, i) \subseteq NotAfter(S, j)
    <3>1. \A m \in S : m \in Nat /\ i \in Nat /\ j \in Nat
      BY <1>3
    <3>2. \A m \in S : m <= i => m <= j
      BY <3>1, <1>3
    <3>. QED  BY <3>2 DEF NotAfter
  <2>2. NotAfter(S, i) = NotAfter(S, j)
    BY <2>1, <1>2, <1>3, FS_Subset
  <2>3. j \in NotAfter(S, j) /\ j \notin NotAfter(S, i)
    BY <1>3 DEF NotAfter
  <2>. QED  BY <2>2, <2>3
<1>4. \A i, j \in S : p(i) = p(j) => i = j
  <2>. SUFFICES ASSUME NEW i \in S, NEW j \in S, p(i) = p(j), i # j PROVE FALSE
    OBVIOUS
  <2>1. i < j \/ j < i
    OBVIOUS
  <2>. QED  BY <1>3, <2>1
<1>5. f \in Surjection(S, 1..c)
  <2>1. f \in Injection(S, 1..c)
    BY <1>2, <1>4 DEF Injection, IsInjective
  <2>2. Cardinality(1..c) = IF 1 > c THEN 0 ELSE c - 1 + 1
    BY FS_Interval, <1>1, 1 \in Int, c \in Int
  <2>3. IsFiniteSet(1..c)
    BY <1>1, FS_Interval, 1 \in Int, c \in Int, Zenon
  <2>4. PICK T : T = 1..c
    OBVIOUS
  <2>. HIDE DEF c, f
  <2>5. Cardinality(T) = c
    BY <1>1, <2>2, <2>4
  <2>6. f \in Injection(S, T) /\ IsFiniteSet(T) /\ Cardinality(S) = Cardinality(T)
    BY <2>1, <2>3, <2>4, <2>5, Zenon DEF c
  <2>7. f \in Surjection(S, T)
    BY <2>6, FS_Injection
  <2>. QED  BY <2>4, <2>7, Zenon
<1>6. ASSUME NEW k \in 1..c PROVE Nth(S, k) \in S /\ p(Nth(S, k)) = k
  <2>1. PICK i \in S : f[i] = k
    BY <1>5 DEF Surjection
  <2>2. \E j \in S : Cardinality({m \in S : m <= j}) = k
    BY <2>1 DEF NotAfter
  <2>. QED  BY <2>2, Zenon DEF Nth, NotAfter
<1>7. ASSUME NEW i \in S PROVE \E k \in 1..c : Nth(S, k) = i
  <2>1. PICK k \in 1..c : k = p(i)
    BY <1>2
  <2>2. Nth(S, k) \in S /\ p(Nth(S, k)) = p(i)
    BY <1>6, <2>1, Zenon
  <2>3. Nth(S, k) = i
    BY <1>4, <2>2
  <2>. QED  BY <2>3
<1>8. \A k, l \in 1..c : Nth(S, k) = Nth(S, l) => k = l
  BY <1>6, Zenon
<1>. QED  BY <1>6, <1>7, <1>8

\* What a search puts away of the next states: the new ones, each once.
Enumerates(w, S) ==
  /\ w \in Seq(S)
  /\ \A i, j \in 1..Len(w) : w[i] = w[j] => i = j
  /\ \A x \in S : \E i \in 1..Len(w) : w[i] = x

LEMMA NewOnes ==
  ASSUME NEW q \in Seq(Nodes \cup {Raises})
  PROVE  Enumerates(NewOf(q), {q[i] : i \in 1..Len(q)} \ (met \cup {Raises}))
<1>. DEFINE F == Fresh(q)
            c == Cardinality(F)
            S == {q[i] : i \in 1..Len(q)} \ (met \cup {Raises})
<1>1. F \in SUBSET Nat /\ F \subseteq 1..Len(q)
  BY DEF Fresh
<1>2. IsFiniteSet(F)
  <2>1. IsFiniteSet(1..Len(q))
    BY FS_Interval, 1 \in Int, Len(q) \in Int
  <2>. QED  BY <2>1, <1>1, FS_Subset, Zenon
<1>3. c \in Nat
  BY <1>2, FS_CardinalityType
<1>4. NewOf(q) = [k \in 1..c |-> q[Nth(F, k)]]
  BY DEF NewOf
<1>5. /\ \A k \in 1..c : Nth(F, k) \in F
      /\ \A k, l \in 1..c : Nth(F, k) = Nth(F, l) => k = l
      /\ \A i \in F : \E k \in 1..c : Nth(F, k) = i
  BY <1>1, <1>2, NumbersFill, Zenon
<1>6. \A i \in F : q[i] \in S /\ \A j \in 1..(i - 1) : q[j] # q[i]
  BY DEF Fresh
<1>7. \A i, j \in F : q[i] = q[j] => i = j
  <2>. SUFFICES ASSUME NEW i \in F, NEW j \in F, q[i] = q[j], i # j PROVE FALSE
    OBVIOUS
  <2>1. i \in 1..(j - 1) \/ j \in 1..(i - 1)
    BY <1>1
  <2>. QED  BY <1>6, <2>1
<1>8. ASSUME NEW x \in S PROVE \E i \in F : q[i] = x
  <2>. DEFINE I == {i \in 1..Len(q) : q[i] = x}
  <2>1. PICK i \in I : \A j \in I : i <= j
    <3>1. I \in SUBSET Nat /\ I # {}
      OBVIOUS
    <3>. QED  BY <3>1, LeastOf
  <2>2. \A j \in 1..(i - 1) : q[j] # x
    BY <2>1
  <2>3. i \in F
    BY <2>1, <2>2 DEF Fresh
  <2>. QED  BY <2>1, <2>3
<1>. HIDE DEF F, c, S
<1>9. NewOf(q) \in Seq(S) /\ Len(NewOf(q)) = c
  BY <1>3, <1>4, <1>5, <1>6
<1>10. \A k \in 1..c : NewOf(q)[k] = q[Nth(F, k)]
  BY <1>4
<1>11. \A k, l \in 1..c : NewOf(q)[k] = NewOf(q)[l] => k = l
  BY <1>5, <1>7, <1>10
<1>12. \A x \in S : \E k \in 1..c : NewOf(q)[k] = x
  BY <1>5, <1>8, <1>10
<1>13. Enumerates(NewOf(q), S)
  BY <1>9, <1>11, <1>12 DEF Enumerates
<1>. QED  BY <1>13 DEF S

-----------------------------------------------------------------------------
(* The reference *)

\* A function on the depths up to n that a search's layers must be.
Unfolds(g, r, n) ==
  r = [m \in 0..n |-> IF m = 0 THEN {Root} ELSE UNION {Successors(g, s) : s \in r[m - 1]}]

LEMMA LayersExist == ASSUME NEW g, NEW n \in Nat PROVE \E r : Unfolds(g, r, n)
<1>. DEFINE T == {m \in Nat : ~ \E r : Unfolds(g, r, m)}
<1>. SUFFICES ASSUME T # {} PROVE FALSE
  OBVIOUS
<1>1. PICK x \in T : \A y \in T : x <= y
  BY LeastOf
<1>2. CASE x = 0
  <2>1. Unfolds(g, [m \in 0..0 |-> {Root}], 0)
    BY DEF Unfolds
  <2>. QED  BY <1>2, <2>1
<1>3. CASE x # 0
  <2>1. x \in Nat /\ x - 1 \in Nat /\ x - 1 \notin T
    BY <1>1, <1>3
  <2>2. PICK r : Unfolds(g, r, x - 1)
    BY <2>1
  <2>. DEFINE last == UNION {Successors(g, s) : s \in r[x - 1]}
              more == [m \in 0..x |-> IF m = x THEN last ELSE r[m]]
  <2>3. more[x] = last /\ \A m \in 0..(x - 1) : more[m] = r[m]
    BY <2>1
  <2>4. ASSUME NEW m \in 0..x
        PROVE  more[m] = IF m = 0 THEN {Root} ELSE UNION {Successors(g, s) : s \in more[m - 1]}
    <3>1. CASE m = x
      <4>1. more[m - 1] = r[x - 1] /\ m # 0
        BY <3>1, <2>1, <2>3, <1>3
      <4>. QED  BY <4>1, <3>1, <2>3
    <3>2. CASE m # x /\ m # 0
      <4>1. m \in 0..(x - 1) /\ m - 1 \in 0..(x - 1)
        BY <3>2, <2>1
      <4>2. more[m] = r[m] /\ more[m - 1] = r[m - 1]
        BY <4>1, <2>3
      <4>3. r[m] = UNION {Successors(g, s) : s \in r[m - 1]}
        BY <4>1, <3>2, <2>2 DEF Unfolds
      <4>. QED  BY <4>2, <4>3, <3>2
    <3>3. CASE m = 0
      <4>1. m \in 0..(x - 1)
        BY <3>3, <2>1
      <4>2. r[m] = {Root}
        BY <4>1, <3>3, <2>2 DEF Unfolds
      <4>. QED  BY <4>1, <4>2, <3>3, <2>3
    <3>. QED  BY <3>1, <3>2, <3>3
  <2>5. Unfolds(g, more, x)
    <3>. HIDE DEF last
    <3>. QED  BY <2>4 DEF Unfolds
  <2>. QED  BY <2>5
<1>. QED  BY <1>2, <1>3

LEMMA Layers ==
  ASSUME NEW g
  PROVE  /\ ReachedIn(g)[0] = {Root}
         /\ \A n \in 1..MaxDepth :
              ReachedIn(g)[n] = UNION {Successors(g, s) : s \in ReachedIn(g)[n - 1]}
<1>1. \E r : Unfolds(g, r, MaxDepth)
  BY LayersExist, ExplorerAssumption
<1>2. ReachedIn(g) = CHOOSE r : Unfolds(g, r, MaxDepth)
  BY DEF ReachedIn, Unfolds
<1>3. Unfolds(g, ReachedIn(g), MaxDepth)
  BY <1>1, <1>2, Zenon
<1>. DEFINE h == ReachedIn(g)
<1>4. h = [m \in 0..MaxDepth |-> IF m = 0 THEN {Root} ELSE UNION {Successors(g, s) : s \in h[m - 1]}]
  BY <1>3 DEF Unfolds
<1>. HIDE DEF h
<1>5. ASSUME NEW m \in 0..MaxDepth
      PROVE  h[m] = IF m = 0 THEN {Root} ELSE UNION {Successors(g, s) : s \in h[m - 1]}
  BY <1>4
<1>6. 0 \in 0..MaxDepth /\ \A n \in 1..MaxDepth : n \in 0..MaxDepth /\ n # 0
  BY ExplorerAssumption
<1>7. h[0] = {Root} /\ \A n \in 1..MaxDepth : h[n] = UNION {Successors(g, s) : s \in h[n - 1]}
  BY <1>5, <1>6
<1>. QED  BY <1>7 DEF h


Searches == [how : {"bfs", "dfs"}, graph : Graphs, bad : SUBSET Nodes, budget : Budgets]
Depths == 0..MaxDepth
Entries == Nodes \X Depths

LEMMA OneDistance ==
  ASSUME NEW g, NEW s, NEW n \in Nat, NEW m \in Nat, DistanceIs(g, s, n), DistanceIs(g, s, m)
  PROVE  n = m
<1>1. ~ (n < m) /\ ~ (m < n)
  BY DEF DistanceIs
<1>. QED  BY <1>1

LEMMA SomeDistance ==
  ASSUME NEW g, NEW s, NEW n \in Nat, s \in ReachedIn(g)[n]
  PROVE  \E m \in 0..n : DistanceIs(g, s, m)
<1>. DEFINE T == {m \in Nat : s \in ReachedIn(g)[m]}
<1>1. PICK x \in T : \A y \in T : x <= y
  <2>1. T \in SUBSET Nat /\ T # {}
    OBVIOUS
  <2>. QED  BY <2>1, LeastOf
<1>2. x \in 0..n /\ \A m \in 0..(x - 1) : m \in Nat /\ ~ (x <= m)
  BY <1>1
<1>. QED  BY <1>1, <1>2 DEF DistanceIs

LEMMA StepsOn ==
  ASSUME NEW g, NEW s, NEW n \in Depths, n < MaxDepth, s \in ReachedIn(g)[n],
         NEW x \in Successors(g, s)
  PROVE  x \in ReachedIn(g)[n + 1]
<1>1. PICK m \in Nat : m = n + 1
  BY DEF Depths
<1>2. m \in 1..MaxDepth /\ m - 1 = n
  BY <1>1, ExplorerAssumption DEF Depths
<1>3. ReachedIn(g)[m] = UNION {Successors(g, t) : t \in ReachedIn(g)[n]}
  BY <1>2, Layers
<1>. QED  BY <1>1, <1>3

-----------------------------------------------------------------------------
(* The invariant *)

Waits(q, s) == \E i \in 1..Len(q) : q[i][1] = s

\* The queue: by depth, over two depths at most, every state once and at its distance.
Queued(g, q, V) ==
  /\ \A i, j \in 1..Len(q) : i < j => q[i][2] <= q[j][2] /\ q[i][1] # q[j][1]
  /\ \A i, j \in 1..Len(q) : q[j][2] <= q[i][2] + 1
  /\ \A i \in 1..Len(q) : q[i][1] \in V /\ DistanceIs(g, q[i][1], q[i][2])

\* A state that was taken has a distance, and what follows it was met.
Closed(g, q, V) ==
  \A s \in V : ~ Waits(q, s) =>
    \E n \in Depths : DistanceIs(g, s, n) /\ (n < MaxDepth => Successors(g, s) \subseteq V)

\* The failing states among those taken are told of.
ToldOf(g, q, V, F) ==
  \A s \in Nodes, n \in Depths :
    <<"violation", s, n>> \in F
      <=> s \in g.bad /\ s \in V /\ ~ Waits(q, s) /\ DistanceIs(g, s, n)

\* No entry and no finding of a state that is not reached.
Sound(g, q, F) ==
  /\ \A i \in 1..Len(q) : q[i][1] \in ReachedIn(g)[q[i][2]]
  /\ \A f \in F : f[1] # "raised" => f[2] \in ReachedIn(g)[f[3]]

Typed(q, V) == q \in Seq(Entries) /\ V \in SUBSET Nodes /\ Root \in V

\* What is left of a search once it is as deep as n: everything up to there was met.
LEMMA Covered ==
  ASSUME NEW g \in Searches, NEW q, NEW V, Typed(q, V), Queued(g, q, V), Closed(g, q, V),
         NEW n \in Depths, \A i \in 1..Len(q) : q[i][2] >= n
  PROVE  ReachedIn(g)[n] \subseteq V
<1>. DEFINE T == {m \in 0..n : ~ (ReachedIn(g)[m] \subseteq V)}
<1>1. n \in Nat /\ n <= MaxDepth /\ MaxDepth \in Nat
  BY ExplorerAssumption DEF Depths
<1>. SUFFICES ASSUME T # {} PROVE FALSE
  BY <1>1
<1>2. PICK x \in T : \A y \in T : x <= y
  <2>1. T \in SUBSET Nat
    BY <1>1
  <2>. QED  BY <2>1, LeastOf
<1>3. x # 0
  BY <1>2, Layers DEF Typed
<1>4. x \in 1..MaxDepth /\ x - 1 \in 0..n /\ x - 1 \in Depths /\ x - 1 \notin T /\ x - 1 \in Nat
  BY <1>1, <1>2, <1>3 DEF Depths
<1>5. PICK m \in Nat : m = x - 1
  BY <1>4
<1>6. ReachedIn(g)[m] \subseteq V /\ m \in Depths /\ m < n /\ m < MaxDepth
  BY <1>1, <1>2, <1>4, <1>5
<1>7. PICK s \in ReachedIn(g)[m] : ~ (Successors(g, s) \subseteq V)
  <2>1. ReachedIn(g)[x] = UNION {Successors(g, s) : s \in ReachedIn(g)[m]}
    BY <1>4, <1>5, Layers
  <2>2. ~ (ReachedIn(g)[x] \subseteq V)
    BY <1>2
  <2>. QED  BY <2>1, <2>2
<1>8. PICK k \in 0..m : DistanceIs(g, s, k)
  BY <1>7, SomeDistance
<1>9. k \in Nat /\ k <= m
  BY <1>8
<1>10. ~ Waits(q, s)
  <2>. SUFFICES ASSUME NEW i \in 1..Len(q), q[i][1] = s PROVE FALSE
    BY DEF Waits
  <2>1. q[i][2] \in Nat /\ q[i][2] >= n
    BY DEF Typed, Entries, Depths
  <2>2. DistanceIs(g, s, q[i][2])
    BY DEF Queued
  <2>3. q[i][2] = k
    BY <2>1, <2>2, <1>8, <1>9, OneDistance
  <2>. QED  BY <2>1, <2>3, <1>1, <1>6, <1>9
<1>11. PICK l \in Depths : DistanceIs(g, s, l) /\ (l < MaxDepth => Successors(g, s) \subseteq V)
  BY <1>6, <1>7, <1>10 DEF Closed
<1>12. l \in Nat /\ l = k
  BY <1>8, <1>9, <1>11, OneDistance DEF Depths
<1>13. l < MaxDepth
  BY <1>1, <1>6, <1>9, <1>12
<1>. QED  BY <1>7, <1>11, <1>13

-----------------------------------------------------------------------------
(* One step of a breadth-first search *)

\* A breadth-first search takes the first entry of q and puts w away: p is left.
Advanced(q, p, w) ==
  /\ p \in Seq(Entries) /\ Len(p) = Len(q) - 1 + Len(w)
  /\ \A i \in 1..(Len(q) - 1) : p[i] = q[i + 1]
  /\ \A i \in 1..Len(w) : p[Len(q) - 1 + i] = <<w[i], q[1][2] + 1>>

\* w are the new states N after the entry e.
NewAfter(g, e, V, w, N) ==
  /\ Enumerates(w, N) /\ N \subseteq Nodes
  /\ N \cap V = {} /\ N \subseteq Successors(g, e[1])
  /\ e[2] < MaxDepth => Successors(g, e[1]) \subseteq V \cup N
  /\ e[2] >= MaxDepth => N = {}

LEMMA Origins ==
  ASSUME NEW q \in Seq(Entries), q # <<>>, NEW p, NEW w, NEW N, Enumerates(w, N), Advanced(q, p, w)
  PROVE  \A i \in 1..Len(p) :
           \/ i + 1 \in 2..Len(q) /\ p[i] = q[i + 1]
           \/ i >= Len(q) /\ \E j \in 1..Len(w) : i = Len(q) - 1 + j /\ p[i] = <<w[j], q[1][2] + 1>>
<1>. SUFFICES ASSUME NEW i \in 1..Len(p), i >= Len(q)
              PROVE  \E j \in 1..Len(w) : i = Len(q) - 1 + j /\ p[i] = <<w[j], q[1][2] + 1>>
  BY DEF Advanced
<1>1. Len(w) \in Nat /\ Len(q) \in Nat /\ Len(p) = Len(q) - 1 + Len(w)
  BY DEF Enumerates, Advanced
<1>2. PICK j \in 1..Len(w) : i = Len(q) - 1 + j
  <2>1. i - Len(q) + 1 \in 1..Len(w)
    BY <1>1
  <2>. QED  BY <1>1, <2>1
<1>3. p[i] = <<w[j], q[1][2] + 1>>
  BY <1>2 DEF Advanced
<1>. QED  BY <1>2, <1>3

LEMMA HeadOf ==
  ASSUME NEW g, NEW q, NEW V, Typed(q, V), q # <<>>
  PROVE  /\ q \in Seq(Entries) /\ Len(q) \in Nat /\ 1 \in 1..Len(q)
         /\ \A i \in 1..Len(q) : q[i][1] \in Nodes /\ q[i][2] \in Depths /\ q[i][2] \in Nat
<1>1. q \in Seq(Entries) /\ Len(q) \in Nat /\ 1 \in 1..Len(q)
  BY DEF Typed
<1>2. \A i \in 1..Len(q) : q[i] \in Entries
  BY <1>1
<1>. QED  BY <1>1, <1>2, ExplorerAssumption DEF Entries, Depths

\* The states waiting afterwards.
LEMMA WaitingNext ==
  ASSUME NEW g, NEW q, NEW V, Typed(q, V), Queued(g, q, V), q # <<>>,
         NEW p, NEW w, NEW N, NewAfter(g, q[1], V, w, N), Advanced(q, p, w), NEW s \in V \cup N
  PROVE  ~ Waits(p, s) <=> s \in V /\ (~ Waits(q, s) \/ s = q[1][1])
<1>1. q \in Seq(Entries) /\ Len(q) \in Nat /\ 1 \in 1..Len(q)
  BY HeadOf
<1>2. Enumerates(w, N) /\ N \cap V = {}
  BY DEF NewAfter
<1>3. Len(w) \in Nat /\ Len(p) \in Nat /\ Len(p) = Len(q) - 1 + Len(w)
  BY <1>1, <1>2 DEF Advanced, Enumerates
<1>4. CASE s \in N
  <2>1. PICK j \in 1..Len(w) : w[j] = s
    BY <1>2, <1>4 DEF Enumerates
  <2>2. PICK i \in 1..Len(p) : i = Len(q) - 1 + j
    BY <1>1, <1>3
  <2>3. p[i][1] = s
    BY <2>1, <2>2 DEF Advanced
  <2>. QED  BY <1>2, <1>4, <2>3 DEF Waits
<1>5. CASE s \in V /\ s # q[1][1] /\ Waits(q, s)
  <2>1. PICK i \in 1..Len(q) : q[i][1] = s
    BY <1>5 DEF Waits
  <2>2. PICK j \in 1..(Len(q) - 1) : i = j + 1
    <3>1. i - 1 \in 1..(Len(q) - 1)
      BY <1>1, <1>5, <2>1
    <3>. QED  BY <1>1, <3>1
  <2>3. p[j][1] = s /\ j \in 1..Len(p)
    BY <1>1, <1>3, <2>1, <2>2 DEF Advanced
  <2>. QED  BY <1>5, <2>3 DEF Waits
<1>6. CASE s \in V /\ (s = q[1][1] \/ ~ Waits(q, s))
  <2>. SUFFICES ASSUME NEW i \in 1..Len(p), p[i][1] = s PROVE FALSE
    BY <1>6 DEF Waits
  <2>1. CASE i + 1 \in 2..Len(q) /\ p[i] = q[i + 1]
    <3>1. PICK j \in 1..Len(q) : j = i + 1 /\ 1 < j
      BY <2>1, <1>1
    <3>2. q[j][1] = s
      BY <2>1, <3>1
    <3>3. s = q[1][1]
      BY <3>2, <1>6 DEF Waits
    <3>. QED  BY <3>1, <3>2, <3>3, <1>1 DEF Queued
  <2>2. CASE \E j \in 1..Len(w) : i = Len(q) - 1 + j /\ p[i] = <<w[j], q[1][2] + 1>>
    <3>1. PICK j \in 1..Len(w) : s = w[j]
      BY <2>2
    <3>2. s \in N
      BY <3>1, <1>2 DEF Enumerates
    <3>. QED  BY <3>2, <1>2, <1>6
  <2>3. \/ i + 1 \in 2..Len(q) /\ p[i] = q[i + 1]
        \/ \E j \in 1..Len(w) : i = Len(q) - 1 + j /\ p[i] = <<w[j], q[1][2] + 1>>
    BY <1>1, <1>2, Origins
  <2>. QED  BY <2>1, <2>2, <2>3
<1>. QED  BY <1>4, <1>5, <1>6

\* A new state is one deeper than the one it follows.
LEMMA NewIsNext ==
  ASSUME NEW g \in Searches, NEW q, NEW V, Typed(q, V), Queued(g, q, V), Closed(g, q, V), q # <<>>,
         NEW w, NEW N, NewAfter(g, q[1], V, w, N), NEW x \in N
  PROVE  q[1][2] < MaxDepth /\ DistanceIs(g, x, q[1][2] + 1)
<1>. DEFINE d == q[1][2]
            s == q[1][1]
<1>1. 1 \in 1..Len(q) /\ d \in Nat /\ d \in Depths
  BY HeadOf
<1>2. d < MaxDepth
  BY <1>1, ExplorerAssumption DEF NewAfter
<1>3. x \in Successors(g, s) /\ x \notin V
  BY DEF NewAfter
<1>4. DistanceIs(g, s, d)
  BY <1>1 DEF Queued
<1>5. s \in ReachedIn(g)[d]
  BY <1>4 DEF DistanceIs
<1>. HIDE DEF d, s
<1>6. x \in ReachedIn(g)[d + 1]
  BY <1>1, <1>2, <1>3, <1>5, StepsOn
<1>7. ASSUME NEW m \in 0..d PROVE x \notin ReachedIn(g)[m]
  <2>1. m \in Depths /\ m <= d
    BY <1>1, <1>2, ExplorerAssumption DEF Depths
  <2>2. ASSUME NEW i \in 1..Len(q) PROVE q[i][2] >= m
    <3>1. q[i][2] \in Nat /\ (i = 1 \/ 1 < i)
      BY HeadOf
    <3>2. q[1][2] <= q[i][2]
      BY <3>1, <1>1 DEF Queued, d
    <3>. QED  BY <1>1, <2>1, <3>1, <3>2 DEF d
  <2>3. ReachedIn(g)[m] \subseteq V
    BY <2>1, <2>2, Covered
  <2>. QED  BY <2>3, <1>3
<1>8. (d + 1) - 1 = d
  BY <1>1
<1>. QED  BY <1>2, <1>6, <1>7, <1>8 DEF DistanceIs, d

LEMMA QueuedNext ==
  ASSUME NEW g \in Searches, NEW q, NEW V, Typed(q, V), Queued(g, q, V), Closed(g, q, V), q # <<>>,
         NEW p, NEW w, NEW N, NewAfter(g, q[1], V, w, N), Advanced(q, p, w)
  PROVE  Queued(g, p, V \cup N)
<1>. DEFINE d == q[1][2]
            Old(i) == i + 1 \in 2..Len(q) /\ p[i] = q[i + 1]
            New(i) == \E j \in 1..Len(w) : i = Len(q) - 1 + j /\ p[i] = <<w[j], d + 1>>
<1>1. /\ q \in Seq(Entries) /\ Len(q) \in Nat /\ 1 \in 1..Len(q) /\ d \in Nat
      /\ \A i \in 1..Len(q) : q[i][2] \in Nat
  BY HeadOf
<1>2. Enumerates(w, N) /\ N \cap V = {}
  BY DEF NewAfter
<1>3. \A i \in 1..Len(p) : Old(i) \/ (i >= Len(q) /\ New(i))
  BY <1>1, <1>2, Origins
<1>4. ASSUME NEW i \in 1..Len(q)
      PROVE  /\ q[i][2] \in {d, d + 1}
             /\ q[i][1] \in V /\ DistanceIs(g, q[i][1], q[i][2])
  <2>1. i = 1 \/ 1 < i
    OBVIOUS
  <2>2. d <= q[i][2] /\ q[i][2] <= d + 1
    BY <1>1, <2>1 DEF Queued
  <2>. QED  BY <1>1, <2>2 DEF Queued
<1>5. ASSUME NEW x \in N PROVE DistanceIs(g, x, d + 1)
  BY <1>5, NewIsNext
<1>6. ASSUME NEW i \in 1..Len(p), Old(i)
      PROVE  p[i][2] \in {d, d + 1} /\ p[i][1] \in V /\ DistanceIs(g, p[i][1], p[i][2])
  <2>1. PICK k \in 1..Len(q) : p[i] = q[k]
    BY <1>1, <1>6
  <2>. QED  BY <2>1, <1>4
<1>7. ASSUME NEW i \in 1..Len(p), New(i)
      PROVE  p[i][2] = d + 1 /\ p[i][1] \in N /\ DistanceIs(g, p[i][1], p[i][2])
  <2>1. PICK x \in N : p[i] = <<x, d + 1>>
    BY <1>2, <1>7 DEF Enumerates
  <2>2. p[i][1] = x /\ p[i][2] = d + 1
    BY <2>1
  <2>. QED  BY <2>2, <1>5
<1>8. ASSUME NEW i \in 1..Len(p), NEW j \in 1..Len(p), i < j
      PROVE  p[i][2] <= p[j][2] /\ p[i][1] # p[j][1]
  <2>1. CASE Old(i) /\ Old(j)
    <3>1. PICK k \in 1..Len(q), l \in 1..Len(q) : k = i + 1 /\ l = j + 1
      BY <1>1, <2>1
    <3>2. k < l /\ p[i] = q[k] /\ p[j] = q[l]
      BY <1>8, <2>1, <3>1
    <3>. QED  BY <3>2 DEF Queued
  <2>2. CASE Old(i) /\ New(j)
    <3>1. p[i][1] \in V /\ p[j][1] \in N /\ p[j][2] = d + 1 /\ p[i][2] \in {d, d + 1}
      BY <2>2, <1>6, <1>7
    <3>. QED  BY <3>1, <1>1, <1>2
  <2>3. CASE New(i) /\ New(j)
    <3>1. PICK k \in 1..Len(w) : i = Len(q) - 1 + k /\ p[i] = <<w[k], d + 1>>
      BY <2>3
    <3>2. PICK l \in 1..Len(w) : j = Len(q) - 1 + l /\ p[j] = <<w[l], d + 1>>
      BY <2>3
    <3>3. k # l
      BY <1>1, <1>8, <3>1, <3>2
    <3>4. w[k] # w[l]
      BY <3>3, <1>2 DEF Enumerates
    <3>. QED  BY <3>1, <3>2, <3>4, <1>1
  <2>4. ~ (i >= Len(q) /\ Old(j))
    BY <1>1, <1>8
  <2>. QED  BY <1>3, <2>1, <2>2, <2>3, <2>4
<1>9. ASSUME NEW i \in 1..Len(p)
      PROVE  p[i][2] \in {d, d + 1} /\ p[i][1] \in V \cup N /\ DistanceIs(g, p[i][1], p[i][2])
  BY <1>3, <1>6, <1>7
<1>10. ASSUME NEW i \in 1..Len(p), NEW j \in 1..Len(p) PROVE p[j][2] <= p[i][2] + 1
  <2>1. (p[i][2] = d \/ p[i][2] = d + 1) /\ (p[j][2] = d \/ p[j][2] = d + 1)
    BY <1>9
  <2>. HIDE DEF d
  <2>. QED  BY <1>1, <2>1
<1>. QED  BY <1>8, <1>9, <1>10 DEF Queued

LEMMA ClosedNext ==
  ASSUME NEW g \in Searches, NEW q, NEW V, Typed(q, V), Queued(g, q, V), Closed(g, q, V), q # <<>>,
         NEW p, NEW w, NEW N, NewAfter(g, q[1], V, w, N), Advanced(q, p, w)
  PROVE  Closed(g, p, V \cup N)
<1>. SUFFICES ASSUME NEW s \in V \cup N, ~ Waits(p, s)
              PROVE  \E n \in Depths : /\ DistanceIs(g, s, n)
                                       /\ n < MaxDepth => Successors(g, s) \subseteq V \cup N
  BY DEF Closed
<1>1. s \in V /\ (~ Waits(q, s) \/ s = q[1][1])
  BY WaitingNext
<1>2. CASE ~ Waits(q, s)
  BY <1>1, <1>2 DEF Closed
<1>3. CASE s = q[1][1]
  <2>1. 1 \in 1..Len(q) /\ q[1][2] \in Depths
    BY HeadOf
  <2>2. DistanceIs(g, s, q[1][2])
    BY <1>3, <2>1 DEF Queued
  <2>3. q[1][2] < MaxDepth => Successors(g, s) \subseteq V \cup N
    BY <1>3 DEF NewAfter
  <2>. QED  BY <2>1, <2>2, <2>3
<1>. QED  BY <1>1, <1>2, <1>3

\* F2 is F with the failing state that was taken.
Tells(g, e, F, F2) ==
  \A s \in Nodes, n \in Depths :
    <<"violation", s, n>> \in F2
      <=> <<"violation", s, n>> \in F \/ (s \in g.bad /\ s = e[1] /\ n = e[2])

LEMMA ToldNext ==
  ASSUME NEW g \in Searches, NEW q, NEW V, Typed(q, V), Queued(g, q, V), Closed(g, q, V), q # <<>>,
         NEW p, NEW w, NEW N, NewAfter(g, q[1], V, w, N), Advanced(q, p, w),
         NEW F, NEW F2, ToldOf(g, q, V, F), Tells(g, q[1], F, F2)
  PROVE  ToldOf(g, p, V \cup N, F2)
<1>. SUFFICES ASSUME NEW s \in Nodes, NEW n \in Depths
              PROVE  <<"violation", s, n>> \in F2
                       <=> s \in g.bad /\ s \in V \cup N /\ ~ Waits(p, s) /\ DistanceIs(g, s, n)
  BY DEF ToldOf
<1>1. <<"violation", s, n>> \in F2
        <=> <<"violation", s, n>> \in F \/ (s \in g.bad /\ s = q[1][1] /\ n = q[1][2])
  BY DEF Tells
<1>2. <<"violation", s, n>> \in F <=> s \in g.bad /\ s \in V /\ ~ Waits(q, s) /\ DistanceIs(g, s, n)
  BY DEF ToldOf
<1>3. (s \in V \cup N /\ ~ Waits(p, s)) <=> (s \in V /\ (~ Waits(q, s) \/ s = q[1][1]))
  <2>1. CASE s \in V \cup N
    BY <2>1, WaitingNext
  <2>2. CASE s \notin V \cup N
    BY <2>2
  <2>. QED  BY <2>1, <2>2
<1>4. s = q[1][1] => s \in V /\ (DistanceIs(g, s, n) <=> n = q[1][2])
  <2>. SUFFICES ASSUME s = q[1][1] PROVE s \in V /\ (DistanceIs(g, s, n) <=> n = q[1][2])
    OBVIOUS
  <2>1. 1 \in 1..Len(q) /\ q[1][2] \in Nat /\ n \in Nat
    BY HeadOf DEF Depths
  <2>2. s \in V /\ DistanceIs(g, s, q[1][2])
    BY <2>1 DEF Queued
  <2>3. DistanceIs(g, s, n) => n = q[1][2]
    BY <2>1, <2>2, OneDistance
  <2>. QED  BY <2>2, <2>3
<1>. QED  BY <1>1, <1>2, <1>3, <1>4

-----------------------------------------------------------------------------
(* The steps *)

ExplorerInv ==
  /\ search \in Searches /\ Typed(open, met) /\ Sound(search, open, found)
  /\ search.how = "bfs" =>
       Queued(search, open, met) /\ Closed(search, open, met) /\ ToldOf(search, open, met, found)

LEMMA TakesOne ==
  ASSUME ExplorerInv, open # <<>>
  PROVE  /\ \E i \in 1..Len(open) : Taken = open[i]
         /\ Rest \in Seq(Entries)
         /\ \A i \in 1..Len(Rest) : \E j \in 1..Len(open) : Rest[i] = open[j]
         /\ search.how = "bfs" =>
              /\ Taken = open[1] /\ Len(Rest) = Len(open) - 1
              /\ \A i \in 1..(Len(open) - 1) : Rest[i] = open[i + 1]
<1>1. open \in Seq(Entries) /\ Len(open) \in Nat /\ Len(open) >= 1
  BY DEF ExplorerInv, Typed
<1>2. Head(open) = open[1] /\ 1 \in 1..Len(open) /\ Len(open) \in 1..Len(open)
  BY <1>1
<1>3. /\ Tail(open) \in Seq(Entries) /\ Len(Tail(open)) = Len(open) - 1
      /\ \A i \in 1..(Len(open) - 1) : Tail(open)[i] = open[i + 1] /\ i + 1 \in 1..Len(open)
  BY <1>1
<1>4. /\ Front(open) \in Seq(Entries) /\ Len(Front(open)) = Len(open) - 1
      /\ \A i \in 1..(Len(open) - 1) : Front(open)[i] = open[i] /\ i \in 1..Len(open)
  <2>. DEFINE n == Len(open) - 1
  <2>1. n \in Nat /\ n <= Len(open)
    BY <1>1
  <2>2. Front(open) = SubSeq(open, 1, n)
    BY DEF Front
  <2>. HIDE DEF n
  <2>3. /\ Front(open) \in Seq(Entries) /\ Len(Front(open)) = n
        /\ \A i \in 1..n : Front(open)[i] = open[i] /\ i \in 1..Len(open)
    BY <1>1, <2>1, <2>2, SubSeqProperties
  <2>. QED  BY <2>3 DEF n
<1>5. CASE search.how = "bfs"
  <2>1. Taken = open[1] /\ Rest = Tail(open)
    BY <1>2, <1>5 DEF Taken, Rest
  <2>. QED  BY <2>1, <1>2, <1>3
<1>6. CASE search.how # "bfs"
  <2>1. Taken = open[Len(open)]
    BY <1>6 DEF Taken
  <2>2. Rest = Tail(open) \/ Rest = Front(open)
    BY DEF Rest
  <2>. QED  BY <1>6, <2>1, <2>2, <1>2, <1>3, <1>4
<1>. QED  BY <1>5, <1>6

\* p is r, and w one deeper than d.
Puts(p, r, w, d) ==
  /\ p \in Seq(Entries) /\ Len(p) = Len(r) + Len(w)
  /\ \A i \in 1..Len(r) : p[i] = r[i]
  /\ \A i \in 1..Len(w) : p[Len(r) + i] = <<w[i], d + 1>>

\* What is found of the entry e, or raised.
Finds(F, F2, e) == \A f \in F2 : f \in F \/ f[1] = "raised" \/ (f[2] = e[1] /\ f[3] = e[2])

\* Every step takes one entry and puts the new states after it away.
Takes(w, N) ==
  /\ open # <<>> /\ search' = search /\ met' = met \cup N
  /\ NewAfter(search, Taken, met, w, N)
  /\ Puts(open', Rest, w, Taken[2])
  /\ Tells(search, Taken, found, found') /\ Finds(found, found', Taken)

LEMMA SoundNext == ASSUME ExplorerInv, NEW w, NEW N, Takes(w, N) PROVE Sound(search, open', found')
<1>. DEFINE g == search
            e == Taken
<1>1. PICK k \in 1..Len(open) : e = open[k]
  BY TakesOne DEF Takes
<1>2. e[1] \in ReachedIn(g)[e[2]] /\ \A i \in 1..Len(open) : open[i][1] \in ReachedIn(g)[open[i][2]]
  BY <1>1 DEF ExplorerInv, Sound
<1>3. e[2] \in Depths /\ e[2] \in Nat
  BY <1>1, HeadOf DEF ExplorerInv, Takes
<1>4. /\ Enumerates(w, N) /\ N \subseteq Successors(g, e[1]) /\ (e[2] >= MaxDepth => N = {})
      /\ Puts(open', Rest, w, e[2]) /\ Finds(found, found', e)
  BY DEF Takes, NewAfter
<1>. HIDE DEF e, g
<1>5. ASSUME NEW x \in N PROVE x \in ReachedIn(g)[e[2] + 1]
  <2>1. e[2] < MaxDepth
    BY <1>3, <1>4, ExplorerAssumption
  <2>. QED  BY <2>1, <1>2, <1>3, <1>4, StepsOn
<1>6. Rest \in Seq(Entries) /\ Len(Rest) \in Nat /\ Len(w) \in Nat
      /\ \A i \in 1..Len(Rest) : \E j \in 1..Len(open) : Rest[i] = open[j]
  BY <1>4, TakesOne DEF Takes, Enumerates
<1>7. ASSUME NEW i \in 1..Len(open') PROVE open'[i][1] \in ReachedIn(g)[open'[i][2]]
  <2>1. CASE i \in 1..Len(Rest)
    <3>1. PICK j \in 1..Len(open) : open'[i] = open[j]
      BY <2>1, <1>4, <1>6 DEF Puts
    <3>. QED  BY <3>1, <1>2
  <2>2. CASE i \notin 1..Len(Rest)
    <3>1. PICK j \in 1..Len(w) : i = Len(Rest) + j
      <4>1. Len(open') = Len(Rest) + Len(w)
        BY <1>4 DEF Puts
      <4>2. PICK a, b \in Nat : a = Len(Rest) /\ b = Len(w)
        BY <1>6
      <4>3. i \in Nat /\ i - a \in 1..b
        BY <4>1, <4>2, <2>2
      <4>4. i - a \in 1..b /\ i = a + (i - a)
        BY <4>2, <4>3
      <4>. QED  BY <4>2, <4>4
    <3>2. PICK x \in N : open'[i] = <<x, e[2] + 1>>
      <4>1. w[j] \in N
        BY <1>4 DEF Enumerates
      <4>2. open'[i] = <<w[j], e[2] + 1>>
        BY <3>1, <1>4 DEF Puts
      <4>. QED  BY <4>1, <4>2
    <3>3. open'[i][1] = x /\ open'[i][2] = e[2] + 1
      BY <3>2
    <3>. QED  BY <3>3, <1>5
  <2>. QED  BY <2>1, <2>2
<1>8. ASSUME NEW f \in found', f[1] # "raised" PROVE f[2] \in ReachedIn(g)[f[3]]
  <2>1. CASE f \in found
    BY <2>1, <1>8 DEF ExplorerInv, Sound, g
  <2>2. CASE f[2] = e[1] /\ f[3] = e[2]
    BY <2>2, <1>2
  <2>. QED  BY <1>4, <1>8, <2>1, <2>2 DEF Finds
<1>. QED  BY <1>7, <1>8 DEF Sound, g

LEMMA TakesKeep == ASSUME ExplorerInv, NEW w, NEW N, Takes(w, N) PROVE ExplorerInv'
<1>. DEFINE g == search
            q == open
            V == met
<1>1. g \in Searches /\ Typed(q, V) /\ q # <<>> /\ search' = g /\ met' = V \cup N
  BY DEF ExplorerInv, Takes
<1>2. Sound(g, open', found')
  BY SoundNext
<1>3. Typed(open', met')
  <2>1. open' \in Seq(Entries) /\ N \subseteq Nodes
    BY DEF Takes, Puts, NewAfter
  <2>. QED  BY <2>1, <1>1 DEF Typed
<1>4. ASSUME g.how = "bfs"
      PROVE  Queued(g, open', V \cup N) /\ Closed(g, open', V \cup N) /\ ToldOf(g, open', V \cup N, found')
  <2>1. Taken = q[1] /\ Len(Rest) = Len(q) - 1 /\ \A i \in 1..(Len(q) - 1) : Rest[i] = q[i + 1]
    BY <1>1, <1>4, TakesOne
  <2>2. Advanced(q, open', w)
    BY <2>1 DEF Takes, Puts, Advanced
  <2>3. NewAfter(g, q[1], V, w, N) /\ Tells(g, q[1], found, found')
    BY <2>1 DEF Takes
  <2>4. Queued(g, q, V) /\ Closed(g, q, V) /\ ToldOf(g, q, V, found)
    BY <1>4 DEF ExplorerInv
  <2>. HIDE DEF g, q, V
  <2>5. PICK p, F : p = open' /\ F = found'
    OBVIOUS
  <2>6. Queued(g, p, V \cup N)
    BY <1>1, <2>2, <2>3, <2>4, <2>5, QueuedNext
  <2>7. Closed(g, p, V \cup N)
    BY <1>1, <2>2, <2>3, <2>4, <2>5, ClosedNext
  <2>8. ToldOf(g, p, V \cup N, F)
    BY <1>1, <2>2, <2>3, <2>4, <2>5, ToldNext
  <2>. QED  BY <2>5, <2>6, <2>7, <2>8
<1>5. (search.how)' = g.how
  BY <1>1
<1>. QED  BY <1>1, <1>2, <1>3, <1>4, <1>5 DEF ExplorerInv, Queued, Closed, ToldOf, Sound, Typed, g

LEMMA NothingNew ==
  ASSUME ExplorerInv, open # <<>>, search' = search, met' = met, open' = Rest,
         Successors(search, Taken[1]) = {} \/ Taken[2] >= MaxDepth,
         Tells(search, Taken, found, found'), Finds(found, found', Taken)
  PROVE  ExplorerInv'
<1>1. PICK k \in 1..Len(open) : Taken = open[k]
  BY TakesOne
<1>2. Taken[2] \in Nat
  BY <1>1, HeadOf DEF ExplorerInv
<1>3. Enumerates(<<>>, {})
  BY DEF Enumerates
<1>4. NewAfter(search, Taken, met, <<>>, {})
  BY <1>2, <1>3, ExplorerAssumption DEF NewAfter
<1>5. Rest \in Seq(Entries)
  BY TakesOne
<1>6. Puts(open', Rest, <<>>, Taken[2])
  BY <1>5 DEF Puts
<1>7. Takes(<<>>, {})
  BY <1>4, <1>6 DEF Takes
<1>. QED  BY <1>7, TakesKeep

\* What the entry that is taken may be.
LEMMA TakenIs ==
  ASSUME ExplorerInv, open # <<>>
  PROVE  /\ Taken[1] \in Nodes /\ Taken[2] \in Nat /\ Taken[2] \in Depths
         /\ search.graph[Taken[1]] \in Seq(Nodes \cup {Raises})
<1>1. PICK k \in 1..Len(open) : Taken = open[k]
  BY TakesOne
<1>2. Taken[1] \in Nodes /\ Taken[2] \in Nat /\ Taken[2] \in Depths
  BY <1>1, HeadOf DEF ExplorerInv
<1>3. search.graph \in [Nodes -> Seq(Nodes \cup {Raises})]
  BY ExplorerAssumption DEF ExplorerInv, Searches
<1>. QED  BY <1>2, <1>3

LEMMA ViolatingKeeps == ExplorerInv /\ ViolatingState => ExplorerInv'
<1>. SUFFICES ASSUME ExplorerInv, ViolatingState PROVE ExplorerInv'
  OBVIOUS
<1>1. /\ open # <<>> /\ Taken[1] \in search.bad /\ open' = Rest /\ search' = search /\ met' = met
      /\ found' = found \cup {<<"violation", Taken[1], Taken[2]>>}
  BY DEF ViolatingState, More
<1>2. Successors(search, Taken[1]) = {}
  BY <1>1 DEF Successors
<1>3. Tells(search, Taken, found, found')
  BY <1>1 DEF Tells
<1>4. Finds(found, found', Taken)
  BY <1>1 DEF Finds
<1>. QED  BY <1>1, <1>2, <1>3, <1>4, NothingNew

LEMMA DepthKeeps == ExplorerInv /\ DepthReached => ExplorerInv'
<1>. SUFFICES ASSUME ExplorerInv, DepthReached PROVE ExplorerInv'
  OBVIOUS
<1>1. /\ open # <<>> /\ Taken[1] \notin search.bad /\ Taken[2] >= MaxDepth
      /\ open' = Rest /\ search' = search /\ met' = met /\ found' = found
  BY DEF DepthReached, More
<1>2. Tells(search, Taken, found, found') /\ Finds(found, found', Taken)
  BY <1>1 DEF Tells, Finds
<1>. QED  BY <1>1, <1>2, NothingNew

LEMMA DeadlockKeeps == ExplorerInv /\ Deadlocked => ExplorerInv'
<1>. SUFFICES ASSUME ExplorerInv, Deadlocked PROVE ExplorerInv'
  OBVIOUS
<1>1. /\ open # <<>> /\ Taken[1] \notin search.bad /\ search.graph[Taken[1]] = <<>>
      /\ open' = Rest /\ search' = search /\ met' = met
      /\ found' = found \cup {<<"deadlock", Taken[1], Taken[2]>>}
  BY DEF Deadlocked, More
<1>2. Successors(search, Taken[1]) = {}
  BY <1>1 DEF Successors, ToSet
<1>3. Tells(search, Taken, found, found')
  BY <1>1 DEF Tells
<1>4. Finds(found, found', Taken)
  BY <1>1 DEF Finds
<1>. QED  BY <1>1, <1>2, <1>3, <1>4, NothingNew

\* Both searches look at the same next states, in opposite orders.
LEMMA SameNext ==
  ASSUME NEW s, search.graph[s] \in Seq(Nodes \cup {Raises})
  PROVE  /\ NextStates(s) \in Seq(Nodes \cup {Raises})
         /\ {NextStates(s)[i] : i \in 1..Len(NextStates(s))} = ToSet(search.graph[s])
<1>. DEFINE q == search.graph[s]
            n == Len(q)
            r == [i \in 1..n |-> q[n - i + 1]]
<1>1. n \in Nat /\ DOMAIN q = 1..n /\ q \in Seq(Nodes \cup {Raises})
  OBVIOUS
<1>2. CASE NextStates(s) = q
  BY <1>1, <1>2 DEF ToSet
<1>3. CASE NextStates(s) = r
  <2>. HIDE DEF q, n
  <2>1. \A i \in 1..n : n - i + 1 \in 1..n
    BY <1>1
  <2>2. r \in Seq(Nodes \cup {Raises}) /\ Len(r) = n
    BY <1>1, <2>1 DEF n
  <2>3. ASSUME NEW x \in ToSet(q) PROVE \E i \in 1..n : r[i] = x
    <3>1. PICK i \in 1..n : q[i] = x
      BY <1>1 DEF ToSet
    <3>2. PICK j \in 1..n : j = n - i + 1
      BY <2>1
    <3>3. n - j + 1 = i
      BY <1>1, <3>2
    <3>4. r[j] = x
      BY <3>1, <3>3
    <3>. QED  BY <3>4
  <2>4. ASSUME NEW i \in 1..n PROVE r[i] \in ToSet(q)
    BY <1>1, <2>1 DEF ToSet
  <2>5. {r[i] : i \in 1..n} = ToSet(q)
    BY <2>3, <2>4
  <2>. QED  BY <1>3, <2>2, <2>5 DEF q
<1>4. NextStates(s) = q \/ NextStates(s) = r
  BY DEF NextStates, Reverse
<1>. QED  BY <1>2, <1>3, <1>4

LEMMA ExpandKeeps == ExplorerInv /\ Expand => ExplorerInv'
<1>. SUFFICES ASSUME ExplorerInv, Expand PROVE ExplorerInv'
  OBVIOUS
<1>. DEFINE e == Taken
            s == e[1]
            q == NextStates(s)
            w == NewOf(q)
            N == {q[i] : i \in 1..Len(q)} \ (met \cup {Raises})
            new == [i \in 1..Len(w) |-> <<w[i], e[2] + 1>>]
<1>1. /\ open # <<>> /\ s \notin search.bad /\ e[2] < MaxDepth /\ search' = search
      /\ open' = Rest \o [i \in DOMAIN w |-> <<w[i], e[2] + 1>>]
      /\ met' = met \cup ToSet(w)
      /\ found' = (IF Contains(search.graph[s], Raises)
                   THEN found \cup {<<"raised", s, e[2] + 1>>} ELSE found)
  BY DEF Expand, More
<1>2. /\ s \in Nodes /\ e[2] \in Nat /\ e[2] \in Depths
      /\ search.graph[s] \in Seq(Nodes \cup {Raises})
  BY <1>1, TakenIs
<1>3. q \in Seq(Nodes \cup {Raises}) /\ {q[i] : i \in 1..Len(q)} = ToSet(search.graph[s])
  BY <1>2, SameNext
<1>4. Enumerates(w, N)
  BY <1>3, NewOnes
<1>5. Successors(search, s) = {q[i] : i \in 1..Len(q)} \ {Raises}
  BY <1>1, <1>3 DEF Successors
<1>6. N \subseteq Nodes
  BY <1>3
<1>. HIDE DEF w, q, s, e
<1>7. N \cap met = {} /\ N \subseteq Successors(search, s) /\ Successors(search, s) \subseteq met \cup N
  BY <1>5
<1>. HIDE DEF N
<1>8. NewAfter(search, e, met, w, N)
  BY <1>1, <1>2, <1>4, <1>6, <1>7, ExplorerAssumption DEF NewAfter, s
<1>9. w \in Seq(N) /\ DOMAIN w = 1..Len(w) /\ Len(w) \in Nat
  BY <1>4 DEF Enumerates
<1>10. ToSet(w) = N
  BY <1>4, <1>9 DEF ToSet, Enumerates
<1>11. new \in Seq(Entries) /\ Len(new) = Len(w) /\ \A i \in 1..Len(w) : new[i] = <<w[i], e[2] + 1>>
  <2>1. e[2] + 1 \in Depths
    BY <1>1, <1>2, ExplorerAssumption DEF Depths
  <2>2. \A i \in 1..Len(w) : <<w[i], e[2] + 1>> \in Entries
    BY <1>6, <1>9, <2>1 DEF Entries
  <2>. QED  BY <1>9, <2>2
<1>12. open' = Rest \o new
  BY <1>1, <1>9
<1>13. Rest \in Seq(Entries)
  BY <1>1, TakesOne
<1>. HIDE DEF new
<1>14. /\ open' \in Seq(Entries) /\ Len(open') = Len(Rest) + Len(new)
       /\ \A i \in 1..Len(Rest) : open'[i] = Rest[i]
       /\ \A i \in 1..Len(new) : open'[Len(Rest) + i] = new[i]
  <2>0. PICK a, b : a = Rest /\ b = new
    OBVIOUS
  <2>1. a \in Seq(Entries) /\ b \in Seq(Entries) /\ open' = a \o b
    BY <2>0, <1>11, <1>12, <1>13
  <2>2. /\ a \o b \in Seq(Entries) /\ Len(a \o b) = Len(a) + Len(b)
        /\ \A i \in 1..(Len(a) + Len(b)) : (a \o b)[i] = IF i <= Len(a) THEN a[i] ELSE b[i - Len(a)]
    BY <2>1, ConcatProperties, Zenon
  <2>3. \A i \in 1..Len(a) : open'[i] = a[i]
    BY <2>1, <2>2
  <2>4. \A i \in 1..Len(b) : open'[Len(a) + i] = b[i]
    <3>. TAKE i \in 1..Len(b)
    <3>1. PICK k \in 1..(Len(a) + Len(b)) : k = Len(a) + i /\ ~ (k <= Len(a)) /\ k - Len(a) = i
      BY <2>1
    <3>. QED  BY <3>1, <2>1, <2>2
  <2>. QED  BY <2>0, <2>1, <2>2, <2>3, <2>4
<1>15. Puts(open', Rest, w, e[2])
  BY <1>11, <1>14 DEF Puts
<1>16. Tells(search, e, found, found') /\ Finds(found, found', e)
  <2>1. Tells(search, e, found, found')
    BY <1>1 DEF Tells, s
  <2>2. Finds(found, found', e)
    BY <1>1 DEF Finds
  <2>. QED  BY <2>1, <2>2
<1>17. Takes(w, N)
  BY <1>1, <1>8, <1>10, <1>15, <1>16 DEF Takes, e
<1>. QED  BY <1>17, TakesKeep

LEMMA ExplorerStarts == ExplorerInit => ExplorerInv
<1>. SUFFICES ASSUME ExplorerInit PROVE ExplorerInv
  OBVIOUS
<1>1. search \in Searches /\ open = <<<<Root, 0>>>> /\ met = {Root} /\ found = {}
  BY DEF ExplorerInit, Searches
<1>2. Len(open) = 1 /\ open[1] = <<Root, 0>> /\ open[1][1] = Root /\ open[1][2] = 0
  BY <1>1
<1>3. Typed(open, met)
  <2>1. <<Root, 0>> \in Entries
    BY ExplorerAssumption DEF Entries, Depths
  <2>. QED  BY <1>1, <2>1, ExplorerAssumption DEF Typed
<1>4. Root \in ReachedIn(search)[0]
  BY Layers
<1>5. DistanceIs(search, Root, 0)
  BY <1>4 DEF DistanceIs
<1>6. Sound(search, open, found)
  BY <1>1, <1>2, <1>4 DEF Sound
<1>7. \A i \in 1..Len(open) : i = 1
  BY <1>2
<1>8. Queued(search, open, met)
  BY <1>1, <1>2, <1>5, <1>7 DEF Queued
<1>9. \A s \in met : Waits(open, s)
  BY <1>1, <1>2 DEF Waits
<1>10. Closed(search, open, met) /\ ToldOf(search, open, met, found)
  BY <1>1, <1>9 DEF Closed, ToldOf
<1>. QED  BY <1>1, <1>3, <1>6, <1>8, <1>10 DEF ExplorerInv

LEMMA ExplorerKeeps == ExplorerInv /\ [ExplorerNext]_explorerVars => ExplorerInv'
<1>. SUFFICES ASSUME ExplorerInv, [ExplorerNext]_explorerVars PROVE ExplorerInv'
  OBVIOUS
<1>1. CASE UNCHANGED explorerVars
  BY <1>1 DEF explorerVars, ExplorerInv, Typed, Sound, Queued, Closed, ToldOf
<1>. QED  BY <1>1, ViolatingKeeps, DepthKeeps, DeadlockKeeps, ExpandKeeps DEF ExplorerNext

LEMMA ExplorerShows == ExplorerInv => SearchComplete
<1>. SUFFICES ASSUME ExplorerInv PROVE SearchComplete
  OBVIOUS
<1>1. \A f \in found : f[1] # "raised" => f[2] \in ReachedIn(search)[f[3]]
  BY DEF ExplorerInv, Sound
<1>2. ASSUME search.how = "bfs", open = <<>>, NEW s \in Nodes, NEW n \in Depths
      PROVE  <<"violation", s, n>> \in found <=> s \in search.bad /\ DistanceIs(search, s, n)
  <2>1. Len(open) = 0
    BY <1>2
  <2>2. ~ Waits(open, s)
    BY <2>1 DEF Waits
  <2>3. <<"violation", s, n>> \in found <=> s \in search.bad /\ s \in met /\ DistanceIs(search, s, n)
    BY <1>2, <2>2 DEF ExplorerInv, ToldOf
  <2>4. ReachedIn(search)[n] \subseteq met
    <3>1. \A i \in 1..Len(open) : open[i][2] >= n
      BY <2>1
    <3>2. search \in Searches /\ Typed(open, met) /\ Queued(search, open, met) /\ Closed(search, open, met)
      BY <1>2 DEF ExplorerInv
    <3>. QED  BY <3>1, <3>2, Covered
  <2>5. DistanceIs(search, s, n) => s \in met
    BY <2>4 DEF DistanceIs
  <2>. QED  BY <2>3, <2>5
<1>. QED  BY <1>1, <1>2 DEF SearchComplete, Depths

\* Any finite or infinite graph whose states have finitely many next states, any depth and
\* budget: a breadth-first search that ends by itself has found the failing states within
\* its depth, each at its distance, and no search tells of what is not reached
\* (model_check.py:87-127, 144-194).
THEOREM SearchFindsAll == ExplorerSpec => []SearchComplete
<1>. QED  BY ExplorerStarts, ExplorerKeeps, ExplorerShows, PTL DEF ExplorerSpec
=============================================================================
