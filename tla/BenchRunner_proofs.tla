------------------------- MODULE BenchRunner_proofs -------------------------
(***************************************************************************)
(* That a pass is earned and results are honest, for any changes, answers, *)
(* test patches, limits and numbers of invocations.                        *)
(***************************************************************************)
EXTENDS BenchRunner, TLAPS

BenchSpec == BenchInit /\ [][BenchNext]_benchVars

Places == {"idle", "start", "iterate", "propose", "try", "apply", "gate", "quick", "full",
           "ended", "exited", "failed"}
Outcomes == {"NONE", "PASS", "FAIL", "ABORT", "GATE_REJECT", "RAISED", "TORN", "ERROR", "TIMEOUT"}
Patches == [changes : SUBSET Changes, garbled : BOOLEAN]
BenchResults == [status : Outcomes, patch : SUBSET Changes, tree : SUBSET Changes]
Benches ==
    [pc : Places, iter : Nat, final : SUBSET Changes, rejected : BOOLEAN, retry : BOOLEAN,
     todo : Seq(Patches), best : Patches, proposal : SUBSET Changes, result : BenchResults]

BenchTypeOK ==
    /\ tests \in SUBSET InTests /\ tree \in SUBSET Changes
    /\ bench \in Benches
    /\ resultFile \in BenchResults
    /\ batch \in [runs : Nat, status : Outcomes]

LEMMA BegunType == None \in BenchResults /\ Begun \in Benches
<1>1. None \in BenchResults
  BY DEF None, BenchResults, Outcomes
<1>. QED  BY <1>1 DEF Begun, Benches, Patches, Places

\* What the operators on trees and patches return.
LEMMA TreeTypes ==
  ASSUME BenchTypeOK
  PROVE  /\ Start \in SUBSET Changes
         /\ \A t \in SUBSET Changes : Reset(t) \in SUBSET Changes /\ Shown(t) \in SUBSET Changes
BY BenchSets DEF BenchTypeOK, Start, Reset, Shown, Tracked

LEMMA DiffedType == ASSUME BenchTypeOK, NEW a \in Answers PROVE Diffed(a) \in Patches
<1>1. a \in [whole : BOOLEAN, changes : SUBSET Changes, garbled : BOOLEAN]
  BY BenchSets
<1>2. CASE a.whole /\ a.changes \ Creates # {}
  <2>1. Diffed(a) = [changes |-> Tracked(Start \cup a.changes), garbled |-> FALSE]
    BY <1>2 DEF Diffed
  <2>2. Tracked(Start \cup a.changes) \in SUBSET Changes
    BY <1>1, TreeTypes DEF Tracked
  <2>. QED  BY <2>1, <2>2 DEF Patches
<1>3. CASE ~(a.whole /\ a.changes \ Creates # {})
  <2>1. Diffed(a) = [changes |-> a.changes, garbled |-> a.garbled \/ a.whole]
    BY <1>3 DEF Diffed
  <2>2. (a.garbled \/ a.whole) \in BOOLEAN
    BY <1>1
  <2>. QED  BY <1>1, <2>1, <2>2 DEF Patches
<1>. QED  BY <1>2, <1>3

\* Steps that only move on, end or raise.
LEMMA MoveTypes ==
  ASSUME BenchTypeOK
  PROVE  /\ \A p \in Places : Goto(p) => bench' \in Benches
         /\ \A s \in Outcomes, c \in SUBSET Changes : Ends(s, c) => bench' \in Benches
         /\ Raises => bench' \in Benches
         /\ NextIteration \in Benches /\ AfterReject \in Benches
<1>1. ASSUME NEW p \in Places, Goto(p) PROVE bench' \in Benches
  BY <1>1 DEF Goto, BenchTypeOK, Benches, Places
<1>2. ASSUME NEW s \in Outcomes, NEW c \in SUBSET Changes, Ends(s, c) PROVE bench' \in Benches
  <2>1. [status |-> s, patch |-> c, tree |-> tree] \in BenchResults
    BY DEF BenchResults, BenchTypeOK, Outcomes
  <2>. QED  BY <1>2, <2>1 DEF Ends, BenchTypeOK, Benches, Places, Outcomes
<1>3. ASSUME Raises PROVE bench' \in Benches
  <2>1. [None EXCEPT !.status = "RAISED"] \in BenchResults
    BY DEF None, BenchResults, Outcomes
  <2>. QED  BY <1>3, <2>1 DEF Raises, BenchTypeOK, Benches, Places
<1>4. NextIteration \in Benches
  BY DEF NextIteration, BenchTypeOK, Benches, Places
<1>5. AfterReject \in Benches
  BY <1>4 DEF AfterReject, Benches, Places
<1>. QED  BY <1>1, <1>2, <1>3, <1>4, <1>5

LEMMA TypeInit == BenchInit => BenchTypeOK
<1>. SUFFICES ASSUME BenchInit PROVE BenchTypeOK
  OBVIOUS
<1>1. None \in BenchResults /\ Begun \in Benches
  BY BegunType
<1>2. bench \in Benches
  BY <1>1 DEF BenchInit, Benches, Places
<1>3. tests \in SUBSET InTests /\ tree \in SUBSET Changes
  BY BenchSets DEF BenchInit
<1>4. batch \in [runs : Nat, status : Outcomes]
  BY DEF BenchInit, Outcomes
<1>. QED  BY <1>1, <1>2, <1>3, <1>4 DEF BenchInit, BenchTypeOK

\* Every step keeps the types.
LEMMA TypeNext == BenchTypeOK /\ [BenchNext]_benchVars => BenchTypeOK'
<1>. SUFFICES ASSUME BenchTypeOK, [BenchNext]_benchVars PROVE BenchTypeOK'
  OBVIOUS
<1>. USE DEF BenchTypeOK, Places, Outcomes
<1>0. bench \in Benches /\ bench.final \in SUBSET Changes /\ bench.best \in Patches
      /\ bench.todo \in Seq(Patches) /\ bench.result \in BenchResults
  BY DEF Benches, Places
<1>1. CASE Prepare
  BY <1>1, TreeTypes, MoveTypes DEF Prepare
<1>2. CASE BeginIteration
  <2>0. bench.iter + 1 \in Nat
    BY <1>0 DEF Benches
  <2>1. [bench EXCEPT !.pc = "propose", !.iter = bench.iter + 1, !.proposal = {}] \in Benches
    BY <1>0, <2>0 DEF Benches, Places
  <2>. QED  BY <1>2, <2>1, TreeTypes, MoveTypes DEF BeginIteration
<1>3. CASE RuntimeLimit
  BY <1>0, <1>3, MoveTypes DEF RuntimeLimit
<1>4. CASE Exhausted
  BY <1>0, <1>4, MoveTypes DEF Exhausted
<1>5. CASE ProposeFails
  BY <1>5, MoveTypes DEF ProposeFails
<1>6. CASE Propose
  <2>1. ASSUME NEW a \in Answers PROVE [bench EXCEPT !.pc = "apply", !.best = Diffed(a)] \in Benches
    BY <1>0, DiffedType DEF Benches, Places
  <2>2. ASSUME NEW a \in Answers, NEW b \in Answers
        PROVE  [bench EXCEPT !.pc = "try", !.todo = <<Diffed(a), Diffed(b)>>, !.best = Diffed(a)] \in Benches
    <3>1. Diffed(a) \in Patches /\ Diffed(b) \in Patches
      BY DiffedType
    <3>2. <<Diffed(a), Diffed(b)>> \in Seq(Patches)
      BY <3>1
    <3>. QED  BY <1>0, <3>1, <3>2 DEF Benches, Places
  <2>3. bench' \in Benches
    <3>1. CASE \E a \in Answers : bench' = [bench EXCEPT !.pc = "apply", !.best = Diffed(a)]
      BY <3>1, <2>1
    <3>2. CASE \E a, b \in Answers :
            bench' = [bench EXCEPT !.pc = "try", !.todo = <<Diffed(a), Diffed(b)>>, !.best = Diffed(a)]
      <4>1. PICK a \in Answers, b \in Answers :
              bench' = [bench EXCEPT !.pc = "try", !.todo = <<Diffed(a), Diffed(b)>>, !.best = Diffed(a)]
        BY <3>2
      <4>2. [bench EXCEPT !.pc = "try", !.todo = <<Diffed(a), Diffed(b)>>, !.best = Diffed(a)] \in Benches
        BY <2>2
      <4>. QED  BY <4>1, <4>2
    <3>. QED  BY <1>6, <3>1, <3>2 DEF Propose
  <2>4. tree' = Start /\ UNCHANGED <<tests, greens, resultFile, batch>>
    BY <1>6 DEF Propose
  <2>. QED  BY <2>3, <2>4, TreeTypes
<1>7. CASE TryCandidate
  <2>1. bench.todo # <<>> => Head(bench.todo) \in Patches /\ Tail(bench.todo) \in Seq(Patches)
    BY <1>0
  <2>2. bench.todo # <<>> => [bench EXCEPT !.pc = "apply", !.best = Head(bench.todo)] \in Benches
    BY <1>0, <2>1 DEF Benches, Places
  <2>3. bench.todo # <<>> => [bench EXCEPT !.todo = Tail(@)] \in Benches
    BY <1>0, <2>1 DEF Benches, Places
  <2>4. \A p \in SUBSET Changes : Reset(Start \cup p) \cup tests \in SUBSET Changes
    BY TreeTypes, BenchSets
  <2>5. bench.todo # <<>> => Head(bench.todo).changes \in SUBSET Changes
    BY <2>1 DEF Patches
  <2>. QED  BY <1>7, <2>2, <2>3, <2>4, <2>5 DEF TryCandidate
<1>8. CASE NoWinner
  BY <1>8, MoveTypes DEF NoWinner
<1>9. CASE Apply
  <2>1. bench.best.changes \in SUBSET Changes
    BY <1>0 DEF Patches
  <2>2. \A t \in SUBSET Changes :
            [bench EXCEPT !.pc = "gate", !.proposal = bench.best.changes, !.final = Shown(t)] \in Benches
    BY <1>0, <2>1, TreeTypes DEF Benches, Places
  <2>3. tree' \in SUBSET Changes
    BY <1>9, <2>1 DEF Apply
  <2>4. bench' \in Benches
    BY <1>9, <2>2, <2>3, MoveTypes DEF Apply
  <2>. QED  BY <1>9, <2>3, <2>4 DEF Apply
<1>10. CASE Gate
  <2>1. [bench EXCEPT !.pc = "quick", !.rejected = FALSE] \in Benches
    BY <1>0 DEF Benches, Places
  <2>. QED  BY <1>10, <2>1, MoveTypes DEF Gate
<1>11. CASE QuickTests
  BY <1>11, MoveTypes DEF QuickTests, RunTests
<1>12. CASE FullTests
  BY <1>0, <1>12, MoveTypes DEF FullTests, RunTests
<1>13. CASE Invoke
  BY <1>13, BegunType DEF Invoke
<1>14. CASE WriteResult
  <2>1. [None EXCEPT !.status = "ABORT"] \in BenchResults /\ Torn \in BenchResults
    BY DEF Torn, None, BenchResults
  <2>. QED  BY <1>0, <1>14, <2>1, MoveTypes DEF WriteResult
<1>15. CASE Collect
  <2>1. Report \in Outcomes
    BY DEF Report, BenchResults, Outcomes
  <2>. QED  BY <1>15, <2>1, MoveTypes DEF Collect
<1>16. CASE Kill
  <2>1. Torn \in BenchResults
    BY DEF Torn, None, BenchResults
  <2>. QED  BY <1>16, <2>1, MoveTypes DEF Kill
<1>17. CASE UNCHANGED benchVars
  BY <1>17 DEF benchVars
<1>. QED
  BY <1>1, <1>2, <1>3, <1>4, <1>5, <1>6, <1>7, <1>8, <1>9, <1>10, <1>11, <1>12, <1>13, <1>14,
     <1>15, <1>16, <1>17 DEF BenchNext

\* The variables keep their types.
THEOREM BenchTypeCorrect == BenchSpec => []BenchTypeOK
BY TypeInit, TypeNext, PTL DEF BenchSpec

-----------------------------------------------------------------------------
(* What each kind of step leaves of the locals *)

\* The locals but pc, retry and result.
Kept(new) ==
    /\ new.final = bench.final /\ new.rejected = bench.rejected
    /\ new.proposal = bench.proposal

LEMMA GotoFields ==
  ASSUME BenchTypeOK, NEW p \in Places, Goto(p)
  PROVE  bench'.pc = p /\ Kept(bench') /\ bench'.result = bench.result
BY DEF Goto, Kept, BenchTypeOK, Benches

LEMMA EndsFields ==
  ASSUME BenchTypeOK, NEW s \in Outcomes, NEW c \in SUBSET Changes, Ends(s, c)
  PROVE  /\ bench'.pc = "ended" /\ Kept(bench')
         /\ bench'.result.status = s /\ bench'.result.patch = c /\ bench'.result.tree = tree
BY DEF Ends, Kept, BenchTypeOK, Benches

LEMMA RaisesFields ==
  ASSUME BenchTypeOK, Raises
  PROVE  /\ bench'.pc = "ended" /\ Kept(bench')
         /\ bench'.result.status = "RAISED" /\ bench'.result.patch = {}
<1>1. bench'.pc = "ended" /\ Kept(bench') /\ bench'.result = [None EXCEPT !.status = "RAISED"]
  BY DEF Raises, Kept, BenchTypeOK, Benches
<1>2. [None EXCEPT !.status = "RAISED"].status = "RAISED" /\ [None EXCEPT !.status = "RAISED"].patch = {}
  BY DEF None
<1>. QED  BY <1>1, <1>2

LEMMA NextFields ==
  ASSUME BenchTypeOK
  PROVE  /\ NextIteration.pc = "iterate" /\ Kept(NextIteration) /\ NextIteration.result = bench.result
         /\ AfterReject.pc = "iterate" /\ AfterReject.final = {} /\ AfterReject.rejected = TRUE
         /\ AfterReject.result = bench.result
BY DEF NextIteration, AfterReject, Kept, BenchTypeOK, Benches

LEMMA BegunFields ==
  /\ Begun.pc = "start" /\ Begun.final = {} /\ Begun.rejected = FALSE /\ Begun.result = None
  /\ None.status = "NONE" /\ None.patch = {}
BY DEF Begun, None

-----------------------------------------------------------------------------
(* Results are honest *)

GateFair(r) == GateAllows(r.patch) /\ (r.status = "GATE_REJECT" => r.patch = {})

Honest ==
    /\ GateFair(bench.result) /\ GateFair(resultFile)
    /\ bench.pc \notin {"gate", "idle"} => GateAllows(bench.final) /\ (bench.rejected => bench.final = {})
    /\ bench.pc = "exited" => resultFile = bench.result
    /\ bench.pc # "idle" => batch.status = "NONE"
    /\ batch.status \notin {"NONE", "ERROR", "TIMEOUT"} => batch.status = bench.result.status

\* An empty patch offends nobody.
LEMMA EmptyIsAllowed == GateAllows({})
BY DEF GateAllows

LEMMA HonestInit == BenchInit => Honest
<1>. SUFFICES ASSUME BenchInit PROVE Honest
  OBVIOUS
<1>1. Begun \in Benches
  BY BegunType
<1>2. bench.result = None /\ bench.pc = "idle"
  BY <1>1, BegunFields DEF BenchInit, Benches
<1>3. resultFile = None /\ batch.status = "NONE"
  BY DEF BenchInit
<1>. QED  BY <1>2, <1>3, BegunFields, EmptyIsAllowed DEF Honest, GateFair

\* Steps inside the process keep what is honest when the locals they leave are.
LEMMA HonestMove ==
  ASSUME BenchTypeOK, Honest, bench.pc # "idle", UNCHANGED <<resultFile, batch>>,
         bench'.pc \notin {"idle", "exited"}, GateFair(bench'.result),
         bench'.pc # "gate" => GateAllows(bench'.final) /\ (bench'.rejected => bench'.final = {})
  PROVE  Honest'
<1>1. batch.status = "NONE" /\ batch' = batch /\ resultFile' = resultFile /\ GateFair(resultFile)
  BY DEF Honest
<1>. QED  BY <1>1 DEF Honest, GateFair, GateAllows

LEMMA HonestNext == BenchTypeOK /\ Honest /\ [BenchNext]_benchVars => Honest'
<1>. SUFFICES ASSUME BenchTypeOK, Honest, [BenchNext]_benchVars PROVE Honest'
  OBVIOUS
<1>0. /\ GateFair(bench.result) /\ GateFair(resultFile)
      /\ bench.pc \notin {"gate", "idle"} => GateAllows(bench.final) /\ (bench.rejected => bench.final = {})
      /\ bench.result.status = "GATE_REJECT" => bench.result.patch = {}
  BY DEF Honest, GateFair
<1>F. bench.final \in SUBSET Changes
  BY DEF BenchTypeOK, Benches
<1>G. ASSUME NEW p \in Places \ {"gate", "idle", "exited"}, Goto(p), bench.pc \notin {"gate", "idle"},
             UNCHANGED <<resultFile, batch>>
      PROVE  Honest'
  BY <1>0, <1>G, GotoFields, HonestMove DEF Kept
<1>E. ASSUME NEW s \in Outcomes, NEW c \in SUBSET Changes, Ends(s, c), bench.pc \notin {"gate", "idle"},
             UNCHANGED <<resultFile, batch>>, GateAllows(c), s = "GATE_REJECT" => c = {}
      PROVE  Honest'
  <2>1. bench'.result.patch = c /\ bench'.result.status = s
    BY <1>E, EndsFields
  <2>. QED  BY <1>0, <1>E, <2>1, EndsFields, HonestMove DEF Kept, GateFair
<1>R. ASSUME Raises, bench.pc \notin {"gate", "idle"}, UNCHANGED <<resultFile, batch>> PROVE Honest'
  BY <1>0, <1>R, RaisesFields, HonestMove, EmptyIsAllowed DEF Kept, GateFair
<1>N. ASSUME bench' = NextIteration, bench.pc \notin {"gate", "idle"}, UNCHANGED <<resultFile, batch>>
      PROVE  Honest'
  BY <1>0, <1>N, NextFields, HonestMove DEF Kept
\* The other steps that set locals which do not bear on the patch.
<1>U. ASSUME bench.pc \notin {"gate", "idle"}, UNCHANGED <<resultFile, batch>>, Kept(bench'),
             bench'.result = bench.result, bench'.pc \notin {"idle", "exited"}
      PROVE  Honest'
  BY <1>0, <1>U, HonestMove DEF Kept
<1>1. CASE Prepare
  BY <1>1, <1>G, <1>E, <1>R, EmptyIsAllowed DEF Prepare, At, Places, Outcomes
<1>2. CASE BeginIteration
  <2>1. CASE Raises
    BY <1>2, <1>R, <2>1 DEF BeginIteration, At
  <2>2. CASE bench' = [bench EXCEPT !.pc = "propose", !.iter = @ + 1, !.proposal = {}]
    <3>1. bench'.pc = "propose" /\ bench'.final = bench.final /\ bench'.rejected = bench.rejected
          /\ bench'.result = bench.result
      BY <2>2 DEF BenchTypeOK, Benches
    <3>. QED  BY <1>0, <1>2, <3>1, HonestMove DEF BeginIteration, At
  <2>. QED  BY <1>2, <2>1, <2>2 DEF BeginIteration
<1>3. CASE RuntimeLimit
  BY <1>0, <1>3, <1>E, <1>F DEF RuntimeLimit, At, Outcomes
<1>4. CASE Exhausted
  <2>2. Ends(IF bench.rejected THEN "GATE_REJECT" ELSE "FAIL", bench.final)
    BY <1>4 DEF Exhausted
  <2>3. bench.rejected => bench.final = {}
    BY <1>0, <1>4 DEF Exhausted, At
  <2>4. CASE bench.rejected
    <3>1. Ends("GATE_REJECT", bench.final)
      BY <2>2, <2>4
    <3>. QED  BY <1>0, <1>4, <1>E, <1>F, <2>3, <2>4, <3>1 DEF Exhausted, At, Outcomes
  <2>5. CASE ~bench.rejected
    <3>1. Ends("FAIL", bench.final)
      BY <2>2, <2>5
    <3>. QED  BY <1>0, <1>4, <1>E, <1>F, <3>1 DEF Exhausted, At, Outcomes
  <2>. QED  BY <2>4, <2>5
<1>5. CASE ProposeFails
  BY <1>5, <1>N DEF ProposeFails, At
<1>6. CASE Propose
  <2>1. Kept(bench') /\ bench'.result = bench.result /\ bench'.pc \in {"apply", "try"}
    BY <1>6 DEF Propose, Kept, BenchTypeOK, Benches
  <2>. QED  BY <1>6, <1>U, <2>1 DEF Propose, At
<1>7. CASE TryCandidate
  <2>1. Kept(bench') /\ bench'.result = bench.result /\ bench'.pc \in {"apply", "try"}
    BY <1>7 DEF TryCandidate, At, Kept, BenchTypeOK, Benches
  <2>. QED  BY <1>7, <1>U, <2>1 DEF TryCandidate, At
<1>8. CASE NoWinner
  BY <1>8, <1>G DEF NoWinner, At, Places
<1>9. CASE Apply
  <2>1. CASE bench' = NextIteration
    BY <1>9, <1>N, <2>1 DEF Apply, At
  <2>2. CASE bench' # NextIteration
    <3>1. bench'.pc = "gate" /\ bench'.result = bench.result
      BY <1>9, <2>2 DEF Apply, BenchTypeOK, Benches
    <3>. QED  BY <1>0, <1>9, <3>1, HonestMove DEF Apply, At
  <2>. QED  BY <2>1, <2>2
<1>10. CASE Gate
  <2>1. CASE GateAllows(bench.final)
    <3>1. bench'.pc = "quick" /\ bench'.result = bench.result /\ bench'.final = bench.final
          /\ bench'.rejected = FALSE
      BY <1>10, <2>1 DEF Gate, BenchTypeOK, Benches
    <3>. QED  BY <1>0, <1>10, <2>1, <3>1, HonestMove DEF Gate, At
  <2>2. CASE ~GateAllows(bench.final)
    <3>1. bench' = AfterReject
      BY <1>10, <2>2 DEF Gate
    <3>. QED  BY <1>0, <1>10, <3>1, NextFields, EmptyIsAllowed, HonestMove DEF Gate, At
  <2>. QED  BY <2>1, <2>2
<1>11. CASE QuickTests
  BY <1>11, <1>G, <1>N DEF QuickTests, RunTests, At, Places
<1>12. CASE FullTests
  BY <1>0, <1>12, <1>E, <1>F, <1>N DEF FullTests, RunTests, At, Outcomes
<1>13. CASE Invoke
  <2>1. bench' = Begun /\ resultFile' = resultFile /\ batch'.status = "NONE"
    BY <1>13 DEF Invoke
  <2>. QED  BY <1>0, <2>1, BegunFields, EmptyIsAllowed DEF Honest, GateFair
<1>14. CASE WriteResult
  <2>1. batch' = batch /\ batch.status = "NONE"
    BY <1>14 DEF WriteResult, Honest, At
  <2>2. Kept(bench') /\ bench'.result = bench.result /\ bench'.pc \in {"failed", "exited"}
    BY <1>14, GotoFields DEF WriteResult, Places
  <2>3. GateFair(resultFile')
    <3>1. GateFair(Torn) /\ GateFair([None EXCEPT !.status = "ABORT"])
      BY EmptyIsAllowed DEF Torn, None, GateFair
    <3>. QED  BY <1>0, <1>14, <3>1 DEF WriteResult
  <2>4. bench'.pc = "exited" => resultFile' = bench.result
    <3>1. Goto("failed") => bench'.pc = "failed"
      BY GotoFields DEF Places
    <3>. QED  BY <1>14, <3>1 DEF WriteResult
  <2>. QED  BY <1>0, <1>14, <2>1, <2>2, <2>3, <2>4 DEF Honest, Kept, WriteResult, At, GateFair, GateAllows
<1>15. CASE Collect
  <2>1. bench'.pc = "idle" /\ Kept(bench') /\ bench'.result = bench.result /\ resultFile' = resultFile
    BY <1>15, GotoFields DEF Collect, Places
  <2>2. batch'.status = Report
    BY <1>15 DEF Collect, BenchTypeOK
  <2>3. Report # "ERROR" => Report = bench.result.status
    BY <1>15 DEF Report, At, Collect, Honest
  <2>. QED  BY <1>0, <2>1, <2>2, <2>3 DEF Honest, GateFair, GateAllows
<1>16. CASE Kill
  <2>1. bench'.pc = "idle" /\ bench'.result = bench.result
    BY <1>16, GotoFields DEF Kill, Places
  <2>2. batch'.status = "TIMEOUT"
    BY <1>16 DEF Kill, BenchTypeOK
  <2>3. GateFair(resultFile')
    <3>1. GateFair(Torn)
      BY EmptyIsAllowed DEF Torn, None, GateFair
    <3>. QED  BY <1>0, <1>16, <3>1 DEF Kill
  <2>. QED  BY <1>0, <2>1, <2>2, <2>3 DEF Honest, GateFair, GateAllows
<1>17. CASE UNCHANGED benchVars
  BY <1>17 DEF benchVars, Honest, GateFair, GateAllows
<1>. QED
  BY <1>1, <1>2, <1>3, <1>4, <1>5, <1>6, <1>7, <1>8, <1>9, <1>10, <1>11, <1>12, <1>13, <1>14,
     <1>15, <1>16, <1>17 DEF BenchNext

\* No result reports a patch that the gate refuses, one that ends rejected reports
\* none, and the batch reports the status of its own process (runner.py:391,
\* run_swebench_batch.py:423-450), for any number of iterations and invocations.
THEOREM ResultsAreHonest == BenchSpec => []ResultsHonest
<1>1. BenchInit => BenchTypeOK /\ Honest
  BY TypeInit, HonestInit
<1>2. BenchTypeOK /\ Honest /\ [BenchNext]_benchVars => (BenchTypeOK /\ Honest)'
  BY TypeNext, HonestNext
<1>3. Honest => ResultsHonest
  BY DEF Honest, ResultsHonest, GateFair
<1>. QED  BY <1>1, <1>2, <1>3, PTL DEF BenchSpec

-----------------------------------------------------------------------------
(* A pass is earned *)

Earned ==
    /\ PassEarned
    /\ bench.pc \in {"start", "iterate", "propose", "try", "apply", "gate", "quick", "full"} =>
           bench.result.status # "PASS"
    /\ bench.pc \in {"propose", "try", "apply"} => tests \subseteq tree /\ tree \ Ignored \subseteq tests
    /\ bench.pc \in {"gate", "quick", "full"} =>
           /\ tests \cup bench.proposal \subseteq tree
           /\ tree \ Ignored \subseteq tests \cup bench.proposal
           /\ bench.final = Shown(tree)
    /\ bench.pc = "full" => <<"quick", tree>> \in greens

LEMMA EarnedInit == BenchInit => Earned
<1>. SUFFICES ASSUME BenchInit PROVE Earned
  OBVIOUS
<1>1. bench.result = None /\ bench.pc = "idle"
  BY BegunType, BegunFields DEF BenchInit, Benches
<1>. QED  BY <1>1, BegunFields DEF Earned, PassEarned

\* Where a tree holds the tests alone, plus what is ignored.
Fresh(t) == tests \subseteq t /\ t \ Ignored \subseteq tests

LEMMA FreshTrees == Fresh(Start) /\ \A t : Fresh(Reset(t) \cup tests)
BY DEF Fresh, Start, Reset

\* A step that ends up without a pass, in a place that says nothing of the tree.
LEMMA EarnedQuiet ==
  ASSUME bench'.pc \in {"idle", "start", "iterate", "ended", "exited", "failed"},
         bench'.result.status # "PASS"
  PROVE  Earned'
BY DEF Earned, PassEarned

\* A step of the proposer.
LEMMA EarnedFresh ==
  ASSUME bench'.pc \in {"propose", "try", "apply"}, bench'.result.status # "PASS",
         tests' = tests, Fresh(tree')
  PROVE  Earned'
BY DEF Earned, PassEarned, Fresh

\* A step of a process that ended, which leaves its result alone.
LEMMA EarnedKept ==
  ASSUME Earned, bench'.pc \in {"idle", "exited", "failed"},
         bench'.result = bench.result, bench'.proposal = bench.proposal, UNCHANGED <<tests, greens>>
  PROVE  Earned'
<1>1. PassEarned'
  BY DEF Earned, PassEarned, Shown, Tracked
<1>. QED  BY <1>1 DEF Earned

LEMMA EarnedNext == BenchTypeOK /\ Earned /\ [BenchNext]_benchVars => Earned'
<1>. SUFFICES ASSUME BenchTypeOK, Earned, [BenchNext]_benchVars PROVE Earned'
  OBVIOUS
<1>0. bench.pc \in {"start", "iterate", "propose", "try", "apply", "gate", "quick", "full"} =>
          bench.result.status # "PASS"
  BY DEF Earned
<1>F. bench.final \in SUBSET Changes
  BY DEF BenchTypeOK, Benches
<1>E. ASSUME NEW s \in Outcomes \ {"PASS"}, NEW c \in SUBSET Changes, Ends(s, c) PROVE Earned'
  BY <1>E, EndsFields, EarnedQuiet
<1>R. ASSUME Raises PROVE Earned'
  BY <1>R, RaisesFields, EarnedQuiet
<1>N. ASSUME bench' = NextIteration,
             bench.pc \in {"start", "iterate", "propose", "try", "apply", "gate", "quick", "full"}
      PROVE  Earned'
  BY <1>0, <1>N, NextFields, EarnedQuiet
<1>1. CASE Prepare
  <2>1. ASSUME Goto("iterate") PROVE Earned'
    BY <1>0, <1>1, <2>1, GotoFields, EarnedQuiet DEF Prepare, At, Places
  <2>. QED  BY <1>1, <1>E, <1>R, <2>1 DEF Prepare, Outcomes
<1>2. CASE BeginIteration
  <2>1. CASE bench' = [bench EXCEPT !.pc = "propose", !.iter = @ + 1, !.proposal = {}] /\ tree' = Start
    <3>1. bench'.pc = "propose" /\ bench'.result = bench.result
      BY <2>1 DEF BenchTypeOK, Benches
    <3>. QED  BY <1>0, <1>2, <2>1, <3>1, FreshTrees, EarnedFresh DEF BeginIteration, At
  <2>. QED  BY <1>2, <1>R, <2>1 DEF BeginIteration
<1>3. CASE RuntimeLimit
  BY <1>3, <1>E, <1>F DEF RuntimeLimit, Outcomes
<1>4. CASE Exhausted
  <2>1. (IF bench.rejected THEN "GATE_REJECT" ELSE "FAIL") \in Outcomes \ {"PASS"}
    BY DEF Outcomes
  <2>. QED  BY <1>4, <1>E, <1>F, <2>1 DEF Exhausted
<1>5. CASE ProposeFails
  BY <1>5, <1>N DEF ProposeFails, At
<1>6. CASE Propose
  <2>1. bench'.result = bench.result /\ bench'.pc \in {"apply", "try"}
    BY <1>6 DEF Propose, BenchTypeOK, Benches
  <2>2. Fresh(tree')
    BY <1>6, FreshTrees DEF Propose
  <2>. QED  BY <1>0, <1>6, <2>1, <2>2, EarnedFresh DEF Propose, At
<1>7. CASE TryCandidate
  <2>1. bench'.result = bench.result /\ bench'.pc \in {"apply", "try"}
    BY <1>7 DEF TryCandidate, At, BenchTypeOK, Benches
  <2>2. Fresh(tree')
    BY <1>7, FreshTrees DEF TryCandidate
  <2>. QED  BY <1>0, <1>7, <2>1, <2>2, EarnedFresh DEF TryCandidate, At
<1>8. CASE NoWinner
  <2>1. bench'.result = bench.result /\ bench'.pc = "apply"
    BY <1>8, GotoFields DEF NoWinner, Places
  <2>2. Fresh(tree')
    BY <1>8 DEF NoWinner, At, Earned, Fresh
  <2>. QED  BY <1>0, <1>8, <2>1, <2>2, EarnedFresh DEF NoWinner, At
<1>9. CASE Apply
  <2>1. CASE bench' = NextIteration
    BY <1>9, <1>N, <2>1 DEF Apply, At
  <2>2. CASE bench' # NextIteration
    <3>1. /\ bench' = [bench EXCEPT !.pc = "gate", !.proposal = bench.best.changes, !.final = Shown(tree')]
          /\ tree' = tree \cup bench.best.changes
      BY <1>9, <2>2 DEF Apply
    <3>2. /\ bench'.pc = "gate" /\ bench'.result = bench.result
          /\ bench'.proposal = bench.best.changes /\ bench'.final = Shown(tree')
      BY <3>1 DEF BenchTypeOK, Benches
    <3>3. Fresh(tree) /\ tests' = tests /\ bench.result.status # "PASS"
      BY <1>0, <1>9 DEF Apply, At, Earned, Fresh
    <3>4. tests' \cup bench'.proposal \subseteq tree' /\ tree' \ Ignored \subseteq tests' \cup bench'.proposal
      BY <3>1, <3>2, <3>3 DEF Fresh
    <3>. QED  BY <3>2, <3>3, <3>4 DEF Earned, PassEarned, Shown, Tracked
  <2>. QED  BY <2>1, <2>2
<1>10. CASE Gate
  <2>1. CASE GateAllows(bench.final)
    <3>1. bench'.pc = "quick" /\ bench'.result = bench.result /\ bench'.final = bench.final
          /\ bench'.proposal = bench.proposal
      BY <1>10, <2>1 DEF Gate, BenchTypeOK, Benches
    <3>. QED  BY <1>0, <1>10, <3>1 DEF Gate, At, Earned, PassEarned, Shown, Tracked
  <2>2. CASE ~GateAllows(bench.final)
    <3>1. bench' = AfterReject
      BY <1>10, <2>2 DEF Gate
    <3>. QED  BY <1>0, <1>10, <3>1, NextFields, EarnedQuiet DEF Gate, At
  <2>. QED  BY <2>1, <2>2
<1>11. CASE QuickTests
  <2>1. CASE bench' = NextIteration
    BY <1>11, <1>N, <2>1 DEF QuickTests, RunTests, At
  <2>2. CASE bench' # NextIteration
    <3>1. Goto("full") /\ greens' = greens \cup {<<"quick", tree>>} /\ UNCHANGED <<tests, tree>>
      BY <1>11, <2>2 DEF QuickTests, RunTests
    <3>2. bench'.pc = "full" /\ Kept(bench') /\ bench'.result = bench.result
      BY <3>1, GotoFields DEF Places
    <3>. QED  BY <1>0, <1>11, <3>1, <3>2 DEF QuickTests, RunTests, At, Kept, Earned, PassEarned, Shown, Tracked
  <2>. QED  BY <2>1, <2>2
<1>12. CASE FullTests
  <2>1. CASE bench' = NextIteration
    BY <1>12, <1>N, <2>1 DEF FullTests, RunTests, At
  <2>2. CASE bench' # NextIteration
    <3>1. Ends("PASS", bench.final) /\ greens' = greens \cup {<<"full", tree>>} /\ UNCHANGED <<tests, tree>>
      BY <1>12, <2>2 DEF FullTests, RunTests
    <3>2. bench'.pc = "ended" /\ Kept(bench') /\ bench'.result.patch = bench.final /\ bench'.result.tree = tree
      BY <1>F, <3>1, EndsFields DEF Outcomes
    <3>3. /\ tests \cup bench.proposal \subseteq tree /\ tree \ Ignored \subseteq tests \cup bench.proposal
          /\ bench.final = Shown(tree) /\ <<"quick", tree>> \in greens
      BY <1>12 DEF FullTests, RunTests, At, Earned
    <3>4. PassEarned'
      BY <3>1, <3>2, <3>3 DEF PassEarned, Kept, Shown, Tracked
    <3>. QED  BY <3>2, <3>4 DEF Earned
  <2>. QED  BY <2>1, <2>2
<1>13. CASE Invoke
  BY <1>13, BegunFields, EarnedQuiet DEF Invoke
<1>14. CASE WriteResult
  <2>1. bench'.pc \in {"failed", "exited"} /\ Kept(bench') /\ bench'.result = bench.result
    BY <1>14, GotoFields DEF WriteResult, Places
  <2>. QED  BY <1>14, <2>1, EarnedKept DEF WriteResult, Kept
<1>15. CASE Collect
  <2>1. bench'.pc = "idle" /\ Kept(bench') /\ bench'.result = bench.result
    BY <1>15, GotoFields DEF Collect, Places
  <2>. QED  BY <1>15, <2>1, EarnedKept DEF Collect, Kept
<1>16. CASE Kill
  <2>1. bench'.pc = "idle" /\ Kept(bench') /\ bench'.result = bench.result
    BY <1>16, GotoFields DEF Kill, Places
  <2>. QED  BY <1>16, <2>1, EarnedKept DEF Kill, Kept
<1>17. CASE UNCHANGED benchVars
  BY <1>17 DEF benchVars, Earned, PassEarned, Shown, Tracked
<1>. QED
  BY <1>1, <1>2, <1>3, <1>4, <1>5, <1>6, <1>7, <1>8, <1>9, <1>10, <1>11, <1>12, <1>13, <1>14,
     <1>15, <1>16, <1>17 DEF BenchNext

\* A run that passed had both kinds of tests pass in one iteration, on one tree that
\* holds the test patch, the proposal and nothing else but ignored files, and reports
\* all of it that `git diff` shows (runner.py:317-325, 487-507).
THEOREM PassIsEarned == BenchSpec => []PassEarned
<1>1. BenchInit => BenchTypeOK /\ Earned
  BY TypeInit, EarnedInit
<1>2. BenchTypeOK /\ Earned /\ [BenchNext]_benchVars => (BenchTypeOK /\ Earned)'
  BY TypeNext, EarnedNext
<1>3. Earned => PassEarned
  BY DEF Earned
<1>. QED  BY <1>1, <1>2, <1>3, PTL DEF BenchSpec
=============================================================================
