----------------------------- MODULE BenchRunner -----------------------------
(***************************************************************************)
(* The benchmark loop (rfsn_swebench/runner.py), its direct proposer        *)
(* (rfsn_swebench/cli.py) and the batch script that runs one process per    *)
(* task and invocation (scripts/run_swebench_batch.py), for one task.       *)
(*                                                                         *)
(* A working tree, a patch and an answer of the model are sets of changes   *)
(* relative to the commit that is checked out.  `git reset` and `git clean  *)
(* -fd` undo changes of tracked files and remove created files, but for     *)
(* those that .gitignore names.  Tests may turn out either way.            *)
(***************************************************************************)
EXTENDS Naturals, Sequences, FiniteSets

CONSTANTS
    Changes,
    Creates,       \* changes that create a file
    Ignored,       \* created files that .gitignore names
    InTests,       \* changes of files that the test patch touches
    Banned,        \* changes that the gate refuses to see
    TestPatches,   \* the test patches a task may have
    Answers,       \* what the model says: whole files or a diff, changes, garbled
    MaxIters,      \* limits.max_iters
    MaxRuns        \* bound: invocations of the batch script

ASSUME BenchSets ==
    /\ Ignored \subseteq Creates /\ Creates \subseteq Changes
    /\ InTests \subseteq Changes /\ Banned \subseteq Changes
    /\ TestPatches \subseteq SUBSET InTests
    /\ Answers \subseteq [whole : BOOLEAN, changes : SUBSET Changes, garbled : BOOLEAN]
    /\ MaxIters \in Nat /\ MaxRuns \in Nat

VARIABLES
    tests,     \* the test patch of the task
    tree,      \* the working directory
    bench,     \* the locals of bench_run and of the proposer
    greens,    \* history: runs of the tests in this iteration that passed, each with its tree
    resultFile, \* the result that a process wrote last, or none
    batch      \* invocations so far, status the last one reported

benchVars == <<tests, tree, bench, greens, resultFile, batch>>

None == [status |-> "NONE", patch |-> {}, tree |-> {}]
Begun == [pc |-> "start", iter |-> 0, final |-> {}, rejected |-> FALSE, retry |-> FALSE,
           todo |-> <<>>, best |-> [changes |-> {}, garbled |-> FALSE], proposal |-> {}, result |-> None]

BenchInit ==
    /\ tests \in TestPatches
    /\ tree \in SUBSET Ignored
    /\ bench = [Begun EXCEPT !.pc = "idle"]
    /\ greens = {}
    /\ resultFile = None
    /\ batch = [runs |-> 0, status |-> "NONE"]

At(pc) == bench.pc = pc
Goto(pc) == bench' = [bench EXCEPT !.pc = pc]

-----------------------------------------------------------------------------
(* The repository *)

Reset(t) == t \cap Ignored
\* Bug: the iteration starts from the tree that the last one left.
StartKept == tree \cup tests
Start == Reset(tree) \cup tests

\* `patch` skips a file it would create that is there, and a change that is made: it fails.
Overlap(t, p) == t \cap p # {}
\* `git diff` knows tracked files only; the runner leaves out those of the test patch.
Tracked(t) == t \ Creates
Shown(t) == Tracked(t) \ InTests
GateAllows(p) == p \cap Banned = {}

-----------------------------------------------------------------------------
(* The process of one task *)

Ends(status, patch) ==
    bench' = [bench EXCEPT !.pc = "ended", !.result = [status |-> status, patch |-> patch, tree |-> tree]]
Raises == bench' = [bench EXCEPT !.pc = "ended", !.result = [None EXCEPT !.status = "RAISED"]]
NextIteration == [bench EXCEPT !.pc = "iterate", !.retry = TRUE]

Prepare ==
    /\ At("start")
    /\ IF Overlap(Reset(tree), tests) THEN tree' = Reset(tree) /\ Raises
       ELSE /\ tree' = Start
            /\ Goto("iterate") \/ Ends("ABORT", {})   \* a setup command fails
    /\ UNCHANGED <<tests, greens, resultFile, batch>>

BeginIteration ==
    /\ At("iterate") /\ bench.iter < MaxIters
    /\ greens' = {}
    /\ IF Overlap(Reset(tree), tests) THEN tree' = Reset(tree) /\ Raises
       ELSE /\ tree' = Start
            /\ bench' = [bench EXCEPT !.pc = "propose", !.iter = @ + 1, !.proposal = {}]
    /\ UNCHANGED <<tests, resultFile, batch>>

RuntimeLimit ==
    /\ At("iterate") /\ bench.iter < MaxIters
    /\ Ends("ABORT", bench.final)
    /\ UNCHANGED <<tests, tree, greens, resultFile, batch>>

Exhausted ==
    /\ At("iterate") /\ bench.iter = MaxIters
    /\ Ends(IF bench.rejected THEN "GATE_REJECT" ELSE "FAIL", bench.final)
    /\ UNCHANGED <<tests, tree, greens, resultFile, batch>>

ProposeFails ==
    /\ At("propose")
    /\ bench' = NextIteration
    /\ UNCHANGED <<tests, tree, greens, resultFile, batch>>

\* Whole files are written over existing ones and `git diff` of the tree is the
\* proposal: the changes of the test patch are in it.
Diffed(a) ==
    IF a.whole /\ a.changes \ Creates # {}
    THEN [changes |-> Tracked(Start \cup a.changes), garbled |-> FALSE]
    ELSE [changes |-> a.changes, garbled |-> a.garbled \/ a.whole]

\* The first attempt asks for several candidates and tries them; a retry for one.
Propose ==
    /\ At("propose")
    /\ tree' = Start
    /\ \/ /\ bench.retry
          /\ \E a \in Answers : bench' = [bench EXCEPT !.pc = "apply", !.best = Diffed(a)]
       \/ /\ ~bench.retry
          /\ \E a, b \in Answers :
                 bench' = [bench EXCEPT !.pc = "try", !.todo = <<Diffed(a), Diffed(b)>>, !.best = Diffed(a)]
    /\ UNCHANGED <<tests, greens, resultFile, batch>>

Appliable(p) == ~p.garbled /\ ~Overlap(Start, p.changes)

\* _quick_validate applies a candidate, runs the quick tests and resets the tree;
\* what failed to apply may have left some of its files.
TryCandidate ==
    /\ At("try") /\ bench.todo # <<>>
    /\ LET p == Head(bench.todo) IN
       /\ \/ /\ Appliable(p)
             /\ tree' = Reset(Start \cup p.changes) \cup tests
             /\ \/ bench' = [bench EXCEPT !.pc = "apply", !.best = p]
                \/ bench' = [bench EXCEPT !.todo = Tail(@)]
          \/ /\ ~Appliable(p)
             /\ \E part \in SUBSET p.changes : tree' = Reset(Start \cup part) \cup tests
             /\ bench' = [bench EXCEPT !.todo = Tail(@)]
    /\ UNCHANGED <<tests, greens, resultFile, batch>>

NoWinner ==
    /\ At("try") /\ bench.todo = <<>>
    /\ Goto("apply")
    /\ UNCHANGED <<tests, tree, greens, resultFile, batch>>

\* A proposal that does not apply leaves part of itself and ends the iteration.
Apply ==
    /\ At("apply")
    /\ LET p == bench.best IN
       \/ /\ ~p.garbled /\ ~Overlap(tree, p.changes)
          /\ tree' = tree \cup p.changes
          /\ bench' = [bench EXCEPT !.pc = "gate", !.proposal = p.changes, !.final = Shown(tree')]
       \/ /\ p.garbled \/ Overlap(tree, p.changes)
          /\ \E part \in SUBSET p.changes : tree' = tree \cup part
          /\ bench' = NextIteration
    /\ UNCHANGED <<tests, greens, resultFile, batch>>

\* Bug: a rejected patch stays the final one.
AfterRejectKept == [NextIteration EXCEPT !.rejected = TRUE]
AfterReject == [NextIteration EXCEPT !.rejected = TRUE, !.final = {}]

Gate ==
    /\ At("gate")
    /\ IF GateAllows(bench.final)
       THEN bench' = [bench EXCEPT !.pc = "quick", !.rejected = FALSE]
       ELSE bench' = AfterReject
    /\ UNCHANGED <<tests, tree, greens, resultFile, batch>>

RunTests(kind, next) ==
    /\ At(kind)
    /\ \/ /\ greens' = greens \cup {<<kind, tree>>}
          /\ next
       \/ /\ bench' = NextIteration
          /\ UNCHANGED greens
    /\ UNCHANGED <<tests, tree, resultFile, batch>>

QuickTests == RunTests("quick", Goto("full"))
\* The gate looks at the same text again: it cannot refuse it now.
FullTests == RunTests("full", Ends("PASS", bench.final))

-----------------------------------------------------------------------------
(* The batch script *)

\* An invocation; with --resume a task that has a result file is not in it.
Invoke ==
    /\ At("idle") /\ batch.runs < MaxRuns
    /\ batch' = [runs |-> batch.runs + 1, status |-> "NONE"]
    /\ bench' = Begun /\ greens' = {}
    /\ UNCHANGED <<tests, tree, resultFile>>

\* The process writes its result, or ABORT and a non-zero exit; the write may fail too.
Torn == [None EXCEPT !.status = "TORN"]
WriteResult ==
    /\ At("ended")
    /\ \/ /\ resultFile' = IF bench.result.status = "RAISED" THEN [None EXCEPT !.status = "ABORT"]
                           ELSE bench.result
          /\ Goto(IF bench.result.status = "RAISED" THEN "failed" ELSE "exited")
       \/ /\ resultFile' \in {resultFile, Torn}
          /\ Goto("failed")
    /\ UNCHANGED <<tests, tree, greens, batch>>

Report == IF At("exited") THEN resultFile.status ELSE "ERROR"

Collect ==
    /\ bench.pc \in {"exited", "failed"}
    /\ batch' = [batch EXCEPT !.status = Report]
    /\ Goto("idle")
    /\ UNCHANGED <<tests, tree, greens, resultFile>>

\* The time limit of the batch kills the process, in a write perhaps.
Kill ==
    /\ ~At("idle")
    /\ batch' = [batch EXCEPT !.status = "TIMEOUT"]
    /\ Goto("idle")
    /\ resultFile' \in IF At("ended") THEN {resultFile, Torn} ELSE {resultFile}
    /\ UNCHANGED <<tests, tree, greens>>

BenchNext ==
    \/ Prepare \/ BeginIteration \/ RuntimeLimit \/ Exhausted
    \/ ProposeFails \/ Propose \/ TryCandidate \/ NoWinner \/ Apply \/ Gate
    \/ QuickTests \/ FullTests
    \/ Invoke \/ WriteResult \/ Collect \/ Kill

-----------------------------------------------------------------------------
(* Properties *)

\* A run that passed had both kinds of tests pass in one iteration, on one tree that
\* holds the test patch, the proposal of that iteration and nothing else but ignored
\* files; and the patch that is reported is all of it that `git diff` shows
\* (runner.py:317-325, 487-507).
PassEarned ==
    bench.result.status = "PASS" =>
        \E t \in {bench.result.tree} :
            /\ {<<"quick", t>>, <<"full", t>>} \subseteq greens
            /\ t \ Ignored \subseteq tests \cup bench.proposal
            /\ tests \cup bench.proposal \subseteq t
            /\ bench.result.patch = Shown(t)

\* Whatever the outcome, no result reports a patch that the gate refuses, and one
\* that ends rejected reports none (runner.py:391, "Gate is final authority"); and
\* the batch reports the status of this invocation's own process, never that of a
\* result file that an earlier one left (run_swebench_batch.py:423-450).
ResultsHonest ==
    /\ \A r \in {bench.result, resultFile} :
           /\ GateAllows(r.patch)
           /\ r.status = "GATE_REJECT" => r.patch = {}
    /\ batch.status \notin {"NONE", "ERROR", "TIMEOUT"} => batch.status = bench.result.status

\* runner.py:368 "Capture the ground-truth diff actually applied, excluding
\* test_patch files": the patch of a run that passed is all that its tests ran with.
ReportedIsTested ==
    bench.result.status = "PASS" => bench.result.tree \subseteq tests \cup bench.result.patch \cup Ignored

\* runner.py:369 "test_patch files (those came from SWE-bench, not the agent)": what a
\* proposer hands to the runner has nothing of the test patch in it.
ProposalIsTheAgents ==
    At("apply") => bench.best.changes \cap tests = {}
=============================================================================
