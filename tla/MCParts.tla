------------------------------- MODULE MCParts -------------------------------
(***************************************************************************)
(* Five parts that keep something in files, side by side: they share no    *)
(* state, so one of them is at work in a behaviour and the others stay; of *)
(* LedgerReplay, either the hard ledger or the chain.                      *)
(***************************************************************************)
EXTENDS BenchRunner, KernelMemory, Cassettes, LearnerStore, LedgerReplay, TLC

CONSTANTS
    edit, new, ignored, banned, test, testToo,   \* changes of a working tree
    e1, e2                                   \* entries of the memory

VARIABLE here   \* the part that is at work

\* BenchRunner: whole files and diffs, with and without a trace of the tests.
Says(w, c, x) == [whole |-> w, changes |-> c, garbled |-> x]
SomeAnswers ==
    {Says(TRUE, {edit, new}, FALSE), Says(FALSE, {edit, new}, FALSE),
     Says(FALSE, {edit, ignored, testToo}, FALSE), Says(FALSE, {edit, banned}, FALSE),
     Says(FALSE, {new, edit}, TRUE), Says(TRUE, {new}, FALSE)}
SomeTestPatches == {{}, {test}, {ignored}}

\* KernelMemory: one entry with a failing history, in conflict with another.
OneKind(e) == "note"
IsFailing(e) == e = e2
IsPoor(e) == FALSE
InConflict(a, b) == {a, b} = {e1, e2}

\* LearnerStore: reports of a strategy that repeats a patch, and of another one.
Reports ==
    [strategy : {"s1"}, context : {"x"}, task : {"t"}, patch : {"p1"}, signature : {"g"},
     forbidden : {FALSE}, total : {2}, failed : {1}, success : {FALSE}]
    \cup [strategy : {"s2"}, context : {"x"}, task : {"t"}, patch : {"none", "p2"},
          signature : {"none"}, forbidden : {FALSE}, total : {1}, failed : {0}, success : {TRUE}]
    \cup [strategy : {"s2"}, context : {"x"}, task : {"t"}, patch : {"p2"},
          signature : {"none"}, forbidden : {TRUE}, total : {1}, failed : {0}, success : {TRUE}]
SameCalls == Permutations(Ingests)

Init ==
    /\ here \in {"bench", "memory", "cassette", "learner", "ledger", "chain"}
    /\ BenchInit /\ MemoryInit /\ CassetteInit /\ LearnerInit /\ ReplayInit
    /\ here # "bench" => tests = {} /\ tree = {}
    /\ here # "learner" => \A c \in Ingests : ingest[c].r = CHOOSE r \in Results : TRUE

Bench(A) == here = "bench" /\ A /\ UNCHANGED <<here, memoryVars, cassetteVars, learnerVars, replayVars>>
Memory(A) == here = "memory" /\ A /\ UNCHANGED <<here, benchVars, cassetteVars, learnerVars, replayVars>>
Cassette(A) == here = "cassette" /\ A /\ UNCHANGED <<here, benchVars, memoryVars, learnerVars, replayVars>>
Learner(A) == here = "learner" /\ A /\ UNCHANGED <<here, benchVars, memoryVars, cassetteVars, replayVars>>
Ledger(A) == here = "ledger" /\ A /\ UNCHANGED <<here, benchVars, memoryVars, cassetteVars, learnerVars>>
Chain(A) == here = "chain" /\ A /\ UNCHANGED <<here, benchVars, memoryVars, cassetteVars, learnerVars>>

Next ==
    \/ Bench(Prepare) \/ Bench(BeginIteration) \/ Bench(RuntimeLimit) \/ Bench(Exhausted)
    \/ Bench(ProposeFails) \/ Bench(Propose) \/ Bench(TryCandidate) \/ Bench(NoWinner)
    \/ Bench(Apply) \/ Bench(Gate) \/ Bench(QuickTests) \/ Bench(FullTests)
    \/ Bench(Invoke) \/ Bench(WriteResult) \/ Bench(Collect) \/ Bench(Kill)
    \/ \E e \in Entries : Memory(Admit(e)) \/ Memory(ProtectAxiom(e)) \/ Memory(PromoteQuarantined(e))
    \/ Memory(Decay) \/ Memory(Save) \/ Memory(AppendSave) \/ Memory(Reload) \/ Memory(CrashInSave)
    \/ \E t \in Chats, k \in Prompts : Cassette(AskModel(t, k)) \/ Cassette(Replay(t, k))
    \/ \E t \in Chats :
        \/ Cassette(CheckSize(t)) \/ Cassette(Truncate(t))
        \/ Cassette(Rewrite(t)) \/ Cassette(WriteRecord(t))
    \/ Cassette(CrashAndRestart)
    \/ \E x \in Contexts : Learner(Suggest(x))
    \/ \E c \in Ingests :
        \/ Learner(Check(c)) \/ Learner(Fetch(c)) \/ Learner(InsertEpisode(c))
        \/ Learner(UpdateStats(c)) \/ Learner(StampOutcome(c))
        \/ Learner(InsertOutcome(c)) \/ Learner(UpsertFailure(c))
    \/ Learner(LearnerCrash)
    \/ \E r \in Runs, event \in BOOLEAN, decision \in {"APPROVE", "REJECT"} :
        Ledger(WriteLedgerRecord(r, event, decision))
    \/ \E b \in Bodies : Chain(ChainAppend(b))
    \/ Chain(\E i \in DOMAIN chain : AppendEntry(i))
    \/ Chain(\E i \in DOMAIN chain, b \in Bodies : EditEntry(i, b))
    \/ Chain(SaveChain) \/ Chain(RestartChain)

Spec == Init /\ [][Next]_<<here, benchVars, memoryVars, cassetteVars, learnerVars, replayVars>>
=============================================================================
