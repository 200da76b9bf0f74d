---------------------------- MODULE MCToolGateway ----------------------------
(* Instances of ToolGateway for TLC. *)
EXTENDS ToolGateway, TLC

MCPatch(touches, files, onlyNew, gate) ==
    [touches |-> touches, files |-> files, added |-> 1, deleted |-> 0,
     onlyNew |-> onlyNew, gate |-> gate]

\* A patch, and one that only creates a file.
MCPatches == {MCPatch({"code"}, 1, FALSE, "ACCEPT"), MCPatch({"code"}, 1, TRUE, "ACCEPT")}

MCNoPatch == MCPatch({}, 0, FALSE, "none")

MCStepOf(type) ==
    [type |-> type, patch |-> MCNoPatch, tier |-> 2, net |-> FALSE, path |-> TRUE,
     args |-> TRUE, workdir |-> IF type = "run_cmd_template" THEN WorkdirIds ELSE {}]

MCPatchSteps == {[MCStepOf("apply_patch") EXCEPT !.patch = p] : p \in MCPatches}

\* Steps that change something, and steps of every other kind, some of them refused.
MCEffects == MCPatchSteps \cup {MCStepOf("run_tests")}
MCOthers ==
    {MCStepOf(t) : t \in {"read_file", "detect_workdirs", "run_cmd_template", "format_fix",
                        "ensure_deps", "run_tests"}}
    \cup {[MCStepOf("read_file") EXCEPT !.path = FALSE],
          [MCStepOf("ensure_deps") EXCEPT !.tier = 0],
          [MCStepOf("apply_patch") EXCEPT !.patch = MCPatch({"test"}, 1, FALSE, "ACCEPT")]}
MCSteps == MCEffects \cup MCOthers

Request(s, run, it) ==
    [pc |-> "new", step |-> s, run |-> run, it |-> it, drop |-> {}, answer |-> "none"]
NoCall(r) == [r EXCEPT !.pc = "answered"]

\* n calls come, with requests of R; the others do not.
Come(n, R) ==
    {[c \in Calls |-> IF c \in C THEN f[c] ELSE NoCall(CHOOSE r \in R : TRUE)] :
        f \in [Calls -> R], C \in {C \in SUBSET Calls : Cardinality(C) = n}}

Reading == {Request(MCStepOf("read_file"), r, i) : r \in Runs \cup {NoRun}, i \in Iters}
OfOneRun(steps) == {Request(s, r, 0) : s \in steps, r \in Runs}
Quiet ==
    /\ import = [i \in Importers |-> [NoImport EXCEPT !.phase = "ended"]]
    /\ repo.there /\ venv[Shared] = "none"

\* Reads of a run and of a caller without one compete for budgets, or other steps
\* of one run follow each other, or two steps change a repository that is
\* imported once, or one that is imported twice.
MCInit ==
    /\ import \in [Importers -> {NoImport, [NoImport EXCEPT !.phase = "ended"]}]
    /\ \/ /\ call \in Come(3, Reading)
          /\ \E c, d \in Calls : c # d /\ Key(c) = Key(d) /\ call[c].run = NoRun
       \/ call \in Come(2, OfOneRun(MCOthers))
       \/ /\ call \in Come(2, OfOneRun(MCEffects))
          /\ Cardinality({i \in Importers : import[i] = NoImport}) <= 1
       \/ call \in Come(1, OfOneRun(MCEffects))
    /\ GatewayInit
    /\ IF \E c \in Calls : call[c].step \in MCPatchSteps THEN venv[Shared] = "ready" ELSE Quiet

MCSpec == MCInit /\ [][GatewayNext]_<<gatewayVars, coldVars>>

CallSymmetry == Permutations(Calls) \cup Permutations(Importers)
==============================================================================
