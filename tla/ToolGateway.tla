----------------------------- MODULE ToolGateway -----------------------------
(***************************************************************************)
(* The tool gateway (services/tool_gateway/app.py, policy.py,              *)
(* workdir_store.py) in front of the executor: POST /run_step checks a     *)
(* step against the policies, charges it to the budget of its run and      *)
(* iteration, has it executed, charges the bytes of the answer, and keeps  *)
(* the working directories a detection found.  Calls are threads; budgets  *)
(* and directories are dictionaries they share without a lock.             *)
(*                                                                         *)
(* CPython 3.11 switches threads between calls and loop iterations only,   *)
(* so finding a budget entry and counting in it is one step, the scan that *)
(* prunes old entries and the deletions are two.                           *)
(***************************************************************************)
EXTENDS ColdExecutor

CONSTANTS
    Iters,           \* iteration numbers
    GatewaySteps,    \* steps callers send
    AllowedTypes,    \* allowed_step_types of tool_allowlist.yaml
    Blocked,         \* kinds of paths no patch may touch
    Forbidden,       \* kinds of paths the forbid_* flags close
    MaxFiles, MaxAdded, MaxDeleted, MaxTotal,      \* diff guard
    FormatFixMinTier,
    MaxReads, MaxSearches, MaxBytes,               \* budget of an iteration
    KeepIters,       \* iterations of a scope that keep their budget: 5
    Sizes,           \* bytes of answers
    WorkdirIds,
    WarmPool,        \* the executor has its sandbox pool switched on
    NoRun            \* a call without run_id

ASSUME GatewayAssumption ==
    /\ KeepIters \in Nat \ {0} /\ Iters \subseteq Nat
    /\ {MaxReads, MaxSearches, MaxBytes} \subseteq Nat
    /\ Sizes \subseteq Nat /\ IsFiniteSet(Iters)
    /\ NoRun \notin Runs
    /\ GatewaySteps \subseteq
           [type : {s.type : s \in GatewaySteps}, patch : {s.patch : s \in GatewaySteps}, tier : Nat,
            net : BOOLEAN, path : BOOLEAN, args : BOOLEAN, workdir : SUBSET WorkdirIds]

VARIABLES
    usage,     \* ITER_USAGE: what is charged, for the keys that are there
    workdirs,  \* WorkdirStore._runs
    call,      \* call -> where it is, its step, run, iteration
    spent,     \* history: key -> reads, searches forwarded and bytes delivered
    charged    \* history: scope -> iterations ever charged

gatewayVars == <<usage, workdirs, call, spent, charged>>

BudgetScopes == Runs \cup {NoRun}    \* "repo:<repo_id>" for calls without a run
Keys == BudgetScopes \X Iters
Nothing == [reads |-> 0, searches |-> 0, bytes |-> 0]
Key(c) == <<call[c].run, call[c].it>>

\* A caller that never comes has its answer.
Requests ==
    [pc : {"new", "answered"}, step : GatewaySteps, run : BudgetScopes, it : Iters, drop : {{}},
     answer : {"none"}]

GatewayInit ==
    /\ ColdInit
    /\ usage = [k \in {} |-> Nothing]
    /\ workdirs = [r \in Runs |-> {}]
    /\ call \in [Calls -> Requests]
    /\ spent = [k \in Keys |-> Nothing]
    /\ charged = [s \in BudgetScopes |-> {}]

-----------------------------------------------------------------------------
(* Policies *)

Searches == {"repo_search", "detect_project", "detect_workdirs"}
Reads == {"repo_read_range", "read_file"}
Metered == Searches \cup Reads

PathAllowed(s) == s.type \in Reads => s.path

WithinDiffGuard(p) ==
    /\ p.files <= MaxFiles
    /\ p.added <= MaxAdded
    /\ p.deleted <= MaxDeleted
    /\ p.added + p.deleted <= MaxTotal

PatchAllowed(p) ==
    /\ p.touches \cap (Blocked \cup Forbidden) = {}
    /\ WithinDiffGuard(p)
    /\ p.gate # "REJECT"

WorkdirKnown(c, s) ==
    s.workdir # {} => call[c].run \in Runs /\ s.workdir \subseteq workdirs[call[c].run]

TierAllowed(s) ==
    /\ s.type = "format_fix" => s.tier >= FormatFixMinTier
    /\ s.type = "ensure_deps" => s.tier >= NetworkMinTier

\* The checks that come after a search or a read is charged.
PolicyAllows(c, s) ==
    /\ s.args
    /\ TierAllowed(s)
    /\ WorkdirKnown(c, s)
    /\ s.type = "apply_patch" /\ s.patch # NoPatch => PatchAllowed(s.patch)

-----------------------------------------------------------------------------
(* charge *)

Entry(k) == IF k \in DOMAIN usage THEN usage[k] ELSE Nothing
Put(k, u) == [j \in DOMAIN usage \cup {k} |-> IF j = k THEN u ELSE usage[j]]

Count(u, type, bytes) ==
    IF bytes > 0 THEN [u EXCEPT !.bytes = @ + bytes]
    ELSE IF type \in Reads THEN [u EXCEPT !.reads = @ + 1]
    ELSE [u EXCEPT !.searches = @ + 1]

Exceeds(u) == u.reads > MaxReads \/ u.searches > MaxSearches \/ u.bytes > MaxBytes

\* Counting raises 429 after the count is raised.
Charge(c, bytes, next) ==
    LET u == Count(Entry(Key(c)), call[c].step.type, bytes) IN
    /\ usage' = Put(Key(c), u)
    /\ charged' = [charged EXCEPT ![call[c].run] = @ \cup {call[c].it}]
    /\ call' = [call EXCEPT ![c].pc = IF Exceeds(u) THEN "answered" ELSE next,
                            ![c].answer = IF Exceeds(u) THEN "429" ELSE @]

ItersOf(s) == {k[2] : k \in {k \in DOMAIN usage : k[1] = s}}

\* Bug: the oldest iterations are kept.
StaleYoungest(s) ==
    {<<s, i>> : i \in {i \in ItersOf(s) : Cardinality({j \in ItersOf(s) : j < i}) >= KeepIters}}
Stale(s) ==
    {<<s, i>> : i \in {i \in ItersOf(s) : Cardinality({j \in ItersOf(s) : j > i}) >= KeepIters}}

\* The keys to drop are chosen; a key another thread adds during the scan ends
\* the call with 500.
PruneScan(c) ==
    /\ call[c].pc \in {"prune", "prune_bytes"}
    /\ \/ call' = [call EXCEPT ![c].drop = Stale(call[c].run),
                               ![c].pc = IF @ = "prune" THEN "delete" ELSE "delete_bytes"]
       \/ /\ \E d \in Calls \ {c} : call[d].pc \in {"prune", "prune_bytes"}
          /\ call' = [call EXCEPT ![c].pc = "answered", ![c].answer = "500"]
    /\ UNCHANGED <<usage, workdirs, spent, charged, coldVars>>

\* They are deleted; one that another thread deleted first ends the call with 500.
PruneDelete(c) ==
    /\ call[c].pc \in {"delete", "delete_bytes"}
    /\ usage' = [k \in DOMAIN usage \ call[c].drop |-> usage[k]]
    /\ \/ call' = [call EXCEPT ![c].drop = {},
                               ![c].pc = IF @ = "delete" THEN "check" ELSE "store"]
       \/ /\ ~(call[c].drop \subseteq DOMAIN usage)
          /\ call' = [call EXCEPT ![c].drop = {}, ![c].pc = "answered", ![c].answer = "500"]
    /\ UNCHANGED <<workdirs, spent, charged, coldVars>>

-----------------------------------------------------------------------------
(* run_step *)

\* The step's type and, for a read, its path are checked before it is charged.
Receive(c) ==
    /\ call[c].pc = "new"
    /\ LET s == call[c].step IN
       call' = [call EXCEPT
           ![c].pc = IF s.type \notin AllowedTypes \/ ~PathAllowed(s) THEN "answered"
                     ELSE IF s.type \in Metered THEN "charge" ELSE "check",
           ![c].answer = IF s.type \notin AllowedTypes \/ ~PathAllowed(s) THEN "403" ELSE @]
    /\ UNCHANGED <<usage, workdirs, spent, charged, coldVars>>

ChargeStep(c) ==
    /\ call[c].pc = "charge"
    /\ Charge(c, 0, "prune")
    /\ UNCHANGED <<workdirs, spent, coldVars>>

Refuse(c) ==
    /\ call[c].pc = "check"
    /\ ~PolicyAllows(c, call[c].step)
    /\ call' = [call EXCEPT ![c].pc = "answered", ![c].answer = "403"]
    /\ UNCHANGED <<usage, workdirs, spent, charged, coldVars>>

\* Warm only for a run that asks for it, and never for a networked step.
Warm(c) == WarmPool /\ call[c].run \in Runs /\ call[c].step.type # "ensure_deps"

\* The executor gets the step; the gateway waits.
Forward(c) ==
    /\ call[c].pc = "check"
    /\ PolicyAllows(c, call[c].step)
    /\ call' = [call EXCEPT ![c].pc = "waiting"]
    /\ spent' = [spent EXCEPT ![Key(c)] =
           IF call[c].step.type \in Metered THEN Count(@, call[c].step.type, 0) ELSE @]
    /\ JobBegins(c, [call[c].step EXCEPT !.net = (call[c].step.type = "ensure_deps")],
                 call[c].run, Warm(c))
    /\ UNCHANGED <<usage, workdirs, charged>>

\* The executor's refusal, or the gateway's own time limit while the executor
\* works on.
ForwardFails(c) ==
    /\ call[c].pc = "waiting"
    /\ job[c].told = "refused" \/ job[c].told = "none"
    /\ call' = [call EXCEPT ![c].pc = "answered", ![c].answer = "error"]
    /\ UNCHANGED <<usage, workdirs, spent, charged, coldVars>>

\* The answer is charged by its size once it is there; an empty one is not.
ChargeBytes(c, bytes) ==
    /\ call[c].pc = "waiting" /\ job[c].told \notin {"none", "refused"}
    /\ IF call[c].step.type \in Metered
       THEN IF bytes > 0 THEN Charge(c, bytes, "prune_bytes")
            ELSE /\ call' = [call EXCEPT ![c].pc = "prune_bytes"]
                 /\ usage' = Put(Key(c), Entry(Key(c)))
                 /\ charged' = [charged EXCEPT ![call[c].run] = @ \cup {call[c].it}]
       ELSE call' = [call EXCEPT ![c].pc = "store"] /\ UNCHANGED <<usage, charged>>
    /\ spent' = [spent EXCEPT ![Key(c)].bytes =
           @ + IF call'[c].pc = "prune_bytes" THEN bytes ELSE 0]
    /\ UNCHANGED <<workdirs, coldVars>>

\* A detection that worked replaces what the run had, if it found anything.
Deliver(c) ==
    /\ call[c].pc = "store"
    /\ IF call[c].step.type = "detect_workdirs" /\ job[c].told = "ok" /\ call[c].run \in Runs
       THEN \E found \in SUBSET WorkdirIds :
                workdirs' = [workdirs EXCEPT ![call[c].run] = IF found = {} THEN @ ELSE found]
       ELSE UNCHANGED workdirs
    /\ call' = [call EXCEPT ![c].pc = "answered", ![c].answer = "200"]
    /\ UNCHANGED <<usage, spent, charged, coldVars>>

\* POST /run_cleanup.
RunCleanup(r) ==
    /\ workdirs[r] # {}
    /\ workdirs' = [workdirs EXCEPT ![r] = {}]
    /\ UNCHANGED <<usage, call, spent, charged, coldVars>>

GatewayNext ==
    \/ \E c \in Calls :
        \/ Receive(c) \/ ChargeStep(c) \/ PruneScan(c) \/ PruneDelete(c)
        \/ Refuse(c) \/ Forward(c) \/ ForwardFails(c)
        \/ \E bytes \in Sizes : ChargeBytes(c, bytes)
        \/ Deliver(c)
        \/ Looks(c) /\ UNCHANGED gatewayVars
        \/ JobMounts(c) /\ UNCHANGED gatewayVars
        \/ AddsAll(c) /\ UNCHANGED gatewayVars
        \/ Applies(c) /\ UNCHANGED gatewayVars
        \/ Diffs(c) /\ UNCHANGED gatewayVars
        \/ Installs(c) /\ UNCHANGED gatewayVars
        \/ Formats(c) /\ UNCHANGED gatewayVars
        \/ TestsBegin(c) /\ UNCHANGED gatewayVars
        \/ TestsEnd(c) /\ UNCHANGED gatewayVars
        \/ JobTimesOut(c) /\ UNCHANGED gatewayVars
        \/ JobReturns(c) /\ UNCHANGED gatewayVars
    \/ \E i \in Importers :
        \/ \E force \in BOOLEAN : ImportBegins(i, force) /\ UNCHANGED gatewayVars
        \/ ImportFails(i) /\ UNCHANGED gatewayVars
        \/ CloneBegins(i) /\ UNCHANGED gatewayVars
        \/ ImportEnds(i) /\ UNCHANGED gatewayVars
    \/ \E r \in Runs : RunCleanup(r)

GatewaySpec == GatewayInit /\ [][GatewayNext]_<<gatewayVars, coldVars>>

-----------------------------------------------------------------------------
(* Properties *)

Pruned(k) == Cardinality({j \in charged[k[1]] : j > k[2]}) >= KeepIters

\* An iteration never gets more reads, searches or bytes of answers than its
\* budget, calls of any runs overlapping as they like and whatever was pruned,
\* until KeepIters later iterations of the same scope have been charged
\* (app.py:208-232): only then is its count forgotten.
BudgetsHold ==
    \A k \in Keys : Pruned(k) \/ ~Exceeds(spent[k])

\* "Per-run venv isolation: each run_id gets its own venv" (executor/app.py:873),
\* and a test step without one says "Missing venv; ensure_deps first" (:1501): so
\* after the run's own ensure_deps was answered as done, its test steps find it.
VenvFound ==
    [][\A c \in Calls : job'[c].status = "no_venv" /\ job[c].status # "no_venv" =>
        ~\E d \in Calls : /\ job[d].type = "ensure_deps" /\ job[d].told = "ok"
                         /\ call[d].run = call[c].run /\ call[d].run \in Runs
      ]_<<gatewayVars, coldVars>>
=============================================================================
