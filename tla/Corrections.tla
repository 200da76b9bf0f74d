----------------------------- MODULE Corrections -----------------------------
(***************************************************************************)
(* The two parts that correct a system without being asked: the autofix     *)
(* cycle (autofix/*.py), which reads logs, ranks the failures, plans and    *)
(* applies actions and believes their results, and the corrector of         *)
(* stability/*.py, which acts on smoothed signals.  Both write the          *)
(* environment variables that others read.  They run one after the other.   *)
(*                                                                         *)
(* The smoothed value of a signal, which depends on all its samples, is a   *)
(* choice whenever it is looked at.                                         *)
(***************************************************************************)
EXTENDS Integers, Sequences, FiniteSets

CONSTANTS
    MaxAuto,       \* max_auto_actions of a cycle
    MaxLog,        \* bound: failures in the logs
    MaxCycles      \* bound: cycles and corrections

ASSUME CorrectAssumption == MaxAuto \in Nat /\ MaxLog \in Nat /\ MaxCycles \in Nat

VARIABLES
    log,       \* kinds of the failures in the log files, in the order of the files
    env,       \* RFSN_EXEC_TIMEOUT in units of 300 s, RFSN_PARALLEL_WORKERS, RFSN_BATCH_SIZE, RFSN_PAUSED
    cooling,   \* less than cooldown_s since the corrector's last action
    todo,      \* actions of the cycle that are planned and not applied yet
    report,    \* the last cycle: the kinds acted on, those left, and what it verifies
    cycles,    \* cycles and evaluations so far
    due        \* history: the time limit, doubled once in a cycle that acts on a timeout

correctVars == <<log, env, cooling, todo, report, cycles, due>>

Kinds == {"import_error", "syntax_error", "test_failure", "timeout", "oom", "fatal"}
Severity(k) == IF k \in {"oom", "fatal"} THEN 3 ELSE IF k \in {"import_error", "syntax_error"} THEN 2 ELSE 1
AutoFixable(k) == k \in {"import_error", "test_failure", "timeout", "oom"}
Signals == {"error_count", "memory_percent", "patch_success_rate"}
Levels == [Signals -> {"ok", "warn", "critical"}]

CorrectInit ==
    /\ log = <<>>
    /\ env = [timeout |-> 1, workers |-> 4, batch |-> 10, paused |-> FALSE]
    /\ cooling = FALSE
    /\ todo = <<>>
    /\ report = [acted |-> <<>>, left |-> {}, verified |-> TRUE]
    /\ cycles = 0 /\ due = 1

Fails(k) ==
    /\ Len(log) < MaxLog
    /\ log' = Append(log, k)
    /\ UNCHANGED <<env, cooling, todo, report, cycles, due>>

-----------------------------------------------------------------------------
(* Autofix *)

\* The fixable failures of the log, in the order of a stable sort by severity.
Fixable(failures) == {i \in DOMAIN failures : AutoFixable(failures[i])}
Outranks(failures, i, j) ==
    \/ Severity(failures[i]) > Severity(failures[j])
    \/ Severity(failures[i]) = Severity(failures[j]) /\ i < j
Place(failures, i) == Cardinality({j \in Fixable(failures) : j = i \/ Outranks(failures, j, i)})
At(failures, n) == CHOOSE i \in Fixable(failures) : Place(failures, i) = n

\* A cycle acts on the first of them and leaves the others.
Room(failures) == IF Cardinality(Fixable(failures)) < MaxAuto THEN Cardinality(Fixable(failures)) ELSE MaxAuto
Acted(failures) == [n \in 1..Room(failures) |-> failures[At(failures, n)]]
Left(failures) == {failures[i] : i \in {j \in Fixable(failures) : Place(failures, j) > MaxAuto}}

\* An action is planned from the environment as it is before any is applied.
Plan(k, e) == [type |-> k, timeout |-> 2 * e.timeout]
Plans(failures, e) == [n \in 1..Room(failures) |-> Plan(Acted(failures)[n], e)]

\* The logs are read from their start in every cycle.
RunCycle(dry) ==
    /\ todo = <<>> /\ cycles < MaxCycles /\ log # <<>>
    /\ todo' = IF dry THEN <<>> ELSE Plans(log, env)
    /\ report' = [acted |-> Acted(log), left |-> Left(log), verified |-> Room(log) = 0 \/ ~dry]
    /\ due' = IF \E n \in DOMAIN todo' : todo'[n].type = "timeout" THEN 2 * due ELSE due
    /\ cycles' = cycles + 1
    /\ UNCHANGED <<log, env, cooling>>

Halved(n) == IF n \div 2 > 1 THEN n \div 2 ELSE 1
\* Bug: the limit is read again for each action that is applied.
HandledAgain(e, a) ==
    IF a.type = "timeout" THEN [e EXCEPT !.timeout = 2 * e.timeout]
    ELSE IF a.type = "oom" THEN [e EXCEPT !.workers = Halved(e.workers)] ELSE e
\* A missing dependency has no handler any more, a failed test never had one: such
\* an action does nothing, and counts as applied and verified.
Handled(e, a) ==
    IF a.type = "timeout" THEN [e EXCEPT !.timeout = a.timeout]
    ELSE IF a.type = "oom" THEN [e EXCEPT !.workers = Halved(e.workers)] ELSE e

ApplyAction ==
    /\ todo # <<>>
    /\ env' = Handled(env, Head(todo))
    /\ todo' = Tail(todo)
    /\ UNCHANGED <<log, cooling, report, cycles, due>>

-----------------------------------------------------------------------------
(* Stability *)

Throttled(e) == [e EXCEPT !.workers = IF e.workers > 1 THEN e.workers - 1 ELSE e.workers]
Corrected(e, levels) ==
    IF levels["memory_percent"] = "critical" THEN [e EXCEPT !.batch = Halved(e.batch)]
    ELSE IF levels["error_count"] = "critical" THEN [e EXCEPT !.paused = TRUE] ELSE Throttled(e)

EvaluateAndCorrect ==
    /\ todo = <<>> /\ ~cooling /\ cycles < MaxCycles
    /\ \E levels \in Levels :
           /\ \E s \in Signals : levels[s] # "ok"
           /\ env' = Corrected(env, levels)
    /\ cooling' = TRUE
    /\ cycles' = cycles + 1
    /\ UNCHANGED <<log, todo, report, due>>

CooldownEnds ==
    /\ cooling
    /\ cooling' = FALSE
    /\ UNCHANGED <<log, env, todo, report, cycles, due>>

CorrectNext ==
    \/ \E k \in Kinds : Fails(k)
    \/ \E dry \in BOOLEAN : RunCycle(dry)
    \/ ApplyAction
    \/ EvaluateAndCorrect \/ CooldownEnds

CorrectSpec == CorrectInit /\ [][CorrectNext]_correctVars

-----------------------------------------------------------------------------
(* Properties *)

\* However cycles and corrections follow each other: a cycle raises the time limit
\* once, whatever number of timeouts it reads (autofix/actions.py:48-55 plans before
\* apply.py:186-190 applies), and at no time between two actions is it anything but the
\* limit before or after; what it leaves for lack of room is no more severe than what
\* it acts on; and nobody drives the workers or the batch to zero.
CorrectionsBounded ==
    /\ env.timeout = due \/ (2 * env.timeout = due /\ todo # <<>>)
    /\ \A n \in DOMAIN report.acted, k \in report.left : Severity(report.acted[n]) >= Severity(k)
    /\ report.left # {} => Len(report.acted) = MaxAuto
    /\ env.workers >= 1 /\ env.batch >= 1
=============================================================================
