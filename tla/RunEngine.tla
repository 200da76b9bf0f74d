------------------------------ MODULE RunEngine ------------------------------
(***************************************************************************)
(* One run of the orchestrator: run_logic (services/orchestrator/          *)
(* run_engine.py) on its daemon thread, execute_approved_step with the     *)
(* step cache (kernel_bridge.py, sim_cache.py), the run context they share *)
(* with the HTTP handlers (session_state.py), and the approve and reject   *)
(* endpoints (api_routes.py), each call on a thread of its own.            *)
(*                                                                         *)
(* The context is a plain dict and an Event, with no lock.  run_logic is   *)
(* cut where a handler can come in between, a handler where the run can.   *)
(* The kernel's answer to a step and the tool's result are inputs.         *)
(***************************************************************************)
EXTENDS Integers, Sequences, FiniteSets

CONSTANTS
    Plans,          \* manual_plan of the request; <<>> for the empty list
    Limit,          \* min(req.max_iters, MAX_ITERATIONS)
    Clients,        \* threads serving /approve and /reject
    Verdicts,       \* the verdicts they give: "approved", "rejected"
    StepIds,        \* what SimCache.key tells apart
    LedgerFaults,   \* TRUE if a ledger append may raise
    NetworkFaults   \* TRUE if the sandbox service may not answer

Step == [id : StepIds, denied : BOOLEAN, low : BOOLEAN, patch : BOOLEAN]
Results == {"ok", "failed", "noop", "raised"}

ASSUME ClientsAssumption == IsFiniteSet(Clients)
ASSUME PlansAssumption == Plans \subseteq Seq(Step)
ASSUME LimitAssumption == Limit \in Nat
ASSUME VerdictsAssumption == Verdicts \subseteq {"approved", "rejected"}
ASSUME SwitchesAssumption ==
    LedgerFaults \in BOOLEAN /\ NetworkFaults \in BOOLEAN

VARIABLES
    pc,             \* where run_logic is
    plan, iters,    \* steps left, steps taken
    status,         \* the run's final status, as far as it is known; "error" is
                    \* told apart: a step failed, or something raised
    ctx,            \* the run context: registered, status, approval_event is
                    \* set, approval_result
    sandbox,        \* "warm", "none", or "orphan": destroy was not answered
    cache,          \* step id -> cached result, "none" if there is none
    client,         \* where each handler is and its verdict
    plan0,          \* history: the plan requested
    executed,       \* history: kernel verdict and tool result of each step
    answers         \* history: fresh, an approval was written since the last
                    \* pause; credit, approvals and rejections written less the
                    \* low-confidence steps executed

thread == <<pc, plan, iters, status>>
effects == <<sandbox, cache, executed>>
history == <<plan0, answers>>
vars == <<thread, ctx, effects, client, history>>

NoContext == [registered |-> FALSE, status |-> "unknown", approval_event |-> FALSE,
              approval_result |-> "none"]

Init ==
    /\ \/ pc = "start" /\ plan0 \in Plans
       \/ pc = "start_dry" /\ plan0 = <<>>
    /\ plan = plan0
    /\ iters = 0
    /\ status = "max_iterations"
    /\ ctx = NoContext
    /\ sandbox = "none"
    /\ cache = [i \in StepIds |-> "none"]
    /\ client = [c \in Clients |-> [pc |-> "idle", verdict |-> "none"]]
    /\ executed = <<>>
    /\ answers = [fresh |-> FALSE, credit |-> 0]
-------------------------------------------------------------------------------
\* run_logic, on its thread.

SetStatus(s) == ctx' = [ctx EXCEPT !.status = s]

\* Context, manifest, RUN_START.
Start ==
    /\ pc = "start"
    /\ pc' = "create"
    /\ ctx' = [NoContext EXCEPT !.registered = TRUE, !.status = "running"]
    /\ UNCHANGED <<plan, iters, status, effects, client, history>>

\* Without a manual_plan the run ends as a dry run.
DryRun ==
    /\ pc = "start_dry"
    /\ pc' = "done" /\ status' = "dry_run"
    /\ UNCHANGED <<plan, iters, ctx, effects, client, history>>

\* sandbox_create answers with the sandbox or, on any failure, with None.
SandboxCreate ==
    /\ pc = "create"
    /\ pc' = "loop"
    /\ sandbox' \in {"warm"} \cup (IF NetworkFaults THEN {"none"} ELSE {})
    /\ UNCHANGED <<plan, iters, status, ctx, cache, executed, client,
                   history>>

Stop(s) == pc' = "cleanup" /\ status' = s

\* The condition of the while loop.
MayContinue == iters < Limit /\ plan # <<>>

\* The while loop takes the next step: STEP_PLAN, the policy check, and the
\* confidence gate.
NextStep ==
    /\ pc = "loop" /\ MayContinue
    /\ iters' = iters + 1 /\ plan' = Tail(plan)
    /\ IF Head(plan).denied
       THEN Stop("policy_denied") /\ UNCHANGED <<ctx, answers>>
       ELSE IF Head(plan).low
       THEN pc' = "paused" /\ SetStatus("paused") /\ answers' = [answers EXCEPT !.fresh = FALSE] /\ UNCHANGED status
       ELSE pc' = "execute" /\ UNCHANGED <<status, ctx, answers>>
    /\ UNCHANGED <<effects, client, plan0>>

\* The step taken last.
Current == plan0[iters]

\* The else of the while loop.
LoopEnds ==
    /\ pc = "loop" /\ ~MayContinue
    /\ pc' = "cleanup"
    /\ status' = IF plan = <<>> THEN "completed" ELSE status
    /\ UNCHANGED <<plan, iters, ctx, effects, client, history>>

\* approval_event.wait() returns.
Wait ==
    /\ pc = "paused" /\ ctx.approval_event
    /\ pc' = "woken"
    /\ UNCHANGED <<plan, iters, status, ctx, effects, client, history>>

\* Bug: the event is not cleared.
ClearNot ==
    /\ pc = "woken" /\ pc' = "decide"
    /\ UNCHANGED <<plan, iters, status, ctx, effects, client, history>>

\* approval_event.clear()
Clear ==
    /\ pc = "woken"
    /\ ctx' = [ctx EXCEPT !.approval_event = FALSE]
    /\ pc' = "decide"
    /\ UNCHANGED <<plan, iters, status, effects, client, history>>

\* approval_result is read, HITL_REJECT or HITL_APPROVE appended.
ReadVerdict ==
    /\ pc = "decide"
    /\ IF ctx.approval_result = "rejected" THEN Stop("aborted")
       ELSE pc' = "resume" /\ UNCHANGED status
    /\ UNCHANGED <<plan, iters, ctx, effects, client, history>>

Resume ==
    /\ pc = "resume"
    /\ SetStatus("running")
    /\ pc' = "execute"
    /\ UNCHANGED <<plan, iters, status, effects, client, history>>

\* _exec_step: a result once cached is returned without running the tool,
\* whatever was patched since; a new one, good or bad, is cached, unless the
\* gateway's answer was an error status, which run_step raises.  A patch may be
\* without effect.
RunTool(res) ==
    LET hit == cache[Current.id] # "none"
    IN  /\ res = "noop" => Current.patch
        /\ hit => res = cache[Current.id]
        /\ cache' = IF hit \/ res = "raised" THEN cache
                    ELSE [cache EXCEPT ![Current.id] = res]

Spend == answers' = [answers EXCEPT !.credit = IF Current.low THEN @ - 1 ELSE @]

\* Bug: a step the kernel rejects does not end the run.
ExecuteOn(approved, res) ==
    /\ pc = "execute"
    /\ executed' = Append(executed, [approved |-> approved,
                                     result |-> IF approved THEN res ELSE "none"])
    /\ IF approved THEN RunTool(res) ELSE UNCHANGED cache
    /\ pc' = "loop" /\ UNCHANGED status
    /\ Spend
    /\ UNCHANGED <<plan, iters, ctx, sandbox, client, plan0>>

\* execute_approved_step: a step the kernel rejects ends the run; one it
\* approves is "ok" whatever the tool's result was.
Execute(approved, res) ==
    /\ pc = "execute"
    /\ executed' = Append(executed, [approved |-> approved,
                                     result |-> IF approved THEN res ELSE "none"])
    /\ IF approved THEN RunTool(res) /\ pc' = "loop" /\ UNCHANGED status
       ELSE Stop("step_error") /\ UNCHANGED cache
    /\ Spend
    /\ UNCHANGED <<plan, iters, ctx, sandbox, client, plan0>>

\* Bug: the destroy is skipped unless the run completed.
SandboxDestroyIfCompleted ==
    /\ pc = "cleanup"
    /\ pc' = "forget"
    /\ sandbox' = IF status = "completed" THEN "none" ELSE sandbox
    /\ UNCHANGED <<plan, iters, status, ctx, cache, executed, client,
                   history>>

\* The finally block: sandbox_destroy swallows its failures; manifest and
\* trajectory are written; then the context is forgotten.
SandboxDestroy ==
    /\ pc = "cleanup"
    /\ pc' = "forget"
    /\ sandbox' \in {"none"} \cup (IF NetworkFaults /\ sandbox = "warm" THEN {"orphan"} ELSE {})
    /\ UNCHANGED <<plan, iters, status, ctx, cache, executed, client,
                   history>>

ClearContext ==
    /\ pc = "forget"
    /\ pc' = "done"
    /\ ctx' = [ctx EXCEPT !.registered = FALSE]
    /\ UNCHANGED <<plan, iters, status, effects, client, history>>

\* A ledger append raises.  Before the try block it ends the thread and
\* nothing is cleaned up; inside, the run ends with status "error", and a
\* step whose record fails has been executed all the same.
AppendFails ==
    /\ LedgerFaults
    /\ \/ /\ pc \in {"start", "start_dry", "create"}
          /\ pc' = "dead" /\ UNCHANGED status
          /\ ctx' = [NoContext EXCEPT !.registered = TRUE, !.status = "running"]
          /\ sandbox' \in {sandbox} \cup (IF pc = "create" THEN {"warm"} ELSE {})
       \/ /\ pc \in {"loop", "paused", "decide", "execute"}
          /\ pc = "loop" => executed # <<>> \/ MayContinue
          /\ Stop("run_error")
          /\ UNCHANGED <<ctx, sandbox>>
    /\ \/ UNCHANGED cache
       \/ pc = "execute" /\ \E res \in Results : RunTool(res)
    /\ UNCHANGED <<plan, iters, executed, client, history>>
-------------------------------------------------------------------------------
\* The HTTP handlers.  They keep the context dict they looked up.

Looks(c, v) ==
    /\ client[c].pc = "idle"
    /\ ctx.registered /\ ctx.status = "paused"
    /\ client' = [client EXCEPT ![c] = [pc |-> "paused_seen", verdict |-> v]]
    /\ UNCHANGED <<thread, ctx, effects, history>>

WritesVerdict(c) ==
    LET v == client[c].verdict
    IN  /\ client[c].pc = "paused_seen"
        /\ ctx' = [ctx EXCEPT !.approval_result = v]
        /\ client' = [client EXCEPT ![c].pc = "verdict_written"]
        \* More answers than the run has steps are as good as that many.
        /\ answers' =
             [fresh |-> answers.fresh \/ v = "approved",
              credit |-> IF answers.credit < Limit THEN answers.credit + 1
                         ELSE answers.credit]
        /\ UNCHANGED <<thread, effects, plan0>>

\* Bug: a rejection does not wake the run.
SignalsApproval(c) ==
    /\ client[c].pc = "verdict_written"
    /\ ctx' = [ctx EXCEPT !.approval_event = @ \/ client[c].verdict = "approved"]
    /\ client' = [client EXCEPT ![c] = [pc |-> "idle", verdict |-> "none"]]
    /\ UNCHANGED <<thread, effects, history>>

Signals(c) ==
    /\ client[c].pc = "verdict_written"
    /\ ctx' = [ctx EXCEPT !.approval_event = TRUE]
    /\ client' = [client EXCEPT ![c] = [pc |-> "idle", verdict |-> "none"]]
    /\ UNCHANGED <<thread, effects, history>>

Handler(c) == (\E v \in Verdicts : Looks(c, v)) \/ WritesVerdict(c) \/ Signals(c)

Thread ==
    \/ Start \/ DryRun \/ SandboxCreate \/ NextStep \/ LoopEnds
    \/ Wait \/ Clear \/ ReadVerdict \/ Resume
    \/ \E approved \in BOOLEAN, res \in Results : Execute(approved, res)
    \/ SandboxDestroy \/ ClearContext

Next == Thread \/ AppendFails \/ \E c \in Clients : Handler(c)

Spec == Init /\ [][Next]_vars

\* The thread keeps running, requests are served, and a paused run is always
\* answered: what the run needs of its operator, not of the code.
FairSpec ==
    /\ Spec
    /\ WF_vars(Thread)
    /\ \A c \in Clients : WF_vars(Handler(c))
-------------------------------------------------------------------------------
TypeOK ==
    /\ pc \in {"start", "start_dry", "create", "loop", "paused", "woken", "decide", "resume", "execute",
               "cleanup", "forget", "done", "dead"}
    /\ plan0 \in Seq(Step) /\ plan \in Seq(Step)
    /\ iters \in 0..Limit /\ iters <= Len(plan0)
    /\ status \in {"dry_run", "completed", "policy_denied", "aborted",
                   "step_error", "run_error", "max_iterations"}
    /\ ctx \in [registered : BOOLEAN, status : {"unknown", "running", "paused"},
                approval_event : BOOLEAN, approval_result : {"none", "approved", "rejected"}]
    /\ sandbox \in {"none", "warm", "orphan"}
    /\ cache \in [StepIds -> Results \cup {"none"}]
    /\ client \in [Clients -> [pc : {"idle", "paused_seen", "verdict_written"},
                               verdict : {"none", "approved", "rejected"}]]
    /\ executed \in Seq([approved : BOOLEAN, result : Results \cup {"none"}])
    /\ answers \in [fresh : BOOLEAN, credit : Int]

AllApproved == \A i \in 1..Len(executed) : executed[i].approved

\* What the final status tells of the run.
Told ==
    /\ status = "completed" => Len(executed) = Len(plan0) /\ AllApproved
    /\ status = "max_iterations" =>
          Len(executed) = Limit /\ Limit < Len(plan0) /\ AllApproved
    /\ status = "policy_denied" =>
          plan0[iters].denied /\ Len(executed) = iters - 1 /\ AllApproved
    /\ status = "aborted" =>
          plan0[iters].low /\ Len(executed) = iters - 1 /\ AllApproved
    /\ status = "step_error" =>
          Len(executed) = iters /\ ~executed[iters].approved
    /\ status = "dry_run" => executed = <<>>

\* The status of a run says what became of its plan: all of it went through
\* the kernel, the iterations ran out, the step that was denied or rejected
\* was not executed, and nothing is executed after a step that ends the run.
StatusTruthful == pc = "done" => Told

\* A run that ended left neither its sandbox nor its context behind, unless
\* the sandbox service did not answer.  Only a run that died before its first
\* step leaves them.
CleanedUp ==
    /\ pc = "done" => ~ctx.registered /\ sandbox # "warm"
    /\ pc = "dead" => executed = <<>>

\* Answers that come twice or late may let later steps pass, but never more
\* low-confidence steps are executed than there were answers.
AnswersCover == answers.credit >= 0

\* Every run ends, if every pause is answered.
RunEnds == <>(pc \in {"done", "dead"})

\* The run pauses for human approval before it executes a low-confidence step:
\* an approval was given after the pause.
PauseAnswered == pc = "execute" /\ Current.low => answers.fresh

\* A completed run executed all its steps without error.
CompletedMeansClean ==
    pc = "done" /\ status = "completed" =>
        \A i \in 1..Len(executed) : executed[i].result = "ok"
===============================================================================
