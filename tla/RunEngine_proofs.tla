--------------------------- MODULE RunEngine_proofs ---------------------------
(***************************************************************************)
(* Proofs about RunEngine for any plan, any iteration limit, any number of *)
(* concurrent approval requests and any interleaving with the run.         *)
(***************************************************************************)
EXTENDS RunEngine, FiniteSetTheorems, TLAPS

\* What the run has taken of the plan is what is left to take removed from it.
PlanSplit == Len(plan0) = iters + Len(plan)

\* The step being decided on or executed has been taken.
Taken == pc \in {"paused", "woken", "decide", "resume", "execute"} => iters >= 1

Typed == TypeOK /\ PlanSplit /\ Taken

\* The initial state is of the declared types.
LEMMA TypedInit == Init => Typed
<1> SUFFICES ASSUME Init PROVE Typed
  OBVIOUS
<1>1. plan0 \in Seq(Step) /\ plan = plan0 /\ iters = 0
  <2>1. CASE plan0 \in Plans
    BY <2>1, PlansAssumption DEF Init
  <2>2. CASE plan0 = <<>>
    BY <2>2 DEF Init
  <2> QED  BY <2>1, <2>2 DEF Init
<1>2. iters \in 0..Limit /\ iters <= Len(plan0) /\ Len(plan0) = iters + Len(plan)
  BY <1>1, LimitAssumption
<1>3. executed \in Seq([approved : BOOLEAN, result : Results \cup {"none"}])
  BY DEF Init
<1> QED
  BY <1>1, <1>2, <1>3 DEF Init, Typed, TypeOK, PlanSplit, Taken, NoContext

\* A tool that ran, or was answered for by the cache, leaves the cache well typed.
LEMMA RunToolType ==
    ASSUME Typed, NEW res \in Results, RunTool(res), iters >= 1
    PROVE  cache' \in [StepIds -> Results \cup {"none"}]
<1>1. /\ iters \in 1..Len(plan0) /\ plan0 \in Seq(Step)
      /\ cache \in [StepIds -> Results \cup {"none"}]
  BY LimitAssumption DEF Typed, TypeOK
<1>2. Current.id \in StepIds
  <2>1. Current \in Step
    BY <1>1 DEF Current
  <2> QED  BY <2>1 DEF Step
<1>3. cache' \in {cache, [cache EXCEPT ![Current.id] = res]}
  BY DEF RunTool
<1> QED  BY <1>1, <1>2, <1>3

\* Every step of the run and of a handler keeps the types.
LEMMA TypedNext == Typed /\ [Next]_vars => Typed'
<1> SUFFICES ASSUME Typed, [Next]_vars PROVE Typed'
  OBVIOUS
<1> USE DEF Typed, TypeOK, PlanSplit, Taken
<1>1. CASE Start \/ DryRun
  BY <1>1 DEF Start, DryRun, NoContext, effects, history
<1>2. CASE SandboxCreate
  BY <1>2 DEF SandboxCreate, history
<1>3. CASE NextStep
  <2>1. Len(plan) \in Nat /\ Len(plan) > 0 /\ Tail(plan) \in Seq(Step)
        /\ Len(Tail(plan)) = Len(plan) - 1
    BY <1>3 DEF NextStep, MayContinue
  <2>2. iters' = iters + 1 /\ plan' = Tail(plan) /\ iters < Limit /\ plan0' = plan0
    BY <1>3 DEF NextStep, MayContinue
  <2>3. iters' \in 0..Limit /\ iters' <= Len(plan0) /\ iters' >= 1 /\ PlanSplit'
    <3>1. iters \in Nat /\ Len(plan0) = iters + Len(plan)
      BY LimitAssumption
    <3>2. Len(plan') = Len(plan) - 1 /\ Len(plan0') = Len(plan0)
      BY <2>1, <2>2
    <3> HIDE DEF TypeOK, Typed, Taken
    <3> QED  BY <2>1, <2>2, <3>1, <3>2, LimitAssumption
  <2>4. /\ pc' \in {"cleanup", "paused", "execute"}
        /\ status' \in {status, "policy_denied"}
        /\ ctx' \in {ctx, [ctx EXCEPT !.status = "paused"]}
        /\ answers' \in {answers, [answers EXCEPT !.fresh = FALSE]}
        /\ UNCHANGED effects /\ client' = client
    BY <1>3 DEF NextStep, Stop, SetStatus
  <2> QED  BY <2>1, <2>2, <2>3, <2>4 DEF effects
<1>4. CASE LoopEnds
  BY <1>4 DEF LoopEnds, effects, history
<1>5. CASE Wait
  BY <1>5 DEF Wait, effects, history
<1>6. CASE Clear
  BY <1>6 DEF Clear, effects, history
<1>7. CASE ReadVerdict
  BY <1>7 DEF ReadVerdict, Stop, effects, history
<1>8. CASE Resume
  BY <1>8 DEF Resume, SetStatus, effects, history
<1>9. ASSUME NEW approved \in BOOLEAN, NEW res \in Results, Execute(approved, res)
      PROVE  Typed'
  <2>1. executed' \in Seq([approved : BOOLEAN, result : Results \cup {"none"}])
    BY <1>9 DEF Execute
  <2>4. cache' \in [StepIds -> Results \cup {"none"}]
    <3>1. CASE approved
      <4>1. RunTool(res) /\ iters >= 1
        BY <1>9, <3>1 DEF Execute
      <4> QED  BY <4>1, RunToolType
    <3>2. CASE ~approved
      BY <1>9, <3>2 DEF Execute
    <3> QED  BY <3>1, <3>2
  <2>5. answers' \in [fresh : BOOLEAN, credit : Int]
    <3>1. answers' = [answers EXCEPT !.credit = IF Current.low THEN @ - 1 ELSE @]
      BY <1>9, Zenon DEF Execute, Spend
    <3>2. answers \in [fresh : BOOLEAN, credit : Int] /\ answers.credit \in Int
      BY DEF Typed, TypeOK
    <3> DEFINE x == IF Current.low THEN answers.credit - 1 ELSE answers.credit
    <3>3. x \in Int
      <4> HIDE DEF Typed, TypeOK, PlanSplit, Taken
      <4> QED  BY <3>2
    <3>4. answers' = [answers EXCEPT !.credit = x]
      BY <3>1, Zenon
    <3> HIDE DEF x, Typed, TypeOK, PlanSplit, Taken
    <3> QED  BY <3>2, <3>3, <3>4
  <2>6. pc' \in {"loop", "cleanup"} /\ status' \in {status, "step_error"}
        /\ UNCHANGED <<plan, iters, ctx, sandbox, client, plan0>>
    BY <1>9 DEF Execute, Stop
  <2> QED  BY <2>1, <2>4, <2>5, <2>6
<1>10. CASE SandboxDestroy
  BY <1>10 DEF SandboxDestroy, history
<1>11. CASE ClearContext
  BY <1>11 DEF ClearContext, effects, history
<1>12. CASE AppendFails
  <2>1. cache' \in [StepIds -> Results \cup {"none"}]
    <3>1. ASSUME NEW res \in Results, pc = "execute", RunTool(res)
          PROVE  cache' \in [StepIds -> Results \cup {"none"}]
      BY <3>1, RunToolType
    <3>2. CASE UNCHANGED cache
      BY <3>2
    <3>3. (UNCHANGED cache)
          \/ (pc = "execute" /\ \E res \in Results : RunTool(res))
      BY <1>12 DEF AppendFails
    <3> HIDE DEF Typed, TypeOK, PlanSplit, Taken
    <3> QED  BY <3>1, <3>2, <3>3
  <2>2. /\ pc' \in {"dead", "cleanup"} /\ status' \in {status, "step_error", "run_error"}
        /\ ctx' \in {ctx, [NoContext EXCEPT !.registered = TRUE, !.status = "running"]}
        /\ sandbox' \in {sandbox, "warm"}
        /\ UNCHANGED <<plan, iters, executed, client, plan0, answers>>
    BY <1>12 DEF AppendFails, Stop, history
  <2> QED  BY <2>1, <2>2 DEF NoContext
<1>13. ASSUME NEW c \in Clients, NEW v \in Verdicts, Looks(c, v) PROVE Typed'
  BY <1>13, VerdictsAssumption DEF Looks, thread, effects, history
<1>14. ASSUME NEW c \in Clients, WritesVerdict(c) PROVE Typed'
  <2>1. client[c].verdict \in {"none", "approved", "rejected"}
    OBVIOUS
  <2>2. answers' \in [fresh : BOOLEAN, credit : Int]
    <3>1. (answers.fresh \/ client[c].verdict = "approved") \in BOOLEAN
      OBVIOUS
    <3>2. (IF answers.credit < Limit THEN answers.credit + 1 ELSE answers.credit) \in Int
      OBVIOUS
    <3> QED  BY <1>14, <3>1, <3>2 DEF WritesVerdict
  <2>3. ctx' = [ctx EXCEPT !.approval_result = client[c].verdict]
        /\ client' = [client EXCEPT ![c].pc = "verdict_written"]
        /\ UNCHANGED <<thread, effects, plan0>>
    BY <1>14 DEF WritesVerdict
  <2>4. /\ pc' = pc /\ plan' = plan /\ iters' = iters /\ status' = status
        /\ sandbox' = sandbox /\ cache' = cache /\ executed' = executed /\ plan0' = plan0
    BY <2>3 DEF thread, effects
  <2>5. ctx' \in [registered : BOOLEAN, status : {"unknown", "running", "paused"},
                 approval_event : BOOLEAN, approval_result : {"none", "approved", "rejected"}]
    BY <2>1, <2>3
  <2>6. client' \in [Clients -> [pc : {"idle", "paused_seen", "verdict_written"},
                                verdict : {"none", "approved", "rejected"}]]
    BY <2>3
  <2> QED  BY <2>2, <2>4, <2>5, <2>6, Zenon
<1>15. ASSUME NEW c \in Clients, Signals(c) PROVE Typed'
  BY <1>15 DEF Signals, thread, effects, history
<1>16. CASE UNCHANGED vars
  BY <1>16 DEF vars, thread, effects, history
<1> QED
  BY <1>1, <1>2, <1>3, <1>4, <1>5, <1>6, <1>7, <1>8, <1>9, <1>10, <1>11, <1>12, <1>13,
     <1>14, <1>15, <1>16 DEF Next, Thread, Handler

\* The run's bookkeeping keeps its types in every behaviour: among others,
\* iters never passes the limit or the end of the plan.
THEOREM Typing == Spec => []TypeOK
<1>1. Typed => TypeOK
  BY DEF Typed
<1> QED  BY <1>1, TypedInit, TypedNext, PTL DEF Spec
-------------------------------------------------------------------------------
(* Answers cover the low-confidence steps: an answer that was counted is on  *)
(* its way, in the event, or has let the run pass, and is spent only once.   *)

\* What is left of the plan is its end.
Suffix == \A i \in 1..Len(plan) : plan[i] = plan0[iters + i]

InStep == pc \in {"paused", "woken", "decide", "resume", "execute"}

\* Steps that may still be executed.
Left == Limit - iters + (IF InStep THEN 1 ELSE 0)

Wrote == {c \in Clients : client[c].pc = "verdict_written"}
EventHeld == ctx.approval_event /\ pc # "woken"
Passing == pc \in {"woken", "decide", "resume"} \/ (pc = "execute" /\ Current.low)

\* Answers that may each let one more step pass.
Held == (IF EventHeld THEN 1 ELSE 0) + (IF Passing THEN 1 ELSE 0)
Need == Cardinality(Wrote) + Held

Covered == answers.credit >= 0 /\ (answers.credit >= Need \/ answers.credit >= Left)

CoverInv == Typed /\ Suffix /\ Covered

LEMMA WroteFinite ==
    /\ IsFiniteSet(Wrote) /\ Cardinality(Wrote) \in Nat
    /\ IsFiniteSet(Wrote') /\ Cardinality(Wrote') \in Nat
<1>1. Wrote \subseteq Clients /\ Wrote' \subseteq Clients
  BY DEF Wrote
<1> QED  BY <1>1, ClientsAssumption, FS_Subset, FS_CardinalityType

\* No answers are written or signalled and no more of them are held.
LEMMA CoveredKept ==
    ASSUME Typed, Typed', Covered, client' = client, answers'.credit = answers.credit,
           Held' <= Held, Left' <= Left
    PROVE  Covered'
<1>1. Wrote' = Wrote
  BY DEF Wrote
<1>2. Cardinality(Wrote) \in Nat
  BY WroteFinite
<1>3. Cardinality(Wrote') = Cardinality(Wrote)
  BY <1>1
<1>4. /\ Held \in Nat /\ Held' \in Nat
      /\ Left \in Int /\ Left' \in Int /\ answers.credit \in Int
  BY LimitAssumption DEF Held, Left, Typed, TypeOK
<1>5. Need' <= Need /\ Need \in Nat /\ Need' \in Nat
  BY <1>2, <1>3, <1>4 DEF Need
<1> QED  BY <1>4, <1>5 DEF Covered

\* The run takes the first of the steps left.
LEMMA Takes ==
    ASSUME Typed, Suffix, plan # <<>>, plan' = Tail(plan), iters' = iters + 1,
           plan0' = plan0
    PROVE  Suffix' /\ plan0[iters + 1] = Head(plan)
<1>1. /\ plan \in Seq(Step) /\ Len(plan) \in Nat /\ Len(plan) > 0
      /\ iters \in Nat
  BY LimitAssumption DEF Typed, TypeOK
<1>2. Head(plan) = plan[1] /\ Len(Tail(plan)) = Len(plan) - 1
      /\ \A i \in 1..(Len(plan) - 1) : Tail(plan)[i] = plan[i + 1]
  BY <1>1
<1>3. \A i \in 1..Len(plan') : plan'[i] = plan0[iters' + i]
  <2> SUFFICES ASSUME NEW i \in 1..(Len(plan) - 1)
               PROVE  Tail(plan)[i] = plan0[iters + 1 + i]
    BY <1>2
  <2>1. i + 1 \in 1..Len(plan) /\ iters + (i + 1) = iters + 1 + i
    BY <1>1
  <2> QED  BY <1>2, <2>1 DEF Suffix
<1> QED  BY <1>1, <1>2, <1>3 DEF Suffix

LEMMA CoverInit == Init => CoverInv
<1> SUFFICES ASSUME Init PROVE Suffix /\ Covered
  BY TypedInit DEF CoverInv
<1>1. Wrote = {} /\ ~EventHeld /\ ~Passing
  BY DEF Init, Wrote, EventHeld, Passing, NoContext
<1>2. Need = 0
  BY <1>1, FS_EmptySet DEF Need, Held
<1>3. Suffix
  <2>1. plan0 \in Seq(Step) /\ plan = plan0 /\ iters = 0
    BY TypedInit DEF Typed, TypeOK, Init
  <2> QED  BY <2>1 DEF Suffix
<1> QED  BY <1>2, <1>3 DEF Covered, Init

\* A step of the run that keeps the rest of its plan.
LEMMA CoverStep ==
    ASSUME CoverInv, Typed', client' = client, answers'.credit = answers.credit,
           plan' = plan, plan0' = plan0, iters' = iters, Held' <= Held, Left' <= Left
    PROVE  CoverInv'
<1>1. Suffix'
  BY DEF CoverInv, Suffix
<1> QED  BY <1>1, CoveredKept DEF CoverInv

\* A step of a handler, seen from the run.
LEMMA HandlerHeld ==
    ASSUME Typed, UNCHANGED <<thread, plan0>>
    PROVE  Left' = Left /\ Passing' = Passing /\ (Suffix => Suffix')
BY DEF Left, Passing, InStep, Current, Suffix, thread

LEMMA CoverNext == CoverInv /\ [Next]_vars => CoverInv'
<1> SUFFICES ASSUME CoverInv, [Next]_vars PROVE CoverInv'
  OBVIOUS
<1>0. Typed /\ Typed' /\ Suffix /\ Covered
  BY TypedNext DEF CoverInv
<1>a. /\ iters \in Nat /\ Limit \in Nat /\ answers.credit \in Int
      /\ ctx.approval_event \in BOOLEAN
      /\ ctx \in [registered : BOOLEAN, status : {"unknown", "running", "paused"},
                  approval_event : BOOLEAN,
                  approval_result : {"none", "approved", "rejected"}]
      /\ answers \in [fresh : BOOLEAN, credit : Int]
  BY <1>0, LimitAssumption DEF Typed, TypeOK
<1>b. ASSUME pc' \in {"create", "loop", "cleanup", "forget", "done", "dead"},
             pc # "woken", iters' = iters, ctx'.approval_event \in {ctx.approval_event, FALSE}
      PROVE  Held' <= Held /\ Left' <= Left
  <2>1. ~Passing' /\ ~InStep'
    BY <1>b DEF Passing, InStep
  <2>2. EventHeld' => EventHeld
    BY <1>a, <1>b DEF EventHeld
  <2>3. Held' <= Held
    BY <2>1, <2>2 DEF Held
  <2> QED  BY <1>a, <1>b, <2>1, <2>3 DEF Left
<1>1. CASE Start
  BY <1>0, <1>1, <1>b, CoverStep DEF Start, NoContext, effects, history
<1>2. CASE DryRun
  BY <1>0, <1>2, <1>b, CoverStep DEF DryRun, effects, history
<1>3. CASE SandboxCreate
  BY <1>0, <1>3, <1>b, CoverStep DEF SandboxCreate, history
<1>4. CASE NextStep
  <2>1. plan # <<>> /\ plan' = Tail(plan) /\ iters' = iters + 1 /\ plan0' = plan0
        /\ pc = "loop" /\ client' = client
    BY <1>4 DEF NextStep, MayContinue
  <2>2. Suffix' /\ plan0[iters + 1] = Head(plan)
    BY <1>0, <2>1, Takes
  <2>3. Current' = Head(plan)
    BY <2>1, <2>2 DEF Current
  <2>4. /\ answers'.credit = answers.credit /\ ctx'.approval_event = ctx.approval_event
        /\ pc' \in {"cleanup", "paused", "execute"}
        /\ pc' = "execute" => ~Head(plan).low
    BY <1>4, <1>a DEF NextStep, Stop, SetStatus
  <2>5. ~Passing /\ ~Passing'
    BY <2>1, <2>3, <2>4 DEF Passing
  <2>6. Held' <= Held /\ Left' <= Left
    BY <2>1, <2>4, <2>5, <1>a DEF Held, Left, InStep, EventHeld
  <2>7. Covered'
    BY <1>0, <2>1, <2>4, <2>6, CoveredKept
  <2> QED  BY <1>0, <2>2, <2>7 DEF CoverInv
<1>5. CASE LoopEnds
  BY <1>0, <1>5, <1>b, CoverStep DEF LoopEnds, effects, history
<1>6. CASE Wait
  <2>1. Held' <= Held /\ Left' <= Left
    BY <1>6, <1>a DEF Wait, Held, Left, InStep, EventHeld, Passing
  <2> QED  BY <1>0, <1>6, <2>1, CoverStep DEF Wait, effects, history
<1>7. CASE Clear
  <2>1. Held' <= Held /\ Left' <= Left
    BY <1>7, <1>a DEF Clear, Held, Left, InStep, EventHeld, Passing
  <2> QED  BY <1>0, <1>7, <2>1, CoverStep DEF Clear, effects, history
<1>8. CASE ReadVerdict
  <2>1. Held' <= Held /\ Left' <= Left
    BY <1>8, <1>a DEF ReadVerdict, Stop, Held, Left, InStep, EventHeld, Passing
  <2> QED  BY <1>0, <1>8, <2>1, CoverStep DEF ReadVerdict, Stop, effects, history
<1>9. CASE Resume
  <2>1. Held' <= Held /\ Left' <= Left
    BY <1>9, <1>a DEF Resume, SetStatus, Held, Left, InStep, EventHeld, Passing
  <2> QED  BY <1>0, <1>9, <2>1, CoverStep DEF Resume, SetStatus, effects, history
<1>10. ASSUME NEW approved \in BOOLEAN, NEW res \in Results, Execute(approved, res)
       PROVE  CoverInv'
  <2>1. /\ pc = "execute" /\ pc' \in {"loop", "cleanup"}
        /\ UNCHANGED <<plan, iters, ctx, client, plan0>>
        /\ Spend
    BY <1>10 DEF Execute, Stop
  <2>2. Wrote' = Wrote /\ Suffix'
    BY <1>0, <2>1 DEF Wrote, Suffix
  <2>3. Cardinality(Wrote) \in Nat /\ Cardinality(Wrote') = Cardinality(Wrote)
    BY <2>2, WroteFinite
  <2>4. Left' = Left - 1
    BY <2>1, <1>a DEF Left, InStep
  <2>5. Left >= 1 /\ Left \in Int
    BY <2>1, <1>0, <1>a DEF Left, InStep, Typed, TypeOK
  <2>6. CASE Current.low
    <3>1. answers'.credit = answers.credit - 1
      BY <2>1, <2>6, <1>a DEF Spend
    <3>2. Held' = Held - 1 /\ Held \in Nat /\ Held >= 1
      BY <2>1, <2>6, <1>a DEF Held, EventHeld, Passing
    <3>3. Need' = Need - 1 /\ Need >= 1 /\ Need \in Nat
      BY <2>3, <3>2 DEF Need
    <3>4. Covered'
      BY <1>0, <1>a, <2>4, <2>5, <3>1, <3>3 DEF Covered
    <3> QED  BY <1>0, <2>2, <3>4 DEF CoverInv
  <2>7. CASE ~Current.low
    <3>1. answers'.credit = answers.credit
      BY <2>1, <2>7, <1>a DEF Spend
    <3>2. Held' <= Held /\ Left' <= Left
      BY <2>1, <2>4, <2>5, <2>7, <1>a DEF Held, EventHeld, Passing
    <3> QED  BY <1>0, <2>1, <3>1, <3>2, CoverStep
  <2> QED  BY <2>6, <2>7
<1>11. CASE SandboxDestroy
  BY <1>0, <1>11, <1>b, CoverStep DEF SandboxDestroy, history
<1>12. CASE ClearContext
  BY <1>0, <1>12, <1>b, <1>a, CoverStep DEF ClearContext, effects, history
<1>13. CASE AppendFails
  BY <1>0, <1>13, <1>b, CoverStep DEF AppendFails, Stop, NoContext, history
<1>14. ASSUME NEW c \in Clients, NEW v \in Verdicts, Looks(c, v) PROVE CoverInv'
  <2>1. UNCHANGED <<thread, plan0>> /\ answers' = answers /\ ctx' = ctx
    BY <1>14 DEF Looks, history
  <2>2. Left' = Left /\ Held' = Held /\ Suffix'
    BY <1>0, <2>1, HandlerHeld DEF Held, EventHeld, thread
  <2>3. Wrote' = Wrote
    BY <1>0, <1>14 DEF Looks, Wrote, Typed, TypeOK
  <2>4. Covered'
    BY <1>0, <2>1, <2>2, <2>3 DEF Covered, Need
  <2> QED  BY <1>0, <2>2, <2>4 DEF CoverInv
<1>15. ASSUME NEW c \in Clients, WritesVerdict(c) PROVE CoverInv'
  <2>1. UNCHANGED <<thread, plan0>> /\ ctx'.approval_event = ctx.approval_event
    BY <1>15, <1>a DEF WritesVerdict
  <2>2. Left' = Left /\ Held' = Held /\ Suffix'
    BY <1>0, <2>1, HandlerHeld DEF Held, EventHeld, thread
  <2>3. Wrote' = Wrote \cup {c} /\ c \notin Wrote
    BY <1>0, <1>15 DEF WritesVerdict, Wrote, Typed, TypeOK
  <2>4. Cardinality(Wrote') = Cardinality(Wrote) + 1 /\ Cardinality(Wrote) \in Nat
    BY <2>3, WroteFinite, FS_AddElement
  <2>5. Held \in Nat /\ Left \in Int
    BY <1>a DEF Held, Left
  <2>6. Need' = Need + 1 /\ Need \in Nat
    BY <2>2, <2>4, <2>5 DEF Need
  <2>7. Left <= Limit
    BY <1>0, <1>a DEF Left, InStep, Typed, Taken
  <2>8. answers'.credit = IF answers.credit < Limit THEN answers.credit + 1
                          ELSE answers.credit
    BY <1>15 DEF WritesVerdict
  <2>9. Covered'
    BY <1>0, <1>a, <2>2, <2>5, <2>6, <2>7, <2>8 DEF Covered
  <2> QED  BY <1>0, <2>2, <2>9 DEF CoverInv
<1>16. ASSUME NEW c \in Clients, Signals(c) PROVE CoverInv'
  <2>1. UNCHANGED <<thread, plan0>> /\ ctx'.approval_event = TRUE /\ answers' = answers
    BY <1>16, <1>a DEF Signals, history
  <2>2. Left' = Left /\ Passing' = Passing /\ Suffix'
    BY <1>0, <2>1, HandlerHeld
  <2>3. Held' <= Held + 1 /\ Held \in Nat /\ Held' \in Nat
    BY <2>1, <2>2, <1>a DEF Held, EventHeld
  <2>4. Wrote' = Wrote \ {c} /\ c \in Wrote
    BY <1>0, <1>16 DEF Signals, Wrote, Typed, TypeOK
  <2>5. Cardinality(Wrote') = Cardinality(Wrote) - 1 /\ Cardinality(Wrote') \in Nat
        /\ Cardinality(Wrote) \in Nat
    BY <2>4, WroteFinite, FS_RemoveElement
  <2>6. Need' <= Need /\ Need \in Nat /\ Need' \in Nat
    BY <2>3, <2>5 DEF Need
  <2>7. Left \in Int
    BY <1>a DEF Left
  <2>8. Covered'
    BY <1>0, <1>a, <2>1, <2>2, <2>6, <2>7 DEF Covered
  <2> QED  BY <1>0, <2>2, <2>8 DEF CoverInv
<1>17. CASE UNCHANGED vars
  <2>1. UNCHANGED <<thread, plan0>> /\ answers' = answers /\ ctx' = ctx /\ client' = client
    BY <1>17 DEF vars, history
  <2>2. Left' = Left /\ Held' = Held /\ Suffix' /\ Wrote' = Wrote
    BY <1>0, <2>1, HandlerHeld DEF Held, EventHeld, thread, Wrote
  <2> QED  BY <1>0, <2>1, <2>2 DEF Covered, Need, CoverInv
<1> QED
  BY <1>1, <1>2, <1>3, <1>4, <1>5, <1>6, <1>7, <1>8, <1>9, <1>10, <1>11, <1>12, <1>13,
     <1>14, <1>15, <1>16, <1>17 DEF Next, Thread, Handler

\* However many operators answer, late or twice, no more low-confidence steps
\* are executed than answers were given.
THEOREM Answered == Spec => []AnswersCover
<1>1. CoverInv => AnswersCover
  BY DEF CoverInv, Covered, AnswersCover
<1> QED  BY <1>1, CoverInit, CoverNext, PTL DEF Spec

-------------------------------------------------------------------------------
(* The final status is true: while the run goes on, every step taken before  *)
(* the present one went through the kernel and was approved.                 *)

Records == [approved : BOOLEAN, result : Results \cup {"none"}]

Going == pc \in {"start", "create", "loop"} \/ InStep

Progress ==
    /\ Going => /\ status = "max_iterations" /\ AllApproved
                /\ Len(executed) = iters - (IF InStep THEN 1 ELSE 0)
    /\ pc \in {"paused", "woken", "decide", "resume"} => Current.low
    /\ pc \in {"start", "start_dry", "create"} => executed = <<>>
    /\ pc \in {"cleanup", "forget", "done"} => Told

TruthInv == Typed /\ Suffix /\ Progress

\* A step that leaves alone what the status is about.
LEMMA TruthKept ==
    ASSUME Typed, Progress,
           UNCHANGED <<plan, iters, status, plan0, executed>>,
           \/ pc' = pc
           \/ pc = "start" /\ pc' = "create"
           \/ pc = "create" /\ pc' = "loop"
           \/ pc \in {"paused", "woken", "decide", "resume"}
              /\ pc' \in {"woken", "decide", "resume", "execute"}
           \/ pc \in {"cleanup", "forget"} /\ pc' \in {"forget", "done"}
           \/ pc' = "dead"
    PROVE  Progress'
<1>1. Told' = Told /\ AllApproved' = AllApproved /\ Current' = Current
  BY DEF Told, AllApproved, Current
<1> HIDE DEF Told, AllApproved, Current
<1> QED  BY <1>1 DEF Progress, Going, InStep

LEMMA TruthInit == Init => TruthInv
<1> SUFFICES ASSUME Init PROVE Progress
  BY TypedInit, CoverInit DEF TruthInv, CoverInv
<1>1. AllApproved
  BY DEF Init, AllApproved
<1>2. executed = <<>> /\ Len(executed) = 0 /\ iters = 0 /\ status = "max_iterations"
  BY DEF Init
<1>3. pc \in {"start", "start_dry"}
  BY DEF Init
<1> HIDE DEF AllApproved
<1>4. ~InStep /\ pc \notin {"paused", "woken", "decide", "resume", "cleanup", "forget", "done"}
  BY <1>3 DEF InStep
<1>5. Len(executed) = iters - (IF InStep THEN 1 ELSE 0)
  <2>1. (IF InStep THEN 1 ELSE 0) = 0
    BY <1>4
  <2>2. Len(executed) = 0 /\ iters = 0
    BY <1>2
  <2>3. 0 = 0 - 0
    OBVIOUS
  <2> QED  BY <2>1, <2>2, <2>3
<1> QED  BY <1>1, <1>2, <1>4, <1>5 DEF Progress

LEMMA TruthNext == TruthInv /\ [Next]_vars => TruthInv'
<1> SUFFICES ASSUME TruthInv, [Next]_vars PROVE TruthInv'
  OBVIOUS
<1>0. Typed /\ Typed' /\ Suffix /\ Progress
  BY TypedNext DEF TruthInv
<1>a. /\ iters \in Nat /\ iters <= Limit /\ Limit \in Nat
      /\ executed \in Seq(Records) /\ Len(executed) \in Nat
      /\ plan \in Seq(Step) /\ Len(plan) \in Nat /\ Len(plan0) = iters + Len(plan)
  BY <1>0, LimitAssumption DEF Typed, TypeOK, PlanSplit, Records
<1>b. ASSUME UNCHANGED <<plan, iters, plan0>> PROVE Suffix'
  BY <1>0, <1>b DEF Suffix
<1>1. CASE Start
  BY <1>0, <1>1, <1>b, TruthKept DEF Start, TruthInv, effects, history
<1>2. CASE DryRun
  <2>1. pc = "start_dry" /\ pc' = "done" /\ status' = "dry_run"
        /\ UNCHANGED <<plan, iters, plan0, executed>>
    BY <1>2 DEF DryRun, effects, history
  <2>2. Told'
    BY <1>0, <2>1 DEF Told, Progress
  <2>3. Progress'
    BY <2>1, <2>2 DEF Progress, Going, InStep
  <2> QED  BY <1>0, <1>b, <2>1, <2>3 DEF TruthInv
<1>3. CASE SandboxCreate
  BY <1>0, <1>3, <1>b, TruthKept DEF SandboxCreate, TruthInv, history
<1>4. CASE NextStep
  <2>1. /\ pc = "loop" /\ plan # <<>> /\ plan' = Tail(plan) /\ iters' = iters + 1
        /\ UNCHANGED <<plan0, executed>>
    BY <1>4 DEF NextStep, MayContinue, effects
  <2>2. Suffix' /\ plan0[iters + 1] = Head(plan)
    BY <1>0, <2>1, Takes
  <2>3. Current' = Head(plan)
    BY <2>1, <2>2 DEF Current
  <2>4. AllApproved /\ AllApproved' /\ Len(executed) = iters /\ status = "max_iterations"
    BY <1>0, <1>a, <2>1 DEF Progress, Going, InStep, AllApproved
  <2>5. CASE Head(plan).denied
    <3>1. pc' = "cleanup" /\ status' = "policy_denied"
      BY <1>4, <2>5 DEF NextStep, Stop
    <3>2. plan0'[iters'].denied /\ Len(executed') = iters' - 1
      BY <1>a, <2>1, <2>2, <2>4, <2>5
    <3>3. Told'
      BY <2>4, <3>1, <3>2 DEF Told
    <3>4. Progress'
      BY <3>1, <3>3 DEF Progress, Going, InStep
    <3> QED  BY <1>0, <2>2, <3>4 DEF TruthInv
  <2>6. CASE ~Head(plan).denied
    <3>1. status' = status /\ pc' \in {"paused", "execute"}
          /\ (pc' = "paused" => Head(plan).low)
      BY <1>4, <2>6 DEF NextStep
    <3>2. Progress'
      BY <1>a, <2>1, <2>3, <2>4, <3>1 DEF Progress, Going, InStep
    <3> QED  BY <1>0, <2>2, <3>2 DEF TruthInv
  <2> QED  BY <2>5, <2>6
<1>5. CASE LoopEnds
  <2>1. /\ pc = "loop" /\ ~MayContinue /\ pc' = "cleanup"
        /\ status' = (IF plan = <<>> THEN "completed" ELSE status)
        /\ UNCHANGED <<plan, iters, plan0, executed>>
    BY <1>5 DEF LoopEnds, effects, history
  <2>2. AllApproved' /\ Len(executed) = iters /\ status = "max_iterations"
    BY <1>0, <1>a, <2>1 DEF Progress, Going, InStep, AllApproved
  <2>3. CASE plan = <<>>
    <3>1. Len(executed) = Len(plan0)
      BY <1>a, <2>2, <2>3
    <3>2. Told'
      BY <2>1, <2>2, <2>3, <3>1 DEF Told
    <3> QED  BY <1>0, <1>b, <2>1, <3>2 DEF TruthInv, Progress, Going, InStep
  <2>4. CASE plan # <<>>
    <3>1. iters = Limit /\ Len(plan) > 0
      BY <1>a, <2>1, <2>4 DEF MayContinue
    <3>2. Len(executed) = Limit /\ Limit < Len(plan0)
      BY <1>a, <2>2, <3>1
    <3>3. Told'
      BY <2>1, <2>2, <2>4, <3>2 DEF Told
    <3> QED  BY <1>0, <1>b, <2>1, <3>3 DEF TruthInv, Progress, Going, InStep
  <2> QED  BY <2>3, <2>4
<1>6. CASE Wait \/ Clear \/ Resume
  BY <1>0, <1>6, <1>b, TruthKept
     DEF Wait, Clear, Resume, TruthInv, effects, history
<1>7. CASE ReadVerdict
  <2>1. pc = "decide" /\ UNCHANGED <<plan, iters, plan0, executed>>
    BY <1>7 DEF ReadVerdict, effects, history
  <2>2. CASE ctx.approval_result = "rejected"
    <3>1. pc' = "cleanup" /\ status' = "aborted"
      BY <1>7, <2>2 DEF ReadVerdict, Stop
    <3>2. AllApproved' /\ Len(executed) = iters - 1 /\ plan0[iters].low
      BY <1>0, <2>1 DEF Progress, Going, InStep, AllApproved, Current
    <3>3. Told'
      BY <2>1, <3>1, <3>2 DEF Told
    <3> QED  BY <1>0, <1>b, <2>1, <3>1, <3>3 DEF TruthInv, Progress, Going, InStep
  <2>3. CASE ctx.approval_result # "rejected"
    <3>1. pc' = "resume" /\ status' = status
      BY <1>7, <2>3 DEF ReadVerdict
    <3> QED  BY <1>0, <1>b, <2>1, <3>1, TruthKept DEF TruthInv
  <2> QED  BY <2>2, <2>3
<1>8. ASSUME NEW approved \in BOOLEAN, NEW res \in Results, Execute(approved, res)
      PROVE  TruthInv'
  <2> DEFINE new == [approved |-> approved, result |-> IF approved THEN res ELSE "none"]
  <2>1. /\ pc = "execute" /\ executed' = Append(executed, new)
        /\ UNCHANGED <<plan, iters, plan0>>
    BY <1>8 DEF Execute
  <2>2. AllApproved /\ Len(executed) = iters - 1 /\ status = "max_iterations"
    BY <1>0, <2>1 DEF Progress, Going, InStep
  <2>3. /\ new \in Records /\ new.approved = approved
    BY DEF Records
  <2> HIDE DEF new
  <2>4. /\ Len(executed') = iters /\ iters >= 1 /\ executed'[iters] = new
        /\ \A i \in 1..(iters - 1) : executed'[i] = executed[i]
    BY <1>a, <2>1, <2>2, <2>3
  <2>5. CASE approved
    <3>1. pc' = "loop" /\ status' = status
      BY <1>8, <2>5 DEF Execute
    <3>2. AllApproved'
      <4> SUFFICES ASSUME NEW i \in 1..iters PROVE executed'[i].approved
        BY <2>4 DEF AllApproved
      <4>1. CASE i = iters
        BY <2>3, <2>4, <2>5, <4>1
      <4>2. CASE i # iters
        BY <1>a, <2>2, <2>4, <4>2 DEF AllApproved
      <4> QED  BY <4>1, <4>2
    <3>3. Progress'
      BY <1>a, <2>1, <2>2, <2>4, <3>1, <3>2 DEF Progress, Going, InStep
    <3> QED  BY <1>0, <1>b, <2>1, <3>3 DEF TruthInv
  <2>6. CASE ~approved
    <3>1. pc' = "cleanup" /\ status' = "step_error"
      BY <1>8, <2>6 DEF Execute, Stop
    <3>2. Told'
      BY <2>1, <2>3, <2>4, <2>6, <3>1 DEF Told
    <3> QED  BY <1>0, <1>b, <2>1, <3>1, <3>2 DEF TruthInv, Progress, Going, InStep
  <2> QED  BY <2>5, <2>6
<1>9. CASE SandboxDestroy \/ ClearContext
  BY <1>0, <1>9, <1>b, TruthKept
     DEF SandboxDestroy, ClearContext, TruthInv, effects, history
<1>10. CASE AppendFails
  <2>1. UNCHANGED <<plan, iters, plan0, executed>>
    BY <1>10 DEF AppendFails, history
  <2>2. \/ pc' = "dead" /\ status' = status
        \/ pc' = "cleanup" /\ status' = "run_error"
    BY <1>10 DEF AppendFails, Stop
  <2>3. CASE pc' = "dead" /\ status' = status
    BY <1>0, <1>b, <2>1, <2>3, TruthKept DEF TruthInv
  <2>4. CASE pc' = "cleanup" /\ status' = "run_error"
    <3>1. Told'
      BY <2>4 DEF Told
    <3> QED  BY <1>0, <1>b, <2>1, <2>4, <3>1 DEF TruthInv, Progress, Going, InStep
  <2> QED  BY <2>2, <2>3, <2>4
<1>11. ASSUME NEW c \in Clients, Handler(c) PROVE TruthInv'
  <2>1. UNCHANGED <<pc, plan, iters, status, plan0, executed>>
    BY <1>11 DEF Handler, Looks, WritesVerdict, Signals, thread, effects, history
  <2> QED  BY <1>0, <1>b, <2>1, TruthKept DEF TruthInv
<1>12. CASE UNCHANGED vars
  BY <1>0, <1>b, <1>12, TruthKept DEF vars, thread, effects, history, TruthInv
<1> QED
  BY <1>1, <1>2, <1>3, <1>4, <1>5, <1>6, <1>7, <1>8, <1>9, <1>10, <1>11, <1>12
     DEF Next, Thread

\* For any plan and any limit the final status of a run says what became of it.
THEOREM Truth == Spec => []StatusTruthful
<1>1. TruthInv => StatusTruthful
  BY DEF TruthInv, Progress, StatusTruthful
<1> QED  BY <1>1, TruthInit, TruthNext, PTL DEF Spec

-------------------------------------------------------------------------------
(* A run that ended has cleaned up. *)

\* Nothing is executed before the loop, the sandbox is given up before the
\* context is, and no handler brings a context back.
Clean ==
    /\ pc \in {"start", "start_dry"} => sandbox = "none" /\ ~ctx.registered
    /\ pc \in {"start", "start_dry", "create", "dead"} => executed = <<>>
    /\ pc \in {"forget", "done"} => sandbox # "warm"
    /\ pc = "done" => ~ctx.registered

CleanInv == Typed /\ Clean

LEMMA CleanNext == CleanInv /\ [Next]_vars => CleanInv'
<1> SUFFICES ASSUME CleanInv, [Next]_vars PROVE Clean'
  BY TypedNext DEF CleanInv
<1>0. /\ Clean
      /\ ctx \in [registered : BOOLEAN, status : {"unknown", "running", "paused"},
                  approval_event : BOOLEAN,
                  approval_result : {"none", "approved", "rejected"}]
  BY DEF CleanInv, Typed, TypeOK
<1>a. ASSUME pc' \in {"loop", "cleanup"} \/ InStep' PROVE Clean'
  BY <1>a DEF Clean, InStep
<1>1. CASE Start
  BY <1>0, <1>1 DEF Start, Clean, effects, NoContext
<1>2. CASE DryRun
  BY <1>0, <1>2 DEF DryRun, Clean, effects
<1>3. CASE SandboxCreate
  BY <1>3, <1>a DEF SandboxCreate
<1>4. CASE NextStep
  BY <1>4, <1>a DEF NextStep, Stop, InStep
<1>5. CASE LoopEnds
  BY <1>5, <1>a DEF LoopEnds
<1>6. CASE Wait \/ Clear \/ Resume
  BY <1>6, <1>a DEF Wait, Clear, Resume, InStep
<1>7. CASE ReadVerdict
  BY <1>7, <1>a DEF ReadVerdict, Stop, InStep
<1>8. ASSUME NEW approved \in BOOLEAN, NEW res \in Results, Execute(approved, res)
      PROVE  Clean'
  BY <1>8, <1>a DEF Execute, Stop
<1>9. CASE SandboxDestroy
  BY <1>9 DEF SandboxDestroy, Clean
<1>10. CASE ClearContext
  BY <1>0, <1>10 DEF ClearContext, Clean, effects
<1>11. CASE AppendFails
  <2>1. \/ pc \in {"start", "start_dry", "create"} /\ pc' = "dead" /\ executed' = executed
        \/ pc' = "cleanup"
    BY <1>11 DEF AppendFails, Stop
  <2> QED  BY <1>0, <1>a, <2>1 DEF Clean
<1>12. ASSUME NEW c \in Clients, Handler(c) PROVE Clean'
  <2>1. UNCHANGED <<pc, sandbox, executed>> /\ ctx'.registered = ctx.registered
    BY <1>0, <1>12 DEF Handler, Looks, WritesVerdict, Signals, thread, effects
  <2> QED  BY <1>0, <2>1 DEF Clean
<1>13. CASE UNCHANGED vars
  BY <1>0, <1>13 DEF vars, thread, effects, Clean
<1> QED
  BY <1>1, <1>2, <1>3, <1>4, <1>5, <1>6, <1>7, <1>8, <1>9, <1>10, <1>11, <1>12, <1>13
     DEF Next, Thread

\* A run that ended left neither its sandbox nor its context behind, whatever
\* failed on the way; one that died had executed nothing.
THEOREM Cleanup == Spec => []CleanedUp
<1>1. Init => CleanInv
  BY TypedInit DEF Init, CleanInv, Clean, NoContext
<1>2. CleanInv => CleanedUp
  BY DEF CleanInv, Clean, CleanedUp
<1> QED  BY <1>1, <1>2, CleanNext, PTL DEF Spec

===============================================================================
