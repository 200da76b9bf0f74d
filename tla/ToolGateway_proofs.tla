-------------------------- MODULE ToolGateway_proofs --------------------------
(***************************************************************************)
(* Proofs about the gateway and the cold executor, for any number of calls *)
(* and importers, any steps and patches, and any interleaving of them.     *)
(***************************************************************************)
EXTENDS ToolGateway, FiniteSetTheorems, TLAPS

Patches == {s.patch : s \in GatewaySteps} \cup {NoPatch}
StepTypes == {s.type : s \in GatewaySteps} \cup {"none"}
Words == {"none", "ok", "failed", "refused", "timeout", "no_venv", "mutated"}
Trees == {<<e, f>> : e \in SUBSET Patches, f \in BOOLEAN}
SeenTrees == Trees \cup {<<>>}
Shows == {"none", "shown", "empty", "taken", "failed"}

Repos ==
    [gen : Nat, there : BOOLEAN, whole : BOOLEAN, stray : BOOLEAN, edits : SUBSET Patches,
     formatted : BOOLEAN, index : Trees]
Phases == {"none", "found", "mounted", "added", "applied", "testing", "exited", "over"}
Jobs ==
    [phase : Phases, type : StepTypes, patch : Patches, scope : Scopes, warm : BOOLEAN, gen : Nat,
     seen : SeenTrees, diff : Shows, status : Words, told : Words, quota : BOOLEAN]
Imports == [phase : {"idle", "removed", "cloning", "ended"}, gen : Nat]
CallRecords ==
    [pc : {"new", "charge", "prune", "delete", "check", "waiting", "prune_bytes", "delete_bytes",
           "store", "answered"},
     step : GatewaySteps, run : BudgetScopes, it : Iters, drop : SUBSET Keys,
     answer : {"none", "200", "403", "429", "500", "error"}]

ColdTypeOK ==
    /\ repo \in Repos
    /\ job \in [Calls -> Jobs]
    /\ import \in [Importers -> Imports]
    /\ overlap \in BOOLEAN
CallTypeOK ==
    /\ call \in [Calls -> CallRecords]
    /\ DOMAIN usage \subseteq Keys

-----------------------------------------------------------------------------
(* Types of the calls *)

LEMMA CallInit == GatewayInit => CallTypeOK
<1>. SUFFICES ASSUME GatewayInit PROVE CallTypeOK
  OBVIOUS
<1>1. Requests \subseteq CallRecords
  BY DEF Requests, CallRecords
<1>. QED  BY <1>1 DEF GatewayInit, CallTypeOK

\* A call that goes on keeps its step, its run and its iteration.
LEMMA CallKeyed ==
  ASSUME CallTypeOK, NEW c \in Calls
  PROVE  /\ call[c] \in CallRecords /\ call[c].step \in GatewaySteps /\ call[c].run \in BudgetScopes
         /\ call[c].it \in Iters /\ Key(c) \in Keys
<1>1. call[c] \in CallRecords
  BY DEF CallTypeOK
<1>2. call[c].run \in BudgetScopes /\ call[c].it \in Iters /\ call[c].step \in GatewaySteps
  BY <1>1 DEF CallRecords
<1>. QED  BY <1>1, <1>2 DEF Key, Keys

LEMMA StaleKeys == ASSUME CallTypeOK, NEW s \in BudgetScopes PROVE Stale(s) \subseteq Keys
<1>1. \A k \in DOMAIN usage : k[2] \in Iters
  BY DEF CallTypeOK, Keys
<1>2. ItersOf(s) \subseteq Iters
  BY <1>1 DEF ItersOf
<1>. SUFFICES ASSUME NEW k \in Stale(s) PROVE k \in Keys
  OBVIOUS
<1>3. PICK i \in ItersOf(s) : k = <<s, i>>
  BY DEF Stale
<1>. QED  BY <1>2, <1>3 DEF Keys

\* Going on, perhaps with an answer, keeps the type.
LEMMA CallMoves ==
  ASSUME CallTypeOK, NEW c \in Calls,
         NEW w \in {"new", "charge", "prune", "delete", "check", "waiting", "prune_bytes", "delete_bytes",
                    "store", "answered"},
         NEW a \in {"none", "200", "403", "429", "500", "error"}
  PROVE  [call EXCEPT ![c].pc = w, ![c].answer = a] \in [Calls -> CallRecords]
<1>. DEFINE k == [call[c] EXCEPT !.pc = w, !.answer = a]
<1>1. k \in CallRecords
  BY CallKeyed DEF CallRecords
<1>2. [call EXCEPT ![c].pc = w, ![c].answer = a] = [call EXCEPT ![c] = k]
  BY DEF CallTypeOK
<1>. HIDE DEF k
<1>. QED  BY <1>1, <1>2 DEF CallTypeOK

LEMMA ChargeTyped ==
  ASSUME CallTypeOK, NEW c \in Calls, NEW bytes,
         NEW next \in {"prune", "prune_bytes"}, Charge(c, bytes, next)
  PROVE  CallTypeOK'
<1>1. DOMAIN usage' \subseteq Keys
  BY CallKeyed DEF Charge, Put, CallTypeOK
<1>2. call' \in [Calls -> CallRecords]
  <2>0. call[c].answer \in {"none", "200", "403", "429", "500", "error"}
    BY CallKeyed DEF CallRecords
  <2>. DEFINE u == Count(Entry(Key(c)), call[c].step.type, bytes)
  <2>1. call' = [call EXCEPT ![c].pc = IF Exceeds(u) THEN "answered" ELSE next,
                            ![c].answer = IF Exceeds(u) THEN "429" ELSE call[c].answer]
    BY DEF Charge, CallTypeOK
  <2>. HIDE DEF u
  <2>2. CASE Exceeds(u)
    <3>1. call' = [call EXCEPT ![c].pc = "answered", ![c].answer = "429"]
      BY <2>1, <2>2
    <3>. QED  BY <3>1, CallMoves
  <2>3. CASE ~Exceeds(u)
    <3>1. call' = [call EXCEPT ![c].pc = next, ![c].answer = call[c].answer]
      BY <2>1, <2>3
    <3>. QED  BY <2>0, <3>1, CallMoves
  <2>. QED  BY <2>2, <2>3
<1>. QED  BY <1>1, <1>2 DEF CallTypeOK

LEMMA CallNext == CallTypeOK /\ [GatewayNext]_<<gatewayVars, coldVars>> => CallTypeOK'
<1>. SUFFICES ASSUME CallTypeOK, [GatewayNext]_<<gatewayVars, coldVars>> PROVE CallTypeOK'
  OBVIOUS
<1>0. ASSUME UNCHANGED gatewayVars PROVE CallTypeOK'
  BY <1>0 DEF gatewayVars, CallTypeOK
<1>1. ASSUME NEW c \in Calls, Receive(c) PROVE CallTypeOK'
  <2>0. call[c].answer \in {"none", "200", "403", "429", "500", "error"}
    BY CallKeyed DEF CallRecords
  <2>. DEFINE s == call[c].step
             no == s.type \notin AllowedTypes \/ ~PathAllowed(s)
  <2>1. /\ call' = [call EXCEPT
               ![c].pc = IF no THEN "answered" ELSE IF s.type \in Metered THEN "charge" ELSE "check",
               ![c].answer = IF no THEN "403" ELSE call[c].answer]
        /\ UNCHANGED usage
    BY <1>1 DEF Receive, CallTypeOK
  <2>. HIDE DEF no
  <2>2. CASE no
    <3>1. call' = [call EXCEPT ![c].pc = "answered", ![c].answer = "403"]
      BY <2>1, <2>2
    <3>2. call' \in [Calls -> CallRecords]
      BY <3>1, CallMoves
    <3>. QED  BY <2>1, <3>2 DEF CallTypeOK
  <2>3. CASE ~no
    <3>1. PICK w \in {"charge", "check"} : call' = [call EXCEPT ![c].pc = w, ![c].answer = call[c].answer]
      BY <2>1, <2>3
    <3>2. call' \in [Calls -> CallRecords]
      BY <2>0, <3>1, CallMoves
    <3>. QED  BY <2>1, <3>2 DEF CallTypeOK
  <2>. QED  BY <2>2, <2>3
<1>2. ASSUME NEW c \in Calls, ChargeStep(c) PROVE CallTypeOK'
  BY <1>2, ChargeTyped DEF ChargeStep
<1>3. ASSUME NEW c \in Calls, PruneScan(c) PROVE CallTypeOK'
  <2>1. Stale(call[c].run) \subseteq Keys
    BY CallKeyed, StaleKeys
  <2>. QED  BY <1>3, <2>1, CallKeyed DEF PruneScan, CallTypeOK, CallRecords
<1>4. ASSUME NEW c \in Calls, PruneDelete(c) PROVE CallTypeOK'
  BY <1>4, CallKeyed DEF PruneDelete, CallTypeOK, CallRecords
<1>5. ASSUME NEW c \in Calls, Refuse(c) PROVE CallTypeOK'
  <2>1. call' = [call EXCEPT ![c].pc = "answered", ![c].answer = "403"] /\ usage' = usage
    BY <1>5 DEF Refuse
  <2>2. call' \in [Calls -> CallRecords]
    BY <2>1, CallMoves
  <2>. QED  BY <2>1, <2>2 DEF CallTypeOK
<1>6. ASSUME NEW c \in Calls, Forward(c) PROVE CallTypeOK'
  BY <1>6, CallKeyed DEF Forward, CallTypeOK, CallRecords
<1>7. ASSUME NEW c \in Calls, ForwardFails(c) PROVE CallTypeOK'
  <2>1. call' = [call EXCEPT ![c].pc = "answered", ![c].answer = "error"] /\ usage' = usage
    BY <1>7 DEF ForwardFails
  <2>2. call' \in [Calls -> CallRecords]
    BY <2>1, CallMoves
  <2>. QED  BY <2>1, <2>2 DEF CallTypeOK
<1>8. ASSUME NEW c \in Calls, NEW bytes \in Sizes, ChargeBytes(c, bytes) PROVE CallTypeOK'
  <2>1. CASE Charge(c, bytes, "prune_bytes")
    BY <2>1, ChargeTyped
  <2>2. CASE ~Charge(c, bytes, "prune_bytes")
    <3>1. \E w \in {"prune_bytes", "store"} : call' = [call EXCEPT ![c].pc = w]
      BY <1>8, <2>2 DEF ChargeBytes
    <3>2. call' \in [Calls -> CallRecords]
      BY <3>1, CallKeyed DEF CallTypeOK, CallRecords
    <3>3. usage' = usage \/ usage' = Put(Key(c), Entry(Key(c)))
      BY <1>8, <2>2 DEF ChargeBytes
    <3>. QED  BY <3>2, <3>3, CallKeyed DEF Put, CallTypeOK
  <2>. QED  BY <2>1, <2>2
<1>9. ASSUME NEW c \in Calls, Deliver(c) PROVE CallTypeOK'
  <2>1. call' = [call EXCEPT ![c].pc = "answered", ![c].answer = "200"] /\ usage' = usage
    BY <1>9 DEF Deliver
  <2>2. call' \in [Calls -> CallRecords]
    BY <2>1, CallMoves
  <2>. QED  BY <2>1, <2>2 DEF CallTypeOK
<1>10. ASSUME NEW r \in Runs, RunCleanup(r) PROVE CallTypeOK'
  BY <1>10 DEF RunCleanup, CallTypeOK
<1>11. CASE UNCHANGED <<gatewayVars, coldVars>>
  BY <1>0, <1>11
<1>. QED
  BY <1>0, <1>1, <1>2, <1>3, <1>4, <1>5, <1>6, <1>7, <1>8, <1>9, <1>10, <1>11 DEF GatewayNext

-----------------------------------------------------------------------------
(* Types of the executor *)

LEMMA CleanTyped == Clean \in Trees
<1>1. {} \in SUBSET Patches /\ FALSE \in BOOLEAN
  OBVIOUS
<1>2. \A e \in SUBSET Patches, f \in BOOLEAN : <<e, f>> \in Trees
  BY DEF Trees
<1>. QED  BY <1>1, <1>2 DEF Clean

\* A directory as it comes or goes has no edits.
LEMMA DirectoryTyped ==
  ASSUME NEW g \in Nat, NEW t \in BOOLEAN, NEW y \in BOOLEAN
  PROVE  /\ Directory(g, t, y) \in Repos
         /\ Directory(g, t, y).gen = g /\ Directory(g, t, y).there = t
         /\ Directory(g, t, y).stray = y /\ Directory(g, t, y).whole = FALSE
         /\ Directory(g, t, y).edits = {}
<1>1. Directory(g, t, y) \in Repos
  BY CleanTyped DEF Directory, Repos
<1>. QED  BY <1>1 DEF Directory

\* After rmtree there is no directory, or a new stray.
Cleared ==
    /\ repo' \in Repos /\ ~repo'.whole /\ repo'.edits = {}
    /\ repo'.there => repo'.stray
    /\ \/ repo'.gen = repo.gen /\ ~repo'.there
       \/ repo'.gen = repo.gen + 1

LEMMA RemovalClears == ASSUME ColdTypeOK, repo' \in Removals PROVE Cleared
<1>1. repo.gen \in Nat /\ repo.gen + 1 \in Nat
  BY DEF ColdTypeOK, Repos
<1>2. CASE repo' = Gone
  BY <1>1, <1>2, DirectoryTyped DEF Gone, Cleared
<1>3. CASE repo' = Stray
  BY <1>1, <1>3, DirectoryTyped DEF Stray, Cleared
<1>. QED  BY <1>2, <1>3 DEF Removals

LEMMA ColdTypeInit == GatewayInit => ColdTypeOK
<1>. SUFFICES ASSUME GatewayInit PROVE ColdTypeOK
  OBVIOUS
<1>1. repo \in Repos
  <2>1. PICK h \in BOOLEAN : repo = [gen |-> 0, there |-> h, whole |-> h, stray |-> FALSE, edits |-> {},
                                     formatted |-> FALSE, index |-> Clean]
    BY DEF GatewayInit, ColdInit
  <2>. QED  BY <2>1, CleanTyped DEF Repos
<1>2. NoJob \in Jobs
  BY DEF NoJob, Jobs, Words, Scopes, Patches, StepTypes, SeenTrees, Phases, Shows
<1>3. NoImport \in Imports /\ [NoImport EXCEPT !.phase = "ended"] \in Imports
  BY DEF NoImport, Imports
<1>. QED  BY <1>1, <1>2, <1>3 DEF GatewayInit, ColdInit, ColdTypeOK

LEMMA JobTyped == ASSUME ColdTypeOK, NEW c \in Calls PROVE job[c] \in Jobs
BY DEF ColdTypeOK

\* A job that goes on is still a job.
LEMMA JobMoves ==
  ASSUME ColdTypeOK, NEW c \in Calls, NEW j \in Jobs
  PROVE  [job EXCEPT ![c] = j] \in [Calls -> Jobs]
BY DEF ColdTypeOK

LEMMA GoesOnTyped ==
  ASSUME ColdTypeOK, NEW c \in Calls, NEW f \in Phases, job' = [job EXCEPT ![c].phase = f]
  PROVE  job' \in [Calls -> Jobs]
<1>. DEFINE j == [job[c] EXCEPT !.phase = f]
<1>1. j \in Jobs
  BY JobTyped DEF Jobs
<1>2. job' = [job EXCEPT ![c] = j]
  OBVIOUS
<1>. HIDE DEF j
<1>. QED  BY <1>1, <1>2, JobMoves

LEMMA TreeTyped == ASSUME ColdTypeOK, NEW c \in Calls PROVE TreeOf(c) \in Trees
<1>1. repo.edits \in SUBSET Patches /\ repo.formatted \in BOOLEAN
  BY DEF ColdTypeOK, Repos
<1>2. \A e \in SUBSET Patches, f \in BOOLEAN : <<e, f>> \in Trees
  BY DEF Trees
<1>3. CASE Mounted(c)
  <2>1. TreeOf(c) = <<repo.edits, repo.formatted>>
    BY <1>3 DEF TreeOf
  <2>. QED  BY <1>1, <1>2, <2>1
<1>4. CASE ~Mounted(c)
  <2>1. TreeOf(c) = Clean
    BY <1>4 DEF TreeOf
  <2>. QED  BY <2>1, CleanTyped
<1>. QED  BY <1>3, <1>4

LEMMA ExitTyped ==
  ASSUME ColdTypeOK, NEW c \in Calls, NEW w \in Words, Exit(c, w)
  PROVE  job' \in [Calls -> Jobs]
<1>. DEFINE j == [job[c] EXCEPT !.phase = "exited", !.status = w]
<1>1. j \in Jobs
  BY JobTyped DEF Jobs, Phases
<1>2. job' = [job EXCEPT ![c] = j]
  BY DEF Exit
<1>. HIDE DEF j
<1>. QED  BY <1>1, <1>2, JobMoves

\* A step as the gateway forwards it.
Sent(c) == [call[c].step EXCEPT !.net = (call[c].step.type = "ensure_deps")]

LEMMA SentTyped ==
  ASSUME CallTypeOK, NEW c \in Calls
  PROVE  Sent(c).type \in StepTypes /\ Sent(c).patch \in Patches
<1>1. call[c].step \in GatewaySteps
  BY CallKeyed
<1>2. Sent(c).type = call[c].step.type /\ Sent(c).patch = call[c].step.patch
  BY <1>1, GatewayAssumption DEF Sent
<1>. QED  BY <1>1, <1>2 DEF StepTypes, Patches

\* A new step has found the directory.
Begun(c) ==
    [NoJob EXCEPT !.phase = "found", !.type = Sent(c).type, !.patch = Sent(c).patch, !.warm = Warm(c),
                  !.scope = ScopeOf(call[c].run, Warm(c))]
RefusedJob == [NoJob EXCEPT !.phase = "over", !.told = "refused"]

LEMMA JobsBegin ==
  ASSUME NEW c \in Calls, Forward(c)
  PROVE  /\ job[c].phase = "none"
         /\ job' = [job EXCEPT ![c] = RefusedJob] \/ job' = [job EXCEPT ![c] = Begun(c)]
         /\ UNCHANGED <<repo, venv, import, overlap, last>>
BY DEF Forward, JobBegins, Tell, RefusedJob, Begun, Sent

LEMMA BegunTyped ==
  ASSUME CallTypeOK, ColdTypeOK, NEW c \in Calls
  PROVE  RefusedJob \in Jobs /\ Begun(c) \in Jobs
<1>0. <<>> \in SeenTrees /\ Shared \in Scopes /\ NoPatch \in Patches /\ "none" \in StepTypes
  BY DEF SeenTrees, Scopes, Patches, StepTypes
<1>1. RefusedJob \in Jobs
  BY <1>0 DEF RefusedJob, NoJob, Jobs, Words, Phases, Shows
<1>2. ScopeOf(call[c].run, Warm(c)) \in Scopes
  BY DEF ScopeOf, Warm, Scopes
<1>3. Warm(c) \in BOOLEAN
  BY DEF Warm
<1>. QED  BY <1>0, <1>1, <1>2, <1>3, SentTyped DEF Begun, NoJob, Jobs, Words, Phases, Shows

\* A clone goes to the directory it made or found.
LEMMA Clones ==
  ASSUME ColdTypeOK, NEW i \in Importers, CloneBegins(i)
  PROVE  \E g \in Nat : import' = [import EXCEPT ![i] = [phase |-> "cloning", gen |-> g]]
<1>0. repo.gen \in Nat /\ repo.gen + 1 \in Nat
  BY DEF ColdTypeOK, Repos
<1>1. import[i] \in Imports
  BY DEF ColdTypeOK
<1>2. CASE import' = [import EXCEPT ![i].phase = "cloning"]
  <2>1. import[i].gen \in Nat /\ [import[i] EXCEPT !.phase = "cloning"] = [phase |-> "cloning", gen |-> import[i].gen]
    BY <1>1 DEF Imports
  <2>2. import' = [import EXCEPT ![i] = [import[i] EXCEPT !.phase = "cloning"]]
    BY <1>2
  <2>. QED  BY <2>1, <2>2
<1>. QED  BY <1>0, <1>2 DEF CloneBegins

LEMMA ColdTypeNext ==
  CallTypeOK /\ ColdTypeOK /\ [GatewayNext]_<<gatewayVars, coldVars>> => ColdTypeOK'
<1>. SUFFICES ASSUME CallTypeOK, ColdTypeOK, [GatewayNext]_<<gatewayVars, coldVars>> PROVE ColdTypeOK'
  OBVIOUS
<1>0. ASSUME UNCHANGED coldVars PROVE ColdTypeOK'
  BY <1>0 DEF coldVars, ColdTypeOK
<1>J. ASSUME job' \in [Calls -> Jobs], UNCHANGED <<repo, import, overlap>> PROVE ColdTypeOK'
  BY <1>J DEF ColdTypeOK
<1>1. ASSUME NEW c \in Calls, Forward(c) PROVE ColdTypeOK'
  <2>1. job' \in [Calls -> Jobs]
    BY <1>1, JobsBegin, BegunTyped DEF ColdTypeOK
  <2>. QED  BY <1>1, <1>J, <2>1, JobsBegin
<1>2. ASSUME NEW c \in Calls, Looks(c) PROVE ColdTypeOK'
  <2>1. job' \in [Calls -> Jobs]
    <3>1. PICK word \in {"ok", "failed"} : job' = [job EXCEPT ![c].phase = "over", ![c].told = word]
      BY <1>2 DEF Looks
    <3>2. [job[c] EXCEPT !.phase = "over", !.told = word] \in Jobs
      BY JobTyped DEF Jobs, Words, Phases
    <3>3. job' = [job EXCEPT ![c] = [job[c] EXCEPT !.phase = "over", !.told = word]]
      BY <3>1 DEF ColdTypeOK
    <3>. QED  BY <3>2, <3>3, JobMoves
  <2>. QED  BY <1>2, <1>J, <2>1 DEF Looks
<1>3. ASSUME NEW c \in Calls, Applies(c) PROVE ColdTypeOK'
  <2>1. job' \in [Calls -> Jobs]
    <3>1. CASE \E w \in Words : Exit(c, w)
      BY <3>1, ExitTyped
    <3>2. CASE job' = [job EXCEPT ![c].phase = "applied"]
      BY <3>2, GoesOnTyped DEF Phases
    <3>. QED  BY <1>3, <3>1, <3>2 DEF Applies, StatusOfFailedApply, Words
  <2>2. repo' \in Repos
    <3>1. job[c].patch \in Patches
      BY JobTyped DEF Jobs
    <3>. QED  BY <1>3, <3>1 DEF Applies, ColdTypeOK, Repos
  <2>. QED  BY <1>3, <2>1, <2>2 DEF Applies, ColdTypeOK
<1>4. ASSUME NEW c \in Calls, Installs(c) PROVE ColdTypeOK'
  <2>1. job' \in [Calls -> Jobs]
    BY <1>4, ExitTyped DEF Installs, Words
  <2>. QED  BY <1>4, <1>J, <2>1 DEF Installs
<1>5. ASSUME NEW c \in Calls, Formats(c) PROVE ColdTypeOK'
  <2>1. job' \in [Calls -> Jobs]
    BY <1>5, ExitTyped DEF Formats, Words
  <2>2. repo' \in Repos
    BY <1>5 DEF Formats, ColdTypeOK, Repos
  <2>. QED  BY <1>5, <2>1, <2>2 DEF Formats, ColdTypeOK
<1>6. ASSUME NEW c \in Calls, TestsBegin(c) PROVE ColdTypeOK'
  <2>1. job' \in [Calls -> Jobs]
    <3>1. CASE Exit(c, "no_venv")
      BY <3>1, ExitTyped DEF Words
    <3>2. CASE job' = [job EXCEPT ![c].phase = "testing", ![c].seen = TreeOf(c)]
      <4>. DEFINE j == [job[c] EXCEPT !.phase = "testing", !.seen = TreeOf(c)]
      <4>1. j \in Jobs
        BY JobTyped, TreeTyped DEF Jobs, Phases, SeenTrees
      <4>2. job' = [job EXCEPT ![c] = j]
        BY <3>2
      <4>. HIDE DEF j
      <4>. QED  BY <4>1, <4>2, JobMoves
    <3>. QED  BY <1>6, <3>1, <3>2 DEF TestsBegin
  <2>. QED  BY <1>6, <1>J, <2>1 DEF TestsBegin
<1>7. ASSUME NEW c \in Calls, TestsEnd(c) PROVE ColdTypeOK'
  <2>1. job' \in [Calls -> Jobs]
    BY <1>7, ExitTyped DEF TestsEnd, Words
  <2>. QED  BY <1>7, <1>J, <2>1 DEF TestsEnd
<1>8. ASSUME NEW c \in Calls, JobTimesOut(c) PROVE ColdTypeOK'
  <2>1. job' \in [Calls -> Jobs]
    BY <1>8, JobTyped DEF JobTimesOut, TimeoutWord, ColdTypeOK, Jobs, Words
  <2>. QED  BY <1>8, <1>J, <2>1 DEF JobTimesOut
<1>9. ASSUME NEW c \in Calls, JobReturns(c) PROVE ColdTypeOK'
  <2>1. job' \in [Calls -> Jobs]
    <3>1. CASE job' = [job EXCEPT ![c].told = job[c].status]
      BY <3>1, JobTyped DEF ColdTypeOK, Jobs
    <3>2. CASE job' = [job EXCEPT ![c].told = "failed",
                                  ![c].quota = (job[c].quota \/ job[c].type = "apply_patch")]
      <4>. DEFINE q == job[c].quota \/ job[c].type = "apply_patch"
      <4>1. q \in BOOLEAN /\ job' = [job EXCEPT ![c].told = "failed", ![c].quota = q]
        BY <3>2
      <4>. HIDE DEF q
      <4>2. [job[c] EXCEPT !.told = "failed", !.quota = q] \in Jobs
        BY <4>1, JobTyped DEF Jobs, Words
      <4>3. job' = [job EXCEPT ![c] = [job[c] EXCEPT !.told = "failed", !.quota = q]]
        BY <4>1 DEF ColdTypeOK
      <4>. QED  BY <4>2, <4>3, JobMoves
    <3>. QED  BY <1>9, <3>1, <3>2 DEF JobReturns, ColdTypeOK
  <2>. QED  BY <1>9, <1>J, <2>1 DEF JobReturns
<1>10. ASSUME NEW i \in Importers, NEW force \in BOOLEAN, ImportBegins(i, force) PROVE ColdTypeOK'
  <2>1. repo' \in Repos
    <3>1. repo' = repo \/ repo' \in Removals
      BY <1>10 DEF ImportBegins
    <3>. QED  BY <3>1, RemovalClears DEF Cleared, ColdTypeOK
  <2>2. import' \in [Importers -> Imports]
    BY <1>10 DEF ImportBegins, ColdTypeOK, Imports
  <2>3. job' = job /\ overlap' \in BOOLEAN
    BY <1>10 DEF ImportBegins, ColdTypeOK
  <2>. QED  BY <2>1, <2>2, <2>3 DEF ColdTypeOK
<1>11. ASSUME NEW i \in Importers, ImportEnds(i) PROVE ColdTypeOK'
  <2>1. repo' \in Repos
    <3>1. repo' = [repo EXCEPT !.whole = TRUE] \/ repo' \in Removals
      BY <1>11 DEF ImportEnds, AfterFailedClone
    <3>2. [repo EXCEPT !.whole = TRUE] \in Repos
      BY DEF ColdTypeOK, Repos
    <3>. QED  BY <3>1, <3>2, RemovalClears DEF Cleared
  <2>2. import' \in [Importers -> Imports]
    BY <1>11 DEF ImportEnds, ColdTypeOK, Imports
  <2>. QED  BY <1>11, <2>1, <2>2 DEF ImportEnds, ColdTypeOK
<1>12. ASSUME NEW i \in Importers, ImportFails(i) PROVE ColdTypeOK'
  BY <1>12 DEF ImportFails, ColdTypeOK, Imports
<1>13. ASSUME NEW i \in Importers, CloneBegins(i) PROVE ColdTypeOK'
  <2>0. repo.gen \in Nat /\ repo.gen + 1 \in Nat
    BY DEF ColdTypeOK, Repos
  <2>1. repo' \in Repos
    <3>1. repo' = Directory(repo.gen + 1, TRUE, FALSE) \/ repo' = [repo EXCEPT !.stray = FALSE] \/ repo' = repo
      BY <1>13 DEF CloneBegins
    <3>2. [repo EXCEPT !.stray = FALSE] \in Repos
      BY DEF ColdTypeOK, Repos
    <3>. QED  BY <2>0, <3>1, <3>2, DirectoryTyped DEF ColdTypeOK
  <2>2. import' \in [Importers -> Imports]
    BY <1>13, Clones DEF ColdTypeOK, Imports
  <2>. QED  BY <1>13, <2>1, <2>2 DEF CloneBegins, ColdTypeOK
<1>14. ASSUME NEW c \in Calls, JobMounts(c) PROVE ColdTypeOK'
  <2>0. repo.gen \in Nat /\ repo.gen + 1 \in Nat
    BY DEF ColdTypeOK, Repos
  <2>1. repo' \in Repos
    <3>1. repo' = repo \/ repo' = Stray
      BY <1>14 DEF JobMounts
    <3>. QED  BY <2>0, <3>1, DirectoryTyped DEF Stray, ColdTypeOK
  <2>2. job' \in [Calls -> Jobs]
    <3>1. CASE Exit(c, "failed")
      BY <3>1, ExitTyped DEF Words
    <3>2. CASE \E g \in Nat : job' = [job EXCEPT ![c].phase = "mounted", ![c].gen = g]
      <4>1. PICK g \in Nat : job' = [job EXCEPT ![c].phase = "mounted", ![c].gen = g]
        BY <3>2
      <4>. DEFINE j == [job[c] EXCEPT !.phase = "mounted", !.gen = g]
      <4>2. j \in Jobs
        BY JobTyped DEF Jobs, Phases
      <4>3. job' = [job EXCEPT ![c] = j]
        BY <4>1
      <4>. HIDE DEF j
      <4>. QED  BY <4>2, <4>3, JobMoves
    <3>. QED  BY <1>14, <2>0, <3>1, <3>2 DEF JobMounts
  <2>. QED  BY <1>14, <2>1, <2>2 DEF JobMounts, ColdTypeOK
<1>15. ASSUME NEW c \in Calls, AddsAll(c) PROVE ColdTypeOK'
  <2>1. job' \in [Calls -> Jobs]
    BY <1>15, ExitTyped, GoesOnTyped DEF AddsAll, Words, Phases
  <2>2. repo' \in Repos
    <3>1. <<repo.edits, repo.formatted>> \in Trees
      BY DEF ColdTypeOK, Repos, Trees
    <3>2. [repo EXCEPT !.index = <<repo.edits, repo.formatted>>] \in Repos
      BY <3>1 DEF ColdTypeOK, Repos
    <3>. QED  BY <1>15, <3>2 DEF AddsAll, ColdTypeOK
  <2>. QED  BY <1>15, <2>1, <2>2 DEF AddsAll, ColdTypeOK
<1>16. ASSUME NEW c \in Calls, Diffs(c) PROVE ColdTypeOK'
  <2>1. PICK d \in {"shown", "taken", "empty", "failed"} :
            job' = [job EXCEPT ![c].phase = "exited", ![c].diff = d,
                               ![c].status = IF d = "shown" THEN "ok" ELSE "failed"]
    BY <1>16 DEF Diffs, WhyEmpty
  <2>2. PICK w \in {"ok", "failed"} : w = IF d = "shown" THEN "ok" ELSE "failed"
    OBVIOUS
  <2>. DEFINE j == [job[c] EXCEPT !.phase = "exited", !.diff = d, !.status = w]
  <2>3. j \in Jobs
    BY JobTyped DEF Jobs, Phases, Words, Shows
  <2>4. job' = [job EXCEPT ![c] = j]
    BY <2>1, <2>2
  <2>. HIDE DEF j
  <2>5. job' \in [Calls -> Jobs]
    BY <2>3, <2>4, JobMoves
  <2>. QED  BY <1>16, <1>J, <2>5 DEF Diffs
<1>17. ASSUME NEW c \in Calls, Receive(c) \/ ChargeStep(c) \/ PruneScan(c) \/ PruneDelete(c) \/ Refuse(c)
                              \/ ForwardFails(c) \/ (\E bytes \in Sizes : ChargeBytes(c, bytes)) \/ Deliver(c)
       PROVE  ColdTypeOK'
  BY <1>0, <1>17 DEF Receive, ChargeStep, PruneScan, PruneDelete, Refuse, ForwardFails, ChargeBytes, Deliver
<1>18. ASSUME NEW r \in Runs, RunCleanup(r) PROVE ColdTypeOK'
  BY <1>0, <1>18 DEF RunCleanup
<1>19. CASE UNCHANGED <<gatewayVars, coldVars>>
  BY <1>0, <1>19
<1>. QED
  BY <1>1, <1>2, <1>3, <1>4, <1>5, <1>6, <1>7, <1>8, <1>9, <1>10, <1>11, <1>12, <1>13, <1>14, <1>15, <1>16,
     <1>17, <1>18, <1>19
  DEF GatewayNext

-----------------------------------------------------------------------------
(* Imports leave a whole repository or none *)

\* As long as no two imports overlapped, one at most is under way; the repository
\* is not whole while it is, and what stands there before its clone is a stray.
OneClones == ~overlap => \A i, j \in Importing : i = j
Emptied ==
    ~overlap => \A i \in Importing :
        ~repo.whole /\ (import[i].phase = "removed" /\ repo.there => repo.stray)
ImportInv == OneClones /\ Emptied /\ ImportKept /\ (repo.whole => repo.there)

LEMMA ImportInvInit == GatewayInit => ImportInv
<1>. SUFFICES ASSUME GatewayInit PROVE ImportInv
  OBVIOUS
<1>1. Importing = {}
  BY DEF GatewayInit, ColdInit, Importing, NoImport
<1>2. repo.whole = repo.there /\ (repo.there <=> last = "ok")
  BY DEF GatewayInit, ColdInit
<1>. QED  BY <1>1, <1>2 DEF ImportInv, OneClones, Emptied, ImportKept

\* Steps of jobs change at most the edits, the format and the index of the tree, or
\* make a stray.
JobsKeep ==
    /\ UNCHANGED <<import, overlap, last>>
    /\ repo'.whole = repo.whole
    /\ \/ repo'.there = repo.there /\ repo'.stray = repo.stray
       \/ repo'.there /\ repo'.stray

LEMMA ImportInvKept == ASSUME ImportInv, JobsKeep PROVE ImportInv'
<1>1. Importing' = Importing /\ overlap' = overlap /\ import' = import /\ last' = last
  BY DEF Importing, JobsKeep
<1>. QED  BY <1>1 DEF ImportInv, OneClones, Emptied, ImportKept, JobsKeep

LEMMA ImportInvBegins ==
  ASSUME ColdTypeOK, ImportInv, NEW i \in Importers, NEW force \in BOOLEAN, ImportBegins(i, force)
  PROVE  ImportInv'
<1>1. CASE import' = [import EXCEPT ![i].phase = "ended"] /\ UNCHANGED <<repo, overlap, last>>
  <2>1. Importing' = Importing /\ \A j \in Importing : import'[j] = import[j]
    BY <1>1 DEF ImportBegins, Importing, ColdTypeOK, Imports
  <2>. QED  BY <1>1, <2>1 DEF ImportInv, OneClones, Emptied, ImportKept
<1>2. CASE /\ repo' \in IF repo.there THEN Removals ELSE {repo}
           /\ import' = [import EXCEPT ![i].phase = "removed"]
           /\ overlap' = (overlap \/ Importing # {})
  <2>1. Importing' = Importing \cup {i}
    BY <1>2 DEF ImportBegins, Importing, ColdTypeOK, Imports
  <2>2. ~overlap' => Importing = {}
    BY <1>2
  <2>3. ~repo'.whole /\ (repo'.there => repo'.stray)
    <3>1. CASE repo.there
      BY <1>2, <3>1, RemovalClears DEF Cleared
    <3>2. CASE ~repo.there
      BY <1>2, <3>2 DEF ImportInv
    <3>. QED  BY <3>1, <3>2
  <2>. QED  BY <2>1, <2>2, <2>3 DEF ImportInv, OneClones, Emptied, ImportKept
<1>. QED  BY <1>1, <1>2 DEF ImportBegins

\* An error before the clone: the directory is gone, or a stray.
LEMMA ImportInvFails ==
  ASSUME ColdTypeOK, ImportInv, NEW i \in Importers, ImportFails(i)
  PROVE  ImportInv'
<1>1. /\ Importing' = Importing \ {i} /\ i \in Importing /\ overlap' = overlap /\ repo' = repo
      /\ import[i].phase = "removed" /\ last' = "failed"
      /\ \A j \in Importing' : import'[j] = import[j]
  BY DEF ImportFails, Importing, ColdTypeOK, Imports
<1>. QED  BY <1>1 DEF ImportInv, OneClones, Emptied, ImportKept

LEMMA ImportInvClones ==
  ASSUME ColdTypeOK, ImportInv, NEW i \in Importers, CloneBegins(i)
  PROVE  ImportInv'
<1>0. repo.gen \in Nat /\ repo.gen + 1 \in Nat
  BY DEF ColdTypeOK, Repos
<1>1. /\ Importing' = Importing /\ i \in Importing /\ overlap' = overlap
      /\ import'[i].phase = "cloning"
  <2>1. PICK g \in Nat : import' = [import EXCEPT ![i] = [phase |-> "cloning", gen |-> g]]
    BY Clones
  <2>2. import[i].phase = "removed" /\ overlap' = overlap
    BY DEF CloneBegins
  <2>. QED  BY <2>1, <2>2 DEF Importing, ColdTypeOK
<1>2. repo'.whole => repo.whole /\ repo'.there
  <2>1. CASE repo' = Directory(repo.gen + 1, TRUE, FALSE)
    BY <1>0, <2>1, DirectoryTyped
  <2>2. CASE repo' = [repo EXCEPT !.stray = FALSE]
    BY <2>2 DEF ImportInv, ColdTypeOK, Repos
  <2>3. CASE repo' = repo
    BY <2>3 DEF ImportInv
  <2>. QED  BY <2>1, <2>2, <2>3 DEF CloneBegins
<1>. QED  BY <1>1, <1>2 DEF ImportInv, OneClones, Emptied, ImportKept

LEMMA ImportInvEnds ==
  ASSUME ColdTypeOK, ImportInv, NEW i \in Importers, ImportEnds(i)
  PROVE  ImportInv'
<1>1. Importing' = Importing \ {i} /\ i \in Importing /\ overlap' = overlap
  BY DEF ImportEnds, Importing, ColdTypeOK, Imports
<1>2. /\ repo'.whole <=> last' = "ok"
      /\ repo'.there /\ last' # "ok" => repo'.stray
      /\ repo'.whole => repo'.there
  <2>1. CASE repo.there /\ repo' = [repo EXCEPT !.whole = TRUE] /\ last' = "ok"
    BY <2>1 DEF ColdTypeOK, Repos
  <2>2. CASE repo' \in Removals /\ last' = "failed"
    BY <2>2, RemovalClears DEF Cleared
  <2>. QED  BY <2>1, <2>2 DEF ImportEnds, AfterFailedClone
<1>. QED  BY <1>1, <1>2 DEF ImportInv, OneClones, Emptied, ImportKept

-----------------------------------------------------------------------------
(* What is told of a patch is true *)

IsPatch(c) == job[c].type = "apply_patch"

\* git apply is behind the job.
Settled(j) == j.phase \in {"applied", "exited"}
InTree(j) == j.phase = "applied" \/ (j.phase = "exited" /\ j.status = "ok")

\* Why a patch in the tree was told as failed.
Excused(j) == j.patch.onlyNew \/ j.diff \in {"taken", "failed"}

\* The job c put the patch p into the tree.
PutBy(c, p) ==
    /\ job[c].patch = p /\ Settled(job[c])
    /\ job[c].phase = "exited" /\ job[c].status = "failed" => Excused(job[c])

ToldRight(j) ==
    j.type = "apply_patch" =>
        /\ j.phase # "testing"
        /\ j.told = "ok" => j.phase = "exited" /\ j.status = "ok"
        /\ j.told = "failed" => j.phase = "exited" /\ (j.status = "failed" \/ j.quota)

\* A directory is never older than a job in it.  A patch that git applied and no
\* later check refused is in the tree its job still has mounted, every edit comes
\* from a job that put it there, and what was told is the status, or a quota.
PatchInv ==
    /\ \A c \in Calls : job[c].gen <= repo.gen
    /\ \A c \in Calls : IsPatch(c) /\ Mounted(c) /\ InTree(job[c]) => job[c].patch \in repo.edits
    /\ \A p \in repo.edits : \E c \in Calls : PutBy(c, p)
    /\ \A c \in Calls : ToldRight(job[c])

LEMMA PatchInvInit == GatewayInit => PatchInv
<1>. SUFFICES ASSUME GatewayInit PROVE PatchInv
  OBVIOUS
<1>1. \A c \in Calls : job[c] = NoJob
  BY DEF GatewayInit, ColdInit
<1>2. NoJob.gen = 0 /\ NoJob.type = "none"
  BY DEF NoJob
<1>3. repo.gen = 0 /\ repo.edits = {}
  BY DEF GatewayInit, ColdInit
<1>. QED  BY <1>1, <1>2, <1>3 DEF PatchInv, IsPatch, ToldRight

\* The facts of PatchInv together say what PatchTold says.
LEMMA PatchInvImplies == PatchInv => PatchTold
<1>. SUFFICES ASSUME PatchInv, NEW c \in Calls, job[c].type = "apply_patch", Mounted(c)
              PROVE  /\ job[c].told = "ok" => job[c].patch \in repo.edits
                     /\ job[c].told = "failed" /\ job[c].patch \in repo.edits =>
                            \/ job[c].patch.onlyNew \/ job[c].quota
                            \/ job[c].diff \in {"taken", "failed"}
                            \/ \E d \in Calls \ {c} : job[d].patch = job[c].patch
  BY DEF PatchTold
<1>0. ToldRight(job[c])
  BY DEF PatchInv
<1>1. job[c].told = "ok" => job[c].patch \in repo.edits
  BY <1>0 DEF PatchInv, IsPatch, ToldRight, InTree
<1>2. ASSUME job[c].told = "failed", job[c].patch \in repo.edits, ~job[c].quota
      PROVE  Excused(job[c]) \/ \E d \in Calls \ {c} : job[d].patch = job[c].patch
  <2>1. PICK d \in Calls : PutBy(d, job[c].patch)
    BY <1>2 DEF PatchInv
  <2>2. job[c].phase = "exited" /\ job[c].status = "failed"
    BY <1>0, <1>2 DEF ToldRight
  <2>. QED  BY <2>1, <2>2 DEF PutBy
<1>. QED  BY <1>1, <1>2 DEF Excused

\* A step of one job that leaves the tree's edits alone.
Stays(j, k) ==
    /\ j.phase = k.phase /\ j.status = k.status /\ j.patch = k.patch /\ j.diff = k.diff
    /\ j.type = k.type /\ j.gen = k.gen /\ j.warm = k.warm
NotYet(j) == j.type = "apply_patch" => ~InTree(j) \/ j.warm

LEMMA PatchInvJob ==
  ASSUME ColdTypeOK, PatchInv, NEW c \in Calls, NEW j, job' = [job EXCEPT ![c] = j],
         repo'.gen = repo.gen, repo'.there = repo.there, repo'.edits = repo.edits,
         j.gen <= repo.gen, ToldRight(j),
         \/ Stays(j, job[c])
         \/ NotYet(j) /\ ~Settled(job[c])
  PROVE  PatchInv'
<1>0. job'[c] = j /\ \A d \in Calls \ {c} : job'[d] = job[d]
  BY DEF ColdTypeOK
<1>1. \A d \in Calls : job'[d].gen <= repo'.gen
  BY <1>0 DEF PatchInv
<1>2. ASSUME NEW d \in Calls, IsPatch(d)', Mounted(d)', InTree(job'[d]) PROVE job'[d].patch \in repo'.edits
  <2>1. CASE d # c
    BY <1>0, <1>2, <2>1 DEF PatchInv, IsPatch, Mounted
  <2>2. CASE d = c /\ Stays(j, job[c])
    BY <1>0, <1>2, <2>2 DEF PatchInv, IsPatch, Mounted, Stays, InTree
  <2>3. CASE d = c /\ NotYet(j)
    BY <1>0, <1>2, <2>3 DEF IsPatch, Mounted, NotYet
  <2>. QED  BY <2>1, <2>2, <2>3
<1>3. ASSUME NEW p \in repo'.edits PROVE \E d \in Calls : PutBy(d, p)'
  <2>1. PICK d \in Calls : PutBy(d, p)
    BY <1>3 DEF PatchInv
  <2>. QED  BY <1>0, <2>1 DEF PutBy, Settled, Stays, Excused
<1>4. \A d \in Calls : ToldRight(job'[d])
  BY <1>0 DEF PatchInv
<1>. QED  BY <1>1, <1>2, <1>3, <1>4 DEF PatchInv

\* The job that ends.
Applied(c, w) == [job[c] EXCEPT !.phase = "exited", !.status = w]

LEMMA ExitFields ==
  ASSUME ColdTypeOK, NEW c \in Calls, NEW w \in Words, Exit(c, w)
  PROVE  /\ job' = [job EXCEPT ![c] = Applied(c, w)]
         /\ Applied(c, w).phase = "exited" /\ Applied(c, w).status = w
         /\ Applied(c, w).type = job[c].type /\ Applied(c, w).patch = job[c].patch
         /\ Applied(c, w).gen = job[c].gen /\ Applied(c, w).warm = job[c].warm
         /\ Applied(c, w).told = job[c].told /\ Applied(c, w).quota = job[c].quota
<1>1. job[c] \in Jobs
  BY JobTyped
<1>. QED  BY <1>1 DEF Exit, Applied, ColdTypeOK, Jobs

\* A job that is not behind git apply fails.
LEMMA PatchInvFails ==
  ASSUME ColdTypeOK, PatchInv, NEW c \in Calls, Exit(c, "failed"), ~Settled(job[c]),
         repo'.gen = repo.gen, repo'.there = repo.there, repo'.edits = repo.edits
  PROVE  PatchInv'
<1>. DEFINE j == Applied(c, "failed")
<1>1. /\ job' = [job EXCEPT ![c] = j] /\ j.phase = "exited" /\ j.status = "failed"
      /\ j.gen = job[c].gen /\ j.type = job[c].type /\ j.told = job[c].told
  BY ExitFields DEF Words
<1>. HIDE DEF j
<1>2. ToldRight(job[c]) /\ j.gen <= repo.gen
  BY <1>1 DEF PatchInv
<1>3. ToldRight(j) /\ NotYet(j)
  BY <1>1, <1>2 DEF ToldRight, NotYet, InTree, Settled
<1>. QED  BY <1>1, <1>2, <1>3, PatchInvJob

\* A job that goes on to a phase before git apply, and works on.
LEMMA PatchInvGoes ==
  ASSUME ColdTypeOK, PatchInv, NEW c \in Calls, NEW f \in {"mounted", "added"},
         NEW g \in Nat, g <= repo.gen, ~Settled(job[c]),
         job' = [job EXCEPT ![c] = [job[c] EXCEPT !.phase = f, !.gen = g]],
         repo'.gen = repo.gen, repo'.there = repo.there, repo'.edits = repo.edits
  PROVE  PatchInv'
<1>. DEFINE j == [job[c] EXCEPT !.phase = f, !.gen = g]
<1>1. job' = [job EXCEPT ![c] = j] /\ j.phase = f /\ j.gen = g /\ j.type = job[c].type /\ j.told = job[c].told
  BY JobTyped DEF Jobs
<1>. HIDE DEF j
<1>2. ToldRight(job[c])
  BY DEF PatchInv
<1>3. ToldRight(j) /\ NotYet(j)
  BY <1>1, <1>2 DEF ToldRight, NotYet, InTree, Settled
<1>. QED  BY <1>1, <1>3, PatchInvJob

LEMMA PatchInvMounts == ASSUME ColdTypeOK, PatchInv, NEW c \in Calls, JobMounts(c) PROVE PatchInv'
<1>0. /\ repo.gen \in Nat /\ repo.gen + 1 \in Nat /\ \A d \in Calls : job[d].gen \in Nat
      /\ job[c].phase = "found" /\ ~Settled(job[c])
  BY JobTyped DEF JobMounts, ColdTypeOK, Repos, Jobs, Settled
<1>1. CASE Exit(c, "failed") /\ UNCHANGED repo
  BY <1>0, <1>1, PatchInvFails
<1>2. CASE job' = [job EXCEPT ![c].phase = "mounted", ![c].gen = repo.gen] /\ UNCHANGED repo
  <2>1. job' = [job EXCEPT ![c] = [job[c] EXCEPT !.phase = "mounted", !.gen = repo.gen]]
    BY <1>2 DEF ColdTypeOK
  <2>2. repo.gen \in Nat /\ repo.gen <= repo.gen
    BY <1>0
  <2>. QED  BY <1>0, <1>2, <2>1, <2>2, PatchInvGoes
<1>3. CASE repo' = Stray /\ job' = [job EXCEPT ![c].phase = "mounted", ![c].gen = repo.gen + 1]
  <2>1. repo'.gen = repo.gen + 1 /\ repo'.edits = {}
    BY <1>0, <1>3, DirectoryTyped DEF Stray
  <2>2. /\ job'[c].phase = "mounted" /\ job'[c].gen = repo.gen + 1
        /\ job'[c].type = job[c].type /\ job'[c].told = job[c].told
        /\ \A d \in Calls \ {c} : job'[d] = job[d]
    BY <1>3, JobTyped DEF ColdTypeOK, Jobs
  <2>3. \A d \in Calls : job'[d].gen <= repo'.gen /\ (Mounted(d)' => d = c)
    BY <1>0, <2>1, <2>2 DEF Mounted, PatchInv
  <2>4. ~InTree(job'[c])
    BY <2>2 DEF InTree
  <2>5. \A d \in Calls : ToldRight(job'[d])
    BY <1>0, <2>2 DEF PatchInv, ToldRight
  <2>. QED  BY <2>1, <2>3, <2>4, <2>5 DEF PatchInv
<1>. QED  BY <1>1, <1>2, <1>3 DEF JobMounts

LEMMA PatchInvAdds == ASSUME ColdTypeOK, PatchInv, NEW c \in Calls, AddsAll(c) PROVE PatchInv'
<1>0. ~Settled(job[c]) /\ job[c].gen <= repo.gen /\ job[c].gen \in Nat
  BY JobTyped DEF AddsAll, Settled, PatchInv, Jobs
<1>1. repo'.gen = repo.gen /\ repo'.there = repo.there /\ repo'.edits = repo.edits
  BY DEF AddsAll, ColdTypeOK, Repos
<1>2. CASE Exit(c, "failed")
  BY <1>0, <1>1, <1>2, PatchInvFails
<1>3. CASE job' = [job EXCEPT ![c].phase = "added"]
  <2>1. job' = [job EXCEPT ![c] = [job[c] EXCEPT !.phase = "added", !.gen = job[c].gen]]
    BY <1>3, JobTyped DEF ColdTypeOK, Jobs
  <2>. QED  BY <1>0, <1>1, <2>1, PatchInvGoes
<1>. QED  BY <1>2, <1>3 DEF AddsAll

LEMMA PatchInvApplies == ASSUME ColdTypeOK, PatchInv, NEW c \in Calls, Applies(c) PROVE PatchInv'
<1>0. /\ job[c].phase = "added" /\ ~Settled(job[c]) /\ job[c] \in Jobs /\ job[c].gen <= repo.gen
      /\ ToldRight(job[c])
  BY JobTyped DEF Applies, PatchInv, Settled
<1>1. CASE UNCHANGED repo /\ Exit(c, StatusOfFailedApply)
  BY <1>0, <1>1, PatchInvFails DEF StatusOfFailedApply
<1>2. CASE /\ repo' = [repo EXCEPT !.edits = @ \cup {job[c].patch}]
           /\ job' = [job EXCEPT ![c].phase = "applied"]
  <2>2. /\ repo'.gen = repo.gen /\ repo'.there = repo.there
        /\ repo'.edits = repo.edits \cup {job[c].patch}
    BY <1>2 DEF ColdTypeOK, Repos
  <2>3. /\ job'[c].phase = "applied" /\ job'[c].status = job[c].status /\ job'[c].patch = job[c].patch
        /\ job'[c].gen = job[c].gen /\ job'[c].told = job[c].told /\ job'[c].type = job[c].type
        /\ \A d \in Calls \ {c} : job'[d] = job[d]
    BY <1>0, <1>2 DEF ColdTypeOK, Jobs
  <2>4. \A d \in Calls : job'[d].gen <= repo'.gen
    BY <1>0, <2>2, <2>3 DEF PatchInv
  <2>5. \A d \in Calls : IsPatch(d)' /\ Mounted(d)' /\ InTree(job'[d]) => job'[d].patch \in repo'.edits
    BY <2>2, <2>3 DEF PatchInv, IsPatch, Mounted
  <2>6. \A p \in repo'.edits : \E d \in Calls : PutBy(d, p)'
    <3>. SUFFICES ASSUME NEW p \in repo'.edits PROVE \E d \in Calls : PutBy(d, p)'
      OBVIOUS
    <3>1. CASE p = job[c].patch
      BY <2>3, <3>1 DEF PutBy, Settled
    <3>2. CASE p \in repo.edits
      <4>1. PICK d \in Calls : PutBy(d, p)
        BY <3>2 DEF PatchInv
      <4>2. d # c
        BY <1>0, <4>1 DEF PutBy
      <4>. QED  BY <2>3, <4>1, <4>2 DEF PutBy
    <3>. QED  BY <2>2, <3>1, <3>2
  <2>7. \A d \in Calls : ToldRight(job'[d])
    BY <1>0, <2>3 DEF PatchInv, ToldRight
  <2>. QED  BY <2>4, <2>5, <2>6, <2>7 DEF PatchInv
<1>. QED  BY <1>1, <1>2 DEF Applies

\* A patch that is in the tree, and that no other step's git add -A took up, shows
\* in the diff unless it only creates files.
LEMMA EmptyExcused ==
  ASSUME NEW c \in Calls, Mounted(c), ~Shown, job[c].patch \in repo.edits, WhyEmpty(c) = "empty"
  PROVE  job[c].patch.onlyNew
<1>1. job[c].patch \notin repo.index[1]
  BY DEF WhyEmpty
<1>. QED  BY <1>1 DEF Shown

LEMMA PatchInvDiffs == ASSUME ColdTypeOK, PatchInv, NEW c \in Calls, Diffs(c) PROVE PatchInv'
<1>0. /\ job[c].phase = "applied" /\ job[c] \in Jobs /\ job[c].gen <= repo.gen /\ ToldRight(job[c])
      /\ repo' = repo
  BY JobTyped DEF Diffs, PatchInv
<1>1. PICK d \in {"shown", "taken", "empty", "failed"} :
          /\ job' = [job EXCEPT ![c].phase = "exited", ![c].diff = d,
                                ![c].status = IF d = "shown" THEN "ok" ELSE "failed"]
          /\ d = "empty" => Mounted(c) /\ ~Shown /\ WhyEmpty(c) = "empty"
  BY DEF Diffs, WhyEmpty
<1>2. /\ job'[c].phase = "exited" /\ job'[c].diff = d /\ job'[c].patch = job[c].patch
      /\ d # "shown" => job'[c].status = "failed"
      /\ job'[c].gen = job[c].gen /\ job'[c].told = job[c].told /\ job'[c].type = job[c].type
      /\ job'[c].warm = job[c].warm
      /\ \A e \in Calls \ {c} : job'[e] = job[e]
  BY <1>0, <1>1 DEF ColdTypeOK, Jobs
<1>3. d = "shown" => job'[c].status = "ok"
  BY <1>0, <1>1 DEF ColdTypeOK, Jobs
<1>4. \A e \in Calls : job'[e].gen <= repo'.gen
  BY <1>0, <1>2 DEF PatchInv
<1>5. \A e \in Calls : IsPatch(e)' /\ Mounted(e)' /\ InTree(job'[e]) => job'[e].patch \in repo'.edits
  BY <1>0, <1>2 DEF PatchInv, IsPatch, Mounted, InTree
<1>6. ASSUME NEW p \in repo'.edits PROVE \E e \in Calls : PutBy(e, p)'
  <2>1. PICK e \in Calls : PutBy(e, p)
    BY <1>0, <1>6 DEF PatchInv
  <2>2. CASE e # c
    BY <1>2, <2>1, <2>2 DEF PutBy
  <2>3. CASE e = c
    <3>1. p = job[c].patch /\ p \in repo.edits
      BY <1>0, <1>6, <2>1, <2>3 DEF PutBy
    <3>2. d = "empty" => job[c].patch.onlyNew
      BY <1>1, <3>1, EmptyExcused
    <3>3. job'[c].status = "failed" => Excused(job'[c])
      BY <1>2, <1>3, <3>2 DEF Excused
    <3>. QED  BY <1>2, <3>1, <3>3 DEF PutBy, Settled
  <2>. QED  BY <2>2, <2>3
<1>7. \A e \in Calls : ToldRight(job'[e])
  BY <1>0, <1>2 DEF PatchInv, ToldRight
<1>. QED  BY <1>4, <1>5, <1>6, <1>7 DEF PatchInv

\* Imports bring a new directory without edits, or take the one there away.
LEMMA PatchInvImports ==
  ASSUME ColdTypeOK, PatchInv, NEW i \in Importers,
         \/ ImportEnds(i) \/ ImportFails(i) \/ CloneBegins(i)
         \/ \E force \in BOOLEAN : ImportBegins(i, force)
  PROVE  PatchInv'
<1>0. job' = job /\ repo.gen \in Nat /\ repo.gen + 1 \in Nat /\ \A c \in Calls : job[c].gen \in Nat
  <2>1. job' = job
    BY DEF ImportEnds, ImportFails, CloneBegins, ImportBegins
  <2>2. repo.gen \in Nat /\ repo.gen + 1 \in Nat
    BY DEF ColdTypeOK, Repos
  <2>3. \A c \in Calls : job[c].gen \in Nat
    BY JobTyped DEF Jobs
  <2>. QED  BY <2>1, <2>2, <2>3
<1>1. CASE repo'.gen = repo.gen /\ repo'.there = repo.there /\ repo'.edits = repo.edits
  BY <1>0, <1>1 DEF PatchInv, IsPatch, Mounted, PutBy
<1>2. CASE repo'.gen = repo.gen + 1 /\ repo'.edits = {}
  <2>1. \A c \in Calls : ~Mounted(c)' /\ job'[c].gen <= repo'.gen
    BY <1>0, <1>2 DEF Mounted, PatchInv
  <2>. QED  BY <1>0, <1>2, <2>1 DEF PatchInv, IsPatch
<1>3. CASE repo'.gen = repo.gen /\ ~repo'.there /\ repo'.edits = {}
  <2>1. \A c \in Calls : ~Mounted(c)'
    BY <1>3 DEF Mounted
  <2>. QED  BY <1>0, <1>3, <2>1 DEF PatchInv, IsPatch
<1>4. \/ repo' = repo \/ repo' = [repo EXCEPT !.whole = TRUE] \/ repo' = [repo EXCEPT !.stray = FALSE]
      \/ repo' \in Removals \/ repo' = Directory(repo.gen + 1, TRUE, FALSE)
  BY DEF ImportEnds, ImportFails, CloneBegins, ImportBegins, AfterFailedClone
<1>5. repo' \in Removals => \/ repo'.gen = repo.gen + 1 /\ repo'.edits = {}
                            \/ repo'.gen = repo.gen /\ ~repo'.there /\ repo'.edits = {}
  BY RemovalClears DEF Cleared
<1>6. repo' = Directory(repo.gen + 1, TRUE, FALSE) => repo'.gen = repo.gen + 1 /\ repo'.edits = {}
  BY <1>0, DirectoryTyped
<1>7. repo' = [repo EXCEPT !.whole = TRUE] \/ repo' = [repo EXCEPT !.stray = FALSE] =>
          repo'.gen = repo.gen /\ repo'.there = repo.there /\ repo'.edits = repo.edits
  BY DEF ColdTypeOK, Repos
<1>. QED  BY <1>1, <1>2, <1>3, <1>4, <1>5, <1>6, <1>7

\* Steps of jobs that work on something else than a patch.
LEMMA PatchInvOther ==
  ASSUME ColdTypeOK, PatchInv, NEW c \in Calls, ~IsPatch(c), ~Settled(job[c]),
         NEW j, job' = [job EXCEPT ![c] = j], j.type = job[c].type, j.gen = job[c].gen,
         repo'.gen = repo.gen, repo'.there = repo.there, repo'.edits = repo.edits
  PROVE  PatchInv'
<1>1. j.gen <= repo.gen /\ ToldRight(j) /\ NotYet(j)
  BY DEF PatchInv, IsPatch, ToldRight, NotYet
<1>. QED  BY <1>1, PatchInvJob

LEMMA PatchInvNext ==
  CallTypeOK /\ ColdTypeOK /\ PatchInv /\ [GatewayNext]_<<gatewayVars, coldVars>> => PatchInv'
<1>. SUFFICES ASSUME CallTypeOK, ColdTypeOK, PatchInv, [GatewayNext]_<<gatewayVars, coldVars>> PROVE PatchInv'
  OBVIOUS
<1>0. ASSUME UNCHANGED coldVars PROVE PatchInv'
  BY <1>0 DEF coldVars, PatchInv, IsPatch, Mounted, PutBy
<1>E. ASSUME NEW c \in Calls, NEW w \in Words, Exit(c, w), ~IsPatch(c), ~Settled(job[c]),
             repo'.gen = repo.gen, repo'.there = repo.there, repo'.edits = repo.edits
      PROVE  PatchInv'
  BY <1>E, ExitFields, PatchInvOther
<1>1. ASSUME NEW c \in Calls, Forward(c) PROVE PatchInv'
  <2>0. repo.gen \in Nat
    BY DEF ColdTypeOK, Repos
  <2>1. RefusedJob.type = "none" /\ RefusedJob.phase = "over" /\ RefusedJob.gen = 0
    BY DEF RefusedJob, NoJob
  <2>2. Begun(c).phase = "found" /\ Begun(c).told = "none" /\ Begun(c).gen = 0
    BY DEF Begun, NoJob
  <2>3. ~Settled(job[c]) /\ repo' = repo
    BY <1>1, JobsBegin DEF Settled
  <2>4. ASSUME NEW j, job' = [job EXCEPT ![c] = j], j.gen = 0, j.phase \in {"found", "over"},
               j.type = "apply_patch" => j.told = "none"
        PROVE  PatchInv'
    <3>1. ToldRight(j) /\ NotYet(j) /\ j.gen <= repo.gen
      BY <2>0, <2>4 DEF ToldRight, NotYet, InTree
    <3>. QED  BY <2>3, <2>4, <3>1, PatchInvJob
  <2>5. CASE job' = [job EXCEPT ![c] = RefusedJob]
    <3>. DEFINE j == RefusedJob
    <3>1. job' = [job EXCEPT ![c] = j] /\ j.gen = 0 /\ j.phase = "over" /\ j.type = "none"
      BY <2>1, <2>5
    <3>. HIDE DEF j
    <3>. QED  BY <2>4, <3>1
  <2>6. CASE job' = [job EXCEPT ![c] = Begun(c)]
    <3>. DEFINE j == Begun(c)
    <3>1. job' = [job EXCEPT ![c] = j] /\ j.gen = 0 /\ j.phase = "found" /\ j.told = "none"
      BY <2>2, <2>6
    <3>. HIDE DEF j
    <3>. QED  BY <2>4, <3>1
  <2>. QED  BY <1>1, <2>5, <2>6, JobsBegin
<1>2. ASSUME NEW c \in Calls, Looks(c) PROVE PatchInv'
  <2>1. PICK word \in {"ok", "failed"} : job' = [job EXCEPT ![c].phase = "over", ![c].told = word]
    BY <1>2 DEF Looks
  <2>. DEFINE j == [job[c] EXCEPT !.phase = "over", !.told = word]
  <2>2. job' = [job EXCEPT ![c] = j] /\ j.type = job[c].type /\ j.gen = job[c].gen
    BY <2>1, JobTyped DEF ColdTypeOK, Jobs
  <2>3. ~IsPatch(c) /\ ~Settled(job[c]) /\ repo' = repo
    BY <1>2 DEF Looks, Effects, IsPatch, Settled
  <2>. HIDE DEF j
  <2>. QED  BY <2>2, <2>3, PatchInvOther
<1>3. ASSUME NEW c \in Calls, Applies(c) PROVE PatchInv'
  BY <1>3, PatchInvApplies
<1>4. ASSUME NEW c \in Calls, Installs(c) PROVE PatchInv'
  BY <1>4, <1>E DEF Installs, IsPatch, Words, Settled
<1>5. ASSUME NEW c \in Calls, Formats(c) PROVE PatchInv'
  <2>1. repo'.gen = repo.gen /\ repo'.there = repo.there /\ repo'.edits = repo.edits
    BY <1>5 DEF Formats, ColdTypeOK, Repos
  <2>. QED  BY <1>5, <1>E, <2>1 DEF Formats, IsPatch, Words, Settled
<1>6. ASSUME NEW c \in Calls, TestsBegin(c) PROVE PatchInv'
  <2>1. CASE Exit(c, "no_venv")
    BY <1>6, <1>E, <2>1 DEF TestsBegin, IsPatch, Words, Settled
  <2>2. CASE job' = [job EXCEPT ![c].phase = "testing", ![c].seen = TreeOf(c)]
    <3>. DEFINE j == [job[c] EXCEPT !.phase = "testing", !.seen = TreeOf(c)]
    <3>1. job' = [job EXCEPT ![c] = j] /\ j.type = job[c].type /\ j.gen = job[c].gen
      BY <2>2, JobTyped DEF ColdTypeOK, Jobs
    <3>2. ~IsPatch(c) /\ ~Settled(job[c]) /\ repo' = repo
      BY <1>6 DEF TestsBegin, IsPatch, Settled
    <3>. HIDE DEF j
    <3>. QED  BY <3>1, <3>2, PatchInvOther
  <2>. QED  BY <1>6, <2>1, <2>2 DEF TestsBegin
<1>7. ASSUME NEW c \in Calls, TestsEnd(c) PROVE PatchInv'
  <2>0. PICK w \in {"failed", "ok", "mutated"} : Exit(c, w)
    BY <1>7 DEF TestsEnd
  <2>1. job[c].phase = "testing" /\ repo' = repo /\ w \in Words
    BY <1>7, <2>0 DEF TestsEnd, Words
  <2>2. ~IsPatch(c) /\ ~Settled(job[c])
    BY <2>1 DEF PatchInv, IsPatch, ToldRight, Settled
  <2>. QED  BY <1>E, <2>0, <2>1, <2>2
<1>8. ASSUME NEW c \in Calls, JobTimesOut(c) PROVE PatchInv'
  <2>. DEFINE j == [job[c] EXCEPT !.told = "timeout"]
  <2>1. job' = [job EXCEPT ![c] = j] /\ Stays(j, job[c]) /\ j.told = "timeout" /\ repo' = repo
    BY <1>8, JobTyped DEF JobTimesOut, TimeoutWord, ColdTypeOK, Jobs, Stays
  <2>. HIDE DEF j
  <2>2. ToldRight(j) /\ j.gen <= repo.gen
    BY <2>1 DEF PatchInv, ToldRight, Stays
  <2>. QED  BY <2>1, <2>2, PatchInvJob
<1>9. ASSUME NEW c \in Calls, JobReturns(c) PROVE PatchInv'
  <2>0. job[c].phase = "exited" /\ repo' = repo /\ ToldRight(job[c]) /\ job[c].gen <= repo.gen
    BY <1>9 DEF JobReturns, PatchInv
  <2>1. CASE job' = [job EXCEPT ![c].told = job[c].status]
    <3>. DEFINE j == [job[c] EXCEPT !.told = job[c].status]
    <3>1. job' = [job EXCEPT ![c] = j] /\ Stays(j, job[c]) /\ j.told = job[c].status
      BY <2>1, JobTyped DEF ColdTypeOK, Jobs, Stays
    <3>. HIDE DEF j
    <3>2. ToldRight(j) /\ j.gen <= repo.gen
      BY <2>0, <3>1 DEF ToldRight, Stays
    <3>. QED  BY <2>0, <3>1, <3>2, PatchInvJob
  <2>2. CASE job' = [job EXCEPT ![c].told = "failed", ![c].quota = (@ \/ job[c].type = "apply_patch")]
    <3>. DEFINE q == job[c].quota \/ job[c].type = "apply_patch"
                j == [job[c] EXCEPT !.told = "failed", !.quota = q]
    <3>1. job' = [job EXCEPT ![c] = j] /\ Stays(j, job[c]) /\ j.told = "failed" /\ j.quota = q
      <4>1. job' = [job EXCEPT ![c].told = "failed", ![c].quota = q]
        BY <2>2 DEF ColdTypeOK
      <4>. HIDE DEF q
      <4>. QED  BY <4>1, JobTyped DEF ColdTypeOK, Jobs, Stays
    <3>2. j.type = "apply_patch" => j.quota
      BY <3>1 DEF Stays
    <3>. HIDE DEF j, q
    <3>3. ToldRight(j) /\ j.gen <= repo.gen
      BY <2>0, <3>1, <3>2 DEF ToldRight, Stays
    <3>. QED  BY <2>0, <3>1, <3>3, PatchInvJob
  <2>. QED  BY <1>9, <2>1, <2>2 DEF JobReturns
<1>10. ASSUME NEW i \in Importers, NEW force \in BOOLEAN, ImportBegins(i, force) PROVE PatchInv'
  BY <1>10, PatchInvImports
<1>11. ASSUME NEW i \in Importers, ImportFails(i) \/ CloneBegins(i) \/ ImportEnds(i) PROVE PatchInv'
  BY <1>11, PatchInvImports
<1>12. ASSUME NEW c \in Calls, Receive(c) \/ ChargeStep(c) \/ PruneScan(c) \/ PruneDelete(c) \/ Refuse(c)
                              \/ ForwardFails(c) \/ (\E bytes \in Sizes : ChargeBytes(c, bytes)) \/ Deliver(c)
       PROVE  PatchInv'
  BY <1>0, <1>12 DEF Receive, ChargeStep, PruneScan, PruneDelete, Refuse, ForwardFails, ChargeBytes, Deliver
<1>13. ASSUME NEW r \in Runs, RunCleanup(r) PROVE PatchInv'
  BY <1>0, <1>13 DEF RunCleanup
<1>14. CASE UNCHANGED <<gatewayVars, coldVars>>
  BY <1>0, <1>14
<1>15. ASSUME NEW c \in Calls, JobMounts(c) \/ AddsAll(c) \/ Diffs(c) PROVE PatchInv'
  BY <1>15, PatchInvMounts, PatchInvAdds, PatchInvDiffs
<1>. QED
  BY <1>1, <1>2, <1>3, <1>4, <1>5, <1>6, <1>7, <1>8, <1>9, <1>10, <1>11, <1>12, <1>13, <1>14, <1>15
  DEF GatewayNext

LEMMA ImportInvNext ==
  ColdTypeOK /\ ImportInv /\ [GatewayNext]_<<gatewayVars, coldVars>> => ImportInv'
<1>. SUFFICES ASSUME ColdTypeOK, ImportInv, [GatewayNext]_<<gatewayVars, coldVars>> PROVE ImportInv'
  OBVIOUS
<1>0. ASSUME UNCHANGED <<repo, import, overlap, last>> PROVE ImportInv'
  BY <1>0, ImportInvKept DEF JobsKeep
<1>1. ASSUME NEW c \in Calls, AddsAll(c) \/ Applies(c) \/ Formats(c) PROVE ImportInv'
  <2>1. repo'.there = repo.there /\ repo'.whole = repo.whole /\ repo'.stray = repo.stray
    BY <1>1 DEF AddsAll, Applies, Formats, ColdTypeOK, Repos
  <2>. QED  BY <1>1, <2>1, ImportInvKept DEF AddsAll, Applies, Formats, JobsKeep
<1>2. ASSUME NEW c \in Calls, Looks(c) \/ Diffs(c) \/ Installs(c) \/ TestsBegin(c) \/ TestsEnd(c)
                              \/ JobTimesOut(c) \/ JobReturns(c)
      PROVE  ImportInv'
  BY <1>0, <1>2 DEF Looks, Diffs, Installs, TestsBegin, TestsEnd, JobTimesOut, JobReturns
<1>3. ASSUME NEW c \in Calls, JobMounts(c) PROVE ImportInv'
  <2>0. repo.gen \in Nat /\ repo.gen + 1 \in Nat
    BY DEF ColdTypeOK, Repos
  <2>1. CASE repo' = repo
    BY <1>0, <1>3, <2>1 DEF JobMounts
  <2>2. CASE ~repo.there /\ repo' = Stray
    <3>1. repo'.there = TRUE /\ repo'.stray = TRUE /\ repo'.whole = FALSE
      BY <2>0, <2>2, DirectoryTyped DEF Stray
    <3>2. repo.whole = FALSE
      BY <2>2 DEF ImportInv, ColdTypeOK, Repos
    <3>. QED  BY <1>3, <3>1, <3>2, ImportInvKept DEF JobMounts, JobsKeep
  <2>. QED  BY <1>3, <2>1, <2>2 DEF JobMounts
<1>4. ASSUME NEW c \in Calls, Forward(c) PROVE ImportInv'
  BY <1>0, <1>4, JobsBegin
<1>5. ASSUME NEW i \in Importers, NEW force \in BOOLEAN, ImportBegins(i, force) PROVE ImportInv'
  BY <1>5, ImportInvBegins
<1>6. ASSUME NEW i \in Importers, ImportFails(i) PROVE ImportInv'
  BY <1>6, ImportInvFails
<1>7. ASSUME NEW i \in Importers, CloneBegins(i) PROVE ImportInv'
  BY <1>7, ImportInvClones
<1>8. ASSUME NEW i \in Importers, ImportEnds(i) PROVE ImportInv'
  BY <1>8, ImportInvEnds
<1>9. ASSUME NEW c \in Calls, Receive(c) \/ ChargeStep(c) \/ PruneScan(c) \/ PruneDelete(c) \/ Refuse(c)
                              \/ ForwardFails(c) \/ (\E bytes \in Sizes : ChargeBytes(c, bytes)) \/ Deliver(c)
      PROVE  ImportInv'
  BY <1>0, <1>9
  DEF Receive, ChargeStep, PruneScan, PruneDelete, Refuse, ForwardFails, ChargeBytes, Deliver, coldVars
<1>10. ASSUME NEW r \in Runs, RunCleanup(r) PROVE ImportInv'
  BY <1>0, <1>10 DEF RunCleanup, coldVars
<1>11. CASE UNCHANGED <<gatewayVars, coldVars>>
  BY <1>0, <1>11 DEF coldVars
<1>. QED
  BY <1>1, <1>2, <1>3, <1>4, <1>5, <1>6, <1>7, <1>8, <1>9, <1>10, <1>11 DEF GatewayNext

-----------------------------------------------------------------------------
(* Budgets.  What was forwarded for a key, and what is charged and on its way  *)
(* to be, is in the key's entry and within its limits, until the entry may go. *)

Counts == [reads : Nat, searches : Nat, bytes : Nat]

\* Calls that are charged and have not been forwarded, of steps of the types T.
Unforwarded(k, T) ==
    {c \in Calls : call[c].pc \in {"prune", "delete", "check"} /\ Key(c) = k /\ call[c].step.type \in T}
Owing == {c \in Calls : call[c].pc \in {"prune", "delete", "check"} /\ call[c].step.type \in Metered}

UsageInv ==
    /\ usage \in [DOMAIN usage -> Counts]
    /\ spent \in [Keys -> Counts]
    /\ charged \in [BudgetScopes -> SUBSET Iters]
    /\ \A k \in DOMAIN usage : k[2] \in charged[k[1]]
    /\ \A c \in Calls : \A k \in call[c].drop : Pruned(k)
    /\ IsFiniteSet(Owing)

Within(n, used, max) == n <= used /\ n <= max

Account(k) ==
    /\ Within(spent[k].reads + Cardinality(Unforwarded(k, Reads)), Entry(k).reads, MaxReads)
    /\ Within(spent[k].searches + Cardinality(Unforwarded(k, Searches)), Entry(k).searches, MaxSearches)
    /\ Within(spent[k].bytes, Entry(k).bytes, MaxBytes)

BudgetInv == UsageInv /\ \A k \in Keys : Pruned(k) \/ Account(k)

LEMMA EntryTyped ==
  ASSUME UsageInv, NEW k \in Keys
  PROVE  Entry(k) \in Counts /\ spent[k] \in Counts
<1>1. Nothing \in Counts
  BY DEF Nothing, Counts
<1>. QED  BY <1>1 DEF UsageInv, Entry

\* A count raises one of the three numbers, by one or by the bytes.
LEMMA Counted ==
  ASSUME NEW u \in Counts, NEW type, NEW bytes \in Nat
  PROVE  /\ Count(u, type, bytes) \in Counts
         /\ bytes > 0 => /\ Count(u, type, bytes).bytes = u.bytes + bytes
                         /\ Count(u, type, bytes).reads = u.reads
                         /\ Count(u, type, bytes).searches = u.searches
         /\ bytes = 0 => /\ Count(u, type, bytes).bytes = u.bytes
                         /\ Count(u, type, bytes).reads = u.reads + (IF type \in Reads THEN 1 ELSE 0)
                         /\ Count(u, type, bytes).searches = u.searches + (IF type \in Reads THEN 0 ELSE 1)
<1>1. CASE bytes > 0
  BY <1>1 DEF Count, Counts
<1>2. CASE bytes = 0 /\ type \in Reads
  BY <1>2 DEF Count, Counts
<1>3. CASE bytes = 0 /\ type \notin Reads
  BY <1>3 DEF Count, Counts
<1>. QED  BY <1>1, <1>2, <1>3

LEMMA UnforwardedFinite ==
  ASSUME IsFiniteSet(Owing), NEW k, NEW T \in SUBSET Metered
  PROVE  IsFiniteSet(Unforwarded(k, T)) /\ Cardinality(Unforwarded(k, T)) \in Nat
<1>1. Unforwarded(k, T) \subseteq Owing
  BY DEF Unforwarded, Owing
<1>. QED  BY <1>1, FS_Subset, FS_CardinalityType

LEMMA MeteredTypes == /\ Reads \in SUBSET Metered /\ Searches \in SUBSET Metered
                      /\ Reads \cap Searches = {} /\ Metered = Searches \cup Reads
BY DEF Reads, Searches, Metered

\* What is forgotten stays forgotten.
LEMMA PrunedStays ==
  ASSUME charged' \in [BudgetScopes -> SUBSET Iters], NEW k \in Keys, Pruned(k),
         charged[k[1]] \subseteq charged'[k[1]]
  PROVE  Pruned(k)'
<1>. DEFINE A == {j \in charged[k[1]] : j > k[2]}
            B == {j \in charged'[k[1]] : j > k[2]}
<1>1. A \subseteq B /\ B \subseteq Iters
  BY DEF Keys
<1>2. IsFiniteSet(B) /\ IsFiniteSet(A)
  BY <1>1, GatewayAssumption, FS_Subset
<1>3. Cardinality(A) \in Nat /\ Cardinality(B) \in Nat /\ Cardinality(A) <= Cardinality(B)
  BY <1>1, <1>2, FS_Subset, FS_CardinalityType
<1>4. Cardinality(A) >= KeepIters /\ KeepIters \in Nat
  BY GatewayAssumption DEF Pruned
<1>5. Cardinality(B) >= KeepIters
  BY <1>3, <1>4
<1>. QED  BY <1>5 DEF Pruned

\* An account with the same sums, no fewer charged and no more on the way.
LEMMA AccountKept ==
  ASSUME UsageInv, UsageInv', NEW k \in Keys, Account(k), spent'[k] = spent[k],
         \A T \in {Reads, Searches} : Unforwarded(k, T)' \subseteq Unforwarded(k, T),
         Entry(k).reads <= Entry(k)'.reads, Entry(k).searches <= Entry(k)'.searches,
         Entry(k).bytes <= Entry(k)'.bytes
  PROVE  Account(k)'
<1>1. /\ Cardinality(Unforwarded(k, Reads)) \in Nat /\ Cardinality(Unforwarded(k, Searches)) \in Nat
      /\ IsFiniteSet(Unforwarded(k, Reads)) /\ IsFiniteSet(Unforwarded(k, Searches))
  BY UnforwardedFinite, MeteredTypes DEF UsageInv
<1>2. /\ Cardinality(Unforwarded(k, Reads)') \in Nat /\ Cardinality(Unforwarded(k, Searches)') \in Nat
      /\ Cardinality(Unforwarded(k, Reads)') <= Cardinality(Unforwarded(k, Reads))
      /\ Cardinality(Unforwarded(k, Searches)') <= Cardinality(Unforwarded(k, Searches))
  BY <1>1, FS_Subset, FS_CardinalityType
<1>3. Entry(k) \in Counts /\ Entry(k)' \in Counts /\ spent[k] \in Counts
  <2>1. Nothing \in Counts
    BY DEF Nothing, Counts
  <2>. QED  BY <2>1 DEF UsageInv, Entry
<1>4. MaxReads \in Nat /\ MaxSearches \in Nat /\ MaxBytes \in Nat
  BY GatewayAssumption
<1>. QED  BY <1>1, <1>2, <1>3, <1>4 DEF Account, Within, Counts

\* Call c goes on, as itself.
GoesOn(c) ==
    /\ \A d \in Calls \ {c} : call'[d] = call[d]
    /\ call'[c].step = call[c].step /\ call'[c].run = call[c].run /\ call'[c].it = call[c].it

\* It does not come to owe anything.
StopsOwing(c) ==
    call'[c].pc \in {"prune", "delete", "check"} =>
        call[c].pc \in {"prune", "delete", "check"} \/ call[c].step.type \notin Metered

LEMMA OwesNoMore ==
  ASSUME NEW c \in Calls, GoesOn(c), StopsOwing(c)
  PROVE  /\ Owing' \subseteq Owing
         /\ \A k : \A T \in {Reads, Searches} : Unforwarded(k, T)' \subseteq Unforwarded(k, T)
<1>1. \A d \in Calls : /\ call'[d].step = call[d].step /\ Key(d)' = Key(d)
                       /\ d # c => call'[d].pc = call[d].pc
  BY DEF GoesOn, Key
<1>2. Owing' \subseteq Owing
  BY <1>1 DEF StopsOwing, Owing
<1>3. ASSUME NEW k, NEW T \in SUBSET Metered PROVE Unforwarded(k, T)' \subseteq Unforwarded(k, T)
  BY <1>1 DEF StopsOwing, Unforwarded
<1>. QED  BY <1>2, <1>3, MeteredTypes

\* Steps that charge nothing and forward nothing.
LEMMA BudgetKept ==
  ASSUME CallTypeOK, BudgetInv, NEW c \in Calls, GoesOn(c), StopsOwing(c),
         UNCHANGED <<usage, spent, charged>>, \A k \in call'[c].drop : Pruned(k)
  PROVE  BudgetInv'
<1>1. UsageInv'
  <2>1. IsFiniteSet(Owing')
    BY OwesNoMore, FS_Subset DEF BudgetInv, UsageInv
  <2>2. \A d \in Calls : \A k \in call'[d].drop : Pruned(k)
    BY DEF BudgetInv, UsageInv, GoesOn
  <2>3. \A k : Pruned(k)' <=> Pruned(k)
    BY DEF Pruned
  <2>. QED  BY <2>1, <2>2, <2>3 DEF BudgetInv, UsageInv
<1>2. ASSUME NEW k \in Keys, Account(k) PROVE Account(k)'
  <2>1. Entry(k)' = Entry(k) /\ Entry(k) \in Counts
    BY EntryTyped DEF Entry, BudgetInv
  <2>2. Entry(k).reads \in Nat /\ Entry(k).searches \in Nat /\ Entry(k).bytes \in Nat
    BY <2>1 DEF Counts
  <2>3. /\ Entry(k).reads <= Entry(k)'.reads /\ Entry(k).searches <= Entry(k)'.searches
        /\ Entry(k).bytes <= Entry(k)'.bytes
    BY <2>1, <2>2
  <2>. QED  BY <1>1, <1>2, <2>3, OwesNoMore, AccountKept DEF BudgetInv
<1>. QED  BY <1>1, <1>2 DEF BudgetInv, Pruned

\* The keys a scan picks are of iterations that enough later ones were charged after.
LEMMA StalePruned ==
  ASSUME CallTypeOK, UsageInv, NEW s \in BudgetScopes, NEW k \in Stale(s)
  PROVE  Pruned(k)
<1>1. PICK i \in ItersOf(s) : k = <<s, i>> /\ Cardinality({j \in ItersOf(s) : j > i}) >= KeepIters
  BY DEF Stale
<1>. DEFINE A == {j \in ItersOf(s) : j > i}
            B == {j \in charged[s] : j > i}
<1>2. ItersOf(s) \subseteq charged[s]
  <2>1. \A x \in DOMAIN usage : x[2] \in charged[x[1]]
    BY DEF UsageInv
  <2>. QED  BY <2>1 DEF ItersOf
<1>3. A \subseteq B /\ B \subseteq Iters
  BY <1>2 DEF UsageInv
<1>4. IsFiniteSet(B) /\ IsFiniteSet(A)
  BY <1>3, GatewayAssumption, FS_Subset
<1>5. Cardinality(A) \in Nat /\ Cardinality(B) \in Nat /\ Cardinality(A) <= Cardinality(B)
  BY <1>3, <1>4, FS_Subset, FS_CardinalityType
<1>6. Cardinality(A) >= KeepIters /\ KeepIters \in Nat
  BY <1>1, GatewayAssumption
<1>7. Cardinality(B) >= KeepIters
  BY <1>5, <1>6
<1>. QED  BY <1>1, <1>7 DEF Pruned

\* Deleting what was picked forgets no key that still counts.
LEMMA BudgetPruned ==
  ASSUME CallTypeOK, BudgetInv, NEW c \in Calls, PruneDelete(c)
  PROVE  BudgetInv'
<1>1. /\ usage' = [k \in DOMAIN usage \ call[c].drop |-> usage[k]]
      /\ UNCHANGED <<spent, charged>>
      /\ call[c].pc \in {"delete", "delete_bytes"}
  BY DEF PruneDelete
<1>2. GoesOn(c) /\ StopsOwing(c) /\ call'[c].drop = {}
  BY <1>1, CallKeyed DEF PruneDelete, GoesOn, StopsOwing, CallTypeOK, CallRecords
<1>3. \A k : Pruned(k)' <=> Pruned(k)
  BY <1>1 DEF Pruned
<1>4. UsageInv'
  <2>1. IsFiniteSet(Owing')
    BY <1>2, OwesNoMore, FS_Subset DEF BudgetInv, UsageInv
  <2>2. \A d \in Calls : \A k \in call'[d].drop : Pruned(k)
    BY <1>2 DEF BudgetInv, UsageInv, GoesOn
  <2>. QED  BY <1>1, <1>3, <2>1, <2>2 DEF BudgetInv, UsageInv
<1>5. ASSUME NEW k \in Keys, ~Pruned(k) PROVE Account(k)'
  <2>1. k \notin call[c].drop
    BY <1>5 DEF BudgetInv, UsageInv
  <2>2. Entry(k)' = Entry(k) /\ Entry(k) \in Counts
    BY <1>1, <2>1, EntryTyped DEF Entry, BudgetInv
  <2>3. Entry(k).reads \in Nat /\ Entry(k).searches \in Nat /\ Entry(k).bytes \in Nat
    BY <2>2 DEF Counts
  <2>4. /\ Entry(k).reads <= Entry(k)'.reads /\ Entry(k).searches <= Entry(k)'.searches
        /\ Entry(k).bytes <= Entry(k)'.bytes
    BY <2>2, <2>3
  <2>. QED  BY <1>1, <1>2, <1>4, <1>5, <2>4, OwesNoMore, AccountKept DEF BudgetInv
<1>. QED  BY <1>3, <1>4, <1>5 DEF BudgetInv

\* What counting in an entry changes: the entry, and the iteration is charged.
LEMMA EntryPut ==
  ASSUME CallTypeOK, BudgetInv, NEW g \in Keys, NEW u \in Counts, usage' = Put(g, u),
         charged' = [charged EXCEPT ![g[1]] = @ \cup {g[2]}],
         spent' \in [Keys -> Counts], IsFiniteSet(Owing'),
         \A c \in Calls : call'[c].drop \subseteq call[c].drop
  PROVE  /\ UsageInv'
         /\ \A k \in Keys : Pruned(k) => Pruned(k)'
         /\ \A k \in Keys : Entry(k)' = IF k = g THEN u ELSE Entry(k)
<1>0. g[1] \in BudgetScopes /\ g[2] \in Iters /\ charged \in [BudgetScopes -> SUBSET Iters]
  BY DEF Keys, BudgetInv, UsageInv
<1>1. /\ DOMAIN usage' = DOMAIN usage \cup {g}
      /\ \A k \in DOMAIN usage' : usage'[k] = IF k = g THEN u ELSE usage[k]
      /\ usage' = [k \in DOMAIN usage' |-> usage'[k]]
  BY DEF Put
<1>2. \A k \in Keys : Entry(k)' = IF k = g THEN u ELSE Entry(k)
  BY <1>1 DEF Entry
<1>3. /\ charged' \in [BudgetScopes -> SUBSET Iters]
      /\ \A s \in BudgetScopes : charged[s] \subseteq charged'[s]
      /\ g[2] \in charged'[g[1]]
  BY <1>0
<1>4. \A k \in Keys : Pruned(k) => Pruned(k)'
  <2>1. \A k \in Keys : k[1] \in BudgetScopes
    BY DEF Keys
  <2>. QED  BY <1>3, <2>1, PrunedStays
<1>5. UsageInv'
  <2>1. usage' \in [DOMAIN usage' -> Counts]
    BY <1>1 DEF BudgetInv, UsageInv
  <2>2. \A k \in DOMAIN usage' : k[2] \in charged'[k[1]]
    <3>1. \A k \in DOMAIN usage : k[2] \in charged[k[1]] /\ k[1] \in BudgetScopes
      BY DEF BudgetInv, UsageInv, CallTypeOK, Keys
    <3>. QED  BY <1>1, <1>3, <3>1
  <2>3. \A c \in Calls : \A k \in call'[c].drop : Pruned(k)'
    <3>1. \A c \in Calls : \A k \in call'[c].drop : Pruned(k) /\ k \in Keys
      BY CallKeyed DEF BudgetInv, UsageInv, CallRecords
    <3>. QED  BY <1>4, <3>1
  <2>. QED  BY <1>3, <2>1, <2>2, <2>3 DEF UsageInv
<1>. QED  BY <1>2, <1>4, <1>5

\* A charge that is refused owes nothing; one that is not is within the limits.
LEMMA BudgetCharged ==
  ASSUME CallTypeOK, BudgetInv, NEW c \in Calls, ChargeStep(c)
  PROVE  BudgetInv'
<1>. DEFINE type == call[c].step.type
<1>0. PICK g \in Keys : g = Key(c) /\ g[1] = call[c].run /\ g[2] = call[c].it
  BY CallKeyed DEF Key
<1>1. PICK u \in Counts : u = Count(Entry(g), type, 0)
  BY <1>0, EntryTyped, Counted DEF BudgetInv
<1>2. /\ usage' = Put(g, u) /\ spent' = spent /\ call[c].pc = "charge"
      /\ charged' = [charged EXCEPT ![g[1]] = @ \cup {g[2]}]
      /\ call' = [call EXCEPT ![c].pc = IF Exceeds(u) THEN "answered" ELSE "prune",
                              ![c].answer = IF Exceeds(u) THEN "429" ELSE @]
  BY <1>0, <1>1 DEF ChargeStep, Charge
<1>3. GoesOn(c) /\ call'[c].drop = call[c].drop
      /\ call'[c].pc = IF Exceeds(u) THEN "answered" ELSE "prune"
  BY <1>2, CallKeyed DEF GoesOn, CallTypeOK, CallRecords
<1>4. /\ \A d \in Calls : call'[d].step = call[d].step /\ Key(d)' = Key(d)
      /\ \A d \in Calls : d # c => call'[d].pc = call[d].pc
      /\ \A d \in Calls : call'[d].drop = call[d].drop
  BY <1>3 DEF GoesOn, Key
<1>5. Owing' \subseteq Owing \cup {c}
  BY <1>4 DEF Owing
<1>6. IsFiniteSet(Owing')
  <2>1. IsFiniteSet(Owing \cup {c})
    BY FS_AddElement DEF BudgetInv, UsageInv
  <2>. QED  BY <1>5, <2>1, FS_Subset
<1>7. /\ UsageInv' /\ \A k \in Keys : Pruned(k) => Pruned(k)'
      /\ \A k \in Keys : Entry(k)' = IF k = g THEN u ELSE Entry(k)
  <2>1. spent' \in [Keys -> Counts] /\ \A d \in Calls : call'[d].drop \subseteq call[d].drop
    BY <1>2, <1>4 DEF BudgetInv, UsageInv
  <2>. QED  BY <1>0, <1>2, <1>6, <2>1, EntryPut
<1>8. \A k \in Keys : Entry(k) \in Counts /\ spent[k] \in Counts
  BY EntryTyped DEF BudgetInv
<1>9. /\ u.bytes = Entry(g).bytes
      /\ u.reads = Entry(g).reads + (IF type \in Reads THEN 1 ELSE 0)
      /\ u.searches = Entry(g).searches + (IF type \in Reads THEN 0 ELSE 1)
  BY <1>0, <1>1, <1>8, Counted
<1>10. /\ Entry(g).reads \in Nat /\ Entry(g).searches \in Nat /\ Entry(g).bytes \in Nat
       /\ u.reads \in Nat /\ u.searches \in Nat /\ u.bytes \in Nat
       /\ spent[g].reads \in Nat /\ spent[g].searches \in Nat /\ spent[g].bytes \in Nat
  BY <1>0, <1>1, <1>8 DEF Counts
<1>11. ASSUME NEW k \in Keys, Account(k), k # g \/ Exceeds(u) PROVE Account(k)'
  <2>1. \A T \in {Reads, Searches} : Unforwarded(k, T)' \subseteq Unforwarded(k, T)
    BY <1>0, <1>3, <1>4, <1>11 DEF Unforwarded
  <2>2. Entry(k).reads \in Nat /\ Entry(k).searches \in Nat /\ Entry(k).bytes \in Nat
    BY <1>8 DEF Counts
  <2>3. /\ Entry(k).reads <= Entry(k)'.reads /\ Entry(k).searches <= Entry(k)'.searches
        /\ Entry(k).bytes <= Entry(k)'.bytes
    BY <1>7, <1>9, <1>10, <2>2
  <2>. QED  BY <1>2, <1>7, <1>11, <2>1, <2>3, AccountKept DEF BudgetInv
<1>12. ASSUME Account(g), ~Exceeds(u) PROVE Account(g)'
  <2>0. /\ u.reads <= MaxReads /\ u.searches <= MaxSearches /\ u.bytes <= MaxBytes
        /\ MaxReads \in Nat /\ MaxSearches \in Nat /\ MaxBytes \in Nat
    BY <1>10, <1>12, GatewayAssumption DEF Exceeds
  <2>1. Key(c)' = g /\ c \notin Unforwarded(g, Reads) /\ c \notin Unforwarded(g, Searches)
    BY <1>0, <1>2, <1>4 DEF Unforwarded
  <2>2. /\ Unforwarded(g, Reads)' = IF type \in Reads THEN Unforwarded(g, Reads) \cup {c}
                                    ELSE Unforwarded(g, Reads)
        /\ Unforwarded(g, Searches)' \subseteq Unforwarded(g, Searches) \cup {c}
        /\ type \in Reads => Unforwarded(g, Searches)' \subseteq Unforwarded(g, Searches)
    BY <1>2, <1>3, <1>4, <1>12, <2>1, MeteredTypes, ZenonT(30) DEF Unforwarded
  <2>3. /\ IsFiniteSet(Unforwarded(g, Reads)) /\ Cardinality(Unforwarded(g, Reads)) \in Nat
        /\ IsFiniteSet(Unforwarded(g, Searches)) /\ Cardinality(Unforwarded(g, Searches)) \in Nat
    BY UnforwardedFinite, MeteredTypes DEF BudgetInv, UsageInv
  <2>. DEFINE r == Cardinality(Unforwarded(g, Reads)')
              s == Cardinality(Unforwarded(g, Searches)')
  <2>4. r = Cardinality(Unforwarded(g, Reads)) + (IF type \in Reads THEN 1 ELSE 0)
    <3>1. CASE type \in Reads
      <4>1. Cardinality(Unforwarded(g, Reads) \cup {c}) = Cardinality(Unforwarded(g, Reads)) + 1
        BY <2>1, <2>3, FS_AddElement
      <4>. QED  BY <2>2, <2>3, <3>1, <4>1
    <3>2. CASE type \notin Reads
      BY <2>2, <2>3, <3>2
    <3>. QED  BY <3>1, <3>2
  <2>5. s \in Nat /\ s <= Cardinality(Unforwarded(g, Searches)) + (IF type \in Reads THEN 0 ELSE 1)
    <3>1. CASE type \in Reads
      <4>1. IsFiniteSet(Unforwarded(g, Searches)') /\ s <= Cardinality(Unforwarded(g, Searches))
        BY <2>2, <2>3, <3>1, FS_Subset
      <4>. QED  BY <2>3, <3>1, <4>1, FS_CardinalityType
    <3>2. CASE type \notin Reads
      <4>1. /\ IsFiniteSet(Unforwarded(g, Searches) \cup {c})
            /\ Cardinality(Unforwarded(g, Searches) \cup {c}) = Cardinality(Unforwarded(g, Searches)) + 1
        BY <2>1, <2>3, FS_AddElement
      <4>2. /\ IsFiniteSet(Unforwarded(g, Searches)')
            /\ s <= Cardinality(Unforwarded(g, Searches) \cup {c})
        BY <2>2, <4>1, FS_Subset
      <4>. QED  BY <2>3, <3>2, <4>1, <4>2, FS_CardinalityType
    <3>. QED  BY <3>1, <3>2
  <2>6. /\ spent[g].reads + Cardinality(Unforwarded(g, Reads)) <= Entry(g).reads
        /\ spent[g].searches + Cardinality(Unforwarded(g, Searches)) <= Entry(g).searches
        /\ spent[g].bytes <= Entry(g).bytes
    BY <1>12 DEF Account, Within
  <2>7. /\ spent[g].reads + r <= u.reads /\ spent[g].searches + s <= u.searches
        /\ spent[g].bytes <= u.bytes /\ r \in Nat
    BY <1>9, <1>10, <2>3, <2>4, <2>5, <2>6
  <2>8. /\ spent[g].reads + r <= MaxReads /\ spent[g].searches + s <= MaxSearches
        /\ spent[g].bytes <= MaxBytes
    BY <1>10, <2>0, <2>5, <2>7
  <2>9. Entry(g)' = u
    BY <1>7
  <2>. QED  BY <1>2, <2>7, <2>8, <2>9 DEF Account, Within
<1>. QED  BY <1>7, <1>11, <1>12 DEF BudgetInv

\* Forwarding spends what was charged for it.
LEMMA BudgetForwarded ==
  ASSUME CallTypeOK, BudgetInv, NEW c \in Calls, Forward(c)
  PROVE  BudgetInv'
<1>. DEFINE type == call[c].step.type
<1>0. Key(c) \in Keys
  BY CallKeyed
<1>g. PICK g \in Keys : g = Key(c)
  BY <1>0
<1>8. \A k \in Keys : Entry(k) \in Counts /\ spent[k] \in Counts
  BY EntryTyped DEF BudgetInv
<1>1. PICK u \in Counts : u = IF type \in Metered THEN Count(spent[g], type, 0) ELSE spent[g]
  BY <1>8, Counted
<1>2. /\ UNCHANGED <<usage, charged>> /\ call[c].pc = "check"
      /\ spent' = [spent EXCEPT ![g] = u]
      /\ call' = [call EXCEPT ![c].pc = "waiting"]
  BY <1>g, <1>1 DEF Forward
<1>3. GoesOn(c) /\ StopsOwing(c) /\ call'[c].pc = "waiting" /\ call'[c].drop = call[c].drop
  BY <1>2, CallKeyed DEF GoesOn, StopsOwing, CallTypeOK, CallRecords
<1>4. /\ \A d \in Calls : call'[d].step = call[d].step /\ Key(d)' = Key(d)
      /\ \A d \in Calls : d # c => call'[d].pc = call[d].pc
      /\ \A d \in Calls : call'[d].drop = call[d].drop
  BY <1>3 DEF GoesOn, Key
<1>5. \A k : (Pruned(k)' <=> Pruned(k)) /\ Entry(k)' = Entry(k)
  BY <1>2 DEF Pruned, Entry
<1>6. UsageInv'
  <2>1. IsFiniteSet(Owing')
    BY <1>3, OwesNoMore, FS_Subset DEF BudgetInv, UsageInv
  <2>2. spent' \in [Keys -> Counts]
    BY <1>2 DEF BudgetInv, UsageInv
  <2>. QED  BY <1>2, <1>4, <1>5, <2>1, <2>2 DEF BudgetInv, UsageInv
<1>7. ASSUME NEW k \in Keys, Account(k), k # g \/ type \notin Metered PROVE Account(k)'
  <2>1. spent'[k] = spent[k]
    BY <1>1, <1>2, <1>7 DEF BudgetInv, UsageInv
  <2>2. Entry(k).reads \in Nat /\ Entry(k).searches \in Nat /\ Entry(k).bytes \in Nat
    BY <1>8 DEF Counts
  <2>3. /\ Entry(k).reads <= Entry(k)'.reads /\ Entry(k).searches <= Entry(k)'.searches
        /\ Entry(k).bytes <= Entry(k)'.bytes
    BY <1>5, <2>2
  <2>. QED  BY <1>3, <1>6, <1>7, <2>1, <2>3, OwesNoMore, AccountKept DEF BudgetInv
<1>9. ASSUME Account(g), type \in Metered PROVE Account(g)'
  <2>0. /\ spent'[g] = u
        /\ u.bytes = spent[g].bytes
        /\ u.reads = spent[g].reads + (IF type \in Reads THEN 1 ELSE 0)
        /\ u.searches = spent[g].searches + (IF type \in Reads THEN 0 ELSE 1)
    BY <1>1, <1>2, <1>8, <1>9, Counted DEF BudgetInv, UsageInv
  <2>1. /\ type \in Reads => c \in Unforwarded(g, Reads)
        /\ type \notin Reads => c \in Unforwarded(g, Searches)
    BY <1>g, <1>2, <1>9, MeteredTypes DEF Unforwarded
  <2>2. /\ Unforwarded(g, Reads)' = IF type \in Reads THEN Unforwarded(g, Reads) \ {c}
                                    ELSE Unforwarded(g, Reads)
        /\ Unforwarded(g, Searches)' = IF type \in Reads THEN Unforwarded(g, Searches)
                                       ELSE Unforwarded(g, Searches) \ {c}
    BY <1>2, <1>3, <1>4, <1>9, MeteredTypes DEF Unforwarded
  <2>3. /\ IsFiniteSet(Unforwarded(g, Reads)) /\ Cardinality(Unforwarded(g, Reads)) \in Nat
        /\ IsFiniteSet(Unforwarded(g, Searches)) /\ Cardinality(Unforwarded(g, Searches)) \in Nat
    BY UnforwardedFinite, MeteredTypes DEF BudgetInv, UsageInv
  <2>. DEFINE r == Cardinality(Unforwarded(g, Reads)')
              s == Cardinality(Unforwarded(g, Searches)')
  <2>4. r = Cardinality(Unforwarded(g, Reads)) - (IF type \in Reads THEN 1 ELSE 0)
    <3>1. CASE type \in Reads
      <4>1. Cardinality(Unforwarded(g, Reads) \ {c}) = Cardinality(Unforwarded(g, Reads)) - 1
        BY <2>1, <2>3, <3>1, FS_RemoveElement
      <4>. QED  BY <2>2, <2>3, <3>1, <4>1
    <3>2. CASE ~(type \in Reads)
      BY <2>2, <2>3, <3>2
    <3>. QED  BY <3>1, <3>2
  <2>5. s = Cardinality(Unforwarded(g, Searches)) - (IF type \in Reads THEN 0 ELSE 1)
    <3>1. CASE type \notin Reads
      <4>1. Cardinality(Unforwarded(g, Searches) \ {c}) = Cardinality(Unforwarded(g, Searches)) - 1
        BY <2>1, <2>3, <3>1, FS_RemoveElement
      <4>. QED  BY <2>2, <2>3, <3>1, <4>1
    <3>2. CASE ~(type \notin Reads)
      BY <2>2, <2>3, <3>2
    <3>. QED  BY <3>1, <3>2
  <2>6. spent[g].reads \in Nat /\ spent[g].searches \in Nat
    BY <1>8 DEF Counts
  <2>7. /\ u.reads + r = spent[g].reads + Cardinality(Unforwarded(g, Reads))
        /\ u.searches + s = spent[g].searches + Cardinality(Unforwarded(g, Searches))
    BY <2>0, <2>3, <2>4, <2>5, <2>6
  <2>. QED  BY <1>5, <1>9, <2>0, <2>7 DEF Account, Within
<1>. QED  BY <1>5, <1>6, <1>7, <1>9 DEF BudgetInv

\* The bytes of an answer are counted before it is delivered.
LEMMA BudgetBytes ==
  ASSUME CallTypeOK, BudgetInv, NEW c \in Calls, NEW bytes \in Sizes, ChargeBytes(c, bytes)
  PROVE  BudgetInv'
<1>. DEFINE type == call[c].step.type
<1>0. Key(c) \in Keys /\ Key(c)[1] = call[c].run /\ Key(c)[2] = call[c].it
  BY CallKeyed DEF Key
<1>g. PICK g \in Keys : g = Key(c)
  BY <1>0
<1>b. bytes \in Nat
  BY GatewayAssumption
<1>8. \A k \in Keys : Entry(k) \in Counts /\ spent[k] \in Counts
  BY EntryTyped DEF BudgetInv
<1>9. \A k \in Keys : /\ Entry(k).reads \in Nat /\ Entry(k).searches \in Nat /\ Entry(k).bytes \in Nat
                      /\ spent[k].reads \in Nat /\ spent[k].searches \in Nat /\ spent[k].bytes \in Nat
  BY <1>8 DEF Counts
<1>1. /\ GoesOn(c) /\ StopsOwing(c) /\ call'[c].drop = call[c].drop
      /\ call'[c].pc \in {"answered", "prune_bytes", "store"}
  BY CallKeyed DEF ChargeBytes, Charge, GoesOn, StopsOwing, CallTypeOK, CallRecords
<1>2. PICK n \in Nat : /\ spent' = [spent EXCEPT ![g].bytes = @ + n]
                       /\ n = IF call'[c].pc = "prune_bytes" THEN bytes ELSE 0
  BY <1>g, <1>b DEF ChargeBytes
<1>3. /\ spent' \in [Keys -> Counts]
      /\ \A k \in Keys : k # g => spent'[k] = spent[k]
      /\ spent'[g].reads = spent[g].reads /\ spent'[g].searches = spent[g].searches
      /\ spent'[g].bytes = spent[g].bytes + n
  BY <1>2, <1>8 DEF BudgetInv, UsageInv, Counts
<1>4. /\ \A d \in Calls : call'[d].drop \subseteq call[d].drop
      /\ IsFiniteSet(Owing')
  BY <1>1, OwesNoMore, FS_Subset DEF GoesOn, BudgetInv, UsageInv
<1>5. CASE type \notin Metered
  <2>1. UNCHANGED <<usage, charged>> /\ call'[c].pc = "store" /\ n = 0
    BY <1>2, <1>5, CallKeyed DEF ChargeBytes, CallTypeOK, CallRecords
  <2>2. spent'[g] = spent[g]
    BY <1>2, <1>8, <1>9, <2>1 DEF BudgetInv, UsageInv, Counts
  <2>3. spent' = spent
    BY <1>3, <2>2 DEF BudgetInv, UsageInv
  <2>4. \A k \in call'[c].drop : Pruned(k)
    BY <1>1 DEF BudgetInv, UsageInv
  <2>. QED  BY <1>1, <2>1, <2>3, <2>4, BudgetKept
<1>6. CASE type \in Metered
  <2>1. PICK u \in Counts :
            /\ usage' = Put(g, u)
            /\ charged' = [charged EXCEPT ![g[1]] = @ \cup {g[2]}]
            /\ u.bytes = Entry(g).bytes + bytes
            /\ u.reads = Entry(g).reads /\ u.searches = Entry(g).searches
            /\ n = 0 \/ (n = bytes /\ ~Exceeds(u)) 
    <3>1. CASE bytes > 0
      <4>1. Charge(c, bytes, "prune_bytes")
        BY <1>6, <3>1 DEF ChargeBytes
      <4>2. PICK u \in Counts : u = Count(Entry(g), type, bytes)
        BY <1>b, <1>8, Counted
      <4>3. /\ u.bytes = Entry(g).bytes + bytes
            /\ u.reads = Entry(g).reads /\ u.searches = Entry(g).searches
        BY <1>b, <1>8, <3>1, <4>2, Counted
      <4>4. /\ usage' = Put(g, u) /\ charged' = [charged EXCEPT ![g[1]] = @ \cup {g[2]}]
            /\ call' = [call EXCEPT ![c].pc = IF Exceeds(u) THEN "answered" ELSE "prune_bytes",
                                    ![c].answer = IF Exceeds(u) THEN "429" ELSE @]
        BY <1>0, <1>g, <4>1, <4>2 DEF Charge
      <4>5. Exceeds(u) => call'[c].pc = "answered"
        BY <4>4, CallKeyed DEF CallTypeOK, CallRecords
      <4>. QED  BY <1>2, <4>3, <4>4, <4>5
    <3>2. CASE bytes = 0
      <4>1. /\ usage' = Put(g, Entry(g)) /\ charged' = [charged EXCEPT ![g[1]] = @ \cup {g[2]}]
        BY <1>0, <1>g, <1>6, <3>2 DEF ChargeBytes
      <4>2. n = 0 /\ Entry(g) \in Counts /\ Entry(g).bytes = Entry(g).bytes + bytes
        BY <1>2, <1>8, <1>9, <3>2
      <4>. QED  BY <4>1, <4>2
    <3>. QED  BY <1>b, <3>1, <3>2
  <2>2. /\ UsageInv' /\ \A k \in Keys : Pruned(k) => Pruned(k)'
        /\ \A k \in Keys : Entry(k)' = IF k = g THEN u ELSE Entry(k)
    BY <1>3, <1>4, <2>1, EntryPut
  <2>3. ASSUME NEW k \in Keys, k # g, Account(k) PROVE Account(k)'
    <3>1. /\ Entry(k).reads <= Entry(k)'.reads /\ Entry(k).searches <= Entry(k)'.searches
          /\ Entry(k).bytes <= Entry(k)'.bytes
      BY <1>9, <2>2, <2>3
    <3>. QED  BY <1>1, <1>3, <2>2, <2>3, <3>1, OwesNoMore, AccountKept DEF BudgetInv
  <2>4. ASSUME Account(g) PROVE Account(g)'
    <3>. DEFINE r == Cardinality(Unforwarded(g, Reads))
                s == Cardinality(Unforwarded(g, Searches))
    <3>1. /\ Unforwarded(g, Reads)' = Unforwarded(g, Reads)
          /\ Unforwarded(g, Searches)' = Unforwarded(g, Searches)
      <4>1. \A d \in Calls : /\ call'[d].step = call[d].step /\ Key(d)' = Key(d)
                             /\ d # c => call'[d].pc = call[d].pc
        BY <1>1 DEF GoesOn, Key
      <4>2. call[c].pc = "waiting"
        BY DEF ChargeBytes
      <4>. QED  BY <1>1, <4>1, <4>2 DEF Unforwarded
    <3>2. /\ spent'[g].reads + r <= u.reads /\ spent'[g].reads + r <= MaxReads
          /\ spent'[g].searches + s <= u.searches /\ spent'[g].searches + s <= MaxSearches
      BY <1>3, <2>1, <2>4 DEF Account, Within
    <3>3. spent'[g].bytes <= u.bytes /\ spent'[g].bytes <= MaxBytes
      <4>0. spent[g].bytes <= Entry(g).bytes /\ spent[g].bytes <= MaxBytes
        BY <2>4 DEF Account, Within
      <4>1. MaxBytes \in Nat /\ spent[g].bytes \in Nat /\ Entry(g).bytes \in Nat
        BY <1>9, GatewayAssumption
      <4>2. CASE n = 0
        BY <1>b, <1>3, <2>1, <4>0, <4>1, <4>2
      <4>3. CASE n = bytes /\ ~Exceeds(u)
        <5>1. u.bytes <= MaxBytes
          BY <1>b, <2>1, <4>1, <4>3 DEF Exceeds
        <5>. QED  BY <1>b, <1>3, <2>1, <4>0, <4>1, <4>3, <5>1
      <4>. QED  BY <2>1, <4>2, <4>3
    <3>4. Entry(g)' = u
      BY <2>2
    <3>. QED  BY <3>1, <3>2, <3>3, <3>4 DEF Account, Within
  <2>. QED  BY <2>2, <2>3, <2>4 DEF BudgetInv
<1>. QED  BY <1>5, <1>6

LEMMA BudgetInit == GatewayInit => BudgetInv
<1>. SUFFICES ASSUME GatewayInit PROVE BudgetInv
  OBVIOUS
<1>1. \A c \in Calls : call[c].pc \in {"new", "answered"} /\ call[c].drop = {}
  BY DEF GatewayInit, Requests
<1>2. Owing = {} /\ \A k : \A T : Unforwarded(k, T) = {}
  BY <1>1 DEF Owing, Unforwarded
<1>3. IsFiniteSet({}) /\ Cardinality({}) = 0
  BY FS_EmptySet
<1>4. Nothing \in Counts /\ Nothing.reads = 0 /\ Nothing.searches = 0 /\ Nothing.bytes = 0
  BY DEF Nothing, Counts
<1>5. UsageInv
  <2>1. usage = [k \in {} |-> Nothing] /\ DOMAIN usage = {}
    BY DEF GatewayInit
  <2>2. spent \in [Keys -> Counts] /\ charged \in [BudgetScopes -> SUBSET Iters]
    BY <1>4 DEF GatewayInit
  <2>. QED  BY <1>1, <1>2, <1>3, <2>1, <2>2 DEF UsageInv
<1>6. ASSUME NEW k \in Keys PROVE Account(k)
  <2>1. spent[k] = Nothing /\ Entry(k) = Nothing
    BY DEF GatewayInit, Entry
  <2>2. MaxReads \in Nat /\ MaxSearches \in Nat /\ MaxBytes \in Nat
    BY GatewayAssumption
  <2>3. Cardinality(Unforwarded(k, Reads)) = 0 /\ Cardinality(Unforwarded(k, Searches)) = 0
    BY <1>2, <1>3
  <2>. QED  BY <1>4, <2>1, <2>2, <2>3 DEF Account, Within
<1>. QED  BY <1>5, <1>6 DEF BudgetInv

LEMMA BudgetNext ==
  CallTypeOK /\ BudgetInv /\ [GatewayNext]_<<gatewayVars, coldVars>> => BudgetInv'
<1>. SUFFICES ASSUME CallTypeOK, BudgetInv, [GatewayNext]_<<gatewayVars, coldVars>> PROVE BudgetInv'
  OBVIOUS
<1>0. ASSUME UNCHANGED <<usage, call, spent, charged>> PROVE BudgetInv'
  BY <1>0 DEF BudgetInv, UsageInv, Pruned, Account, Within, Entry, Unforwarded, Owing, Key
<1>d. \A c \in Calls : \A k \in call[c].drop : Pruned(k)
  BY DEF BudgetInv, UsageInv
<1>1. ASSUME NEW c \in Calls, Receive(c) PROVE BudgetInv'
  <2>1. GoesOn(c) /\ StopsOwing(c) /\ call'[c].drop = call[c].drop
    BY <1>1, CallKeyed DEF Receive, GoesOn, StopsOwing, CallTypeOK, CallRecords
  <2>. QED  BY <1>d, <1>1, <2>1, BudgetKept DEF Receive
<1>2. ASSUME NEW c \in Calls, PruneScan(c) PROVE BudgetInv'
  <2>1. GoesOn(c) /\ StopsOwing(c) /\ call'[c].drop \in {call[c].drop, Stale(call[c].run)}
    BY <1>2, CallKeyed DEF PruneScan, GoesOn, StopsOwing, CallTypeOK, CallRecords
  <2>2. \A k \in Stale(call[c].run) : Pruned(k)
    BY CallKeyed, StalePruned DEF BudgetInv
  <2>. QED  BY <1>d, <1>2, <2>1, <2>2, BudgetKept DEF PruneScan
<1>3. ASSUME NEW c \in Calls, Refuse(c) \/ ForwardFails(c) \/ Deliver(c) PROVE BudgetInv'
  <2>1. GoesOn(c) /\ StopsOwing(c) /\ call'[c].drop = call[c].drop
    BY <1>3, CallKeyed DEF Refuse, ForwardFails, Deliver, GoesOn, StopsOwing, CallTypeOK, CallRecords
  <2>2. UNCHANGED <<usage, spent, charged>>
    BY <1>3 DEF Refuse, ForwardFails, Deliver
  <2>. QED  BY <1>d, <2>1, <2>2, BudgetKept
<1>4. ASSUME NEW c \in Calls, PruneDelete(c) PROVE BudgetInv'
  BY <1>4, BudgetPruned
<1>5. ASSUME NEW c \in Calls, ChargeStep(c) PROVE BudgetInv'
  BY <1>5, BudgetCharged
<1>6. ASSUME NEW c \in Calls, Forward(c) PROVE BudgetInv'
  BY <1>6, BudgetForwarded
<1>7. ASSUME NEW c \in Calls, NEW bytes \in Sizes, ChargeBytes(c, bytes) PROVE BudgetInv'
  BY <1>7, BudgetBytes
<1>8. ASSUME NEW r \in Runs, RunCleanup(r) PROVE BudgetInv'
  BY <1>0, <1>8 DEF RunCleanup
<1>9. ASSUME UNCHANGED gatewayVars PROVE BudgetInv'
  BY <1>0, <1>9 DEF gatewayVars
<1>. QED
  BY <1>1, <1>2, <1>3, <1>4, <1>5, <1>6, <1>7, <1>8, <1>9 DEF GatewayNext

-----------------------------------------------------------------------------
(* Theorems *)

\* Calls, budgets' keys, jobs, imports and the repository keep their types.
THEOREM GatewayTypeCorrect == GatewaySpec => [](CallTypeOK /\ ColdTypeOK)
<1>1. GatewayInit => CallTypeOK /\ ColdTypeOK
  BY CallInit, ColdTypeInit
<1>2. CallTypeOK /\ ColdTypeOK /\ [GatewayNext]_<<gatewayVars, coldVars>> => (CallTypeOK /\ ColdTypeOK)'
  BY CallNext, ColdTypeNext
<1>. QED  BY <1>1, <1>2, PTL DEF GatewaySpec

\* Imports that do not overlap leave a whole repository exactly when the last one said
\* so, and a failed one, before its clone (executor/app.py:616-620, 651-652) or in it,
\* leaves no part of one, whatever the jobs do meanwhile.
THEOREM ImportsKept == GatewaySpec => []ImportKept
<1>1. GatewayInit => ImportInv
  BY ImportInvInit
<1>2. ColdTypeOK /\ ImportInv /\ [GatewayNext]_<<gatewayVars, coldVars>> => ImportInv'
  BY ImportInvNext
<1>3. ImportInv => ImportKept
  BY DEF ImportInv
<1>. QED  BY <1>1, <1>2, <1>3, GatewayTypeCorrect, PTL DEF GatewaySpec

\* What a caller is told of a patch is true of the tree its step worked on
\* (executor/app.py:1397-1443, 308-332), however the commands of jobs that share a
\* tree, git add, git apply and git diff, and imports interleave.
THEOREM PatchesTold == GatewaySpec => []PatchTold
<1>1. GatewayInit => PatchInv
  BY PatchInvInit
<1>2. CallTypeOK /\ ColdTypeOK /\ PatchInv /\ [GatewayNext]_<<gatewayVars, coldVars>> => PatchInv'
  BY PatchInvNext
<1>3. PatchInv => PatchTold
  BY PatchInvImplies
<1>. QED  BY <1>1, <1>2, <1>3, GatewayTypeCorrect, PTL DEF GatewaySpec

\* No iteration gets more than its budget from overlapping calls (app.py:208-232), for
\* any number of calls, runs and iterations, until KeepIters later ones of its scope
\* were charged and its count may be forgotten.
THEOREM Budgets == GatewaySpec => []BudgetsHold
<1>1. BudgetInv => BudgetsHold
  <2>. SUFFICES ASSUME BudgetInv, NEW k \in Keys, Account(k) PROVE ~Exceeds(spent[k])
    BY DEF BudgetInv, BudgetsHold
  <2>1. /\ Cardinality(Unforwarded(k, Reads)) \in Nat /\ Cardinality(Unforwarded(k, Searches)) \in Nat
    BY UnforwardedFinite, MeteredTypes DEF BudgetInv, UsageInv
  <2>2. spent[k].reads \in Nat /\ spent[k].searches \in Nat /\ spent[k].bytes \in Nat
    BY EntryTyped DEF BudgetInv, Counts
  <2>3. MaxReads \in Nat /\ MaxSearches \in Nat /\ MaxBytes \in Nat
    BY GatewayAssumption
  <2>. QED  BY <2>1, <2>2, <2>3 DEF Account, Within, Exceeds
<1>. QED  BY <1>1, BudgetInit, BudgetNext, GatewayTypeCorrect, PTL DEF GatewaySpec
=============================================================================
