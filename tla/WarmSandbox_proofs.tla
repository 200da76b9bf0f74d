------------------------- MODULE WarmSandbox_proofs -------------------------
(***************************************************************************)
(* Proofs about WarmSandbox for any number of requests, containers and     *)
(* docker timeouts, and any interleaving of the threads.                   *)
(***************************************************************************)
EXTENDS WarmSandbox, TLAPS

\* A container that docker starts has a number never used before.
LEMMA NewBoxIsUnused == Unused # {} => NewBox \in Boxes /\ state[NewBox] = "none"
BY DEF Unused, NewBox

\* Box numbers are positive, so no box is NoBox.
LEMMA NoBoxIsNoBox == NoBox \notin Boxes
BY SandboxAssumption DEF NoBox, Boxes

\* The initial state is of the declared types.
LEMMA TypeInit == Init => TypeOK
BY SandboxAssumption DEF Init, TypeOK, Threads, Requests

\* Replying and going on keep the types of the two variables they write.
LEMMA GotoTyped ==
    ASSUME TypeOK, NEW t \in Threads,
           NEW w \in {"start", "create", "publish", "exec", "running",
                      "reading", "verify", "pop", "rm", "sleep", "done"}, Goto(t, w)
    PROVE  pc' \in [Threads -> {"start", "create", "publish", "exec", "running",
                                "reading", "verify", "pop", "rm", "sleep", "done"}]
BY DEF TypeOK, Goto

LEMMA ReplyTyped ==
    ASSUME TypeOK, NEW t \in Threads, NEW a \in {"ok", "failed"}, Reply(t, a)
    PROVE  /\ pc' \in [Threads -> {"start", "create", "publish", "exec", "running",
                                   "reading", "verify", "pop", "rm", "sleep", "done"}]
           /\ answer' \in [Threads -> {"none", "ok", "failed"}]
BY DEF TypeOK, Reply, Goto

LEMMA HaveBoxTyped ==
    ASSUME TypeOK, NEW t \in Threads, NEW b \in Boxes \cup {NoBox}, HaveBox(t, b)
    PROVE  /\ pc' \in [Threads -> {"start", "create", "publish", "exec", "running",
                                   "reading", "verify", "pop", "rm", "sleep", "done"}]
           /\ answer' \in [Threads -> {"none", "ok", "failed"}]
           /\ sb' \in [Threads -> Boxes \cup {NoBox}]
BY DEF TypeOK, HaveBox, Reply, Goto

LEMMA FaultTyped == ASSUME TypeOK, Fault PROVE faults' \in 0..MaxFaults
BY SandboxAssumption DEF TypeOK, Fault

\* Every step keeps the types.
LEMMA TypeNext == TypeOK /\ [Next]_vars => TypeOK'
<1> SUFFICES ASSUME TypeOK, [Next]_vars PROVE TypeOK'
  OBVIOUS
<1>R. \A t \in Requests : t \in Threads
  BY DEF Threads
<1>1. ASSUME NEW t \in Requests, Reuse(t) PROVE TypeOK'
  <2>1. pool \in Boxes  BY <1>1 DEF Reuse, Running, TypeOK
  <2> QED  BY <1>R, <1>1, <2>1, HaveBoxTyped DEF Reuse, TypeOK
<1>2. ASSUME NEW t \in Requests, Miss(t) PROVE TypeOK'
  <2>1. faults' \in 0..MaxFaults  BY <1>2, FaultTyped DEF Miss, TypeOK
  <2> QED  BY <1>R, <1>2, <2>1, GotoTyped DEF Miss, TypeOK
<1>3. ASSUME NEW t \in Requests, Create(t) PROVE TypeOK'
  BY <1>R, <1>3, NewBoxIsUnused, GotoTyped DEF Create, TypeOK
<1>4. ASSUME NEW t \in Requests, CreateRefused(t) PROVE TypeOK'
  BY <1>R, <1>4, ReplyTyped DEF CreateRefused, TypeOK
<1>5. ASSUME NEW t \in Requests, CreateTimesOut(t) PROVE TypeOK'
  BY <1>R, <1>5, NewBoxIsUnused, ReplyTyped, FaultTyped DEF CreateTimesOut, TypeOK
<1>6. ASSUME NEW t \in Requests, Publish(t) PROVE TypeOK'
  <2>1. sb[t] \in Boxes \cup {NoBox} /\ pool \in Boxes \cup {NoBox}
    BY <1>R DEF TypeOK
  <2>2. CASE Running(pool)
    BY <1>R, <1>6, <2>1, <2>2, HaveBoxTyped DEF Publish, TypeOK
  <2>3. CASE ~Running(pool)
    BY <1>R, <1>6, <2>1, <2>3, HaveBoxTyped DEF Publish, TypeOK
  <2> QED  BY <2>2, <2>3
<1>7. ASSUME NEW t \in Requests, ExecBegin(t) PROVE TypeOK'
  <2>1. CASE Running(sb[t])
    BY <1>R, <1>7, <2>1, GotoTyped DEF ExecBegin, TypeOK
  <2>2. CASE ~Running(sb[t])
    BY <1>R, <1>7, <2>2, ReplyTyped DEF ExecBegin, TypeOK
  <2> QED  BY <2>1, <2>2
<1>M. ASSUME NEW t \in Requests, MayLand(t) PROVE tree' \in [Boxes -> SUBSET Patches]
  BY <1>M DEF MayLand, TypeOK
<1>U. ASSUME NEW t \in Requests, Unlock(t) PROVE holder' \in [Boxes -> Threads \cup {NoOne}]
  BY <1>U DEF Unlock, TypeOK
<1>8. ASSUME NEW t \in Requests, ExecOk(t) PROVE TypeOK'
  <2>1. tree' \in [Boxes -> SUBSET Patches] /\ holder' \in [Boxes -> Threads \cup {NoOne}]
    BY <1>8, <1>M, <1>U DEF ExecOk
  <2>2. CASE t \in Patches
    BY <1>R, <1>8, <2>1, <2>2, GotoTyped DEF ExecOk, TypeOK
  <2>3. CASE t \notin Patches
    BY <1>R, <1>8, <2>1, <2>3, ReplyTyped DEF ExecOk, TypeOK
  <2> QED  BY <2>2, <2>3
<1>9. ASSUME NEW t \in Requests, ExecFails(t) PROVE TypeOK'
  <2>1. tree' \in [Boxes -> SUBSET Patches] /\ holder' \in [Boxes -> Threads \cup {NoOne}]
    BY <1>9, <1>M, <1>U DEF ExecFails
  <2> QED  BY <1>R, <1>9, <2>1, ReplyTyped DEF ExecFails, TypeOK
<1>10. ASSUME NEW t \in Requests, ExecTimesOut(t) PROVE TypeOK'
  <2>1. holder' \in [Boxes -> Threads \cup {NoOne}]
    BY <1>10, <1>U DEF ExecTimesOut
  <2>2. late' \in [Boxes -> SUBSET Patches]
    BY <1>10 DEF ExecTimesOut, TypeOK
  <2> QED  BY <1>R, <1>10, <2>1, <2>2, ReplyTyped DEF ExecTimesOut, TypeOK
<1>11. ASSUME NEW t \in Requests, Verify(t) PROVE TypeOK'
  BY <1>R, <1>11, ReplyTyped DEF Verify, TypeOK
<1>L. ASSUME NEW t \in Threads, Leave(t)
      PROVE  /\ pc' \in [Threads -> {"start", "create", "publish", "exec", "running",
                                     "reading", "verify", "pop", "rm", "sleep", "done"}]
             /\ answer' \in [Threads -> {"none", "ok", "failed"}]
  BY <1>L, GotoTyped, ReplyTyped DEF Leave, TypeOK
<1>12. ASSUME NEW t \in Threads, Pop(t) PROVE TypeOK'
  <2>1. CASE pool = NoBox
    BY <1>12, <1>L, <2>1 DEF Pop, TypeOK
  <2>2. CASE pool # NoBox
    BY <1>12, <2>2, GotoTyped DEF Pop, TypeOK
  <2> QED  BY <2>1, <2>2
<1>13. ASSUME NEW t \in Threads, Remove(t) PROVE TypeOK'
  BY <1>13, <1>L DEF Remove, TypeOK
<1>14. ASSUME NEW t \in Threads, RemoveFails(t) PROVE TypeOK'
  BY <1>14, <1>L, FaultTyped DEF RemoveFails, TypeOK
<1>15. CASE Scan
  <2>1. Reaper \in Threads  BY DEF Threads
  <2> QED  BY <1>15, <2>1, GotoTyped DEF Scan, TypeOK
<1>16. ASSUME NEW b \in Boxes, LateEdit(b) PROVE TypeOK'
  BY <1>16 DEF LateEdit, TypeOK
<1>17. ASSUME NEW b \in Boxes, GoIdle(b) PROVE TypeOK'
  BY <1>17 DEF GoIdle, TypeOK
<1>18. ASSUME NEW b \in Boxes, Die(b) PROVE TypeOK'
  BY <1>18 DEF Die, TypeOK
<1>20. ASSUME NEW t \in Requests, Blocks(t) PROVE TypeOK'
  BY <1>R, <1>20, GotoTyped DEF Blocks, TypeOK
<1>21. ASSUME NEW t \in Requests, CopyTimesOut(t) PROVE TypeOK'
  BY <1>R, <1>21, ReplyTyped, FaultTyped DEF CopyTimesOut, TypeOK
<1>19. CASE UNCHANGED vars
  BY <1>19 DEF vars, TypeOK
<1> QED
  BY <1>1, <1>2, <1>3, <1>4, <1>5, <1>6, <1>7, <1>8, <1>9, <1>10, <1>11, <1>12,
     <1>13, <1>14, <1>15, <1>16, <1>17, <1>18, <1>19, <1>20, <1>21
     DEF Next, Acquire, Exec, Ends, Destroy

\* The pool entry, the locks, the containers and the threads' positions keep
\* their types, whatever the requests and the order of their steps.
THEOREM Typing == Spec => []TypeOK
BY TypeInit, TypeNext, PTL DEF Spec

-----------------------------------------------------------------------------
(* Who answers for the containers that exist. *)

\* At most one container of the run exists; it is the pooled one or belongs to
\* one thread that is about to pool or to remove it.
Owned ==
    /\ \A b, c \in Existing : b = c
    /\ pool # NoBox => pool \in Existing
    /\ \A t \in Owners : sb[t] \in Existing /\ sb[t] # pool
    /\ \A t, u \in Owners : sb[t] = sb[u] => t = u

OwnedInv == TypeOK /\ Owned /\ NoLeakWithoutFault

LEMMA OwnedInit == Init => OwnedInv
<1> SUFFICES ASSUME Init PROVE OwnedInv
  OBVIOUS
<1>1. Existing = {}  BY DEF Init, Existing
<1>2. Owners = {}  BY DEF Init, Owners
<1>3. pool = NoBox  BY DEF Init
<1>4. Owned  BY <1>1, <1>2, <1>3 DEF Owned
<1> QED  BY <1>1, <1>4, TypeInit DEF OwnedInv, NoLeakWithoutFault, Orphans

\* A step that touches neither the pool, nor a container's existence, nor a
\* thread that owns one.
Quiet ==
    /\ pool' = pool
    /\ Existing' = Existing
    /\ Owners' = Owners
    /\ \A t \in Owners : sb'[t] = sb[t]
    /\ faults' \in {faults, faults + 1}

LEMMA QuietKeeps == OwnedInv /\ Quiet => Owned' /\ NoLeakWithoutFault'
<1> SUFFICES ASSUME OwnedInv, Quiet PROVE Owned' /\ NoLeakWithoutFault'
  OBVIOUS
<1>1. Owned'
  BY DEF OwnedInv, Owned, Quiet
<1>2. {sb'[t] : t \in Owners'} = {sb[t] : t \in Owners}
  BY DEF Quiet
<1>3. Orphans' = Orphans
  BY <1>2 DEF Orphans, Quiet
<1>4. faults \in Nat
  BY SandboxAssumption DEF OwnedInv, TypeOK
<1>5. faults > 0 => faults' > 0
  BY <1>4 DEF Quiet
<1> QED  BY <1>1, <1>3, <1>5 DEF OwnedInv, NoLeakWithoutFault

\* A thread that moves between positions in which it owns nothing.
LEMMA QuietMove ==
    ASSUME TypeOK, NEW t \in Threads, pc[t] \notin {"publish", "rm"},
           NEW w, w \notin {"publish", "rm"}, pc' = [pc EXCEPT ![t] = w]
    PROVE  Owners' = Owners /\ t \notin Owners
BY DEF Owners, TypeOK

\* Which steps are quiet.
LEMMA QuietSteps ==
    ASSUME OwnedInv, NEW t \in Requests,
           Reuse(t) \/ Miss(t) \/ CreateRefused(t) \/ ExecBegin(t) \/ ExecOk(t)
             \/ ExecFails(t) \/ ExecTimesOut(t) \/ Verify(t) \/ Blocks(t)
               \/ CopyTimesOut(t)
    PROVE  Quiet
<1>0. TypeOK /\ t \in Threads
  BY DEF OwnedInv, Threads
<1>1. /\ pool' = pool /\ state' = state
      /\ faults' \in {faults, faults + 1}
      /\ \A u \in Threads : u # t => sb'[u] = sb[u]
  <2>1. CASE Reuse(t)
    BY <1>0, <2>1 DEF Reuse, HaveBox, TypeOK
  <2>2. CASE ~Reuse(t)
    BY <1>0, <2>2 DEF Miss, Fault, CreateRefused, ExecBegin, ExecOk, ExecFails, ExecTimesOut, Verify,
           Blocks, CopyTimesOut
  <2> QED  BY <2>1, <2>2
<1>2. pc[t] \in {"start", "create", "exec", "running", "reading", "verify"}
  BY DEF Inside, Reuse, Miss, CreateRefused, ExecBegin, ExecOk, ExecFails, ExecTimesOut, Verify,
           Blocks, CopyTimesOut
<1>3. \E w \in {"create", "exec", "running", "reading", "verify", "done"} : pc' = [pc EXCEPT ![t] = w]
  BY DEF Reuse, Miss, CreateRefused, ExecBegin, ExecOk, ExecFails, ExecTimesOut, Verify,
         Blocks, CopyTimesOut, Inside, HaveBox, Reply, Goto
<1>4. Owners' = Owners /\ t \notin Owners
  <2>1. PICK w \in {"create", "exec", "running", "reading", "verify", "done"} : pc' = [pc EXCEPT ![t] = w]
    BY <1>3
  <2>2. w \notin {"publish", "rm"} /\ pc[t] \notin {"publish", "rm"}
    BY <1>2
  <2> QED  BY <1>0, <2>1, <2>2, QuietMove
<1>5. Existing' = Existing
  BY <1>1 DEF Existing
<1>6. \A u \in Owners : u \in Threads /\ u # t
  BY <1>4 DEF Owners
<1> QED  BY <1>1, <1>4, <1>5, <1>6 DEF Quiet

\* Every step keeps the ownership of containers.
LEMMA OwnedNext == OwnedInv /\ [Next]_vars => OwnedInv'
<1> SUFFICES ASSUME OwnedInv, [Next]_vars PROVE OwnedInv'
  OBVIOUS
<1>T. TypeOK /\ TypeOK' /\ Owned /\ NoLeakWithoutFault
  BY TypeNext DEF OwnedInv
<1>R. \A t \in Requests : t \in Threads
  BY DEF Threads
<1> SUFFICES Owned' /\ NoLeakWithoutFault'
  BY <1>T DEF OwnedInv
<1>1. ASSUME NEW t \in Requests,
             Reuse(t) \/ Miss(t) \/ CreateRefused(t) \/ ExecBegin(t) \/ ExecOk(t)
               \/ ExecFails(t) \/ ExecTimesOut(t) \/ Verify(t) \/ Blocks(t)
               \/ CopyTimesOut(t)
      PROVE  Owned' /\ NoLeakWithoutFault'
  BY <1>1, QuietSteps, QuietKeeps
<1>2. ASSUME NEW t \in Requests, Create(t) PROVE Owned' /\ NoLeakWithoutFault'
  <2>0. Existing = {} /\ NewBox \in Boxes /\ pc[t] = "create" /\ t \in Threads
    BY <1>2, <1>R, NewBoxIsUnused DEF Create, NameFree
  <2>1. Existing' = {NewBox}
    BY <1>2, <1>T, <2>0 DEF Create, Existing, TypeOK
  <2>2. Owners = {} /\ pool = NoBox
    BY <1>T, <2>0 DEF Owned
  <2>3. Owners' = {t} /\ sb'[t] = NewBox
    BY <1>2, <1>T, <2>0, <2>2 DEF Create, Goto, Owners, TypeOK
  <2>4. pool' = NoBox /\ NewBox # NoBox
    BY <1>2, <2>0, <2>2, NoBoxIsNoBox DEF Create
  <2>5. Owned'
    BY <2>1, <2>3, <2>4 DEF Owned
  <2>6. Orphans' = {}
    BY <2>1, <2>3 DEF Orphans
  <2> QED  BY <2>5, <2>6 DEF NoLeakWithoutFault
<1>3. ASSUME NEW t \in Requests, CreateTimesOut(t) PROVE Owned' /\ NoLeakWithoutFault'
  <2>0. Existing = {} /\ NewBox \in Boxes /\ pc[t] = "create" /\ t \in Threads
    BY <1>3, <1>R, NewBoxIsUnused DEF CreateTimesOut, NameFree
  <2>1. Existing' = {NewBox}
    BY <1>3, <1>T, <2>0 DEF CreateTimesOut, Existing, TypeOK
  <2>2. Owners = {} /\ pool = NoBox
    BY <1>T, <2>0 DEF Owned
  <2>3. Owners' = {}
    BY <1>3, <1>T, <2>0, <2>2 DEF CreateTimesOut, Reply, Goto, Owners, TypeOK
  <2>4. Owned'
    BY <1>3, <2>1, <2>2, <2>3 DEF Owned, CreateTimesOut
  <2>5. faults' > 0
    BY <1>3, <1>T, SandboxAssumption DEF CreateTimesOut, Fault, TypeOK
  <2> QED  BY <2>4, <2>5 DEF NoLeakWithoutFault
<1>4. ASSUME NEW t \in Requests, Publish(t) PROVE Owned' /\ NoLeakWithoutFault'
  <2>0. t \in Owners /\ sb[t] \in Existing /\ t \in Threads /\ sb[t] \in Boxes
    BY <1>4, <1>R, <1>T DEF Publish, Owners, Owned, Existing
  <2>1. pool = NoBox
    BY <1>T, <2>0 DEF Owned
  <2>2. /\ pool' = sb[t] /\ state' = state /\ faults' = faults
        /\ sb' = [sb EXCEPT ![t] = sb[t]]
        /\ \E w \in {"exec", "done"} : pc' = [pc EXCEPT ![t] = w]
    BY <1>4, <2>1 DEF Publish, Running, HaveBox, Reply, Goto
  <2>3. Owners = {t}
    BY <1>T, <2>0 DEF Owned
  <2>4. Owners' = {}
    BY <1>T, <2>0, <2>2, <2>3 DEF Owners, TypeOK
  <2>5. Existing' = Existing /\ Existing = {sb[t]}
    BY <1>T, <2>0, <2>2 DEF Owned, Existing
  <2>6. Owned'
    BY <2>2, <2>4, <2>5 DEF Owned
  <2>7. Orphans' = {}
    BY <2>2, <2>4, <2>5 DEF Orphans
  <2> QED  BY <2>6, <2>7 DEF NoLeakWithoutFault
<1>5. ASSUME NEW t \in Threads, Pop(t) PROVE Owned' /\ NoLeakWithoutFault'
  <2>0. pc[t] = "pop"  BY <1>5 DEF Pop
  <2>1. CASE pool = NoBox
    <3>1. \E w \in {"sleep", "done"} : pc' = [pc EXCEPT ![t] = w]
      BY <1>5, <2>1 DEF Pop, Leave, Reply, Goto
    <3>2. PICK w \in {"sleep", "done"} : pc' = [pc EXCEPT ![t] = w]
      BY <3>1
    <3>3. Owners' = Owners
      BY <1>T, <2>0, <3>2, QuietMove
    <3>4. Quiet
      BY <1>5, <2>1, <3>3 DEF Pop, Quiet, Existing
    <3> QED  BY <3>4, QuietKeeps
  <2>2. CASE pool # NoBox
    <3>1. pool \in Existing /\ Owners = {} /\ Existing = {pool} /\ pool \in Boxes
      BY <1>T, <2>2 DEF Owned, Existing
    <3>2. /\ pool' = NoBox /\ state' = state /\ sb' = [sb EXCEPT ![t] = pool]
          /\ pc' = [pc EXCEPT ![t] = "rm"]
      BY <1>5, <2>2 DEF Pop, Goto
    <3>3. Owners' = {t} /\ sb'[t] = pool
      BY <1>T, <3>1, <3>2 DEF Owners, TypeOK
    <3>4. Existing' = {pool}
      BY <3>1, <3>2 DEF Existing
    <3>5. Owned'
      BY <2>2, <3>2, <3>3, <3>4 DEF Owned
    <3>6. Orphans' = {}
      BY <3>3, <3>4 DEF Orphans
    <3> QED  BY <3>5, <3>6 DEF NoLeakWithoutFault
  <2> QED  BY <2>1, <2>2
<1>6. ASSUME NEW t \in Threads, Remove(t) \/ RemoveFails(t)
      PROVE  Owned' /\ NoLeakWithoutFault'
  <2>0. pc[t] = "rm" /\ t \in Owners /\ sb[t] \in Existing /\ sb[t] # pool /\ sb[t] \in Boxes
    BY <1>6, <1>T DEF Remove, RemoveFails, Owners, Owned, Existing
  <2>1. Owners = {t} /\ Existing = {sb[t]} /\ pool = NoBox
    BY <1>T, <2>0 DEF Owned
  <2>2. \E w \in {"sleep", "done"} : pc' = [pc EXCEPT ![t] = w]
    BY <1>6 DEF Remove, RemoveFails, Leave, Reply, Goto
  <2>3. Owners' = {}
    BY <1>T, <2>1, <2>2 DEF Owners, TypeOK
  <2>4. pool' = NoBox
    BY <1>6, <2>1 DEF Remove, RemoveFails
  <2>5. CASE Remove(t)
    <3>1. Existing' = {}
      BY <1>T, <2>0, <2>1, <2>5 DEF Remove, Existing, TypeOK
    <3> QED  BY <2>3, <2>4, <3>1 DEF Owned, NoLeakWithoutFault, Orphans
  <2>6. CASE RemoveFails(t)
    <3>1. Existing' = Existing
      BY <2>6 DEF RemoveFails, Existing
    <3>2. faults' > 0
      BY <2>6, <1>T, SandboxAssumption DEF RemoveFails, Fault, TypeOK
    <3> QED  BY <1>T, <2>3, <2>4, <3>1, <3>2 DEF Owned, NoLeakWithoutFault
  <2> QED  BY <1>6, <2>5, <2>6
<1>7. CASE Scan
  <2>1. Reaper \in Threads  BY DEF Threads
  <2>2. Owners' = Owners
    BY <1>7, <1>T, <2>1, QuietMove DEF Scan, Goto
  <2>3. Quiet
    BY <1>7, <2>2 DEF Scan, Quiet, Existing
  <2> QED  BY <2>3, QuietKeeps
<1>8. ASSUME NEW b \in Boxes, LateEdit(b) \/ GoIdle(b) PROVE Owned' /\ NoLeakWithoutFault'
  <2>1. Quiet
    BY <1>8 DEF LateEdit, GoIdle, Quiet, Existing, Owners
  <2> QED  BY <2>1, QuietKeeps
<1>9. ASSUME NEW b \in Boxes, Die(b) PROVE Owned' /\ NoLeakWithoutFault'
  <2>1. Existing' = Existing
    BY <1>9, <1>T DEF Die, Running, Existing, TypeOK
  <2>2. Quiet
    BY <1>9, <2>1 DEF Die, Quiet, Owners
  <2> QED  BY <2>2, QuietKeeps
<1>10. CASE UNCHANGED vars
  <2>1. Quiet
    BY <1>10 DEF vars, Quiet, Existing, Owners
  <2> QED  BY <2>1, QuietKeeps
<1> QED
  BY <1>1, <1>2, <1>3, <1>4, <1>5, <1>6, <1>7, <1>8, <1>9, <1>10
     DEF Next, Acquire, Exec, Ends, Destroy

\* Only a docker command that timed out leaves a container for which neither
\* the pool nor a thread answers.
THEOREM NoLeak == Spec => []NoLeakWithoutFault
<1>1. OwnedInv => NoLeakWithoutFault
  BY DEF OwnedInv
<1> QED  BY <1>1, OwnedInit, OwnedNext, PTL DEF Spec

\* A thread that publishes its container never displaces another one.
THEOREM Displacement == Spec => []PublishDisplacesNothing
<1>1. OwnedInv => PublishDisplacesNothing
  <2> SUFFICES ASSUME OwnedInv, NEW t \in Requests, pc[t] = "publish"
               PROVE  pool = NoBox /\ sb[t] \in Existing
    BY DEF PublishDisplacesNothing
  <2>1. t \in Owners
    BY DEF Owners, Threads
  <2> QED  BY <2>1 DEF OwnedInv, Owned
<1> QED  BY <1>1, OwnedInit, OwnedNext, PTL DEF Spec

-----------------------------------------------------------------------------
(* Sandbox.lock *)

\* The positions inside exec_in's lock.
InLock == {"running", "reading"}

\* The lock of a container and the position of its holder agree.
Locked ==
    /\ \A t \in Requests : pc[t] \in InLock => sb[t] \in Boxes /\ holder[sb[t]] = t
    /\ \A b \in Boxes : holder[b] # NoOne =>
          holder[b] \in Requests /\ pc[holder[b]] \in InLock /\ sb[holder[b]] = b

LockInv == TypeOK /\ Locked

LEMMA LockInit == Init => LockInv
<1> SUFFICES ASSUME Init PROVE LockInv
  OBVIOUS
<1>1. \A t \in Requests : pc[t] \notin InLock
  BY DEF Init, Threads, InLock
<1>2. \A b \in Boxes : holder[b] = NoOne
  BY DEF Init
<1> QED  BY <1>1, <1>2, TypeInit DEF LockInv, Locked

\* A thread outside the lock that stays outside it.
LEMMA LockUntouched ==
    ASSUME LockInv, TypeOK', NEW t \in Threads, pc[t] \notin InLock, pc'[t] \notin InLock,
           holder' = holder,
           \A u \in Threads : u # t => pc'[u] = pc[u] /\ sb'[u] = sb[u]
    PROVE  Locked'
BY DEF LockInv, Locked, Threads

\* A thread that leaves the lock.
LEMMA LockReleased ==
    ASSUME LockInv, TypeOK', NEW t \in Requests, pc[t] \in InLock, pc'[t] \notin InLock,
           Unlock(t), sb' = sb,
           \A u \in Threads : u # t => pc'[u] = pc[u]
    PROVE  Locked'
<1>1. t \in Threads /\ sb[t] \in Boxes /\ holder[sb[t]] = t
  BY DEF LockInv, Locked, Threads
<1>2. holder' = [holder EXCEPT ![sb[t]] = NoOne]
  BY DEF Unlock
<1>3. \A b \in Boxes : holder'[b] = IF b = sb[t] THEN NoOne ELSE holder[b]
  BY <1>2 DEF LockInv, TypeOK
<1>4. ASSUME NEW u \in Requests, pc'[u] \in InLock
      PROVE  sb'[u] \in Boxes /\ holder'[sb'[u]] = u
  <2>1. u # t /\ pc[u] \in InLock /\ u \in Threads
    BY <1>4 DEF Threads
  <2>2. sb[u] \in Boxes /\ holder[sb[u]] = u
    BY <2>1 DEF LockInv, Locked
  <2> QED  BY <1>1, <1>3, <2>1, <2>2
<1>5. ASSUME NEW b \in Boxes, holder'[b] # NoOne
      PROVE  holder'[b] \in Requests /\ pc'[holder'[b]] \in InLock /\ sb'[holder'[b]] = b
  <2>1. b # sb[t] /\ holder'[b] = holder[b]
    BY <1>3, <1>5
  <2>2. holder[b] \in Requests /\ pc[holder[b]] \in InLock /\ sb[holder[b]] = b
    BY <1>5, <2>1 DEF LockInv, Locked
  <2> QED  BY <2>1, <2>2 DEF Threads
<1> QED  BY <1>4, <1>5 DEF Locked

LEMMA LockNext == LockInv /\ [Next]_vars => LockInv'
<1> SUFFICES ASSUME LockInv, [Next]_vars PROVE Locked'
  BY TypeNext DEF LockInv
<1>T. TypeOK /\ TypeOK' /\ Locked
  BY TypeNext DEF LockInv
<1>R. \A t \in Requests : t \in Threads
  BY DEF Threads
<1>1. ASSUME NEW t \in Requests, Reuse(t) \/ Miss(t) \/ Create(t) \/ CreateRefused(t)
               \/ CreateTimesOut(t) \/ Publish(t) \/ Verify(t) \/ CopyTimesOut(t)
      PROVE  Locked'
  <2>1. /\ pc[t] \in {"start", "create", "publish", "exec", "verify"}
        /\ holder' = holder
        /\ \E w \in {"create", "publish", "exec", "done"} : pc' = [pc EXCEPT ![t] = w]
    BY <1>1 DEF Reuse, Miss, Create, CreateRefused, CreateTimesOut, Publish, Verify,
                CopyTimesOut, HaveBox, Reply, Goto
  <2>2. sb' = sb \/ \E b \in Boxes \cup {NoBox} : sb' = [sb EXCEPT ![t] = b]
    <3>1. pool \in Boxes \cup {NoBox} /\ sb[t] \in Boxes \cup {NoBox}
      BY <1>T, <1>R DEF TypeOK
    <3>2. CASE Create(t)
      BY <3>2, NewBoxIsUnused DEF Create
    <3>3. CASE ~Create(t)
      BY <1>1, <3>1, <3>3
         DEF Reuse, Miss, CreateRefused, CreateTimesOut, Publish, Verify, CopyTimesOut,
             HaveBox
    <3> QED  BY <3>2, <3>3
  <2>3. pc'[t] \notin InLock /\ pc[t] \notin InLock
        /\ \A u \in Threads : u # t => pc'[u] = pc[u] /\ sb'[u] = sb[u]
    BY <1>T, <1>R, <2>1, <2>2 DEF TypeOK, InLock
  <2> QED  BY <1>T, <1>R, <2>1, <2>3, LockUntouched
<1>2. ASSUME NEW t \in Requests, ExecBegin(t) PROVE Locked'
  <2>0. pc[t] = "exec" /\ t \in Threads /\ holder[sb[t]] = NoOne
    BY <1>2, <1>R DEF ExecBegin
  <2>1. CASE Running(sb[t])
    <3>1. sb[t] \in Boxes
      BY <1>T, <1>R, <2>0, <2>1 DEF Running, TypeOK
    <3>2. holder' = [holder EXCEPT ![sb[t]] = t] /\ pc' = [pc EXCEPT ![t] = "running"] /\ sb' = sb
          /\ "running" \in InLock
      BY <1>2, <2>1 DEF ExecBegin, Goto, InLock
    <3>3. NoOne \notin Threads
      BY SandboxAssumption
    <3>4. /\ \A b \in Boxes : holder'[b] = IF b = sb[t] THEN t ELSE holder[b]
          /\ \A u \in Threads : pc'[u] = IF u = t THEN "running" ELSE pc[u]
      BY <1>T, <3>1, <3>2 DEF TypeOK
    <3>5. ASSUME NEW u \in Requests, pc'[u] \in InLock
          PROVE  sb'[u] \in Boxes /\ holder'[sb'[u]] = u
      <4>1. CASE u = t
        BY <3>1, <3>2, <3>4, <4>1
      <4>2. CASE u # t
        <5>1. pc[u] \in InLock /\ u \in Threads  BY <1>R, <3>4, <3>5, <4>2
        <5>2. sb[u] \in Boxes /\ holder[sb[u]] = u  BY <1>T, <5>1 DEF Locked
        <5>3. sb[u] # sb[t]  BY <2>0, <3>3, <5>1, <5>2
        <5> QED  BY <3>2, <3>4, <5>2, <5>3
      <4> QED  BY <4>1, <4>2
    <3>6. ASSUME NEW b \in Boxes, holder'[b] # NoOne
          PROVE  holder'[b] \in Requests /\ pc'[holder'[b]] \in InLock /\ sb'[holder'[b]] = b
      <4>1. CASE b = sb[t]
        BY <2>0, <3>2, <3>4, <4>1
      <4>2. CASE b # sb[t]
        <5>1. holder'[b] = holder[b]  BY <3>4, <4>2
        <5>2. holder[b] \in Requests /\ pc[holder[b]] \in InLock /\ sb[holder[b]] = b
          BY <1>T, <3>6, <5>1 DEF Locked
        <5> QED  BY <1>R, <3>2, <3>4, <5>1, <5>2
      <4> QED  BY <4>1, <4>2
    <3> QED  BY <3>5, <3>6 DEF Locked
  <2>2. CASE ~Running(sb[t])
    <3>1. holder' = holder /\ pc' = [pc EXCEPT ![t] = "done"] /\ sb' = sb
      BY <1>2, <2>2 DEF ExecBegin, Reply, Goto
    <3>2. pc'[t] \notin InLock /\ pc[t] \notin InLock
          /\ \A u \in Threads : u # t => pc'[u] = pc[u] /\ sb'[u] = sb[u]
      BY <1>T, <2>0, <3>1 DEF TypeOK, InLock
    <3> QED  BY <1>T, <2>0, <3>1, <3>2, LockUntouched
  <2> QED  BY <2>1, <2>2
<1>3. ASSUME NEW t \in Requests, ExecOk(t) \/ ExecFails(t) \/ ExecTimesOut(t) PROVE Locked'
  <2>1. pc[t] \in InLock /\ Unlock(t) /\ sb' = sb
        /\ \E w \in {"verify", "done"} : pc' = [pc EXCEPT ![t] = w]
    BY <1>3 DEF ExecOk, ExecFails, ExecTimesOut, Inside, InLock, Reply, Goto
  <2>2. pc'[t] \notin InLock /\ \A u \in Threads : u # t => pc'[u] = pc[u]
    BY <1>T, <1>R, <2>1 DEF TypeOK, InLock
  <2> QED  BY <1>T, <2>1, <2>2, LockReleased
<1>4. ASSUME NEW t \in Threads, Pop(t) \/ Remove(t) \/ RemoveFails(t) PROVE Locked'
  <2>1. /\ pc[t] \in {"pop", "rm"} /\ holder' = holder
        /\ \E w \in {"rm", "sleep", "done"} : pc' = [pc EXCEPT ![t] = w]
        /\ sb' = sb \/ sb' = [sb EXCEPT ![t] = pool]
    BY <1>4 DEF Pop, Remove, RemoveFails, Leave, Reply, Goto
  <2>2. pc'[t] \notin InLock /\ pc[t] \notin InLock
        /\ \A u \in Threads : u # t => pc'[u] = pc[u] /\ sb'[u] = sb[u]
    BY <1>T, <2>1 DEF TypeOK, InLock
  <2> QED  BY <1>T, <2>1, <2>2, LockUntouched
<1>5. CASE Scan
  <2>1. Reaper \in Threads  BY DEF Threads
  <2>2. pc[Reaper] = "sleep" /\ pc' = [pc EXCEPT ![Reaper] = "pop"] /\ sb' = sb /\ holder' = holder
    BY <1>5 DEF Scan, Goto
  <2>3. pc'[Reaper] \notin InLock /\ pc[Reaper] \notin InLock
        /\ \A u \in Threads : u # Reaper => pc'[u] = pc[u] /\ sb'[u] = sb[u]
    BY <1>T, <2>1, <2>2 DEF TypeOK, InLock
  <2> QED  BY <1>T, <2>1, <2>2, <2>3, LockUntouched
<1>6. ASSUME NEW b \in Boxes, LateEdit(b) \/ GoIdle(b) \/ Die(b) PROVE Locked'
  BY <1>6, <1>T DEF LateEdit, GoIdle, Die, Locked
<1>8. ASSUME NEW t \in Requests, Blocks(t) PROVE Locked'
  <2>1. pc[t] \in InLock /\ pc' = [pc EXCEPT ![t] = "reading"] /\ sb' = sb /\ holder' = holder
    BY <1>8 DEF Blocks, InLock, Goto
  <2>2. \A u \in Threads : pc'[u] \in InLock <=> pc[u] \in InLock
    BY <1>T, <1>R, <2>1 DEF TypeOK, InLock
  <2> QED  BY <1>T, <1>R, <2>1, <2>2 DEF Locked
<1>7. CASE UNCHANGED vars
  BY <1>7, <1>T DEF vars, Locked
<1> QED
  BY <1>1, <1>2, <1>3, <1>4, <1>5, <1>6, <1>7, <1>8 DEF Next, Acquire, Exec, Ends, Destroy

\* No two steps are inside one container at once, and no thread that has left
\* exec_in keeps its lock.
THEOREM MutualExclusion == Spec => []ExecSerial
<1>1. LockInv => ExecSerial
  BY DEF LockInv, Locked, ExecSerial, Inside, InLock
<1> QED  BY <1>1, LockInit, LockNext, PTL DEF Spec
=============================================================================
