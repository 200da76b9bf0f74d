---------------------------- MODULE WarmSandbox ----------------------------
(***************************************************************************)
(* The executor's warm sandboxes (services/executor/sandbox_pool.py) and   *)
(* the endpoints that use them, seen from one run_id: the pool keeps one   *)
(* entry per run_id, container names are derived from the run_id, and      *)
(* runs share nothing else.  Each request is a thread of the executor;     *)
(* requests of one run overlap because the orchestrator stops waiting      *)
(* after 300 s (executor_client.py:91) and goes on to its next step while  *)
(* the executor still works on the last one.                               *)
(*                                                                         *)
(* A container is a box with a number that is never used again; the edits  *)
(* made in a box live in its tmpfs and go with it.  Docker and what runs   *)
(* in a box are external.  A critical section of _pool_lock is one step.   *)
(***************************************************************************)
EXTENDS Naturals, FiniteSets

CONSTANTS
    Warmups,    \* calls of /sandbox/create
    Patches,    \* calls of /run_warm with an apply_patch step
    Checks,     \* calls of /run_warm with any other step
    Destroys,   \* calls of /sandbox/destroy
    Reaper,     \* the background thread of the pool
    NoOne,      \* holder of a free Sandbox.lock
    MaxBoxes,   \* bound: containers ever started
    MaxFaults   \* bound: docker commands that time out or fail half-way

Steps == Patches \cup Checks
Requests == Warmups \cup Steps \cup Destroys
Threads == Requests \cup {Reaper}
Boxes == 1..MaxBoxes
NoBox == 0

ASSUME SandboxAssumption ==
    /\ MaxBoxes \in Nat /\ MaxFaults \in Nat
    /\ Reaper \notin Requests
    /\ NoOne \notin Threads
    /\ Destroys \cap (Warmups \cup Steps) = {}
    /\ Warmups \cap Steps = {}
    /\ Patches \cap Checks = {}

VARIABLES
    pool,     \* the entry of SandboxPool._pool for the run
    state,    \* box -> what docker knows of it
    tree,     \* box -> the patches whose edits are in /work/repo
    late,     \* box -> patches whose script outlived its docker exec
    idle,     \* boxes not used for longer than _IDLE_TTL
    holder,   \* box -> the thread inside Sandbox.lock
    pc, sb,   \* thread -> where it is, and its local variable sb
    answer,   \* thread -> what its caller was told
    faults    \* docker commands that timed out or failed half-way so far

vars == <<pool, state, tree, late, idle, holder, pc, sb, answer, faults>>

Existing == {b \in Boxes : state[b] \in {"running", "dead"}}
Running(b) == b # NoBox /\ state[b] = "running"
\* Bug: container names are random.
RandomName == TRUE

NameFree == Existing = {}
Unused == {b \in Boxes : state[b] = "none"}
NewBox == CHOOSE b \in Unused : TRUE

TypeOK ==
    /\ pool \in Boxes \cup {NoBox}
    /\ state \in [Boxes -> {"none", "running", "dead", "removed"}]
    /\ tree \in [Boxes -> SUBSET Patches]
    /\ late \in [Boxes -> SUBSET Patches]
    /\ idle \in SUBSET Boxes
    /\ holder \in [Boxes -> Threads \cup {NoOne}]
    /\ pc \in [Threads -> {"start", "create", "publish", "exec", "running",
                           "reading", "verify", "pop", "rm", "sleep", "done"}]
    /\ sb \in [Threads -> Boxes \cup {NoBox}]
    /\ answer \in [Threads -> {"none", "ok", "failed"}]
    /\ faults \in 0..MaxFaults

Init ==
    /\ pool = NoBox
    /\ state = [b \in Boxes |-> "none"]
    /\ tree = [b \in Boxes |-> {}]
    /\ late = [b \in Boxes |-> {}]
    /\ idle = {}
    /\ holder = [b \in Boxes |-> NoOne]
    /\ pc = [t \in Threads |-> IF t = Reaper THEN "sleep"
                               ELSE IF t \in Destroys THEN "pop" ELSE "start"]
    /\ sb = [t \in Threads |-> NoBox]
    /\ answer = [t \in Threads |-> "none"]
    /\ faults = 0

-----------------------------------------------------------------------------
(* Helpers of the actions. *)

Goto(t, where) == pc' = [pc EXCEPT ![t] = where]

Reply(t, what) ==
    /\ Goto(t, "done")
    /\ answer' = [answer EXCEPT ![t] = what]

\* What follows get_or_create: /sandbox/create replies, /run_warm executes.
HaveBox(t, b) ==
    /\ sb' = [sb EXCEPT ![t] = b]
    /\ IF t \in Warmups THEN Reply(t, "ok") ELSE Goto(t, "exec") /\ UNCHANGED answer

Fault == faults < MaxFaults /\ faults' = faults + 1

-----------------------------------------------------------------------------
(* get_or_create *)

\* The pooled sandbox is alive: docker inspect says it is running.
Reuse(t) ==
    /\ pc[t] = "start" /\ Running(pool)
    /\ HaveBox(t, pool)
    /\ UNCHANGED <<pool, state, tree, late, idle, holder, faults>>

\* Bug: an entry whose container does not run is dropped from the pool.
MissForgets(t) ==
    /\ pc[t] = "start"
    /\ IF Running(pool) THEN Fault ELSE UNCHANGED faults
    /\ Goto(t, "create")
    /\ pool' = NoBox
    /\ UNCHANGED <<state, tree, late, idle, holder, sb, answer>>

\* No entry, or its container does not run; _is_alive also says so when the
\* inspect command itself fails.
Miss(t) ==
    /\ pc[t] = "start"
    /\ IF Running(pool) THEN Fault ELSE UNCHANGED faults
    /\ Goto(t, "create")
    /\ UNCHANGED <<pool, state, tree, late, idle, holder, sb, answer>>

\* docker run, outside the pool lock, under the name made from the run_id.
Create(t) ==
    /\ pc[t] = "create" /\ NameFree
    /\ Unused # {}
    /\ state' = [state EXCEPT ![NewBox] = "running"]
    /\ sb' = [sb EXCEPT ![t] = NewBox]
    /\ Goto(t, "publish")
    /\ UNCHANGED <<pool, tree, late, idle, holder, answer, faults>>

\* docker run ends with another status and makes no container: the name is
\* taken, by a running container or a dead one, or docker refuses for a reason
\* of its own.  RuntimeError.
CreateRefused(t) ==
    /\ pc[t] = "create"
    /\ Reply(t, "failed")
    /\ UNCHANGED <<pool, state, tree, late, idle, holder, sb, faults>>

\* docker run exceeds its 30 s and the container comes up all the same, or
\* docker makes the container and cannot start it (there is no --rm).
CreateTimesOut(t) ==
    /\ pc[t] = "create" /\ NameFree /\ Fault
    /\ Unused # {}
    /\ \E s \in {"running", "dead"} : state' = [state EXCEPT ![NewBox] = s]
    /\ Reply(t, "failed")
    /\ UNCHANGED <<pool, tree, late, idle, holder, sb>>

\* The second critical section: keep the new container, or destroy it when
\* another thread has pooled a living one meanwhile.
Publish(t) ==
    /\ pc[t] = "publish"
    /\ IF Running(pool)
       THEN /\ state' = [state EXCEPT ![sb[t]] = "removed"]
            /\ HaveBox(t, pool)
            /\ UNCHANGED pool
       ELSE /\ pool' = sb[t]
            /\ HaveBox(t, sb[t])
            /\ UNCHANGED state
    /\ UNCHANGED <<tree, late, idle, holder, faults>>

-----------------------------------------------------------------------------
(* exec_in, inside Sandbox.lock *)

\* Bug: exec_in takes no lock.
ExecBeginUnlocked(t) ==
    /\ pc[t] = "exec"
    /\ idle' = idle \ {sb[t]}
    /\ IF Running(sb[t])
       THEN /\ holder' = [holder EXCEPT ![sb[t]] = t]
            /\ Goto(t, "running")
            /\ UNCHANGED answer
       ELSE Reply(t, "failed") /\ UNCHANGED holder
    /\ UNCHANGED <<pool, state, tree, late, sb, faults>>

\* Taking the lock stamps last_used_at; the first docker cp fails when the
\* container is gone, and its exception leaves exec_in and the endpoint.
ExecBegin(t) ==
    /\ pc[t] = "exec" /\ holder[sb[t]] = NoOne
    /\ idle' = idle \ {sb[t]}
    /\ IF Running(sb[t])
       THEN /\ holder' = [holder EXCEPT ![sb[t]] = t]
            /\ Goto(t, "running")
            /\ UNCHANGED answer
       ELSE Reply(t, "failed") /\ UNCHANGED holder
    /\ UNCHANGED <<pool, state, tree, late, sb, faults>>

\* A docker cp into a living container exceeds its 10 s: the exception leaves
\* exec_in, its lock and the endpoint.
CopyTimesOut(t) ==
    /\ pc[t] = "exec" /\ holder[sb[t]] = NoOne /\ Running(sb[t]) /\ Fault
    /\ idle' = idle \ {sb[t]}
    /\ Reply(t, "failed")
    /\ UNCHANGED <<pool, state, tree, late, holder, sb>>

\* select saw some output, and read(4096) returns only with 4096 characters or
\* the end of the output: until then nothing looks at the clock.
Blocks(t) ==
    /\ pc[t] = "running" /\ Running(sb[t])
    /\ Goto(t, "reading")
    /\ UNCHANGED <<pool, state, tree, late, idle, holder, sb, answer, faults>>

\* In exec_in, between starting the script and returning its status.
Inside(t) == pc[t] \in {"running", "reading"}

Unlock(t) == holder' = [holder EXCEPT ![sb[t]] = NoOne]

\* The edit of a patch reaches the tree, or does not: the script failed, or
\* the patch was empty or applied before.
MayLand(t) ==
    \/ UNCHANGED tree
    \/ t \in Patches /\ Running(sb[t])
       /\ tree' = [tree EXCEPT ![sb[t]] = @ \cup {t}]

\* The script ends with status 0.
ExecOk(t) ==
    /\ Inside(t) /\ Running(sb[t])
    /\ MayLand(t)
    /\ Unlock(t)
    /\ IF t \in Patches THEN Goto(t, "verify") /\ UNCHANGED answer ELSE Reply(t, "ok")
    /\ UNCHANGED <<pool, state, late, idle, sb, faults>>

\* Any other status: the script failed, the container was removed under it,
\* the output was too much, or the end of the output was read before poll()
\* saw the exit, which counts as 137 although the script did all its work.
ExecFails(t) ==
    /\ Inside(t)
    /\ MayLand(t)
    /\ Unlock(t)
    /\ Reply(t, "failed")
    /\ UNCHANGED <<pool, state, late, idle, sb, faults>>

\* Bug: the lock is not released on a timeout.
ExecTimesOutLocked(t) ==
    /\ Inside(t) /\ Running(sb[t])
    /\ late' = [late EXCEPT ![sb[t]] = @ \cup ({t} \cap Patches)]
    /\ Reply(t, "failed")
    /\ UNCHANGED <<pool, state, tree, idle, holder, sb, faults>>

\* Status 124: docker exec is killed, the script in the container goes on.
ExecTimesOut(t) ==
    /\ Inside(t) /\ Running(sb[t])
    /\ late' = [late EXCEPT ![sb[t]] = @ \cup ({t} \cap Patches)]
    /\ Unlock(t)
    /\ Reply(t, "failed")
    /\ UNCHANGED <<pool, state, tree, idle, sb, faults>>

\* A script that outlived its docker exec edits the tree, under no lock.
LateEdit(b) ==
    /\ Running(b)
    /\ \E p \in late[b] :
          /\ tree' = [tree EXCEPT ![b] = @ \cup {p}]
          /\ late' = [late EXCEPT ![b] = @ \ {p}]
    /\ UNCHANGED <<pool, state, idle, holder, pc, sb, answer, faults>>

\* _parse_patch_stat counts the lines after ---PATCH_STAT_START---.  The patch
\* script prints that marker, the script of _verify_patch_result does not.
MarkerPrinted == FALSE
FilesTouched(t) == IF MarkerPrinted THEN tree[sb[t]] ELSE {}

\* _verify_patch_result: a second exec_in runs git diff --numstat, and a patch
\* that touched no file is rejected.  It fails when the container is gone.
Verify(t) ==
    /\ pc[t] = "verify" /\ holder[sb[t]] = NoOne
    /\ idle' = idle \ {sb[t]}
    /\ Reply(t, IF Running(sb[t]) /\ FilesTouched(t) # {} THEN "ok" ELSE "failed")
    /\ UNCHANGED <<pool, state, tree, late, holder, sb, faults>>

-----------------------------------------------------------------------------
(* destroy_run, called by /sandbox/destroy and by the reaper *)

Leave(t) == IF t = Reaper THEN Goto(t, "sleep") /\ UNCHANGED answer ELSE Reply(t, "ok")

\* The entry is popped under the pool lock; nothing checks that it is still
\* the idle one, or that no thread is executing in it.
Pop(t) ==
    /\ pc[t] = "pop"
    /\ IF pool = NoBox
       THEN Leave(t) /\ UNCHANGED <<pool, sb>>
       ELSE /\ pool' = NoBox
            /\ sb' = [sb EXCEPT ![t] = pool]
            /\ Goto(t, "rm")
            /\ UNCHANGED answer
    /\ UNCHANGED <<state, tree, late, idle, holder, faults>>

Remove(t) ==
    /\ pc[t] = "rm"
    /\ state' = [state EXCEPT ![sb[t]] = "removed"]
    /\ Leave(t)
    /\ UNCHANGED <<pool, tree, late, idle, holder, sb, faults>>

\* docker rm -f fails or exceeds 15 s; _destroy swallows the exception.
RemoveFails(t) ==
    /\ pc[t] = "rm" /\ Fault
    /\ Leave(t)
    /\ UNCHANGED <<pool, state, tree, late, idle, holder, sb>>

\* Bug: the reaper passes over containers that do not run.
ScanRunning ==
    /\ pc[Reaper] = "sleep" /\ pool \in idle /\ Running(pool)
    /\ Goto(Reaper, "pop")
    /\ UNCHANGED <<pool, state, tree, late, idle, holder, sb, answer, faults>>

\* _reap_loop finds the entry idle.
Scan ==
    /\ pc[Reaper] = "sleep" /\ pool \in idle
    /\ Goto(Reaper, "pop")
    /\ UNCHANGED <<pool, state, tree, late, idle, holder, sb, answer, faults>>

-----------------------------------------------------------------------------
(* The environment *)

\* More than _IDLE_TTL seconds since the last exec_in began: also while a
\* step with a long timeout is still running.
GoIdle(b) ==
    /\ b \in Existing \ idle
    /\ idle' = idle \cup {b}
    /\ UNCHANGED <<pool, state, tree, late, holder, pc, sb, answer, faults>>

\* The container stops: out of memory, or the docker daemon restarts.
Die(b) ==
    /\ Running(b)
    /\ state' = [state EXCEPT ![b] = "dead"]
    /\ UNCHANGED <<pool, tree, late, idle, holder, pc, sb, answer, faults>>

Acquire(t) == Reuse(t) \/ Miss(t) \/ Create(t) \/ CreateRefused(t) \/ Publish(t)
Ends(t) == ExecOk(t) \/ ExecFails(t) \/ ExecTimesOut(t)
Exec(t) == ExecBegin(t) \/ Blocks(t) \/ Ends(t) \/ Verify(t)
Destroy(t) == Pop(t) \/ Remove(t)

Next ==
    \/ \E t \in Requests : Acquire(t) \/ CreateTimesOut(t) \/ CopyTimesOut(t) \/ Exec(t)
    \/ \E t \in Threads : Destroy(t) \/ RemoveFails(t)
    \/ Scan
    \/ \E b \in Boxes : LateEdit(b) \/ GoIdle(b) \/ Die(b)

Spec == Init /\ [][Next]_vars

\* A step ends or blocks in a read while its time is watched; blocked in a
\* read it need not end before the container goes and its output with it.
Watched(t) ==
    \/ pc[t] = "running" /\ (Blocks(t) \/ Ends(t))
    \/ ~Running(sb[t]) /\ ExecFails(t)

\* Every thread that can move does: docker commands have time limits, the
\* reaper wakes every 60 s, and an unused box becomes idle.
Fairness ==
    /\ \A t \in Requests : WF_vars(Acquire(t) \/ ExecBegin(t) \/ Watched(t) \/ Verify(t))
    /\ \A t \in Threads : WF_vars(Destroy(t))
    /\ WF_vars(Scan)
    /\ \A b \in Boxes : WF_vars(GoIdle(b))

FairSpec == Spec /\ Fairness

-----------------------------------------------------------------------------
(* Properties *)

Owners == {t \in Threads : pc[t] \in {"publish", "rm"}}
Orphans == Existing \ ({pool} \cup {sb[t] : t \in Owners})

\* A container that exists is the pooled one, or a thread is about to pool or
\* to remove it: nothing but a docker command that timed out makes an orphan,
\* whatever the order of creating, publishing, destroying and reaping.
NoLeakWithoutFault == Orphans # {} => faults > 0

\* The "another thread may have created" branch of get_or_create never has
\* anything to do: names are unique, so a thread that got a container from
\* docker finds no entry in the pool, living or dead, that it could displace.
PublishDisplacesNothing ==
    \A t \in Requests : pc[t] = "publish" => pool = NoBox /\ sb[t] \in Existing

\* Two steps never run inside one container at once, except for scripts that
\* outlived their time limit; and the lock is held by nobody who has left.
ExecSerial ==
    /\ \A t, u \in Requests :
          Inside(t) /\ Inside(u) /\ sb[t] = sb[u] => t = u
    /\ \A b \in Boxes :
          holder[b] # NoOne => Inside(holder[b]) /\ sb[holder[b]] = b

\* "Verify a patch had real effect in a warm sandbox by checking git diff
\* --stat" (app.py:1569): a patch whose edits are in the tree when its result
\* is verified is accepted.
EffectSeen ==
    [][\A p \in Patches :
          Verify(p) /\ Running(sb[p]) /\ p \in tree[sb[p]] => answer'[p] = "ok"]_vars

\* The step that starts in a container sees every edit a patch of the run has
\* made: a container lives until the run ends.
Landed == UNION {tree[b] : b \in Boxes}
TreeKept ==
    [][\A t \in Steps : ExecBegin(t) /\ Running(sb[t]) => Landed \subseteq tree[sb[t]]]_vars

\* Unless docker commands time out no container outlives the requests of its
\* run: one that a late request starts after /sandbox/destroy, or that died,
\* goes with the reaper.
Reclaimed == [](faults = 0) => <>[](Existing = {})

\* Every request is answered: no path keeps Sandbox.lock, and a step that hangs
\* after a little output, out of reach of its time limit, is freed by the
\* reaper, which removes the container under it unless docker rm fails.
RequestsEnd == [](faults = 0) => \A t \in Requests : <>(pc[t] = "done")
=============================================================================
