---------------------------- MODULE ColdExecutor ----------------------------
(***************************************************************************)
(* The executor's ephemeral path (services/executor/app.py): POST          *)
(* /repo/import and POST /run, for one repository.  A cold step runs in a  *)
(* container of its own with the repository's directory mounted read and   *)
(* write, so every run edits the same tree.  Endpoints are plain functions *)
(* in a thread pool: imports and steps overlap freely.                     *)
(*                                                                         *)
(* A directory is told from the one that replaces it by a generation; a    *)
(* container keeps the directory it mounted.  docker run makes the host    *)
(* directory of a mount that is not there, and rmtree, which ignores       *)
(* errors, may leave a rest of a directory that a container writes to:     *)
(* both are strays, which no clone made.  Killing the docker client at the *)
(* time limit does not stop the container.  Docker, git, pip and what runs *)
(* in a container are external: their outcomes are choices.                *)
(***************************************************************************)
EXTENDS Naturals, FiniteSets

CONSTANTS
    Runs,            \* run_ids
    Calls,           \* steps sent to the executor
    Importers,       \* calls of /repo/import
    NoPatch,         \* the patch of a step that has none
    NetworkMinTier,  \* network_min_tier of gate_policy.yaml
    MaxClones        \* bound: directories made

Shared == "shared"           \* /data/venv/<repo_id>, no run in the path
Scopes == Runs \cup {Shared}

VARIABLES
    repo,     \* /data/repos/<repo_id>: generation, there, whole clone or stray,
              \* patches applied, formatted, and both as git's index has them
    venv,     \* scope -> "none", "bare" (made, packages missing) or "ready"
    job,      \* call -> its container and what the caller was told
    import,   \* importer -> phase, generation it clones into
    overlap,  \* history: two imports were under way at once
    last      \* history: how the last import ended that was no conflict

coldVars == <<repo, venv, job, import, overlap, last>>

NoJob == [phase |-> "none", type |-> "none", patch |-> NoPatch, scope |-> Shared,
          warm |-> FALSE, gen |-> 0, seen |-> <<>>, diff |-> "none", status |-> "none",
          told |-> "none", quota |-> FALSE]
NoImport == [phase |-> "idle", gen |-> 0]

Clean == <<{}, FALSE>>

\* What earlier runs left is there.  An importer that never comes has ended.
ColdInit ==
    /\ repo \in {[gen |-> 0, there |-> h, whole |-> h, stray |-> FALSE, edits |-> {},
                  formatted |-> FALSE, index |-> Clean] : h \in BOOLEAN}
    /\ venv \in {[s \in Scopes |-> IF s = Shared THEN v ELSE "none"] : v \in {"none", "ready"}}
    /\ job = [c \in Calls |-> NoJob]
    /\ import \in [Importers -> {NoImport, [NoImport EXCEPT !.phase = "ended"]}]
    /\ overlap = FALSE
    /\ last = IF repo.there THEN "ok" ELSE "none"

Directory(gen, there, stray) ==
    [gen |-> gen, there |-> there, whole |-> FALSE, stray |-> stray, edits |-> {},
     formatted |-> FALSE, index |-> Clean]

Gone == Directory(repo.gen, FALSE, FALSE)
Stray == Directory(repo.gen + 1, TRUE, TRUE)

\* The container of the step has the directory that is at the path.
Mounted(c) ==
    /\ repo.there /\ repo.gen = job[c].gen
    /\ ~job[c].warm /\ job[c].phase \notin {"none", "found"}

Working == {"mounted", "added", "applied", "testing"}

\* rmtree: what a container writes meanwhile may stay behind.
Removals ==
    {Gone} \cup IF repo.gen < MaxClones /\ \E c \in Calls : Mounted(c) /\ job[c].phase \in Working
                THEN {Stray} ELSE {}

-----------------------------------------------------------------------------
(* /repo/import *)

Importing == {i \in Importers : import[i].phase \in {"removed", "cloning"}}
AnswersConflict(force) == repo.there /\ ~force

\* An existing repository is an error, or is removed first when force is set.
ImportBegins(i, force) ==
    /\ import[i].phase = "idle"
    /\ \/ /\ AnswersConflict(force)
          /\ import' = [import EXCEPT ![i].phase = "ended"]
          /\ UNCHANGED <<repo, overlap>>
       \/ /\ ~AnswersConflict(force)
          /\ repo' \in IF repo.there THEN Removals ELSE {repo}
          /\ import' = [import EXCEPT ![i].phase = "removed"]
          /\ overlap' = (overlap \/ Importing # {})
    /\ UNCHANGED <<venv, job, last>>

\* Only now is the ref looked at, and git itself may be missing: an error, and
\* the old repository is gone.
ImportFails(i) ==
    /\ import[i].phase = "removed"
    /\ import' = [import EXCEPT ![i].phase = "ended"]
    /\ last' = "failed"
    /\ UNCHANGED <<repo, venv, job, overlap>>

\* git clone makes the directory or takes one that is empty; it ends at once
\* in any other.
CloneBegins(i) ==
    /\ import[i].phase = "removed"
    /\ \/ /\ ~repo.there /\ repo.gen < MaxClones
          /\ repo' = Directory(repo.gen + 1, TRUE, FALSE)
          /\ import' = [import EXCEPT ![i] = [phase |-> "cloning", gen |-> repo.gen + 1]]
       \/ /\ repo.stray /\ repo.edits = {} /\ ~repo.formatted
          /\ repo' = [repo EXCEPT !.stray = FALSE]
          /\ import' = [import EXCEPT ![i] = [phase |-> "cloning", gen |-> repo.gen]]
       \/ /\ repo.there
          /\ import' = [import EXCEPT ![i].phase = "cloning"]
          /\ UNCHANGED repo
    /\ UNCHANGED <<venv, job, overlap, last>>

\* Bug: what a failed clone leaves is kept.
AfterFailedCloneKept == {repo}
AfterFailedClone == Removals

\* git succeeds only in the directory it made; a failure or the time limit
\* removes whatever stands at the path, its own or another import's.
ImportEnds(i) ==
    /\ import[i].phase = "cloning"
    /\ import' = [import EXCEPT ![i].phase = "ended"]
    /\ \/ /\ repo.there /\ repo.gen = import[i].gen
          /\ repo' = [repo EXCEPT !.whole = TRUE]
          /\ last' = "ok"
       \/ /\ repo' \in AfterFailedClone
          /\ last' = "failed"
    /\ UNCHANGED <<venv, job, overlap>>

-----------------------------------------------------------------------------
(* /run *)

Tell(c, word) == job' = [job EXCEPT ![c] = [NoJob EXCEPT !.phase = "over", !.told = word]]

\* Checks the executor makes itself: the network tier, its arguments, and for a
\* patch the risk gate once more.
Refused(s) ==
    \/ s.type = "ensure_deps" /\ ~(s.net /\ s.tier >= NetworkMinTier)
    \/ ~s.args
    \/ s.type = "apply_patch" /\ (s.patch = NoPatch \/ s.patch.gate = "REJECT")

\* _paths is called by /run without a run_id, and by /run_warm with one.
ScopeOf(run, warm) == IF warm THEN run ELSE Shared

\* _paths looks for the directory.  /run_warm hands networked steps to /run; a
\* warm step works in the tree of its sandbox, which is WarmSandbox's, and
\* leaves the repository alone.
JobBegins(c, s, run, warm) ==
    /\ job[c].phase = "none"
    /\ IF ~repo.there \/ Refused(s) THEN Tell(c, "refused")
       ELSE job' = [job EXCEPT ![c] =
                [NoJob EXCEPT !.phase = "found", !.type = s.type, !.patch = s.patch,
                              !.warm = warm, !.scope = ScopeOf(run, warm)]]
    /\ UNCHANGED <<repo, venv, import, overlap, last>>

Exit(c, status) == job' = [job EXCEPT ![c].phase = "exited", ![c].status = status]

\* docker run mounts what is at the path by then, and makes a directory if
\* nothing is; or it fails.
JobMounts(c) ==
    /\ job[c].phase = "found"
    /\ \/ /\ repo.there \/ job[c].warm
          /\ job' = [job EXCEPT ![c].phase = "mounted", ![c].gen = repo.gen]
          /\ UNCHANGED repo
       \/ /\ ~repo.there /\ ~job[c].warm /\ repo.gen < MaxClones
          /\ repo' = Stray
          /\ job' = [job EXCEPT ![c].phase = "mounted", ![c].gen = repo.gen + 1]
       \/ Exit(c, "failed") /\ UNCHANGED repo
    /\ UNCHANGED <<venv, import, overlap, last>>

TreeOf(c) == IF Mounted(c) THEN <<repo.edits, repo.formatted>> ELSE Clean

Effects == {"apply_patch", "ensure_deps", "run_tests", "format_fix"}

\* Reads, searches, detections and other templates leave everything as it is; a
\* time limit or a quota is one more way to fail.
Looks(c) ==
    /\ job[c].phase = "mounted" /\ job[c].type \notin Effects
    /\ \E word \in {"ok", "failed"} :
           job' = [job EXCEPT ![c].phase = "over", ![c].told = word]
    /\ UNCHANGED <<repo, venv, import, overlap, last>>

\* Bug: the script goes on after git apply failed.
StatusOfFailedApplyIgnored == "ok"
StatusOfFailedApply == "failed"

\* The first command of a patch, git add -A, takes the whole tree into the index;
\* its failure is ignored.  _verify_patch_result rejects a patch in a warm
\* sandbox, whatever came of it.
AddsAll(c) ==
    /\ job[c].phase = "mounted" /\ job[c].type = "apply_patch"
    /\ IF job[c].warm THEN Exit(c, "failed") ELSE job' = [job EXCEPT ![c].phase = "added"]
    /\ \/ UNCHANGED repo
       \/ Mounted(c) /\ repo' = [repo EXCEPT !.index = <<repo.edits, repo.formatted>>]
    /\ UNCHANGED <<venv, import, overlap, last>>

\* git apply
Applies(c) ==
    /\ job[c].phase = "added"
    /\ \/ /\ Mounted(c) /\ job[c].patch \notin repo.edits
          /\ repo' = [repo EXCEPT !.edits = @ \cup {job[c].patch}]
          /\ job' = [job EXCEPT ![c].phase = "applied"]
       \/ Exit(c, StatusOfFailedApply) /\ UNCHANGED repo
    /\ UNCHANGED <<venv, import, overlap, last>>

\* What git diff shows of the tree: not what is in the index by now, and not
\* files that git does not know.
Shown ==
    \/ \E p \in repo.edits \ repo.index[1] : ~p.onlyNew
    \/ repo.formatted # repo.index[2]

\* Why the diff shows nothing: another step's git add -A took the patch up, or
\* the patch only creates files.
WhyEmpty(c) == IF job[c].patch \in repo.index[1] THEN "taken" ELSE "empty"

\* git diff --numstat: the patch is rejected when it prints nothing, which it
\* also does when it fails.
Diffs(c) ==
    /\ job[c].phase = "applied"
    /\ \E d \in {IF ~Mounted(c) \/ Shown THEN "shown" ELSE WhyEmpty(c), "failed"} :
           job' = [job EXCEPT ![c].phase = "exited", ![c].diff = d,
                              ![c].status = IF d = "shown" THEN "ok" ELSE "failed"]
    /\ UNCHANGED <<repo, venv, import, overlap, last>>

\* python -m venv comes before pip install: a failure may leave a bare venv.
Installs(c) ==
    /\ job[c].phase = "mounted" /\ job[c].type = "ensure_deps"
    /\ \/ venv' = [venv EXCEPT ![job[c].scope] = "ready"] /\ Exit(c, "ok")
       \/ /\ venv' = [venv EXCEPT ![job[c].scope] = IF @ = "none" THEN "bare" ELSE @]
          /\ Exit(c, "failed")
       \/ UNCHANGED venv /\ Exit(c, "failed")
    /\ UNCHANGED <<repo, import, overlap, last>>

\* format_fix edits the mounted tree, outside any patch.
Formats(c) ==
    /\ job[c].phase = "mounted" /\ job[c].type = "format_fix"
    /\ \/ /\ Mounted(c)
          /\ repo' = [repo EXCEPT !.formatted = TRUE]
          /\ Exit(c, "ok")
       \/ UNCHANGED repo /\ Exit(c, "failed")
    /\ UNCHANGED <<venv, import, overlap, last>>

\* Tests run in a copy; the status of the tree is noted before and compared
\* after, and the venv must be there.
TestsBegin(c) ==
    /\ job[c].phase = "mounted" /\ job[c].type = "run_tests"
    /\ IF venv[job[c].scope] = "none" THEN Exit(c, "no_venv")
       ELSE job' = [job EXCEPT ![c].phase = "testing", ![c].seen = TreeOf(c)]
    /\ UNCHANGED <<repo, venv, import, overlap, last>>

TestsEnd(c) ==
    /\ job[c].phase = "testing"
    /\ \/ Exit(c, "failed")
       \/ TreeOf(c) = job[c].seen /\ Exit(c, "ok")
       \/ TreeOf(c) # job[c].seen /\ Exit(c, "mutated")
    /\ UNCHANGED <<repo, venv, import, overlap, last>>

TimeoutWord == "timeout"

\* The time limit ends the wait, not the container.
JobTimesOut(c) ==
    /\ job[c].phase \in Working /\ job[c].type \in Effects
    /\ job[c].told = "none"
    /\ job' = [job EXCEPT ![c].told = TimeoutWord]
    /\ UNCHANGED <<repo, venv, import, overlap, last>>

\* The exit status, or a failure because the artifacts outgrew their quota.
JobReturns(c) ==
    /\ job[c].phase = "exited" /\ job[c].told = "none"
    /\ \/ job' = [job EXCEPT ![c].told = job[c].status]
       \/ job' = [job EXCEPT ![c].told = "failed", ![c].quota = (@ \/ job[c].type = "apply_patch")]
    /\ UNCHANGED <<repo, venv, import, overlap, last>>

-----------------------------------------------------------------------------
(* Properties *)

\* What a caller is told of a patch is true of the tree the step worked on: a
\* patch told as applied is in it, and one told as failed is not, unless the
\* diff of the tree did not show it (it only creates files, another step's git
\* add -A took it up before the diff, or git diff failed) or the artifacts were
\* over their quota (app.py:1397-1443 and 308-332).  Of a step that timed out
\* nothing is known.
PatchTold ==
    \A c \in Calls : job[c].type = "apply_patch" /\ Mounted(c) =>
        /\ job[c].told = "ok" => job[c].patch \in repo.edits
        /\ job[c].told = "failed" /\ job[c].patch \in repo.edits =>
               \/ job[c].patch.onlyNew \/ job[c].quota
               \/ job[c].diff \in {"taken", "failed"}
               \/ \E d \in Calls \ {c} : job[d].patch = job[c].patch

\* "If patch applied but diff is empty, it had no effect" (app.py:1430-1431).
EmptyDiffNoEffect ==
    \A c \in Calls : Mounted(c) /\ job[c].diff \in {"empty", "taken"} =>
        job[c].patch \notin repo.edits

\* Imports that do not overlap leave a whole repository exactly when the last
\* one said so (app.py:610-668); one that failed, whether before its clone or
\* in it, leaves no part of a repository, but for what a step under way put or
\* kept there.
ImportKept ==
    ~overlap /\ Importing = {} =>
        /\ repo.whole <=> last = "ok"
        /\ repo.there /\ last # "ok" => repo.stray
=============================================================================
