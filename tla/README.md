# TLA+ models of the RFSN agent

This directory holds TLA+ specifications of the agent's core logic, the TLC
configurations that check them on small instances, and theorems about them that
TLAPS has checked. `PROJECT.json` says, for every definition, which lines of the
code it stands for. Paths below are relative to the repository.

## 1. The system

A client asks the **orchestrator** (HTTP) to work on a repository. The
orchestrator starts a daemon thread per run. The thread takes the steps of its
plan one after the other. It puts each step to the **hard kernel**, which decides
whether it may be executed and records everything in the **hard ledger**. An
approved step goes through the **tool gateway** (budgets, tiers) to the
**executor**, which runs it in a docker container. With warm sandboxes on
(`RFSN_SANDBOX_POOL=1` or `RFSN_DEV_MODE=1`; off by default) one container is
kept for the run. The **LLM service** answers prompts and can record and replay
them, the **learner** keeps statistics of strategies, the **benchmark runner**
drives a repair loop of its own over SWE-bench tasks.

The state that actors share is what makes the system hard:

- one `HardKernel` and one `HardLedger` object serve all run threads of the
  orchestrator without a lock of their own (`run_engine.py`, `kernel_bridge.py`);
- the run context, a dict and an `Event`, is written by the run thread and by the
  HTTP threads of `/approve` and `/reject`;
- the pool of sandboxes is used by the executor's request threads, by the reaper
  thread, and, after a client timeout, by two requests of one run at once;
- files outlive processes: ledger, cassettes, memory, DuckDB.

### Inventory

| Component | State | Operations | What is hard | What makes it correct |
|---|---|---|---|---|
| Hard ledger `rfsn_kernel/hard_ledger.py` | JSONL file; `prev`, `_count` | load, `append`, `verify_chain`, `read_all` | concurrent appends, crash or full disk inside a write | append-only; returned appends durable; chain verifies; edits and losses are found |
| Hard kernel `rfsn_kernel/kernel.py`, `validate`, `simulate`, `decide`, `verify`, `state`, `run_state`, `tier_policy`, `failure_kinds` | counters of `SystemState`, `consecutive_failures`, adaptive thresholds, tier per run | `kernel_step`, `reset_for_run`, `end_run`, `adaptive_relax`, `reset_for_iteration` | counters and thresholds shared by runs without a lock, appends that raise after the tool ran, long sequences of steps, drift and loop lock-outs | budgets hold; tiers are earned; executed means committed, or told as an error; loops end; thresholds follow the level |
| Run engine `run_engine.py`, `kernel_bridge.py`, `session_state.py`, `api_routes.py`, `sim_cache.py` | run context, plan, status, step cache | `run_logic`, `execute_approved_step`, approve, reject | pauses against late or double answers, exceptions at any step, stale cache | the final status is true; the run is cleaned up; no low-confidence step without an answer; runs end |
| Warm sandboxes `sandbox_pool.py`, `executor/app.py` | pool, containers, per-sandbox lock, tree in the container | create, run, verify, destroy, reap | overlapping requests, reaper, docker timeouts, orphaned scripts, reads that block | one step at a time in a container; no leaked container; every request is answered; a patch that took effect is accepted |
| Executor, cold path and repositories `executor/app.py`, `capsule.py` | directories of repositories | `run`, `repo_import`, list | import with force under running steps, errors after the removal, failed clones, containers that outlive their client, one git index for all steps | what is told of a patch is true of its tree; an import leaves a whole repository or none |
| Tool gateway `tool_gateway/` | usage per repository, scope and iteration; work directories per run | `run_step`: validate, tier gate, charge, route, charge bytes | shared dicts without lock, pruning, charge after effect | budgets are never exceeded until their count is forgotten |
| LLM service `llm_service/app.py` | cassette file | record, trim, replay | two recorders, trimming, a crash in a write, a key twice | what was recorded can be replayed |
| Learner `learner_service/` | DuckDB tables, playbooks | suggest, ingest | four statements per ingest, crash between, one connection for all threads, time stamps taken before the insert | counters equal the episodes; outcomes do not get worse |
| Memory `rfsn_kernel/memory.py` | store, axioms, quarantine, unsaved list, JSONL file | admit, promote, protect, decay, evict, `save`, `append_save`, load | evictions against incremental saves, a crash in a save, one status field for three things | a reload gives the memory back; axioms stay |
| Ledger replay, in-memory chain `replay.py`, `ledger_chain.py` | chain in memory and file | trace and divergence of a run; append, save, load, verify | records of several runs in one file, entries handed out for editing | no false divergence; the first altered entry is named |
| Benchmark runner and its scripts `rfsn_swebench/`, `scripts/run_swebench_batch.py` | checkout, locals of the loop, result file | propose, try, apply, gate, test, retry; invoke, resume, kill | variables and trees that outlive an iteration, result files that outlive a process | PASS means applied, gated and tested; the batch reports its own process |
| Risk `risk.py`, `simulate.py`, `decide.py` | - | estimate and judge a proposal | weights, caps and thresholds that interact | worse is never less risky |
| Circuit breaker `system/circuit_breaker.py` | state, failures, last failure | `call` | late results, several probes | it closes again when what is called works |
| Self-healing `self_healing/` | window, level, clusters | ingest, reset | eviction at the limit | what keeps failing is remembered |
| Swarm `swarm/` | revisions, ledger of the debate, result | rounds of architect, coder, QA | agents and ledger callback that raise, revisions per subtask | ledger and result agree |
| Planner `planner.py`, tool registry | subgoals, focus, counters | set, advance, stagnate, escalate | escalations between advances | no subgoal is passed over |
| Model checkers `model_check.py`, ... | frontier, visited | breadth and depth first search | limits, marking when met | what is there is found |
| Autofix, stability | environment, logs, cooldown | cycle, correct | several failures of a kind, two correctors of one setting | one correction per cycle; nothing to zero |
| Repair loop, scheduler | phase, slots | `next_phase`, `start_run` | falsy status 0 | - |
| Replay files, phases, fingerprints `orchestrator/` | manifests | snapshot, hash | - | - |
| Consensus `consensus/` | term, log, commit index | append, propose | sending and receiving are stubs | prefixes agree |
| Replay verifier `replay_verifier/` | recorded runs | sign, compare, time travel | - | equal runs compare equal |
| Hardening guard, front ends, dispatcher | - | HTTP, GitHub calls, checks at start | - | - |

`PROJECT.json` lists the same components with their modules and, under
`hazards`, each place that is hard to test, with the properties that cover it.

## 2. The modules

| Module | Stands for |
|---|---|
| `AuditLog` | what the ledger promises: an abstract append-only log with calls that may overlap, fail or be lost before they return |
| `HardLedger` | `hard_ledger.py`, cut at each read and write of shared state |
| `HardKernel` | `kernel.py` with the gates, tiers, counters and the adaptive envelope |
| `RunEngine` | `run_logic`, the kernel bridge with its cache, the run context and the approval endpoints |
| `WarmSandbox` | the sandbox pool, its containers and locks, the reaper, and the endpoints that use them |
| `ColdExecutor` | the executor's ephemeral path and the import of repositories |
| `ToolGateway` | the gateway in front of it; extends `ColdExecutor`, whose jobs its calls start |
| `KernelMemory`, `Cassettes`, `LearnerStore`, `LedgerReplay` | the four stores: memory of the kernel, cassettes of the LLM service, tables of the learner, written ledgers |
| `BenchRunner` | the benchmark loop, its direct proposer and the batch script, for one task |
| `RiskScore` | the estimates and the risk of a proposal, which HardKernel takes as inputs |
| `CircuitBreaker`, `SelfHealing`, `Corrections`, `Swarm`, `Planner`, `StateExplorer` | small parts that watch, correct, plan or explore |
| `MC*` | the instances for TLC. `MCParts` and `MCMonitors` put parts side by side that share no state: `here` is the part that is at work |
| `*_proofs` | the theorems |

The interfaces are narrow, and the components are composed through them: RunEngine
takes the kernel's verdict as an input (every verdict HardKernel can give),
HardKernel takes the tool's outcome as an input, WarmSandbox takes any overlap of
requests that a run engine which gives up waiting can cause. An append to the
ledger is an input of HardKernel, of RunEngine and of Swarm (there it is a callback):
it succeeds or it raises, wherever the code appends. HardLedger is
shown to implement AuditLog by a refinement mapping (`Promised`).

Steps are cut at the granularity of the interpreter the services run on, CPython 3.11 (the
Dockerfiles and the CI name it): it changes threads at calls and backward jumps only. Two statements
that read and write attributes with no call between them are one step. Wherever there is a
call, a lock, a file operation, a statement of SQL or a command of git or docker between a read
and what is made of it, they are apart.

Definitions whose comment begins with "Bug:" are deliberate errors. They are not
part of any specification; each is put in the place of the definition after it
(or of the one it resembles) to see that the properties notice.

### HardLedger

A chain hash is the sequence of entry hashes it commits to, so two hashes are
equal exactly when the histories are: collisions are excluded, everything else
is kept. `append` is six actions: `LinkRecord` reads `self.prev` for the record
(line 140), `HashRecord` reads it again for the chain hash (142), `LockFile`
(156), `WriteLine` or `WriteFails` (158-162), `UnlockFile`, `Publish` (167-168: two
assignments with no call between them).
`Open` is the constructor, `VerifyErrors` is `verify_chain`. `Crash` stops the
process anywhere. `WriteFaults` switches on writes that fail or leave a
fragment, a line without newline, or a line whose fsync failed. `acked` is a
history variable: how many appends returned.

### HardKernel

A call of `kernel_step` is cut where another thread can change what it reads
next: `Refuse` and `Check` (budgets, tier, validation), `Reject` and `Approve`
(the decision), `Settle` (the tool returned; counters), `Announce` and `CheckRollback`
(three failures in a row, before and after the print), `Backtrack` (the tier), `Verify`,
the reads and writes of `_adaptive_tighten` one by one (`ReadsLevel`, `WritesLevel`,
`ReadsRisk`, `ReadsSuccess`, `WritesRisk`, `WritesSuccess`, with what was read in `seen`), and
`Conclude` (the APPROVE record). The append of the tier event in `Backtrack` and that of
the record in `Conclude` may raise: the call ends there with the counters moved, and the history
variable `lost` counts it. An append that raises in a refusal or a rejection changes nothing
else, so it is the same step. A rejected step enters the history that the loop check reads.
Success probability and risk are inputs in percent because they are floating point sums; loop and drift risk
are computed from the shared counters as in the code. `ResetForRun`, `EndRun`,
`AdaptiveRelax` and `ResetForIteration` are public methods that the
orchestrator never calls; `Maintenance` switches them on.

### RunEngine

`run_logic` is one process: `Start`, `SandboxCreate`, then per step `NextStep`
(policy, confidence gate), `Wait`, `Clear`, `ReadVerdict`, `Resume`, `Execute`, and
`SandboxDestroy` and `ClearContext` from the finally block. `AppendFails` is an
exception from the ledger at any append. A handler is `Looks` (check of the
status), `WritesVerdict`, `Signals` (`event.set()`), with the run between
them. The step cache answers a step it has seen with the result of its first execution.
`executed` and `answers` are history variables.

### WarmSandbox

One run_id: pool entries, container names and locks of different runs are
disjoint. A container is a numbered box; docker refuses to start one while
another one of that name exists. `get_or_create` is `Reuse`, or `Miss` and
`Create` outside the pool lock, and `Publish` in the second critical section. In the place of
`Create`, `CreateRefused` is docker run ending with another status, for whatever reason, and
`CreateTimesOut` a run that is given up and leaves a container, running or never started.
`exec_in` is `ExecBegin` (or `CopyTimesOut`, a docker cp that takes too long), then `ExecOk`,
`ExecFails` or `ExecTimesOut`, which leaves the script running (`LateEdit`). In between,
`Blocks` is the read of 4096 characters that does not return when a script
prints a little and hangs: the time limit is looked at again only after it.
`Verify` is `_verify_patch_result`. It rejects every patch, because the marker its parser waits
for is not printed by its script (`MarkerPrinted`). `destroy_run` is `Pop` and `Remove` or
`RemoveFails`; `Scan` is the reaper finding the entry idle. `Die` is docker or
the kernel killing a container.

### ToolGateway and ColdExecutor

A call of the gateway is a thread: `Receive` (validation, tier gate), `ChargeStep`
with `PruneScan` and `PruneDelete` (the scan of the usage dictionary and the
deletions are apart because another thread may run between them), `Forward`, the
job in the executor, `ChargeBytes`, `Deliver`. A job is `JobBegins` (the directory is
there), `JobMounts` (docker run mounts what is there by then, and makes a directory, a *stray*, if
nothing is), then by type `Looks`, `Installs`, `Formats`, `TestsBegin` and `TestsEnd`, or
the three commands of a patch, `AddsAll` (git add -A), `Applies` (git apply) and `Diffs` (git diff
against the index all steps share), and `JobReturns`, or `JobTimesOut`: the client is killed
and the container goes on. `ImportBegins` is `repo_import` as far as its rmtree, `ImportFails`
an error between that and the clone (a bad ref, no git), `CloneBegins` and `ImportEnds` are the
clone. A directory has a generation, so that a container that mounted the old one is told from
one that sees the new one; rmtree may leave a rest under a container that writes.
`spent` and `charged` are history variables.

### The four stores

`KernelMemory` keeps the pipeline of `add` in one action (`Admit`), as it is one
thread, and cuts a save only where a crash may leave part of it
(`CrashInSave`, with a last line that may be torn). What is weakest or stale is a
choice: the properties do not depend on scores. The status of an entry is one field, which `Admit`,
`ProtectAxiom` and `PromoteQuarantined` overwrite; decay, eviction and the saves go by it. The history
variable `unfiled` names the entries that no incremental save writes: those that a promotion, a
protection or a quarantine touched without a line of their own, those saved while
quarantined, and those whose line joined a cut one.

`Cassettes` cuts a recording at `CheckSize`, `Truncate`, `Rewrite`, `WriteRecord`; `cut` says that
the file ends inside a line. Two history variables keep apart what may be lost: `joined` holds the
answers whose line joined one that a crash had cut, `damaged` says that a trim was overtaken by another thread
or struck by a crash. A crash in a write sets neither.

`LearnerStore` has one action per SQL statement, but `Check` and `Fetch` for the query whose result another
thread's statement may replace on the shared connection (`result`), and `StampOutcome` and
`InsertOutcome`, as the time is taken before the row is there; `uncounted` counts episodes whose
statistics were lost. In `LedgerReplay` a hash is the sequence it commits to, as in `HardLedger`; a record
whose two reads of `self.prev` saw different heads is `torn`.

### BenchRunner

A tree, a patch and an answer are sets of changes. A change may create a file,
touch a file of the test patch, be banned by the gate, or be ignored by git: these
four distinctions are what resets, diffs and the gate tell apart. `bench` is the record of
`bench_run`'s locals, with `pc` for the place in the loop. `Kill` is the time limit of the
batch script; `WriteResult` may leave a torn file. `greens` is a history variable: which
tests passed in the iteration, on which tree.

### RiskScore and the small parts

`RiskScore` computes in whole units (ratios in percent, weighted sums scaled), so
the orders and thresholds are exact. `CircuitBreaker` cuts `call` at its two
critical sections, with the call itself between them. `SelfHealing`, `Swarm`,
`Planner` and `StateExplorer` have one action per public operation or
per iteration of the loop. In `Swarm` an agent or the ledger callback may raise in its turn
(`AgentRaises`), the callback also after a verdict (`LedgerRaises`) or over the last row
(`Endings`). In `Corrections` a cycle of the autofix controller
ranks the failures (`Place` is the place of a stable sort by severity) and plans
from the environment it reads; `ApplyAction` then applies one planned action at a
time to the environment that is there (`todo`). The corrector of stability is one
action; `due` is a history variable, the time limit the cycles should lead to.

## 3. The runs

| Run | Instance | Shows |
|---|---|---|
| `ledger_threads` | 2 threads, 2 entries, 3 lines, 1 crash, whole writes | appends are durable, the object agrees with the file when idle, records never change, edits of a verifying file are found, the ledger implements `AuditLog`, every append ends |
| `ledger_faults` | the same with writes that fail or are cut | a loss never goes unnoticed |
| `kernel_serial` | 1 run, 8 executions, history of 4, appends that raise | loops end, executed steps are committed or told as an error, drift locks out |
| `kernel_shared` | 2 runs, budget 1, 3 executions, history of 1, resets and relaxing, appends that raise | budget overrun stays below the number of runs, test edits are earned by escalation, thresholds follow the level while nobody tightens, no row of three failures goes unannounced |
| `engine` | 2 clients, plans of up to 3 steps of 3 kinds, limit 2, ledger and network faults | the final status is truthful, the run is cleaned up, answers cover low-confidence steps, runs end |
| `sandbox` | warm-up, patch, check and destroy at once, 3 containers, 1 docker fault, reads that block | no leak without a fault, publishing displaces nothing, steps are serial, containers are reclaimed, requests end |
| `gateway` | 3 calls of 7 step types over 2 iterations, 2 imports, budgets of 1, gateway and cold executor composed | budgets hold, what is told of a patch is true or its diff could not show it, imports leave a whole repository or none |
| `parts` | the benchmark runner (6 changes, 2 iterations, 2 invocations), memory (2 entries, room for 1), cassettes (2 threads, 5 records), learner (3 ingests of 4 reports), ledger replay (2 runs) | passes are earned, results are honest, the memory and the tape give back what they took, counters equal episodes, replay is faithful |
| `monitors` | the seven small parts | the circuit closes again, recurring failures are remembered, corrections are bounded, the debate is accounted for, no subgoal is passed over, the search is complete, the risk threshold is idle and the risk ordered |
| `ledger_concurrent_chain` | finding | two overlapping appends break the chain |
| `bench_testpatch` | finding | the proposer's diff repeats the test patch |
| `parts_axioms` | finding | an axiom decays after another admission or a promotion |

Deadlock checking is off in all of them: a run that has ended, a kernel at its
budget, a ledger at its bound, an exhausted search and a batch without
invocations left really stop.

### Bounds and why they are enough

- Ledger: the chain is broken, lost or spoiled by at most two appends and one
  crash; the third line is there to be linked to what they left. Two entries let
  records differ.
- Kernel: in `kernel_serial` 8 executions pass the loop window (4 of the same action), the rollback
  threshold (3), the failure cluster (2 in the instance) and the drift threshold;
  a history of 4 makes the list wrap. The numbers of the shipped policies (100
  steps, 20 actions) only move these thresholds. In `kernel_shared` the budget of
  1 is passed by 2 runs; a cluster is one failure, so that both runs tighten at once, and
  3 executions are a row of failures with the second run anywhere between its outcome and the
  check. The history of actions plays no part in its properties. `SYMMETRY` permutes the
  runs, over which no invariant chooses; that run checks no liveness.
- Engine: plans of 3 steps with limit 2 reach every end of the loop; two
  clients give a double answer, and two steps in a row that pause give the late
  one. `answers.credit` is capped at the limit, which no run can spend more of.
- Sandbox: each of the three requests that may start a container starts at most
  one, so three containers are never too few. One docker fault separates "no leak
  without a fault" from the leaks the code admits.
- Gateway: budgets of 1 are passed by 2 of 3 calls, two iterations with
  `KeepIters` = 1 make the pruning happen, two imports overlap, and one cleanly
  follows another. Calls are symmetric; the run checks safety only.
- Parts: a tape of 5 records is trimmed to 4 while the other thread appends. The
  changes of the benchmark are one of each kind the code tells apart, and
  two iterations and two invocations are what can carry something over. Three
  ingests of one task overtake each other's checks, and one of them takes the connection from
  another. A memory for one of two entries evicts.
- Monitors: three callers give a probe, a late success and a late failure; three
  fingerprints for two clusters make an eviction; three subgoals are advanced, skipped and
  left; the graphs have a short cut, cycles, self loops and raising transitions.

### Fairness

- Ledger: a thread inside `append` runs on (weak fairness), and the flock is given
  to a thread that asks for it again and again (strong fairness): the kernel
  queues waiters.
- Engine: the run thread runs on, handlers finish, and every pause is answered. The
  last is an assumption about the operator: the code waits without a timeout
  (`run_engine.py:194`).
- Sandbox: request threads run on because docker commands have time limits, and a step has
  one as long as its output is watched. A thread blocked in the read of `sandbox_pool.py:259` is
  out of reach of that limit and need not move (`Watched`); what frees it is the reaper, which wakes every
  60 s and removes the container, and the output ends with it. A container whose last step began
  long enough ago becomes idle, also while a step is in it. Nothing is assumed of
  `Die`, of faults, or of late edits. `Reclaimed` and `RequestsEnd` assume that no docker
  command fails: when the reaper's docker rm does, the entry is gone from the pool, and the
  blocked request hangs with the lock for ever.
- Circuit breaker: callers that keep calling are served, what they call returns, and time
  passes, which is what threads in a service do. That what they call works from some
  moment on is the premise of `BreakerSettles`, not an assumption.
- The kernel, the gateway and the other parts are checked for safety only: they
  do not act on their own.

## 4. Findings

Three places where the code does something else than its documentation says are in
`PROJECT.json` under `findings`, each with a run that shows it:

- `ledger_concurrent_chain`: two overlapping appends break the chain;
- `bench_testpatch`: the direct proposer's diff repeats the test patch;
- `parts_axioms`: `admit` and `promote_quarantined` give an axiom the status of any other
  entry, and it decays or is evicted.

Others were seen while modelling. Where a definition states what is expected, TLC
finds it violated in the instance of its module; they have no run of their own:

- `NoLeakAfterReset` (HardKernel): `reset_for_run` leaves consecutive failures and
  tightened thresholds behind;
- `CompletedMeansClean` (RunEngine): a run whose steps failed is "completed";
- `PauseAnswered` (RunEngine): a late approval answers the next pause;
- `TreeKept` (WarmSandbox): an idle container is reaped during a pause, and the
  edits in it are lost;
- `EffectSeen` (WarmSandbox): the check of a warm patch never finds the marker it counts after
  (`executor/app.py:1537-1545`, `1577`), so every warm patch is rejected, also one that is in the tree;
- `EmptyDiffNoEffect` (ColdExecutor): on the cold path a patch that only creates files, or whose edits
  another step's `git add -A` took into the index, is in the tree and told to have had no effect
  (`executor/app.py:1430-1441`);
- `VenvFound` (ToolGateway): with warm sandboxes `ensure_deps` still goes the cold path,
  without the run's id, and fills the shared venv, while the run's test steps look for
  one of the run's own (`executor/app.py:873`, `1501`);
- `SingleProbe` (CircuitBreaker): the half-open circuit lets every concurrent caller
  through, where `circuit_breaker.py:9` says a single one;
- `ReportedIsTested` (BenchRunner): files a patch creates are untracked, so `git diff`
  (`repo.py:57`) does not show them and the patch reported is not all that was tested.

Without a definition:

- after a write that was cut short the next append spoils the open tail line, so
  with write faults a returned append can be lost (`AppendsDurable` fails; it
  is noticed by `verify_chain`, which is `LossIsDetected`);
- "WORKSPACE ROLLED BACK" is put into the outcome although nothing is rolled back
  (`kernel.py:192-212`, `729`); with several runs it may go to one whose own steps did not
  fail, as the counter of failures is everybody's. What does hold is that a row of failures does not
  go unannounced (`RowAnnounced`);
- runs that tighten side by side raise the safety level twice and the thresholds once
  (`kernel.py:906-914`); `EnvelopeCoupled` says what is left;
- an append that raises after the tool ran leaves the step without its record, and `_step_count`
  behind `step_count`, for good (`kernel.py:770`, `799`);
- a cached result answers a step also after a patch changed what the step would see
  (`kernel_bridge.py:105`); nothing in the repository says it should not;
- the status `no_op_stopped` of `run_engine.py` is unreachable, because
  `kernel_bridge.py:195` always answers `ok`;
- a step that prints a little and hangs is not stopped by its time limit
  (`sandbox_pool.py:259`); see the fairness of the sandbox;
- an import with force removes the repository before it looks at the ref
  (`executor/app.py:616-620`): a wrong ref costs the old clone. `ImportKept` holds because the caller is told;
- the record after a line that a crash cut is written into that line: its answer is lost and
  the whole tape unreadable in replay (`llm_service/app.py:155-156`). So it is after a trim of a record that holds U+2028 or U+0085, at
  which `splitlines` cuts (`151`; records are opaque in the model);
- the check of a reported result may judge by another request's rows, as all share one connection
  (`store_duckdb.py:288-298`), and of two racing outcomes the one inserted last need not be the latest (`247`, `295`);
- `exec_in` reports 137 for a step that succeeded when the end of its output is
  seen before its exit (`sandbox_pool.py:264-288`);
- the depth-first search marks states when it meets them, so one met first at the
  depth limit is never expanded though a shorter path leads to it
  (`model_check.py:190`); `SearchComplete` claims completeness for the other search;
- `drift_variance` is never set, and before the kernel tightens it the threshold of
  the risk rejects nothing (`RiskGateIdle`, `decide.py:73`);
- `int(last_status or 1)` reads a status of 0 as 1 (`repair_loop.py:18`);
- `start_run` of an id that is active shares its slot (`scheduler.py:33`).

## 5. The proofs

TLAPS proves the following for all values of the constants that satisfy the
assumptions named in the modules. None of the bounds above is used.

| Theorem | States | Argument |
|---|---|---|
| `HardLedger_proofs!Typing` | `[]TypeOK` | directly inductive; `PrevHashType` gives the range of the search for the last good line |
| `SingleWriterChain` | with one thread and whole writes, `[]ChainIntact` | `ChainIntact` alone is not inductive: the record in flight must be linked to the head, and `prev` must be the head's hash except between write and publish (`SingleWriterInv`) |
| `Immutability` | with whole writes, `RecordsImmutable` | the tail is never open (`TailClosed`), so a write only extends the file |
| `Refinement` | with whole writes, `ImplementsAuditLog` | the write is the abstract store; every other action is a call, a return, a crash or a stutter; needs `Typing` and `TailClosed` |
| `Durability` | with whole writes, `[]AppendsDurable` | `DurableInv`, which holds under every fault: returned appends and appends past their write, counted together, never outnumber the stored records of the body, or the file is spoiled by a line that does not parse. With whole writes nothing is spoiled. Finiteness of the threads inside `append` is part of the invariant, so `Threads` may be infinite |
| `LossesShow` | `[]LossIsDetected` | `DurableInv` again: a spoiled file does not verify |
| `EditsShow` | `[]EditsDetected` | lemmas about `VerifyErrors`: a record that is not where it was written names another predecessor than the line before it, because a hash is longer than the one it extends |
| `ObjectAgrees` | with whole writes, `[]ObjectMatchesFile` | `ObjectInv`: `count` and the threads past their write make the length of the file, and `prev` and what they will publish are stored hashes |
| `HardKernel_proofs!Typing` | `[]TypeOK` | directly inductive with lemmas on tier choice and on the history |
| `Envelope` | `[]EnvelopeCoupled` | `EnvelopeInv`: while nobody is tightening both thresholds stand for the level. Inside `_adaptive_tighten` nothing relaxes, a run that writes a threshold it read before another run's write still writes a tight one, and between its two writes (`riskWritten`) the first stays tight whoever else writes it; both are clamped on the safe side |
| `Earned` | `[]EditsEarned` | strengthened by: a run's tier above 0 was reached by a failure kind it has seen |
| `Budget` | `[]BudgetOverrunBounded` | counts the runs in flight; uses cardinalities of finite sets |
| `Committed` | without maintenance, `[]ExecutionsCommitted` and `[]ConsecWithinRecent` | every call past its `Settle` and not yet through `Conclude` is one uncommitted execution; a call that an append ends is one in `lost` |
| `RowsAnnounced` | `[]RowAnnounced` | for any number of runs: an outcome raises the row by one and its own call to those not yet checked; a check leaves them only below three, or resets the row |
| `Loops` | without maintenance and with a history of at least 4, `[]LoopsEnd` | `LoopInv`: the last actions of the history are the streak, as far as the check looks; from four on the streak and the runs already let through with its action are at most three and one per run |
| `DriftIsForEver` | without maintenance, `DriftLocksOut` | `DriftLocked` (drift is detected and nothing executes) is kept by every step, because only a step that executes moves the ratio and `decide` approves none; the nested `[]` is propositional temporal logic over that |
| `RunEngine_proofs!Typing` | `[]TypeOK` | with `PlanSplit` (steps taken and left make the plan) and `Taken` (inside a step at least one was taken) |
| `Answered` | `[]AnswersCover` | `CoverInv`: the credit covers every answer still held (written but not signalled, in the event, or letting the run pass) or, because it is capped at the limit, every step left; `Suffix` (what is left of the plan is its end) connects the confidence gate with the step executed |
| `Truth` | `[]StatusTruthful` | `TruthInv`: while the run goes on all steps before the present one were approved and executed |
| `Cleanup` | `[]CleanedUp` | `CleanInv`: the sandbox is given up before the context, handlers never register a run |
| `WarmSandbox_proofs!Typing` | `[]TypeOK` | directly inductive |
| `NoLeak`, `Displacement` | `[]NoLeakWithoutFault`, `[]PublishDisplacesNothing` | `OwnedInv`: at most one container exists, and it is the pooled one or belongs to exactly one thread that is about to pool or to remove it; or a docker command failed; steps that touch none of this are handled by one lemma |
| `MutualExclusion` | `[]ExecSerial` | `LockInv`: a thread is in "running" or "reading" exactly if it holds the lock of its box |
| `Monitors_proofs!RiskTypeCorrect` | `[]` type invariant of `situation` | directly inductive |
| `RiskGateNeverBites` | `[]RiskGateIdle` | bounds every summand of the risk by its weight, stated as lemmas over plain numbers |
| `RiskKeepsOrder` | `RiskOrdered` | each summand is monotone: size classes, caps, bonus and loop penalty one lemma each |
| `PlannerInOrder` | `PlannerSpec => []NoSubgoalPassedOver` | `PlannerInv`: there is a border m, the subgoals up to it are complete and every one of them was advanced past or has all its attempts, those after it are neither; advancing and escalating move it by one |
| `FailuresRemembered` | `HealingSpec => []RecentFailuresKept` | `HealingInv`: the history of failures without repetitions (`recent`) and what the memory holds in order of recurrence (`seen`) have the same end, so evicting the oldest of one evicts the oldest of the other; the clusters count exactly what `seen` holds. Rests on what removing the first occurrence of an element does to places |
| `DebateAccounted` | `SwarmSpec => []SwarmAccounted` | `SwarmInv`: the rows of the debate for settled subtasks agree with their results, those of the subtask in hand with the turn it is in (`Turns`), and those of later subtasks do not exist; a run that was ended by an exception, of an agent or of the ledger, has no last row; one lemma per kind of row that is appended |
| `CorrectionsStayBounded` | `CorrectSpec => []CorrectionsBounded` | `CorrectInv`: all time limits that are planned are the one that is due, and either it was reached or one of them is still to be applied; places number the fixable failures without gaps (an injection between finite sets of one size) |
| `SearchFindsAll` | `ExplorerSpec => []SearchComplete` | `ExplorerInv`: the queue is sorted by depth, spans two depths at most and holds every state once, at its distance; what follows a state that was taken was met; exactly the failing states among those taken are told of. `Covered` draws from it that every state as near as the first entry was met. The reference `ReachedIn` is a recursive function: that it is defined (`LayersExist`) and every induction over depths go by a least counterexample (`LeastOf`, from the well-foundedness of `<`), which needs no induction rule with an operator parameter |
| `BenchRunner_proofs!BenchTypeCorrect` | `[]BenchTypeOK` | directly inductive; one lemma per shape of step |
| `ResultsAreHonest` | `[]ResultsHonest` | `Honest`: between gates the final patch is one the gate allows, and none after a rejection; a process that exited left its own result; the batch has no status while a process runs |
| `PassIsEarned` | `[]PassEarned` | `Earned`: from proposing to applying the tree is the test patch and ignored files, from the gate on also the proposal, and the final patch is what `git diff` shows of it; before the full tests the quick ones passed on this tree |
| `ToolGateway_proofs!GatewayTypeCorrect` | `[]` types of the gateway's calls and of the cold executor | directly inductive; one lemma per shape of step of a job |
| `ImportsKept` | `[]ImportKept` | `ImportInv`: as long as imports did not overlap at most one is under way, and while it is the repository is not whole; what stands there between its rmtree and its clone is a stray |
| `PatchesTold` | `[]PatchTold` | `PatchInv`: no job is older than the directory it mounted; a patch that git applied and no later check refused is in the tree that is still mounted; every edit of the tree comes from a job that applied it, and if that job exited as failed its diff did not show the patch (`Excused`); what was told is the status, or a failure for the quota of artifacts |
| `Budgets` | `[]BudgetsHold` | `BudgetInv`: for an iteration that was not pruned, what it got and the calls that were charged and not yet forwarded are at most what the usage dictionary says, and at most the limit; what the dictionary lacks was pruned; calls that drop a key have seen it pruned |
| `Stores_proofs!Replays` | `ReplaySpec => []ReplayFaithful` | `ReplayInv`: a line of the ledger has the hash its predecessor and entry make, unless another thread published between the two reads of the head (`torn`); in the chain and in its saved file every entry is linked to the one before it, and those whose hash is not that of their content are the touched ones |
| `CassetteAnswers` | `CassetteSpec => []TapeKeepsAnswers` | `CassetteInv`: for every answer that did not join a cut line there is a place on the tape after which all lines are newer, and either its line is there or as many lines follow as a trim keeps; a line without its newline is that of an answer nobody was given, so a crash in a write takes no other (`CutIsNew`); while one thread writes the tape anew this is so for what it kept, and two at once end in damage |
| `LearnerTables` | `LearnerSpec => []LearnerConsistent` | `LearnerInv`: the count of episodes is trials, calls that still have to count theirs, and those told to be uncounted; while the result of the connection is the answer to a call, that call has yet to fetch it (`Asked`); a call that fetched its own answer reports nothing the latest outcome it asked for rejects, and no call past the check reports forbidden files (`Sees`) |
| `MemoryKept` | `MemorySpec => []MemoryPersists` | `MemoryInv`: while no full save is asked for, every stored entry but the unfiled ones is in the file or waits for it with a status that is stored, and the file holds no other; an open last line is unreadable; an entry with the status of an axiom is an axiom and stored (`Marked`), and the file makes none of what is none |

The theorems about a part that the runs `parts` and `monitors` put beside others are about the part alone
(`BenchSpec`, `MemorySpec`, `CassetteSpec`, `LearnerSpec`, `ReplaySpec`, `PlannerSpec`, `RiskSpec`, `HealingSpec`,
`SwarmSpec`, `CorrectSpec`, `ExplorerSpec`): in the runs it takes
the same actions, and the others share no variable with it.

The invariants of the stores (`CassetteInv`, `LearnerInv` and `MemoryInv` above) are over sequences of any length: the
lemmas about `SubSeq`, concatenation and the cardinality of positions come before the steps that use them.
`CassetteInv`, `MemoryInv` and `LearnerInv` were checked with TLC on the instance of `parts` before they were proved, `SwarmInv` on that of `monitors`, and
`ExplorerInv` on all graphs of four states with seven choices of next states.

Only model-checked, and why:

- all liveness (`AppendsEnd`, `RunEnds`, `Reclaimed`, `RequestsEnd`, `BreakerSettles`), which rests on fairness and
  so on `ENABLED`.

Every invariant and every other temporal property of the passing runs is stated by a theorem.

Type invariants of the modules with proofs are proved and not run.

## 6. Not modelled

Time stamps, log texts, HTTP encoding, the optional HMAC, the path and argument
checks of `validate.py` (a step is valid or not), retrieval by similarity, the
sampling of bandit arms, smoothed signals (a choice whenever they are looked at), and what
tools do inside a container (a patch lands or does not). And these components:

- consensus: sending and receiving are stubs, so there is no protocol yet;
- replay verifier: offline comparison by weights and string distances, without state;
- dispatcher, repair loop, scheduler, patch minimiser: the services do not use them;
- replay files, phases and fingerprints of the orchestrator: files a run writes and
  does not read back, a tracker nothing uses, hashes of text;
- hardening guard, web front, conversion and scoring scripts, prompts: checks at start,
  HTTP plumbing and text processing;
- the exit path of `exec_in`, whose pipe and exit code may come apart.

## 7. Plan

Done: the path of a step (ledger, kernel, run engine, warm sandbox, gateway, cold
executor), the stores, the benchmark, the risk and the small machines.

Next, proving: the smaller invariants that their modules state and no run checks any more; for the circuit
breaker, that a state other than closed was caused by enough failures; a refinement of the kernel's gates by an abstract budget.

Left to model: a composition of RunEngine and WarmSandbox through the client timeout, so
that the overlap of requests is produced instead of assumed; the exit path of `exec_in`;
sampling of arms and playbooks of the learner.
