# Verification of the autonomy engine

TLA+ models of the autonomous build pipeline, TLC configurations that check
them on small instances, and proofs, checked by TLAPS, of the theorems that
matter most. Paths below are relative to the repository root.

The engine turns intake documents into a generated project: a LangGraph graph
runs eight stages, three of which call an LLM; decision gates may stop it for a
person; every step is written to an HMAC-chained audit trail; a Streamlit
dashboard launches runs, shows their state and answers gates.

## Inventory

| Component | State it keeps | Operations | Correct when |
|---|---|---|---|
| Pipeline graph (`graph/pipeline.py`, `graph/nodes.py`, `graph/state.py`) | checkpointed `PipelineState`: stage results, decisions, error, retry count, run id; `status.json` | eight nodes, routing, `run_pipeline`, resume | a build completes only if every stage earned it; failures stop it; retries are bounded; every invocation ends; status tells the outcome |
| Decision gates (`engine/decision_gates.py`, `_handle_decision_gate`) | `decisions/<gate>.json`, `pending_gate.json` | skip, auto, pause; save, load | an answer is taken for the gate it was given for, is recorded, and is obeyed |
| Tasks (`tasks/*.py`) | documents and manifests of the project, evidence of the run | design, implement, extract, test, verify | artifacts belong to this run; a gate is raised when, and only when, it has to be |
| Audit trail (`engine/tracer.py`, `engine/verify_trace.py`) | run id, key, `seq`, `prev_hash`; `trace.jsonl`, key file | `init_run`, `trace`, verify, migrate | what the program writes verifies; acknowledged entries stay; edits are noticed |
| Shutdown handler (`graph/nodes.py`) | `_SHUTTING_DOWN` | first and second signal | the process ends and the log still verifies |
| LLM cache (`engine/cache.py`) | one JSON file per key | look up, save, evict | first response wins; an entry is whole; what is read belongs to the key |
| Sandbox (`engine/sandbox.py`, `engine/sandbox_docker.py`) | temporary workspace, virtualenv cache | copy, install, run, evict | checks run against the extracted project and its real dependencies |
| Evidence (`engine/evidence.py`) | `evidence/*.json` per run | run a check, save, load all | the verdict is computed over this execution's records |
| LLM providers (`engine/llm_provider.py`) | token counters, `was_truncated` | generate with retry | transient failures are retried at most `max_retries` times |
| Contract and compliance (`engine/design_contract.py`, `engine/contract_checker.py`) | `DESIGN_CONTRACT.json` | validate, check a project | a valid contract can be met; a passed check means the files were produced |
| Text (`engine/extraction.py`, `engine/spec_normalizer.py`, `engine/prompt_guard.py`) | none | parse, normalise, detect | results agree with their definitions |
| Dashboard (`dashboard/`) | Streamlit session: run counter, subprocess handle, tier selection, estimate | launch, poll, answer, resume, views | it shows the form exactly while a person is awaited; the run limit is kept; a launch is on complete documents and a current estimate |
| Intake (`intake/`) | input documents | ask, validate, render | a submission is there as a whole |
| Cost tiers, context, logging, benchmarks | files and counters | estimate, resolve, report | — |

**Interactions.** `run_pipeline` calls `graph.invoke`, which calls one node
after the other in the caller's thread and checkpoints what each returns. A
node calls its task; a task that needs a decision raises `DecisionRequired`,
the node applies the gate's policy and, for *pause*, calls LangGraph's
`interrupt()`. A resume runs the interrupted node **again from its top**; only
the first `interrupt()` it then reaches receives the answer. Across processes
the components share files: `pending_gate.json` and `status.json` are polled by
the dashboard, decisions are read back by the tasks, the caches and the
project's documents are shared by all runs. Signals run the shutdown handler in
the main thread between two byte codes, `trace()` included.

**Hard behaviours.** Re-execution after an interrupt with other results than
the first time; death of the process between a task, its gate, its answer and
its commit; two files that must agree but are written at different moments;
exceptions that one handler catches and its neighbour does not; re-entrancy of
`trace()`; writes cut short; answers from another process, whose thread has no
active run; caches written and read without a lock.

## Plan

Ordered by importance. Items 1 to 6 are done.

1. `BuildFlow` (what the pipeline promises), `Pipeline` (graph, nodes, gates,
   invocations), `PipelineProofs`, `PipelineRefinement`; `Tracer`,
   `TracerProofs`.
2. `KeyStore`, `KeyStoreProofs`: the migration of legacy keys with crashes and
   other verifiers between creating and writing the new file. `LLMCache`:
   concurrent runs and an eviction on one entry, crashes and a full disk in the
   middle of a write, the retries of the call itself.
3. `Contract`, `Manifest`, `ProjectFiles`, `Generation`: contract, chunks, the
   cached truncated response and its recovery, the merge and its conflict gate,
   the schema and the circuit breaker, paths and the files they name, files left
   behind, checks that change the project, compliance; the merge checked against
   a reference definition.
4. `Sandbox`, `Checks`: failed installs that are cached, eviction during use,
   backends, records and sentinels of an earlier execution.
5. `Launcher`, `LauncherProofs`: the run counter and its order of checks, the
   tier selection, sessions that share documents and runs.
6. `LLMCacheProofs`, `ChecksProofs`, `GenerationProofs`, and the gates in
   `PipelineProofs`: every safety property that a run checks is a theorem.
7. Left: abstract specifications below the pipeline (an append-only log for
   `Tracer`, a register written once for `LLMCache`) and the steps that
   implement them; the limits on bytes of an extraction; the tracer's
   thread-local state in a server with several threads.

Composition: `Checks` extends `Sandbox` (the stage and the sandbox it enters),
`Generation` extends `Contract`, `Manifest` and `ProjectFiles` (the stages, the
pure algorithms they call and the directory they share); `Pipeline` has the outcomes of these stages, and
`KeyStore` those of `Tracer`'s chain check.

## Modules

### BuildFlow

The abstract specification: eight positions taken in order, one active
invocation, a retry edge taken at most `budget` times, an answer that refuses
the build blocks progress, and only the last position makes it *built*. It
knows nothing of gates, files, crashes or processes: those are stutters, or
`Leave` and `Wake`.

### Pipeline

| In the model | In the code |
|---|---|
| `proc`, `host` | the invocation of `graph.invoke`, and who called it: `run_pipeline`, a direct `Command(resume=...)`, or the dashboard |
| `node`, `phase` | the node LangGraph executes, and where in it: entered, raising its gate, acting on an answer, interrupted |
| `results`, `stage`, `decisions`, `error`, `retryCount`, `runId` | `PipelineState` as checkpointed |
| `decisionFile`, `pendingGate`, `status`, `evidence` | files of each run |
| `architecture`, `contract`, `conflicts`, `verdictCache`, `verification` | files all runs share, each reduced to the run that wrote it and what control flow reads |

A node without a gate is one action (`Bootstrap`, `Implement`, `Extract`,
`Complete`; `InitOk`, `InitMissingIntake` and `InitCrash` for init). A node
with a gate takes several: the task (`DesignAsks`, `TestPasses`, ...), the gate
(`GateSkip`, `GateAuto`, `GatePause`, `GateResume`), the use of the decision
(`DesignAgain`, `TestAborted`, `TestAgain`, `VerifyDecided`). The process may
die between any two (`Kill`) and be resumed or started over. `Commit` is what a
node's returned dictionary does to the state, with the conditional edge that
follows; `Crash` is an exception no handler catches. `pending_gate.json` and
`status.json` are written at best effort: `WritePendingGate`,
`ClearPendingGate` and `WriteRunStatus` may fail, leave the old file or one
nobody can read, and the node goes on; `lost` remembers which file of which run
is out of date. Outcomes of LLM calls,
checks and text are nondeterministic. `Launch(TRUE)` is `--thread-id`: a fresh
start on an old thread. `DashboardResume` runs in a process and thread without
an active run, so a gated task fails on its first `decision_exists`.

`MCPipeline` has the configurations: *Shipped* (templates and `config.yml`),
*Supervised* (a person at the test and verify gates), *Unattended* (auto
everywhere, defaults that do not fit every gate), *RuleBased* (no LLM verdict,
gates skipped) and *Mixed* (auto at verify, a person at test).

### Tracer

`init_run` statement by statement, `trace()` as build, buffer, flush, update of
`prev_hash`, update of `seq`; the same call in the shutdown handler, which a
signal starts between any two of these; a second signal; the unwinding of
`SystemExit` through `with open(...)`, which flushes; failed and cut writes;
kills of the process, after which the system goes on. A signature is a number no other entry has, with the key it was made
with. `Verdict` is the exit code of `engine/verify_trace.py`.

### Generation, with Contract, Manifest and ProjectFiles

One project from the contract block of the architecture to the compliance check
of the test stage.

| In the model | In the code |
|---|---|
| `contract`, `markdown`, `manifest`, `conflicts`, `tree` | `DESIGN_CONTRACT.json`, `IMPLEMENTATION.md`, `FILE_MANIFEST.json`, `MANIFEST_CONFLICTS.json`, the extracted project; all outlive a run |
| `cache` | the implement entries of `state/cache/llm` |
| `plan`, `parts`, `response`, `hit`, `merged` | locals of `implement_system` and `_implement_chunk` |
| `truncated`, `usage` | `was_truncated` and `total_usage` of the stage's provider |
| `calls`, `spent`, `recovered`, `before`, `touched`, `confronted` | history: LLM calls so far and of this execution, recovered chunks, the project before this extraction, the files checks changed, whose conflicts were reported |

`Begin` chooses single, contract-driven or planned implementation. A component
is looked up under `KeyAt`, generated, cached *before* anybody looks for its
manifest, split, and recovered when the markers are missing and `Recovers`
says so. Conflicts between chunks end the run (`ConflictsFail`):
`_apply_manifest_conflict_gate` raises `DecisionRequired`, which `implement_node`
takes for a failure (see *What the violations say*). The manifest is refused
when it is empty or has a blank path (`Refused`) or too many entries
(`LimitsExceeded`). Extraction writes entry by entry over whatever is there
(`WriteFile`) and stops at an unsafe path with the files before it written;
`ExtractEnds` rewrites the requirements. The content of a file is the number of
the LLM call that wrote it, which is what lets the properties tell versions
apart.

A path is what a manifest or a contract says, a file is what `_safe_path`
resolves it to: `Resolve` of `ProjectFiles`, with `Aliases` for the paths that
are not normal, as `./a.py` is not. The merge compares paths, the extraction
writes files, and the compliance check compares the normal paths of the files it
finds with the paths in the contract as they are written; only the file of a
type is opened by name. `RunChecks` leaves the project alone in the sandbox and
without it may change the project in any of the ways in `Effects`, before
`CheckCompliance` looks. In `Contract`, `Valid` and `Passes` are two functions
of the code, written independently, over one record.

### Sandbox and Checks

`Sandbox` is `create_sandbox`: workspace, backend, docker image, npm, and for
Python projects the virtualenv, out of the cache or new and then into it.
Copies and removals go piece by piece (interpreter, dependencies, the project's
own package), since `copytree` and `rmtree` are not atomic and nothing locks an
entry. `Checks` is `test_system` on top: the list of checks, configured or
detected, one record per check under its name, the contract check, the verdict
over everything in the evidence directory. Two processes execute it while
`Evict` removes entries; `excused` and `short` remember what may explain an
entry or a copy that is not whole.

### LLMCache

`cache_lookup`, the retries of `_call_with_retry`, `cache_save` and eviction,
by processes that share the directory. A file is a sequence of pieces of
responses: opening truncates, writing is at the writer's own offset, an
unlinked file is written on without a name. `Readings` is what `json.loads` may
make of a mixture: usually an error, but the beginning of one response and the
end of another may parse.

### KeyStore

A run's key in one of several directories (`AE_TRACE_KEY_DIR` of whoever
verifies), in the OS keyring, or still beside the trace. An invocation of the
CLI (`Start`) loads it twice, and its first call may find the legacy key and
move it: read, `O_EXCL` create, write, breadcrumb, unlink, each an action, each
with the failures the operating system allows. `cut` remembers directories
where a migration stopped between create and write.

### Launcher

Sessions of the dashboard on one project: documents written one by one
(`Submit`, `WriteDocument`), the start button, the estimate, the tier
selection, `check_rate_limit`, the credentials, `Popen`; the answer to a gate,
which drops the session's handle whatever process that is; a refresh, which is
a new session with a new counter. A rerun of a page's script is one action,
except that documents are written singly. A write that fails leaves its document
as it was, or empty or in part (a negative number in `inputs`), and a document in
part counts as present, as it does for `get_intake_status` and bootstrap. `Block` is a subprocess that waits on
its full output pipe.

## Runs

| Run | Shows | Bounds |
|---|---|---|
| `pipeline` | `CompletionIsEarned`, `ConsentIsOnRecord`, `PauseIsVisible`, `StatusIsTrue`, `AnswersStayWithTheirGate`, `ImplementsBuildFlow`, `RunEnds` | 5 configurations, `MaxRuns` = 2, `MaxLost` = 1 for three of them and 0 for two, two approaches, an empty and a two-element option list (1 040 000 states, three minutes) |
| `audit_trail` | `ChainBreaksOnlyMidWrite`, `AckedAreOnFile`, `OnlyPrefixesVerify`, `ShutdownEnds` | `MaxCalls` = 3 (5 400 states) |
| `generation` | `UsageIsAccounted`, `MissingMarkersAreDiagnosed`, `ReplayIsExact`, `ConflictsRepeat`, `TreeFollowsManifest`, `ComplianceAgreesWithContract`, `PassedMeansProduced`, `ExecutionEnds` | four architectures, two plans, nine responses, one alias, two effects of checks, `MaxEntries` = 3, `MaxRuns` = 2, `MaxCalls` = 3 (670 000 states, two minutes) |
| `checks` | `DependenciesMatchSpec`, `DepsClaimIsHonest`, `IsolationKept`, `VerdictCoversChecks`, `StageEnds` | two processes in six settings, up to two executions (169 000 states, a minute) |
| `llm_cache` | `AnswersAreWhole`, `FirstResponseWins`, `FailuresHaveACause`, `CallsEnd` | two processes, one key, one or two pieces, `max_retries` -1 or 1, `MaxCalls` = 2 (182 000 states, a minute) |
| `key_store` | `KeyIsNeverLost`, `QuietVerdictIsRight`, `VerifierEnds` | two verifiers, two directories (160 000 states, a minute and a half) |
| `launcher` | `SessionIsBounded`, `LaunchIsInformed` | two sessions, limit 2, two documents, `MaxLaunches` = `MaxSubmits` = 2, symmetry (820 000 states, half a minute) |
| `retry_edge`, `conflict_gate`, `reject_and_halt`, `dropped_answer`, `shutdown_chain` | one statement of the documentation each, which the code does not keep | one run; two calls |

Two runs are enough for what one run leaves to the next: a run id kept by the
thread, an older contract, a cached verdict, an older pending gate. A third
run meets nothing a second does not. Three calls give a log with a first, a
middle and a last entry before the handler's. `MaxRuns`, `MaxCalls` and
`MaxLost` are the only bounds of the first two modules, and they are guards of
`InitOk`, `InitCrash`, `Launch`, `Call` and `Lost`; every other set is finite in
the code. `MaxLost` is the number of files out of date at a
time, per configuration: one in *Mixed*, where a person is asked, *Unattended* and
*RuleBased*, either file, of either run, after any step that writes it, until the
next that does; none in the two largest, which would have five million states
more. The proofs are for any number in any configuration. An empty option list is there because
`tasks/design.py` splits the answer without checking that an option is left.

In `generation` the architectures are one that is met, one whose contract no
implementation can meet (a path that is not normal, a file the checker skips, a
type in a file nobody plans), one that validation refuses and one without a
contract; the responses are manifests of one and two files, with a second path
of a file, cut short with an unsafe or a blank path, an empty one, and texts
whose markers are missing or whose JSON is malformed; a check makes a file of
the contract or removes one. Three calls fill two chunks and recover one, or fill two and leave
one for the second run; the second run replays, overwrites and inherits. In
`checks` a pair of settings shares an entry with the same dependency list, has
two, or shares one without dependencies; the other backends share nothing, so
the second process is idle there. Two executions are enough for a record that
outlives its execution. In `llm_cache` one key is enough because entries do not
depend on each other; two calls let a process meet its own and the other's
earlier entry, two pieces are the least that can be cut or mixed. `-1` is a
`max_retries` that allows no attempt. In `key_store` an invocation may be
repeated for ever, so nothing is bounded but the numbers of verifiers and
directories, and the proofs are for any. In `launcher` the second document is
what a half-written submission lacks, the second launch what a session must not
have beside its first; the proofs are for any number.

Deadlock is checked in `key_store`, where a verifier can always be started
again. In the others it is not: a pipeline that returned, with no more runs to
start, has stopped, and so has a process that exited or used up its bound.

**Fairness.** `WF(Step)`: a running invocation, or a running process, keeps
executing. It is a single thread, its LLM calls, checks and subprocesses have
timeouts, and no step waits for another process, with one exception: a pipeline
that the dashboard launched writes to a pipe that nobody reads before it has
ended, and once the pipe is full it waits for ever (`Block` of `Launcher`, and a
finding). **`RunEnds` does not speak of that process**; it is about an invocation
whose output is read, from the command line or a test. Nothing is assumed of people,
signals, kills or launches. The other modules are alike: in `Generation` the
execution goes on (`WF(Step)`), in `Checks` each stage (`WF(Stage(p))`; pip,
npm, docker and the checks have timeouts), in `LLMCache` and `KeyStore` each
process (`WF(Step(p))`; requests time out, and no file operation waits for
another process). Crashes, failures of the disk, evictions and answers have no
fairness: liveness must not depend on them. `Launcher` claims no liveness; a
subprocess that blocks on its pipe really never ends. Liveness is "every invocation stops running" and
"a signal ends the process", never that somebody answers a gate.

## What the violations say

- **The retry loop is dead** (`retry_edge`). A FAILED test stage always comes
  with `error`, which `route_after_test` tests before the retries. The theorem
  `RetryEdgeIsDead` shows it of every configuration: `retry_count` is always 0.
- **Conflicts are not arbitrated** (`conflict_gate`). The gate of the implement
  stage is caught by `except Exception`.
- **`reject_and_halt` does not halt** (`reject_and_halt`). `verify_node` knows
  only "reject".
- **An answer can vanish** (`dropped_answer`). Flaky checks that pass when the
  node runs again raise no gate; the answer is read by nobody and recorded
  nowhere. An answer that is dropped because the node *fails* is not counted.
- **The shutdown entry can break the chain** (`shutdown_chain`). Reproducible
  with a signal between the flush and `_set("prev_hash", ...)`. The passing
  property `ChainBreaksOnlyMidWrite` says that nothing else can.

Other disagreements between documents and code, met while modelling, are listed
under "findings" in `PROJECT.json`; among them that two chunks which call one
file by two paths overwrite each other unnoticed, and that a contract's `./a.py`
is reported missing beside the file `a.py`. Where a property of a passing run would be
broken by one of them, the property names the exception, and so says that
nothing else breaks it: `FirstResponseWins` (a writer that found no entry when
it looked), `DepsClaimIsHonest` (a copy of an entry that was saved in part),
`QuietVerdictIsRight` (a migration cut short in the same directory),
`MissingMarkersAreDiagnosed` (a cached response), `UsageIsAccounted`
(recoveries), `SessionIsBounded` (a dropped handle),
`ComplianceAgreesWithContract` (files the checker skips, paths it spells
differently, checks that change the project), `TreeFollowsManifest` (a later
entry with another path), `PauseIsVisible` and `StatusIsTrue` (a file whose
write failed).

## Proofs

`PipelineProofs` proves, for every set of configurations, approaches and option
lists (`PipelineAssumption`: they have the right types) and every number of
runs and of failed writes, `TypeOK`, `CompletionIsEarned` and `StatusIsTrue`, and that `retryCount`
is always 0. None of the last three is inductive. The invariant `IInv` adds

- `Located`: past init there is a run, and a gate being handled belongs to its
  node;
- `Fresh`: decision files are written for existing runs only, so a new run
  starts without answers;
- `Gated`: a task raised its gate past the answers that would have stopped it;
- `Progress`: the stages before `node` passed, the later ones have not run;
- `Answered`: a refusing answer is recorded only at its own stage and holds the
  build there;
- `Reported`: the error field, the failed results and, unless its last write
  failed, the status file agree;
- `NoRetry`: no retry was counted.

`CompletionIsEarned` follows from `Progress` and `Answered`, `StatusIsTrue` from
`Progress` and `Reported`. Every action that commits goes through `Commit`, so
the lemmas `CommitMoves`, `CommitTyped`, `CommitLocated` and `CommitKeeps` are
stated once and cited by each node's step.

Of the gates it proves `ConsentIsOnRecord`, `PauseIsVisible` and the action
property `AnswersStayWithTheirGate`, from a second invariant `CInv` that holds
on top of `IInv`:

- `Menu`, `Offered`: what is recorded under a gate, or raised with it, is from
  that gate's own option list, so an answer to one gate is refused by another;
- `Settled`: past a stage, its failing checks or rejected verdict have the
  answer they need, whatever ran again behind it;
- `Announced`: a node that waits has written the gate it raised, for the newest
  run, and before anybody may call it paused, unless a write failed;
- `Answering`: an answer on its way was given by a person at a gate of the node
  that runs again.

`PipelineRefinement` proves `Spec => ImplementsBuildFlow` with the same
invariant: each action maps to one abstract step or to a stutter.

`TracerProofs` proves, for any `MaxCalls`, `TypeOK`, `AckedAreOnFile`,
`ChainBreaksOnlyMidWrite` and `OnlyPrefixesVerify`. The chain needs `Sound`:
for the call in progress, the tracer's `seq` and `prev_hash` are the end of the
chain before the flush and one entry behind after it, an entry built and not yet
written continues the chain, and the code a signal interrupted stays where it
was (`Handled`).

`KeyStoreProofs` proves, for any number of verifiers and directories
(`KeyStoreAssumption`: a directory is not named like a keyring), `TypeOK`,
`KeyIsNeverLost` and `QuietVerdictIsRight`. The first needs `Migration`: an
invocation that is about to write holds the whole key, and one that leaves the
note or unlinks has a whole copy in its directory. The verdict needs `QInv`,
with `Attended` (an empty key file has its writer at work or is in `cut`),
`Fresh` (every invocation begins with its first call) and `Relies`, for each
invocation that nobody disturbed: what it saw at its step still stands, and the
verdict of its first call is still right at the second. `OnlyOneMoves` and
`Effects` say once what a step does to the others' state, so that the induction
has one step for the invocation itself (`OwnRelies`) and one for everybody else
(`OthersRely`).

`LauncherProofs` proves, for any number of sessions, documents, launches and
submissions and any limit, a negative one included (`LauncherAssumption`),
`TypeOK`, `SessionIsBounded` and `LaunchIsInformed`. The invariant ties what a
session did to what the code tests: `Paid` (the counter covers every use, and
went past zero only within the limit), `Handled` (a live pipeline of the session
is the one in its handle), `Writing` (a submission being written has a number
and a document left) and `Informed` (while the tiers are shown, the documents
are complete and the estimate is of them, or one was written since).

`LLMCacheProofs` proves, for any processes, keys, sizes of responses and limits
(`LLMCacheAssumption`), `TypeOK`, `AnswersAreWhole`, `FailuresHaveACause` and
the action property `FirstResponseWins`. That an entry is read as one response
or not at all needs what is in it while it is written (`Filled`: its one
writer's first pieces), who writes it (`Alone`: two writers make it contended)
and what stays afterwards (`Beginning`: a piece of one response; `Settled`: the
whole of it, unless its writer died or failed). Why a call raises needs where
its process has been (`Located`, `Tried`, `Told`).

`ChecksProofs` proves, for any set of processes and any settings they may find
(`SandboxAssumption`), `TypeOK`, `DependenciesMatchSpec`, `DepsClaimIsHonest`,
`IsolationKept` and `VerdictCoversChecks`. The hard part is the cache that
other processes write and evict: `Copied` says that a copy nothing disturbed
holds what the entry holds as far as it got, `Saved` the converse of a save,
`OneSaver` that the same entry is never saved twice at once, `Filed` and
`Accounted` that an entry holds its key's dependencies and is whole unless
somebody is at it or was cut short. `Counted`, `Recorded` and `Judged` carry the
records of an execution from its first check to its verdict. `StageStays`,
`BoxStays` and their like say once what a process's step leaves to the others.

`GenerationProofs` proves, for every set of designs, plans and responses and any
number of runs, calls and entries (`GenerationAssumption`: a contract, a plan
and a manifest are lists, a plan is not empty, numbers in a contract are
integers, checks leave files by their normal names; `AliasesAssumption`: what an
alias names is not an alias), `TypeOK`, `UsageIsAccounted`, `MissingMarkersAreDiagnosed`,
`ReplayIsExact`, `ConflictsRepeat`, `TreeFollowsManifest`,
`ComplianceAgreesWithContract` and `PassedMeansProduced`. Its `IInv` has nine
parts, of which

- `Cached` ties each chunk's manifest to the cache, under a key that is computed
  from the chunks before it;
- `Agreed` is what makes conflicts repeat: there are parts whose conflicts
  were reported, the cache still answers each of their keys with them, and a run
  on the same architecture and contract has repeated them so far. Chunk by chunk
  the next key is the same, therefore the hit, therefore the next part;
- `Arbitrated` says that past the gate there are no conflicts and the manifest
  is the merge, and `Extracted` that the tree is what was there before with the
  entries written so far, the last of each file on top, until checks change it.

Two theorems are about the merge alone, for any number of manifests of any
length: `MergeResolves` (each path once, none lost, none invented, in its first
or last version) and `LastWriterWins` (writing the merged manifest leaves what
writing the chunks one after the other leaves, if no file has two paths). The merge flattens a sequence of
sequences and enumerates positions in ascending order, both of which need
induction; the library's induction theorems take an operator, which the provers
cannot instantiate. The proofs go by least counterexample instead: `Smallest`
(every set of numbers has a least one) follows from the well-founded order of
finite sets, whose theorem takes a set, and `AscendingExists` and `FlattenIs`
from `Smallest`. For the same reason `Ascending` is a `CHOOSE` of the ascending
enumeration and not a sorting algorithm, and the checks of a project are
concatenations of lists.

Only model-checked: `RunEnds`, `ShutdownEnds`, `ExecutionEnds`, `StageEnds`,
`CallsEnd` and `VerifierEnds`, since liveness under fairness is out of the
prover's reach; the statements that documents make and the code does not keep,
each refuted by its run; and the `ASSUME`s of the MC modules, which compare pure
operators with a reference over bounded inputs: that two chunks are merged like
a dictionary updated entry by entry, or filled once under *first*, that a merge
without conflicts is the concatenation, that auto-detected checks have different names, and that a
response written piece by piece is read as itself.

## Not modelled

- Prompts, responses and documents: only what control flow reads of them.
- Two pipelines at the same time on one project, as a whole: `Launch` of
  `Pipeline` waits for the running one to stop. What they share, the two caches
  and the documents, is modelled in `LLMCache`, `Sandbox` and `Launcher`;
  `Generation` has one execution at a time.
- Gates while `proc` runs in two processes at once: the dashboard resumes only
  when the form is shown and nothing runs.
- The thread-local proxy of the tracer's state.
- Power cuts: `tracer.py` flushes and does not sync, so the last entries may be
  lost although `trace()` returned, and the log without them verifies. `Kill` is
  the end of the process, not of the system.
- The answer to the conflict gate: `_apply_manifest_conflict_gate` reads a
  recorded `manifest_conflict` decision, and may keep first writers or abort, but
  nothing in the program records one; only `tests/test_implement_gate.py` does.
- Extraction limits on bytes, and errors of the file system during extraction.
- Backoff times, token limits and prices; the reports made from usage.
- `engine/extraction.py`, `engine/spec_normalizer.py`: pure text analysis, whose
  definition is its regular expressions.
- Intake questions and validation, read-only dashboard views, benchmarks,
  logging, notification: they steer nothing the properties speak of.
