# mxa-tutor in TLA+

This directory is the formal model of mxa-tutor: TLA+ modules that follow its source, TLC
configurations that check them on small instances, and proofs, checked by the TLA+ proof system,
of what holds for every instance. Paths below are relative to the root of the repository's
source; `PROJECT.json` maps every definition to the lines it stands for, names a mutant for every
property (a plausible bug that TLC finds with it), and lists the hazards the properties are for.

1. [Inventory](#inventory): the system, its state, its operations
2. [Hard behaviours](#hard-behaviours)
3. [The modules](#the-modules): what each models, and how it corresponds to the code
4. [The runs](#the-runs): what is checked, the bounds, the fairness
5. [What disagrees](#what-disagrees): three places where code and docs part, and smaller observations
6. [The proofs](#the-proofs)
7. [What is not modelled](#what-is-not-modelled)
8. [Plan](#plan)

## Inventory

mxa-tutor explains MATLAB/Simulink projects and turns papers into plans for building a model. One
Python process (FastAPI, asyncio, SQLite through aiosqlite) serves a React client and a MATLAB
add-on and may own one MATLAB process. `api` calls `features`, both rest on `core` (domain
types, interfaces, prompts), `adapters` implement the interfaces. Work that blocks (an LLM call
of the coaching, every call of MATLAB) runs in threads; everything else in one event loop.

| component | state it keeps | operations | talks to | what makes it correct |
|---|---|---|---|---|
| **Bridge run-state store** `adapters/storage/sqlite_bridge_run_state_store.py`, `core/domain/bridge_run_state_machine.py` | sessions (status, owner, generation, current run) and their runs, in two tables | establish, current, read for coaching, persist, end, delete, sweep | project rows, sweeper, coaching, routes | the current run is the newest whatever the order of arrival; rows never change; an ended session stays so; a restart fences the old sessions; data goes with its project |
| **Sweeper** `features/matlab_bridge/run_state_cleanup_worker.py` | one asyncio task | run once, sleep | the store | expired sessions are cleared, in time and in the end |
| **Bridge tokens** `features/matlab_bridge/bridge_auth_service.py` | signing key (persistent), generation and revocations (memory) | issue, verify, revoke | clock, routes | revoked stays refused; honoured until the told expiry |
| **Bridge routes, diagnostics** `api/routes/matlab_bridge.py`, `matlab_bridge_auth.py` | none | map outcomes to answers | token service, store, coaching | a request acts under the scope its token was signed for |
| **MATLAB add-on** `clients/matlab_bridge` | consent, token, windows | capture, confirm, post, ask | routes | nothing is sent that its user did not see and agree to; windows tell the truth |
| **Run-state coaching** `features/matlab_bridge/bridge_run_state_coaching_service.py` | slots per session, orphaned attempts, provider threads | acquire, coach, release from a callback | store (three reads), LLM | one attempt per session and TTL; no slot leaks; threads bounded; always answered; nothing for an ended session |
| **Paper upload job** `api/routes/paper_upload.py` | job row; request or background task | upload (sync, async), rerun, status, startup sweep | bundle store, lock registry, LLM, staging files | a job is never stuck at "wait"; what a state promises is stored |
| **Paper bundle store** `adapters/storage/sqlite_paper_cache.py` | rows for job, spec, plan, reparse source, corrections | get, put, update, try-start, edits, delete expired | upload, edits, cleanup | no plan without a spec; overlay and plan agree; what expired does not come back |
| **Cleanup worker, file retention** `features/ingest/cleanup_worker.py` | one periodic task | expire papers and projects, remove directories | bundle store, project rows, files | files go in the end and not while they are read |
| **Reparse and plan edits** `features/paper/paper_reparse_service.py`, the services of parameter correction, user supply and step regeneration | the paper's lock | correct, undo, supply, regenerate, reparse | bundle store, lock, LLM | no edit is lost to another; nothing derived outlives what it was derived from |
| **Paper questions and tuning** `features/paper/paper_ask_service.py`, `paper_tuning_service.py` | none | read, offer references, check the reply | bundle store, LLM | an answer rests on what was there |
| **Spec extraction, fusion** `features/paper/paper_spec_service.py` and helpers | none between requests | extract, check, merge, find conflicts | LLM, upload | what is cited stands in the documents; disagreements stay open |
| **Plan generation, structured retry** `features/paper/paper_plan_service.py`, `structured_retry.py` | a budget of calls and time | compose, script, detect, steps, guidance, assemble | LLM, upload, rerun | caps hold across nested retries; parts made side by side fit |
| **Plan integrity, dependency audit, guidance** `features/paper` | none | repair and audit of step graphs, requirements, validation | plan generation, reads of the plan | what is served is sound, whatever the model said or an old row holds |
| **MATLAB Engine session** `adapters/matlab_engine/runtime.py` | state, call lock, ownership, process id | probe, simulate, share, close | MATLAB, threads | one call at a time; a broken session stays broken; a user's MATLAB is never killed; close returns |
| **MATLAB Engine service** `api/main.py`, `adapters/matlab_engine/owned_startup.py` | provider in `app.state`, the launcher's process tree | bounded startup, probe, shutdown | the session, Windows process lists | startup and shutdown end; no process is left silently |
| **Project ingest** `features/ingest` | project status, directories | upload, background extraction and parse, status, expiry | parsers, chunking | the status leaves "parsing"; rows, chunks and directories go together |
| **Parsers** `adapters/parser` | none | file to structure | - | functions, calls, blocks and systems are found once, where they are |
| **Chunking, vector store** `features/chunking`, `adapters/storage/sqlite_vector_store.py` | chunks of a project | replace all, search | ingest, overview, chat | chunks lie within their files and do not overlap |
| **Overview, graph, teaching units** `features/overview` | cached results, unit records | fill on demand, claim, retry, expire | LLM, project rows | one owner of each generation; prerequisites exist; nothing invented is cached |
| **Chat** `features/chat` | sessions, messages | ask, list | chunks, LLM | answers follow questions and cite what stands in the project |
| **Error explanation, explanation pack** | none | one LLM call; a library | LLM | answers pass their validators |
| **Web client** `web` | reducers, polling | upload, poll, edit | routes | late answers of superseded requests are dropped |
| **Schema, configuration** `adapters/storage`, `app/config.py` | - | constraints, bounds | all | - |
| evaluation, scripts, payment | - | - | - | not part of the running system |

## Hard behaviours

- **Interleaving.** Each `await` of a coroutine lets any other run: an upload between two of its
  store calls, a rerun of the same paper, an edit, a question that takes no lock, the cleanup
  worker, four requests for one teaching unit. Threads that were given up (a provider call, a probe
  of MATLAB, an extraction past its time) go on and come back late.
- **Stale reads.** Nearly every request reads a whole record, waits for a model for minutes, and
  writes the whole record back; a token is verified before the store is waited for.
- **Time.** A store call reads `now` and then waits for the write lock; a verification reads the
  clock twice; a slot has a TTL and its attempt none; the sweep runs ahead of the expiry.
- **Crash and restart.** The database survives, and so does the signing key. Locks, tasks,
  revocations, cached overviews and the generation do not.
- **Partial failure.** A commit whose read back fails, a save followed by a failed mark, a list of
  processes that could not be made and is read as empty, a directory that resists.
- **What a model says.** Replies are any member of a set of good and flawed ones; several leaves
  run side by side, are repeated apart and share one budget.
- **Liveness.** MATLAB and the provider may hang for ever; clients poll states that say "wait".

## The modules

Every component has a module of its own; theorems are kept in a module `..._proofs` that extends
it, and `MC...` modules add the values of the constants and symmetry sets.

| module | stands for | extends or uses |
|---|---|---|
| `RunLedger` | what the run-state store promises: append-only ledgers that close for good | - |
| `BridgeRunStateMachine` | `decide_run_persist`, the pure decision on one snapshot | - |
| `BridgeRunStateStore` | store, sweeper, project rows, restarts | `BridgeRunStateMachine`; implements `RunLedger` |
| `BridgeRunStateStore_proofs` | its theorems, and that it implements the ledger | |
| `BridgeAuth` | tokens and revocations | - |
| `BridgeService`, `BridgeService_proofs` | add-on, token routes, run-state routes, tokens and ledger as one system | `BridgeAuth`; an instance of `RunLedger` |
| `BridgeCoaching` | attempt slots and coaching requests | - |
| `PaperUploadJob`, `PaperUploadJob_proofs` | upload, rerun, reparse, edits, bundle store, cleanup, startup sweep | - |
| `PaperRecord`, `PaperRecord_proofs` | one stored paper: what its edits read, compute and write | - |
| `PaperQuestions` | questions and tuning requests beside those edits | `PaperRecord`, `SequenceParts` |
| `SequenceParts`, `SequenceFacts` | what is left of a sequence; facts about sequences, finite sets and recursion | - |
| `PaperSpecs` | checks of specs, fusion, conflicts, tags, the check of reads | - |
| `BuildStepGraph` | the gate of the build steps and the dependency audit | - |
| `BuildGuidance` | requirements, acceptance, validation, repair of stored rows | `BuildStepGraph` |
| `PaperPlanGeneration`, `PaperPlanGeneration_proofs` | documents to plan: leaves, retries, cap, clock, reruns | `PaperSpecs`, `BuildGuidance` |
| `ZipArchives` | which archives are taken and what is written of them | `SequenceParts` |
| `MatlabSources`, `SourceSplitting` | functions, calls and sections of sources | `SequenceParts` |
| `ProjectGraph` | parsed Simulink models and the project's graph | `MatlabSources` |
| `ProjectChunks` | what is indexed, with which lines and names | `ProjectGraph`, `SourceSplitting` |
| `ProjectStore` | the tables of a project and their cascade | `ProjectChunks`, `ZipArchives` |
| `ProjectIngest` | extraction, parse, mark, index, expiry | `ProjectStore` |
| `TeachingUnits`, `ProjectOverview`, `ProjectChat` | the three kinds of requests | each extends the one before |
| `ProjectService`, `ProjectService_proofs` | all of it under one next-state relation, with restarts and fairness | `ProjectChat` |
| `MatlabEngineSession` | one wrapper around one MATLAB, used by threads | - |
| `MatlabEngineRuntime` | the service that owns it: startup, probe, shutdown, process tree | composes with `MatlabEngineSession` |
| `ExternalCalls_proofs` | the theorems of the two components that call what they cannot stop | `BridgeCoaching`, `MatlabEngineRuntime` |

### BridgeRunStateStore

State: `status`, `owner` (user, project, generation), `establishedAt`, `current` and `rows` are the
columns of `bridge_run_state_session` and `bridge_run_state_run`; `projectRow` and `createdAt` the
project's row; `inflight` the calls that have read their `now` and wait for `BEGIN IMMEDIATE`;
`sweeper` the task; `generation` the running process. `Begin` is the part of a method before its
transaction, `Transaction` the transaction with each of its exits: a missing project, an expired
one (whose sessions are all purged, and committed, although the call is refused,
`_require_active_session`), a scope that differs, a terminal session, the verdicts of
`decide_run_persist`, a failure that leaves no trace. `EndSession`, `DeleteSession`, `SweepBegin`
with its three endings, `DeleteProject` (the cascade the cleanup worker triggers), `Crash`,
`Startup` and `Tick` are the rest.

`RunLedger` says the same without tables: `Open`, `Append`, `Close`, `Forget`. Sessions map to
ledgers, the rows to entries and the current run to the newest entry; all time, scope and faults
map to stutters.

Assumed: the clock does not go back; a call commits or fails within `MaxLag` ticks
(`busy_timeout` is 5 s); a sweep starts when it is due; the process is up unless the fault
"outage" is allowed; the ids of projects are never used twice (fresh uuids). `get` and `list` are
pure reads and `updated_at` tells nothing apart, so neither is there.

### BridgeAuth and BridgeService

`token[j]` holds the claims signed under the id `j`, `revokedUntil` is the dictionary of the
revocation store, `generation` the process id in the claims. Times are ticks and claims whole
seconds (`Epoch`), so what `int(timestamp())` cuts off is in the model. `VerifyDenied`,
`VerifyUnavailable` and `VerifyChecked` are the exits of `verify`, with a distance `d` between the
clock reading for the claims and the one for the revocation, which also discards records.
`everRevoked` and `verdict` are history. Signatures are unforgeable and claims well formed.

`BridgeService` puts the two ends around it. A *submission* is one click in some window of the
add-on: `Capture` freezes the bytes, `Confirm` or `Decline` is the consent dialog (what was agreed to is
kept in `confirmed`, the add-on's `LastConfirmedSnapshot`), `FetchHeld` and
`AskForToken` are what the host's token provider may do (it is the host's code: any token it was
ever given, or a new one from the service), then the post, one refetch after a refused token, and
the words shown (`told`). On the other side `EstablishNew`, `EstablishKnown` and `Grant` are the
token route, in its order of establishing first and signing afterwards; `Verify` comes before the
handler, and `Persist`, `Conflict`, `SessionRejected` and `Coach` are what the handler finds when the
store lets it in. The store is `RunLedger`, so that what is shown of `BridgeRunStateStore` applies;
`holder` is the owner and generation a session's row was established with. `Trouble` joins what is
bounded by `MaxTrouble`: a provider that fails, a client that stops waiting (its request goes on), a call the
store refuses, revocations, a registry of them that cannot be asked, a session that is closed
or forgotten (by the owner, or because its project expired) and the restart of the service.

Assumed: the base URL, ids and the host's error texts do not contain the digits by which the window
tells answers apart (see [What disagrees](#what-disagrees)); no window posts again what may have been
stored, so the store's "idempotent" does not occur here (it does in `BridgeRunStateStore`).

### BridgeCoaching

`slot` and `orphans` are `_slots` and `_orphan_attempt_ids`. The manager's `asyncio.Lock` holds no
`await`, so acquire and release are one step each. A request goes through `reading` (the first read
of the store), `fencing` (the check before the provider is called), `waiting` (`wait_for` on a
shielded task) and `finalizing` (the fence after the provider). `call` is that task's thread and
its done-callback: `running`, `settled`, `released`. The callback may come long after the request
was answered or cancelled. What the provider says is a result or an error; how the reply is parsed
and the draft worded is left out.

### PaperUploadJob

Workers are the uploads (worker p is the upload of paper p) and the clients' requests. `job`,
`specs`, `plans` and `sources` are the tables, each store call is one transaction and one step.
`Update` is `update_upload_job_state`: an UPDATE that looks at no previous state and then a read
back, so that a fault may hit before the commit or after it. `lock` is
`PaperReparseLockRegistry`. The upload's steps follow `_run_upload_job` from the request to the plan
in sync and async mode, with `_run_upload_job_background` around it; a rerun takes the lock, moves
the job with `try_start_rerun_plan` and joins the same plan steps; a reparse commits a new spec and
deletes the job's row; the four edits are one kind, whose commit stores a plan. `Age` passes the
retention time of a paper, `DeleteExpired` is the transaction of the cleanup worker (which takes no
lock), `CondemnStaging` and `RemoveStaging` its two steps on the directory of original files.
`Crash` may happen anywhere; `Start`, `SweepJob`, `SweepStaging` and `Serve` are the startup sweep,
which ends before requests are served. The weather of a history is fair (no store or disk call
fails, though the process may still die) or foul.

`Age` waits until the upload is over: its wall clock is capped at an hour, and the retention
default is 24 hours. (`upload_ttl_hours` has no lower bound in the configuration; a TTL below the
cap would break this assumption.) Stages, error codes, states of single documents, attempt counts
and `state_version` are left out, as are `delete_bundle`, `invalidate_spec` and `delete_plan`, which
no running path calls.

### PaperRecord and PaperQuestions

`PaperRecord` opens up what is one "edit" in `PaperUploadJob`, and its rerun and reparse too. `record` is
the spec's extraction with the plan's mapping, the evidence of the overlay, build steps, script and
guidance; `rows` are the rows of `paper_parameter_correction`. A request takes the lock, reads
(`request[a]` holds what it read), computes over one or more calls of a model, and commits: `CorrectFirst`,
`CorrectAgain`, `Undo`, `Supply`, `Regenerate`, `Reparse` and `SaveRerun` are the commits, each with its
effect on the overlay in the plan, on the rows and on what is derived. Steps, script and guidance
remember the values they were made from, so that staleness can be asked about. Expiry takes no lock; a
crash ends requests.

A rerun is meant for a paper without plan, but what lets it start is the job's state. `job` is what that
says: "retryable" although a plan is stored, when the save was committed and the ready mark failed
(`EndRerun`, and `Init`, which has an upload that ended so), when an upload that found its lock taken marks
its plan failed without the lock (`MarkRefusedUpload`), or after a crash before the mark, if the startup
sweep could not tell. `SaveRerun` then replaces the plan and leaves the rows, whose ids `leftBehind`
keeps. `markerTyped` records that a user typed the marker for missing values as a value, which nothing
refuses. Out of the store's methods, `insert`, `update` and `delete_parameter_correction` have no caller.
The plan's `subsystem_breakdown`, the texts of the steps it was last generated with, is not in the record:
an edit that drops the steps keeps them.

`PaperQuestions` adds visitors who ask or want tuning suggestions: they read the record and, in a
statement of its own, the corrections, without the lock; `SourceTable` is what they offer to the
model, and the reply is checked against them before it is served. `QSpec` is both kinds of requests
together; its editing steps are those of `PaperRecord`, the visitors change neither record nor rows.

### PaperSpecs, BuildStepGraph, BuildGuidance, PaperPlanGeneration

The first three are algorithms, written as operators on sequences and sets. `PaperSpecs` has the
checks an extraction passes, the fusion of several documents, `Conflicts` (values on which documents
disagree), the tags by which a model cites places and `Served`, what a reader gets of a stored plan: all
of it, nothing (`Unreadable`), or, when a step's text gives a contested value away, the plan `WithoutSteps`,
which keeps the outline (`breakdown`) made of the same texts. `BuildStepGraph` has the gate that repairs drafts of build steps (`GateOf`) and the audit that
counts what is wrong with the same drafts. `BuildGuidance` derives obligations from steps
(`Requirements`), takes over what a model says of them (acceptance, validation, closure of inputs)
and repairs stored rows before every read (`Scrubbed`, `Read`).

`PaperPlanGeneration` runs them. `stage` goes from the documents through fusion, "compose and script"
and "detect and steps" to the assembled plan; `leaf` is the state of each kind of call, `context` the
`StructuredRetryContext` with its calls, clock and count of equal flaws, `budget` the retries that
composing and detecting share. A leaf's call ends as the model likes (a draft of the set, garbled,
malformed), in a transport error, by the clock or at the cap; each ending has the consequence the code
gives it: a retry, a degraded part, a failed document, a failed job. A rerun starts from the stored
spec, with its preflight and a fresh context. Prompts, wording and the figures of the telemetry are
left out; build steps and guidance are called outside the context, as in the code.

### The project modules

A project's `archive` is a record of what is listed in it and what its files contain. `ZipArchives` is
the policy of the extraction, entry by entry; `MatlabSources` and `SourceSplitting` read lines as
shapes (what the regular expressions and counters see of a line), `ProjectGraph` walks systems of
Simulink models and links nodes, and `ProjectChunks` makes the chunks with their ids and lines. The
recursion of the code is a loop here: the walk of the systems keeps a list of what is left to do, the cut of a
C file the last line that is taken. The assumptions of `ProjectStore` say what an archive is: a path
has one type and holds no id of a project, what is parsed is what is listed, and a file is read from its
first line to its last.
`ProjectStore` holds the tables and the cascade; `ProjectIngest` is the life of an upload: the row,
the task (extraction in a thread that may be given up and go on, parse, mark, index), the failures
of each, and the worker that deletes expired rows, then directories. A fault is a statement that
finds the database busy, a directory that stays or a crash; `faults` counts those left.

`TeachingUnits` follows `_teaching_unit_service.py` from the lock table (a lock is popped while others
wait for it) through claim, recheck, generation and its failures; `ProjectOverview` the attempts,
truncation and validation of overviews, the cache and the extra chunk; `ProjectChat` a question from
its session through retrieval by vector or keyword to the recorded answer. `ProjectService` composes
them: `Restart` ends all that runs.

### MatlabEngineSession and MatlabEngineRuntime

`callLock` is `_call_lock`, which nobody waits for: a call finds it free or is refused as busy.
A thread goes from `ask` through `check`, the calls of the engine (`probe`; or `capability`,
`submit`, `wait` for a simulation), `recover` and `verify` after a timeout or a cancellation, `quit`
and `terminate`, to `leave`. Probe, capability probe and share differ in what they ask only and are
one operation. MATLAB is external: `matlab` is none, alive, hung, exiting, gone or killed, it hangs
and wakes as it likes, and a step that waits for it is disabled while it hangs. `lateQuit` is the
daemon thread of a quit that outlived its grace and may still take effect.

`MatlabEngineRuntime` composes the session with the service. `lifespan` walks through
`start_owned_bounded` (find, connect, attest, construct), the probe's task, serving,
`_close_owned_runtime` and the reaping of the process tree; the probe and the close run in threads of
the session that the service may give up on. `TerminateTree` kills by the launcher and looks
whether each process is gone; `blind` records that a list of processes failed and was read as "no
such process" (`owned_startup.py:381-426`). "alone" is the session used directly, as
`start_owned` and `connect_shared` do, owned or attached, with simulations.

Assumed: the lookup of shared sessions returns (it is local); process ids are not reused; taskkill
kills a whole tree if it finds its root.

## The runs

| run | module, configuration | shows | distinct states |
|---|---|---|---|
| `store_ledger` | `BridgeRunStateStore`, `MCStoreLedger` | two owners, two sessions and colliding snapshots in every order, with expiry, deletions, sweeps and a restart at any point: the current run is the newest and runs are distinct (`LedgerWellFormed`), a retry is idempotent, and the store implements `RunLedger` | 177 883 |
| `store_times` | same, `MCStoreTimes` | the early cutoff clears sessions in time though calls and sweeps lag (`EarlySessionsCleared`), no write comes later than the lag allows (`NoLateWrites`), and with every fault, a dead sweeper included, no session stays active for ever (`EventuallyCleared`) | 265 176 |
| `store_retention` | same, `MCStoreRetention` | the documented hard limit of retention is missed without any fault (violation) | - |
| `bridge_service` | `BridgeService`, `MCBridgeService` | two windows against routes, tokens and ledger: a revocation holds across restarts and the two clock readings, a token is honoured until the expiry its client was told, nothing is under way or stored but what a user saw in the dialog and agreed to (`OnlyConfirmedWrites`), stored by the holder of the session, and windows tell the truth | 1 175 479 |
| `coaching` | `BridgeCoaching`, `MCCoaching` | slots and orphans account for every attempt and bound the threads; attempts overlap after the TTL only; an ended session gets nothing; every request is answered though the provider hangs, and only hung calls keep a slot | 684 474 |
| `upload` | `PaperUploadJob`, `MCUpload` | an upload and two requests on its paper, with failing stores, crashes and retention at any point: what is stored and what states promise agree, what expired stays away, files stay while they are read; in fair weather no async job waits for nobody, jobs settle and original files go | 48 088 |
| `upload_sync_left_running` | same, `MCUploadSync` | a synchronous upload may leave its job at "running" (violation) | - |
| `paper_record` | `PaperQuestions` over `PaperRecord`, `MCRecord` | corrections, undo, answers, regeneration, reparse, reruns over a stored plan, expiry and a crash on one paper: plan and correction rows are one overlay but for the rows a rerun left behind, nothing derived is served for other values, no edit is lost to another's write but to a rerun's, and answers to questions rest on what was there | 441 908 |
| `plan` | `PaperPlanGeneration`, `MCPlan` | two documents that agree or not, good and flawed drafts of every leaf, shared retries, the cap, the clock, reruns: no plan settles what the documents disagree on and no steps that are read give it away, what is cited stands in the documents, the parts fit, and no rerun is refused a call | 214 660 |
| `engine` | `MatlabEngineRuntime`, `MCEngine` | two threads and a service against a MATLAB that hangs, dies and wakes: one call at a time, attached sessions survive, nothing is left silently, broken stays broken, close and lifespan end (`WaitsEnd`) | 60 104 |
| `engine_startup` | same, `MCEngineStartup` | the startup can hang after the attestation (violation) | - |
| `project` | `ProjectService`, `MCProject` | archives of many shapes from upload to expiry, and requests for units, overviews and answers beside a busy database, a directory that stays, a late writer and a restart: the index matches the files, each generation has one owner, what is cached or answered stands in the project, and everything ends | 99 553 |

`MCPaperPlanGeneration` also checks the pure algorithms over all small inputs, as assumptions TLC evaluates
before the run `plan`: the gate makes plans that can be built and leaves them alone the second time
(`GateMakesPlans`), the audit is content exactly where the gate drops no step or dependency
(`AuditAgreesWithGate`) and, for distinct names, no link (`AuditAgreesOnLinks`), and what a read
makes of any stored guidance, old or damaged, is consistent (`ReadsMakeSense`). What the gate makes of a
draft, that it settles it and that the audit agrees is also proved, for all drafts (see the proofs).

**Bounds.** Identifiers are compared for equality only, so two of each show every collision, and
one more than a limit shows the limit.

- *Store*: two snapshots that may share the run, the sequence number or the request; two sessions of
  two owners. `MaxClock` runs past every expiry: TTL plus interval plus lag. `MaxInFlight`,
  `MaxCreation` and `MaxGeneration` cap calls, creation times and restarts; one restart is enough for
  what only compares generations, two calls in flight let one commit behind the other.
- *Bridge*: two submissions, of which the second competes with the first, goes to another session, wants
  the same session for another owner, or asks about the first; two tokens, so that a refetch is a
  different one; half-second ticks (`Second = 2`), so that whole seconds cut something off; a token
  of one second with a skew of one and five ticks, past the end of both; one restart; `MaxTrouble = 2`
  troubles, enough for a revocation with a restart or a lost answer with a closed session.
- *Coaching*: three requests against an orphan limit of one (one in the slot, one orphan, one refused).
- *Upload*: one upload and two requests, which is every pair of writers of a paper plus the cleanup; no
  counters, explored in full.
- *Record*: one parameter the document gives and one it misses, two values a user types and the marker;
  two requests that edit (the reruns beside corrections and either answers or regenerations), or one that
  edits (reruns among it) and one that asks, of a record without the script and guidance that no question
  reads (`Workloads`, `OnlyWhatIsRead`); two corrections (`MaxId`), so that each parameter has one, or one
  is made, undone and made again, or a rerun leaves one behind and another is made. A rerun may find the value that was missing.
- *Plan*: two documents are the least that disagree; cap and retries are the code's defaults
  (`HardCap = 12`, `SpecExtra = 1`, `PlanExtra = 2`, `ScriptTries = 2`, `RepeatLimit = 3`); each leaf
  has drafts that pass and drafts that each check must catch.
- *Engine*: the probe's and the close's threads are all the code starts; no counters, explored in full.
- *Project*: each archive of a list (refused ones, functions, scripts, models with cycles and shared
  names, C sources) is uploaded alone; the requests run over a small archive: three learners for a lock
  that is popped while two wait, two readers, two questions to one or two projects; at most one fault;
  small caps of lists and attempts (`MCListed`, `MaxAttempts = 2`, `MaxSections = 3`) that are passed.

Symmetry is declared for names and alike requests in safety runs only.

**Deadlock** is checked in the upload runs and in `paper_record`, where something always goes on.
Elsewhere a clock at its bound, requests that are used up, or a service that is down end a behaviour
in the proper way.

**Fairness.** *Store*: a call gets the lock or a timeout within `busy_timeout`, the supervisor
restarts the process, due tasks run, a retried sweep does not meet an error every time (strong
fairness), and the ingest cleanup catches every exception and never stops. *Coaching*: the loop runs
what is ready and its clock moves; nothing is assumed of the provider, so `AnsweredAndFreed` says
that only hung calls keep a slot. *Upload*: whatever can run, runs (LLM calls have timeouts, jobs a
wall clock); startup and cleanup come round again, and as the process may die at any line for ever,
they are strongly fair; `Age`, `Crash` and the clients' requests have none. *Engine*: the event loop
and the threads run; MATLAB, launch, shutdown and users have none. *Project*: tasks, the worker and
requests go on; uploads, requests, restarts, late writes and ageing need not happen. The bridge, the
record and the plan have safety properties only.

## What disagrees

Three runs state what a document says and end in a counterexample.

- **Retention limit** (`store_retention`). The sweep advances its cutoff by an interval and a margin
  so that snapshots are "physically gone within 24 h at the latest"
  (`docs/tasks/task-518-b3-2b-run-state-persistence-v0_3.md:120`). A session established after the
  last early sweep of its project is found by the next one only, up to an interval after the expiry.
- **Unbounded step of a bounded startup** (`engine_startup`). `from_connected_owned` runs the wrapper's
  constructor, which calls `matlabProcessID()` on the engine without a deadline
  (`adapters/matlab_engine/runtime.py:717`). If MATLAB hangs there, startup never ends, contrary to
  task-513 (lines 110 and 116). `WaitsEnd` states what does hold: every other stage is bounded.
- **Synchronous upload left running** (`upload_sync_left_running`). An LLM transport error leaves
  `_run_upload_job`, which only background uploads wrap; the row stays at "running" and its status
  says "wait" until a restart (task-525, lines 137 and 151).

Met on the way. Where it lies in the code the models take in, they do the same; none is a finding of
its own.

*Bridge and engine*

- `BEGIN IMMEDIATE` is outside the `try` of the sweep, so a lock timeout ends the sweeper's task for the
  life of the process (`features/matlab_bridge/run_state_cleanup_worker.py:33`). `EventuallyCleared` holds
  because the project cleanup still runs.
- A verification that reads the clock a second time, past `exp + skew`, may drop the record of a
  revocation it is about to look up; `RevokedStaysRefused` states the gap.
- The token route establishes the session before it signs (`api/routes/matlab_bridge_auth.py:77`): a
  capability that is refused then leaves an active session without token.
- A client that stops waiting for a write that is then committed says "error"; the same run submitted
  anew with its `run_sequence` is told "conflict". `ReceiptsAreTrue` promises nothing of "error".
- The window tells answers apart by `contains(message, "401")`, `"409"`, `"410"`, conflict first
  (`MatlabBridgeApp.m:591-609`): a port or an id with these digits makes any failure, the timeout of
  a stored write too, a conflict or a session that is gone. User and project go to the token provider
  only, so a token it held on to for another owner writes for that owner. `set_available` is called
  by tests only.
- The health probe inside the recovery of a simulation is not bounded
  (`adapters/matlab_engine/runtime.py:448`); a session may go on as ready although a cancelled
  simulation still runs in MATLAB.

*Upload, record, questions*

- An upload that finds its lock taken writes `plan_failed_retryable` without the lock, over the state
  of the rerun that holds it (`api/routes/paper_upload.py:892`); task-525-b asks for the write under the
  lock. A rerun whose read of the spec fails leaves `plan_generating` until the next restart
  (`:800`), and a stored spec may end in `failed_no_usable_spec` (`:545`).
- A rerun of a paper that has its plan (its ready mark failed, `paper_upload.py:964-983`, or a refused
  upload overwrote the state, `:892`) replaces the plan through `set_plan` (`:958`) and leaves the rows of
  `paper_parameter_correction`. The values users gave are lost, and their rows can be neither undone nor
  corrected again, until a reparse. `task-525-paper-upload-job-v0_2.md:36` takes a rerun's plan to be missing
  altogether, and `task-522-c2-user-correction-behavior-frontend-v0_2.md:365` wants no state in which only the
  plan or only the rows have a correction. `OverlayMatchesRows` and `NoLostEdits` say that these rows and
  values are the only ones.
- A user may type the marker "null" as a value; a correction of a missing value is taken although
  `task-522-c2-user-correction-behavior-frontend-v0_2.md:79` sends users to supply it. After an answer, a regeneration whose
  guidance succeeds while steps and script fail leaves the old steps and script beside it.
- Tuning attributes all evidence to `DOC-001` (`paper_tuning_service.py:63`, `override=True`), against
  `task-521-a-multidoc-identity-substrate-v0_2.md:101` and `:223`. A missing parameter given through a
  correction stays an open prompt for questions.

*Plan*

- Equal flaws are counted over documents and across successes (`paper_spec_service.py:310`), where
  `docs/tasks/task-526-b-v0_3.md:96` asks for consecutive ones; the cap it puts on all calls of a job
  (`:106`) is not asked by the calls for steps and guidance. The default
  of 12 is exactly enough for a rerun (`RerunsFitTheCap`); the configuration takes 1 to 50. Calls for
  the script can use up what detecting needs in an upload.
- A stored spec whose evidence cites an equation it does not list passes extraction and fails every
  rerun's preflight. A contested value in a configuration hint is noticed by reads only: every
  `GET /plan` then fails until a regeneration. Figures are offered as tags and refused when they
  are not in `figure_locations`.
- A plan that loses its steps on a read, because a text of theirs gives a contested value away, is served with
  the outline that holds the same text (`paper_plan_integrity.py:38-45`); in the outline nothing is looked
  for, whoever made it, and the answers to an upload, a rerun or an edit carry the plan unchecked
  (`paper_upload.py:575`, `:845`). `task-521-b2-value-conflict-detection-v0_3_1.md:7` lists mapping, script
  and steps only, so this is no divergence; `ConflictsStayOpen` promises of steps that are read, and of
  the outline beside them, that they give nothing away.
- The audit is telemetry: its "not_prior" cannot occur, it counts fewer edges of a cycle than there are
  (but some exactly where there is one), and it may be content with a link the gate drops.
  `GuidanceRetryContext.hard_call_count = 3` is never reached with two attempts. References of guidance
  are checked against details from before the validation, unlike `task-536-b-guidance-requirement-contract-v0_3.md:185`.
  `synthesize_guidance_gaps`, `compute_guidance_assessment` and the strict validators have no caller.

*Projects*

- The limit on the compression ratio (`zip_extractor.py:185`) and the count of the bytes copied have the errors
  of other limits; `ZipArchives` does not tell them apart.
- Block citations found by vector are always dropped: what a chunk says of its block is never one of the
  keys the check accepts (`chat_service.py:186`, `_project_chunker.py:309`), unlike
  `task-304-vector-rag-v0.5.md:1025`.
- File dependencies never become `CALLS` or `LOADS_DATA` edges (`_pg_edges.py:36-51`), unlike
  `task-107-project-graph-builder.md:200` and `:519`. Subsystems and blocks of equal names collapse to one
  node; two functions of a name in one file give one chunk id twice, and the project stays unindexed.
  If a block at the top that is no SubSystem has a system under it, and a SubSystem in there has its name, that
  node belongs to itself and to no file (`_pg_edges.py:140-165`); Simulink does not write such files.
- `begin_generating` refuses expired units that failed or are generating
  (`sqlite_teaching_unit_store.py:97`), where `decision-19-teachingunit-cache-record-state-contract.md:25` wants them generated again. A popped lock
  lets two requests recheck, so retries may exceed their bound; a crash leaves "generating" for ever.
  Prerequisites may form a cycle (`task-310-v0_1.md:367`); a second level of one target fails on the
  primary key.
- The cleanup worker ignores errors of `rmtree` and then deletes the row, so the directory stays, unlike
  `task-202-upload-and-parse-api.md:1976`; an extraction thread that was given up may bring a removed
  directory back. A crash between ready and indexing leaves a project without chunks.
- A project of C files alone becomes ready but has no graph, and every question or overview of it fails.
  Chat takes messages 41 to 50 of a long session for its history; two questions of one session
  interleave their messages. Of two overviews generated at once the last is cached and the first one's
  chunk stays; the cache is never invalidated.
- In the web client, `ChatPage` never leaves "needs_refresh", and a late list of messages replaces the one
  that is being sent.

## The proofs

Every theorem is about the specification, for every value of the constants that the named
assumptions allow: any number of users, sessions, requests, papers, documents and threads, any timing
and, unless said otherwise, any subset of the faults. An invariant is proved through a stronger one
that is inductive. Type invariants are proved rather than run.

- **Store** (`BridgeRunStateStore_proofs`). `IndInv` joins `TypeOK`, `CurrentIsNewest` and
  `RowsAreDistinct` with two facts: calls are in flight only while the process is up
  (`ProcessInv`), and a session that is not active holds nothing while one that exists has a project
  (`SessionInv`). `StepIsStoreStep` shows that every step does one of six things to the two
  tables, so each property is shown for six kinds of step. From it follow `TypeCorrect`,
  `CurrentIsAlwaysNewest`, `RowsAlwaysDistinct`, `RunsOnlyWhileActive` (the three together are
  `LedgerAlwaysWellFormed`), `RetriesAlwaysIdempotent`, `RowsNeverChange`,
  `TerminalStaysFinal` and `OldGenerationsFenced`.
  `WritesStopAtExpiry` needs in addition that no call is older than `MaxLag` (`TimeInv`).
  `EarlyAlwaysCleared`: as long as all sweeps of one process have succeeded, the sweeper's next look
  comes early enough for every session that was established early and is still active (`SweepInv`);
  this is where the assumption `2 * MaxLag <= SafetyMargin + 1` is used.
- **Refinement** (`BridgeRunStateStore_proofs`). `StoreImplementsLedger`: `Spec => Ledger!Spec`.
  `NewestIsRow` shows, from the distinctness of rows, that the newest entry is a function of rows and
  pointer; each kind of store step maps to one step of the ledger or to none.
- **Tokens** (`BridgeService_proofs`). `RecordInv`: in the process that signed it, the record of a revoked
  token holds `exp + skew` until the clock has passed that instant. So no verification accepts it
  before (`RevocationHolds`, `RecordsOutliveTokens`, `AuthTypeCorrect`). `Timed`: a token's claims and the
  expiry its client was told come from one instant, the claims cut to seconds. Lifetimes are whole
  seconds, so a skew of one second is enough (`TokensAlwaysHonoured`).
- **Bridge as one system** (`BridgeService_proofs`). `ServiceInv` ties a request at the store to claims that
  were signed, what is signed to a scope some submission asked for, and an entry of the ledger to the submission
  it came from; from the dialog on, a submission is what its user agreed to (`RequestVerified`), through
  refused tokens and second posts. A submission that has been answered does not change
  (`ConfirmedLasts`, `ReceiptLasts`) and the ledger only grows until a session is forgotten, so each step is
  shown to keep what it does not touch (`MoveKeeps`, `RequestsStay`, `EntriesStay`) and only the step of
  the one who acts is left. `WritesAlwaysConfirmed`: nothing is stored or on its way that differs from what was agreed to in
  the dialog, and what is stored came under claims of the session's holder; `ReceiptsAlwaysTrue`: a window says stored only of what is stored.
  `SystemKeepsItsParts`: every step of the whole is one of the token service or none (`AuthStep`) and one of
  the ledger or none, so what is proved of each part holds in the composition (`SystemRefusesRevoked`,
  `SystemHonoursTokens`).
- **Coaching** (`ExternalCalls_proofs`). `Bookkeeping`: the holder of a slot is in flight, is of that
  session and is no orphan, orphans have outlived their TTL, who is in flight is one or the other,
  and the orphans respect their limit. It gives `AttemptsAlwaysAccounted` and `OverlapAlwaysAfterTTL`;
  `CallsAlwaysBounded` counts: the attempts in flight are the orphans and the image of the slots.
  `SlotsAlwaysAccount` joins them. `EndedAlwaysGetNothing` needs the types only: every exit with a reply
  passes a fence in the same step.
- **Upload** (`PaperUploadJob_proofs`). `IndInv` says how far an upload with a given step has come
  (`UploadInv`), that a rerun still has what it saw or that the job's row is gone too, in which case
  its writes fail (`RerunInv`), that job states have their spec behind them (`SpecBehindJob`), and
  that nobody works while the process is down (`ProcessInv`). Theorems: `UploadTypeCorrect`,
  `LockAlwaysMatchesHolder`, `PlanAlwaysNeedsSpec`, `ReadyAlwaysHasBundle`, `RetryAlwaysHasSpec` (together
  `BundleAlwaysConsistent`), `FilesAlwaysStayWhileRead`, `ExpiredAlwaysStaysGone`. A second
  invariant, `WaitInv`, says that a waiting job whose upload has left it is a rerun's past its
  compare-and-set, and that the startup sweep has listed whatever waits; with `IndInv` it gives
  `WaitingAlwaysWorkedOn`.
- **Record** (`PaperRecord_proofs`). What a request holds is what is stored, as long as it holds the lock
  and the paper is not gone (`Copies`); that is what makes writing back a whole record safe. With it each
  commit keeps `Good`: fresh ids, no marker unless typed, overlay and rows in force in agreement (those a
  rerun left behind have ids of their own, which nothing cites), nothing derived stale. Theorems:
  `RecordTyped`, `OverlayAlwaysMatches`, `DerivedNeverStale`, `EditsNeverLost`.
  They are about `Spec` of `PaperRecord`; `QuestionsOnlyRead` shows that `QSpec`, which the run uses, implements
  it. `AnswersAlwaysRest` is about the questions: prompts are what the extraction misses (`Prompted`), and
  what a visitor has read still holds of the copies it checks against (`VisitsHold`), because rows keep
  the original they were first given; every source it was offered is backed by what was read (`Backed`).
- **Plan** (`PaperPlanGeneration_proofs`). `Budgeted` counts, for a fresh context, the calls made against the
  attempts each leaf still has. With a cap of at least two calls for each attempt (`CapSuffices`, which
  the defaults meet with equality) no rerun is refused a call (`RerunsFitTheCap`); `GenerationTyped` is the
  control state's type.
  `PlanAlwaysGrounded`, `ConflictsAlwaysOpen` and `PlanAlwaysWhole` are about the finished plan, for every
  order of answers and retries; `ConflictsAlwaysOpen` rests on what composer and script may not do
  (`OpenConflicts`) and on what a read keeps (`ReadOfPlan`): the first step that leaks decides, so a plan read
  with steps has none, and its outline is made of their texts. Answers are checked when they arrive, a plan is put together later;
  `Staged` says that a settled answer would still pass and `SpecsHold` that the spec is the fusion of what
  was read. The rest are facts about the pure parts (`Fits`): the gate leaves the steps in
  an order in which each comes after what it rests on, with links to what is in sight and one bearer for
  each file (`GatedFacts`); validated guidance cites what is vouched for (`ValidatedFacts`); reading
  a plan takes none of it away (`ReadFits`). `DraftsAssumption` says that a draft is a finite list.
- **Gate and audit** (`PaperPlanGeneration_proofs`). Two modules of the code read the same draft of build steps:
  the gate drops what does not hold, the audit counts it. `GateSettles`: a second gating changes
  nothing, as each stage keeps what the earlier ones have settled (`RestsSame` for what a step rests on, the
  `...Again` and `...Fit` lemmas for the stages). `AuditMeetsGate`: for ids of the form the gate asks for,
  the audit reports nothing of a draft exactly where the gate keeps every step, id and
  dependency. Both rest on what a cycle is: the sequence of `Ordered` ends early exactly where there are steps each
  of which waits for another of them (`CyclicOrder`), which is the audit's `Cyclic`. `GatedPassesAudit`: in the
  steps of a plan the audit finds no dependency and no link to report. That for distinct names the audit
  is content with links exactly where the gate drops none is checked on small drafts only
  (`AuditAgreesOnLinks`); without that condition it is false (see above).
- **Sequences** (`SequenceFacts`). Induction and recursion for data, stated for a set of numbers (or of
  subsets) in place of a predicate and for a function in place of an operator, which the provers can
  instantiate: `NatSetInduction`, `SubsetInduction`, `UpToRecursion`, `SubsetRecursion`. With them, what
  `FlattenSeq`, `Picked` and `SetToSeq` yield for every sequence or finite set.
- **Projects** (`ProjectService_proofs`). `TaskInv` ties the step of an upload to its row, and a row that is
  gone does not come back: whatever was under way for it finds nothing to write to. `WorkInv` says of
  each request at work on a unit that the record says "generating" and that no other request is at it, or
  that the project is gone; locks play no part, since they may be popped while others wait
  (`GenerationsHaveOneOwner`). A unit that has been named keeps its name through failures and new
  generations, so that candidates gathered once are there when they are stored (`CandidateInv`,
  `PrerequisitesAreUnits`, `ReadyUnitsAreSteady`). `OverviewsAreGrounded`: what is kept passed the validation
  against the project it is kept for, and the contents of a project do not change. `ServiceInductive` is the
  invariant they rest on, `ProjectTypes` the types.
- **Index** (`ProjectService_proofs`). `IndexesMatchTheFiles` has two halves. The pure one says what is drafted of
  any archive, list by list: a section of a C file begins at each opening line that none before it has reached
  (`SplitCutsUp`), functions of a MATLAB file end before the next one starts (`FunctionsInOrder`), what is walked of
  Simulink files is a finite model of their blocks (`ModelFinite`), and a published path is one the archive lists
  (`PublishedFiles`); `OfContents` and `Whole` sum it up (`DraftsAre`), and `ChunksMatch` derives the property. The other
  follows the tables: whoever is about to add chunks works for a project that became ready or is gone
  since (`PastReady`), and chunks are added only where there is a row, so they are those of a ready project and
  as they were drafted (`IndexInv`).
- **Graph** (`ProjectService_proofs`). A walk over the systems of a file ends (`WalksEnd`): the blocks of systems
  not yet entered, counted twice, with what is on the list, counted twice where it goes down, get fewer with each
  step (`StillToDo`, `StepOwes`), so the bound in `Model` cuts nothing off. `WalkHeld` is the invariant of the walk:
  the name a block has above it is that of a SubSystem read before it or of none, and what is below that name
  has been noted or will be. Of a finished walk it leaves `Rooted`, and by induction over the blocks any set
  that holds the files and all that belongs to what it holds has every node (`NodesContained`). The fold in
  `EveryNodeIsContained` makes such a set in as many rounds as there are nodes (`TakenIn`). That gives
  `NodesAlwaysContained`, under the hypothesis `FilesStandOut`: a system lies under a SubSystem block with an id,
  as Simulink writes it, or under a block whose name no SubSystem has. TLC evaluates the hypothesis on
  the archives of the run `project`, which hold both kinds; without it the property fails (see above).
- **Chat** (`ProjectService_proofs`). `AskerInv` says what a question relies on: its session is of its
  project or gone with it, and what was found for it stands there, found by vector (`ChunksStand`, from
  `IndexInv`) or by keyword (`KeywordsStand`), until the project goes. `SessionInv` counts: the answers
  of a session and the questions that still wait for one are at most its questions (`Talk`). A deletion
  turns a session into one nobody can write to, so a late answer finds no place; `AnswersAlwaysGrounded`
  follows.
- **Engine** (`ExternalCalls_proofs`). The holder of the lock is the only thread inside
  (`LockInv`), calls of the engine are made in busy sessions (`BusyInv`), a late quit means the session is
  over or being terminated (`LateInv`), only owners terminate (`OwnerInv`), and a tree declared gone was
  gone or hidden by a failed list, and does not come back (`LeftoverInv`). Theorems:
  `EngineTypeCorrect`, `OneCallAlways`, `AttachedAlwaysSurvives`, `BrokenStaysBrokenAlways`,
  `NoSilentLeftoverAlways`.

Only model-checked: all liveness (`EventuallyCleared`, `AnsweredAndFreed`, `UploadsSettle`, the engine's
`WaitsEnd`, `EverythingEnds`), since fairness is out of the prover's reach, and of the assumptions on pure
algorithms `AuditAgreesOnLinks` and `ReadsMakeSense`. Every safety invariant and every action
property of a passing run is a theorem.

## What is not modelled

Outside by decision: the contents of prompts, replies and drafts, formatting, logging; signatures
(unforgeable); the text of PDF and DOCX files; migrations; evaluation, scripts and the empty payment
packages. MATLAB, SQLite's locking, the LLM provider (with the adapter's own retries inside one call),
embeddings (any ranking) and Windows' process lists are external and modelled from how the code uses
them.

Also outside: the error explanation (one bounded call per request and no state, its checks concern one
request); the explanation pack (a pure library that no running path calls); of the add-on, the snapshots of
exceptions, the redaction of strings and the reading of a `SimulationOutput`; the web client, whose
polling and reducers live in a browser; per-document states, stages and error codes of the upload job;
the startup order of the lifespan beyond MATLAB and the startup sweep.

Where a part was cut at its edge: `BridgeService` uses the ledger in place of the store, so that lags
and lock waits of the store are in `BridgeRunStateStore` only; an upload's plan generation is one outcome
in `PaperUploadJob` and a module of its own in `PaperPlanGeneration`; the edits of a paper are one kind in
`PaperUploadJob` and five in `PaperRecord`.

## Plan

Done, in this order: the store with its ledger, tokens, coaching, the upload job, the engine; the paper's
record and the questions about it; specs, step graphs, guidance and plan generation; projects from archive
to answer; the bridge as one system with the add-on.

Next, the most important first; a question asked of a new part may replace a weaker one here, so
that the list of runs stays one that a reader can hold in mind.

1. `PaperUploadJob` as an abstraction of `PaperPlanGeneration` and `PaperRecord`: a refinement that replaces
   the argument by names above.
2. The web client's polling: late answers of superseded requests, against the states of `PaperUploadJob`.
3. Teaching units as an abstract "at most one generation per key, and the last one is kept".
