--------------------------- MODULE PaperUploadJob ---------------------------
(***************************************************************************)
(* The life of a paper upload job: the upload pipeline that turns files    *)
(* into a stored spec and then a plan, the requests that work on the same  *)
(* paper later (rerun of the plan, reparse, edits of the plan), the lock   *)
(* registry between them, the cleanup worker, and the startup sweep that   *)
(* judges what a dead process left.                                        *)
(*                                                                         *)
(* Every store call is one transaction and one step here; between two      *)
(* awaits of one coroutine any other may run, and the process may die.     *)
(* The upload of paper p is worker p; a client's request is worker c.      *)
(***************************************************************************)
EXTENDS Naturals

CONSTANTS
  Papers,     \* one upload each: paper and job ids are fresh uuids
  Clients,    \* requests that may be in flight at once on stored papers
  NoOne,      \* holder of a free lock
  Modes,      \* execution modes in use: a subset of {"sync", "async"}
  Weather     \* the histories checked: with faults of database and disk, or without

ASSUME WorkersDistinct == Papers \cap Clients = {} /\ NoOne \notin Papers \cup Clients
ASSUME ModesKnown == Modes \subseteq {"sync", "async"}
ASSUME WeatherKnown == Weather \subseteq BOOLEAN

VARIABLES
  job,        \* [Papers -> JobStates \cup {"none"}]: the row of paper_upload_job
  specs,      \* papers with a row in paper_spec_cache
  plans,      \* papers with a row in paper_plan_cache
  sources,    \* papers with a row in paper_reparse_source_cache
  staging,    \* papers whose directory of original files exists
  expired,    \* papers past their retention time
  lock,       \* PaperReparseLockRegistry: who holds the paper
  mode,       \* execution mode of each upload
  step,       \* where each worker is
  request,    \* what each client asked for, of which paper
  process,    \* "up", "down" or "starting"
  toSweep,    \* startup sweep: what is left to do for each paper
  condemned,  \* the staging directory the cleanup worker decided to remove
  faulty      \* whether the database and the disk may fail in this history

vars == <<job, specs, plans, sources, staging, expired, lock, mode, step,
          request, process, toSweep, condemned, faulty>>

Workers == Papers \cup Clients
JobStates == {"queued", "running", "spec_ready", "plan_generating", "ready",
              "plan_failed_retryable", "plan_failed_permanent",
              "failed_no_usable_spec", "abandoned_plan_retryable",
              "abandoned_reupload_required"}

\* The states list_stale_upload_jobs returns, those next_action answers "wait" to.
StaleStates == {"queued", "running", "plan_generating"}

\* The states try_start_rerun_plan may leave.
RerunSources == {"spec_ready", "plan_failed_retryable", "abandoned_plan_retryable"}

\* Mutant: running jobs count as finished.
PAPER_STAGING_CLEANUP_STATES_Running == JobStates \ {"queued", "spec_ready", "plan_generating"}

PAPER_STAGING_CLEANUP_STATES ==
  {"ready", "plan_failed_retryable", "plan_failed_permanent", "failed_no_usable_spec",
   "abandoned_plan_retryable", "abandoned_reupload_required"}

\* Where a worker is while it holds its paper's lock.
HoldingSteps == {"start", "read_spec", "generate", "persist", "save", "saved",
                 "plan_failed", "plan_refused", "commit", "release"}
\* Where an upload is from its request to its end.
UploadSteps == {"accept", "saving", "reject", "bail", "docs", "extracted", "unusable",
                "settled", "raised", "fuse", "fail", "persist_spec", "spec_stored",
                "acquire", "busy", "escape", "unhandled", "mark_spec_failure",
                "mark_plan_failure"} \cup HoldingSteps

NoRequest == [kind |-> "none", paper |-> NoOne]
Requests == [kind : {"rerun", "reparse", "edit"}, paper : Papers]
Paper(w) == IF w \in Papers THEN w ELSE request[w].paper
Is(c, kind) == c \in Clients /\ request[c].kind = kind

Init ==
  /\ job = [p \in Papers |-> "none"]
  /\ specs = {} /\ plans = {} /\ sources = {} /\ staging = {} /\ expired = {}
  /\ lock = [p \in Papers |-> NoOne]
  /\ mode \in [Papers -> Modes]
  /\ faulty \in Weather
  /\ step = [w \in Workers |-> IF w \in Papers THEN "new" ELSE "idle"]
  /\ request = [c \in Clients |-> NoRequest]
  /\ process = "up"
  /\ toSweep = [p \in Papers |-> "nothing"]
  /\ condemned = NoOne

(***************************************************************************)
(* Store calls                                                             *)
(***************************************************************************)
At(w, next) == step' = [step EXCEPT ![w] = next]

\* update_upload_job_state: an UPDATE that looks at no previous state, then a
\* read back. A missing row is an error; a fault may hit before the commit, or
\* after it, in the read back.
Update(w, p, state, ok, error) ==
  \/ /\ job[p] # "none"
     /\ job' = [job EXCEPT ![p] = state]
     /\ At(w, ok) \/ (faulty /\ At(w, error))
  \/ /\ job[p] = "none" \/ faulty
     /\ UNCHANGED job
     /\ At(w, error)

bundle == <<specs, plans, sources>>
surroundings == <<expired, mode, process, toSweep, condemned, faulty>>

(***************************************************************************)
(* The upload: request, staging and documents                              *)
(***************************************************************************)

\* upload_document, upload_document_async: the row comes before any file.
Begin(p) ==
  /\ step[p] = "new"
  /\ \/ job' = [job EXCEPT ![p] = "queued"] /\ At(p, "accept")
     \/ faulty /\ job' \in {job, [job EXCEPT ![p] = "queued"]} /\ At(p, "done")
  /\ UNCHANGED <<bundle, staging, lock, request, surroundings>>

Accept(p) ==
  /\ step[p] = "accept"
  /\ Update(p, p, "running", "saving", "bail")
  /\ UNCHANGED <<bundle, staging, lock, request, surroundings>>

\* The loop of _prepare_upload_staging: some file is staged, or every file is
\* refused (a file found too large has made the directory), or a call fails.
SaveFiles(p) ==
  /\ step[p] = "saving"
  /\ \/ staging' = staging \cup {p} /\ At(p, "docs")
     \/ staging' \in {staging, staging \cup {p}} /\ At(p, "reject")
     \/ faulty /\ staging' \in {staging, staging \cup {p}} /\ At(p, "bail")
  /\ UNCHANGED <<job, bundle, lock, request, surroundings>>

Reject(p) ==
  /\ step[p] = "reject"
  /\ Update(p, p, "failed_no_usable_spec", "bail", "bail")
  /\ UNCHANGED <<bundle, staging, lock, request, surroundings>>

\* The document loop of _run_upload_job: a spec came out of some document, of
\* none, or an exception the loop does not catch (any LLM transport error) left it.
ReadDocuments(p) ==
  /\ step[p] = "docs"
  /\ \E next \in {"extracted", "unusable", "raised"} : At(p, next)
  /\ UNCHANGED <<job, bundle, staging, lock, request, surroundings>>

\* The primary document failed: the job is settled inside the loop.
PrimaryFailed(p) ==
  /\ step[p] = "docs"
  /\ Update(p, p, "failed_no_usable_spec", "settled", "raised")
  /\ UNCHANGED <<bundle, staging, lock, request, surroundings>>

AfterStaging == [bail |-> "done", settled |-> "done", extracted |-> "fuse",
                 unusable |-> "fail", raised |-> "escape"]

\* The two finally blocks that remove the staged files; a failure is only logged.
DropStaging(p) ==
  /\ step[p] \in DOMAIN AfterStaging
  /\ staging' = staging \ {p} \/ (faulty /\ staging' = staging)
  /\ At(p, AfterStaging[step[p]])
  /\ UNCHANGED <<job, bundle, lock, request, surroundings>>

MarkUploadFailed(p) ==
  /\ step[p] = "fail"
  /\ Update(p, p, "failed_no_usable_spec", "done", "escape")
  /\ UNCHANGED <<bundle, staging, lock, request, surroundings>>

Fuse(p) ==
  /\ step[p] = "fuse"
  /\ \E next \in {"persist_spec", "fail"} : Update(p, p, "running", next, "escape")
  /\ UNCHANGED <<bundle, staging, lock, request, surroundings>>

PutSpec(p) ==
  /\ step[p] = "persist_spec"
  /\ \/ /\ p \notin plans
        /\ specs' = specs \cup {p}
        /\ At(p, "spec_stored")
     \/ /\ p \in plans \/ faulty
        /\ UNCHANGED specs
        /\ At(p, "fail")
  /\ UNCHANGED <<job, plans, sources, staging, lock, request, surroundings>>

MarkSpecReady(p) ==
  /\ step[p] = "spec_stored"
  /\ Update(p, p, "spec_ready", "acquire", "fail")
  /\ UNCHANGED <<bundle, staging, lock, request, surroundings>>

(***************************************************************************)
(* The lock registry                                                       *)
(***************************************************************************)

\* acquire: take the free lock, or fail at once.
Acquire(w) ==
  /\ step[w] = "acquire"
  /\ lock[Paper(w)] = NoOne
  /\ lock' = [lock EXCEPT ![Paper(w)] = w]
  /\ At(w, "start")
  /\ UNCHANGED <<job, bundle, staging, request, surroundings>>

\* PaperReparseInProgressError: a client is answered 409, the upload goes on to
\* record a failure.
LockBusy(w) ==
  /\ step[w] = "acquire"
  /\ lock[Paper(w)] # NoOne
  /\ IF w \in Papers
       THEN At(w, "busy") /\ UNCHANGED request
       ELSE At(w, "idle") /\ request' = [request EXCEPT ![w] = NoRequest]
  /\ UNCHANGED <<job, bundle, staging, lock, surroundings>>

\* The except clause of _run_initial_plan_generation.
MarkPlanBusy(p) ==
  /\ step[p] = "busy"
  /\ Update(p, p, "plan_failed_retryable", "done", "escape")
  /\ UNCHANGED <<bundle, staging, lock, request, surroundings>>

\* Mutant: the background task has no wrapper.
Release_NoWrapper(w) ==
  /\ step[w] \in {"release", "escape"}
  /\ lock' = [p \in Papers |-> IF lock[p] = w THEN NoOne ELSE lock[p]]
  /\ IF w \in Papers
       THEN At(w, "done") /\ UNCHANGED request
       ELSE At(w, "idle") /\ request' = [request EXCEPT ![w] = NoRequest]
  /\ UNCHANGED <<job, bundle, staging, surroundings>>

\* Leaving "async with": the lock is freed, and an escaping exception reaches
\* the background wrapper of an async upload, or the client.
Release(w) ==
  /\ step[w] \in {"release", "escape"}
  /\ lock' = [p \in Papers |-> IF lock[p] = w THEN NoOne ELSE lock[p]]
  /\ IF w \in Papers
       THEN /\ At(w, IF step[w] = "escape" /\ mode[w] = "async" THEN "unhandled" ELSE "done")
            /\ UNCHANGED request
       ELSE /\ At(w, "idle")
            /\ request' = [request EXCEPT ![w] = NoRequest]
  /\ UNCHANGED <<job, bundle, staging, surroundings>>

\* _mark_unhandled_background_failure reads the row ...
ReadUnhandled(p) ==
  /\ step[p] = "unhandled"
  /\ \/ job[p] \in {"queued", "running"} /\ At(p, "mark_spec_failure")
     \/ job[p] \in {"spec_ready", "plan_generating"} /\ At(p, "mark_plan_failure")
     \/ /\ faulty \/ job[p] \notin {"queued", "running", "spec_ready", "plan_generating"}
        /\ At(p, "done")
  /\ UNCHANGED <<job, bundle, staging, lock, request, surroundings>>

\* ... and writes what it concluded.
MarkUnhandled(p) ==
  /\ \/ step[p] = "mark_spec_failure" /\ Update(p, p, "failed_no_usable_spec", "done", "done")
     \/ step[p] = "mark_plan_failure" /\ Update(p, p, "plan_failed_retryable", "done", "done")
  /\ UNCHANGED <<bundle, staging, lock, request, surroundings>>

(***************************************************************************)
(* Plan generation, by the upload or by a rerun                            *)
(***************************************************************************)

\* The compare-and-set of try_start_initial_plan and try_start_rerun_plan: one
\* conditional UPDATE, then a read back.
StartPlan(w, from, next) ==
  \/ /\ job[Paper(w)] \in from
     /\ job' = [job EXCEPT ![Paper(w)] = "plan_generating"]
     /\ At(w, next) \/ (faulty /\ At(w, "escape"))
  \/ /\ job[Paper(w)] \notin from
     /\ UNCHANGED job
     /\ At(w, "release")
  \/ faulty /\ UNCHANGED job /\ At(w, "escape")

StartInitialPlan(p) ==
  /\ step[p] = "start"
  /\ StartPlan(p, {"spec_ready"}, "generate")
  /\ UNCHANGED <<bundle, staging, lock, request, surroundings>>

StartRerun(c) ==
  /\ step[c] = "start" /\ Is(c, "rerun")
  /\ StartPlan(c, RerunSources, "read_spec")
  /\ UNCHANGED <<bundle, staging, lock, request, surroundings>>

ReadSpec(c) ==
  /\ step[c] = "read_spec"
  /\ \/ Paper(c) \in specs /\ At(c, "generate") /\ UNCHANGED job
     \/ Paper(c) \notin specs /\ Update(c, Paper(c), "failed_no_usable_spec", "release", "escape")
     \/ faulty /\ At(c, "escape") /\ UNCHANGED job
  /\ UNCHANGED <<bundle, staging, lock, request, surroundings>>

\* plan_service.generate: minutes of LLM calls that may end in any error.
Generate(w) ==
  /\ step[w] = "generate"
  /\ \E next \in {"persist", "plan_failed", "plan_refused"} : At(w, next)
  /\ UNCHANGED <<job, bundle, staging, lock, request, surroundings>>

\* _mark_plan_failed: only an authentication error is permanent.
MarkPlanFailed(w) ==
  /\ \/ step[w] = "plan_failed"
        /\ Update(w, Paper(w), "plan_failed_retryable", "release", "escape")
     \/ step[w] = "plan_refused"
        /\ Update(w, Paper(w), "plan_failed_permanent", "release", "escape")
  /\ UNCHANGED <<bundle, staging, lock, request, surroundings>>

Persist(w) ==
  /\ step[w] = "persist"
  /\ Update(w, Paper(w), "plan_generating", "save", "plan_failed")
  /\ UNCHANGED <<bundle, staging, lock, request, surroundings>>

\* Mutant: a rerun saves the whole bundle, the way the upload does.
SavePlan_WholeBundle(w) ==
  /\ step[w] = "save"
  /\ plans' = plans \cup {Paper(w)}
  /\ specs' = specs \cup {Paper(w)}
  /\ sources' = IF w \in Papers THEN sources \cup {w} ELSE sources
  /\ At(w, "saved")
  /\ UNCHANGED <<job, staging, lock, request, surroundings>>

\* The upload saves spec, plan and source; a rerun saves the plan of a spec
\* that is still there.
SavePlan(w) ==
  /\ step[w] = "save"
  /\ \/ /\ w \in Papers \/ Paper(w) \in specs
        /\ plans' = plans \cup {Paper(w)}
        /\ specs' = IF w \in Papers THEN specs \cup {w} ELSE specs
        /\ sources' = IF w \in Papers THEN sources \cup {w} ELSE sources
        /\ At(w, "saved")
     \/ /\ faulty \/ (w \in Clients /\ Paper(w) \notin specs)
        /\ UNCHANGED bundle
        /\ At(w, "plan_failed")
  /\ UNCHANGED <<job, staging, lock, request, surroundings>>

MarkReady(w) ==
  /\ step[w] = "saved"
  /\ Update(w, Paper(w), "ready", "release", "plan_failed")
  /\ UNCHANGED <<bundle, staging, lock, request, surroundings>>

(***************************************************************************)
(* Clients: rerun, reparse and the edits of a plan (correction, undo,      *)
(* user supply, regeneration), each under the paper's lock                 *)
(***************************************************************************)

\* A rerun checks the row and its age before the lock, a reparse the plan and
\* the unexpired source; an edit checks nothing before it holds the lock.
AskFor(c, kind, p) ==
  /\ step[c] = "idle"
  /\ process = "up"
  /\ \/ kind = "rerun"   /\ job[p] # "none" /\ p \notin expired
     \/ kind = "reparse" /\ p \in plans \cap sources /\ p \notin expired
     \/ kind = "edit"
  /\ request' = [request EXCEPT ![c] = [kind |-> kind, paper |-> p]]
  /\ At(c, "acquire")
  /\ UNCHANGED <<job, bundle, staging, lock, surroundings>>

\* Spec extraction and plan generation of a reparse, or the reads and the LLM
\* calls of an edit; what fails leaves the store alone.
PrepareChange(c) ==
  /\ step[c] = "start" /\ (Is(c, "reparse") \/ Is(c, "edit"))
  /\ \/ At(c, "release")
     \/ Is(c, "reparse") /\ At(c, "commit")
     \/ Is(c, "edit") /\ Paper(c) \in plans /\ At(c, "commit")
  /\ UNCHANGED <<job, bundle, staging, lock, request, surroundings>>

\* replace_ready_bundle_with_source: all three rows must still be there, and the
\* job row goes. (Any failure rolls the transaction back.)
CommitReparse(c) ==
  /\ step[c] = "commit" /\ Is(c, "reparse")
  /\ \/ /\ Paper(c) \in specs \cap plans \cap sources
        /\ job' = [job EXCEPT ![Paper(c)] = "none"]
     \/ /\ Paper(c) \notin specs \cap plans \cap sources \/ faulty
        /\ UNCHANGED job
  /\ At(c, "release")
  /\ UNCHANGED <<bundle, staging, lock, request, surroundings>>

\* set_plan: inserts or overwrites the plan of a spec that is still there.
CommitEdit(c) ==
  /\ step[c] = "commit" /\ Is(c, "edit")
  /\ \/ Paper(c) \in specs /\ plans' = plans \cup {Paper(c)}
     \/ (Paper(c) \notin specs \/ faulty) /\ UNCHANGED plans
  /\ At(c, "release")
  /\ UNCHANGED <<job, specs, sources, staging, lock, request, surroundings>>

(***************************************************************************)
(* The cleanup worker                                                      *)
(***************************************************************************)

\* A paper reaches its retention time. An upload runs for minutes and the
\* retention is counted in hours, so no upload is still running then.
Age(p) ==
  /\ step[p] = "done"
  /\ p \notin expired
  /\ expired' = expired \cup {p}
  /\ UNCHANGED <<job, bundle, staging, lock, mode, faulty, step, request, process, toSweep, condemned>>

\* delete_expired_paper_bundles: one transaction, and no lock.
DeleteExpired ==
  /\ process = "up"
  /\ \E p \in expired : job[p] # "none" \/ p \in specs \cup plans \cup sources
  /\ job' = [p \in Papers |-> IF p \in expired THEN "none" ELSE job[p]]
  /\ specs' = specs \ expired
  /\ plans' = plans \ expired
  /\ sources' = sources \ expired
  /\ UNCHANGED <<staging, expired, lock, mode, faulty, step, request, process, toSweep, condemned>>

\* _delete_stale_paper_staging reads the job of a directory ...
CondemnStaging(p) ==
  /\ process = "up"
  /\ condemned = NoOne
  /\ p \in staging
  /\ job[p] \in PAPER_STAGING_CLEANUP_STATES \cup {"none"}
  /\ condemned' = p
  /\ UNCHANGED <<job, bundle, staging, expired, lock, mode, faulty, step, request, process, toSweep>>

\* ... and removes it.
RemoveStaging ==
  /\ condemned # NoOne
  /\ staging' = staging \ {condemned} \/ (faulty /\ staging' = staging)
  /\ condemned' = NoOne
  /\ UNCHANGED <<job, bundle, expired, lock, mode, faulty, step, request, process, toSweep>>

(***************************************************************************)
(* The process: BackgroundTasks, requests and locks die with it            *)
(***************************************************************************)
Crash ==
  /\ process # "down"
  /\ process' = "down"
  /\ step' = [w \in Workers |->
               IF w \in Clients THEN "idle" ELSE IF step[w] = "new" THEN "new" ELSE "done"]
  /\ lock' = [p \in Papers |-> NoOne]
  /\ request' = [c \in Clients |-> NoRequest]
  /\ toSweep' = [p \in Papers |-> "nothing"]
  /\ condemned' = NoOne
  /\ UNCHANGED <<job, bundle, staging, expired, mode, faulty>>

\* Mutant: queued jobs are not stale.
Start_NotQueued ==
  /\ process = "down"
  /\ process' = "starting"
  /\ toSweep' = [p \in Papers |-> IF job[p] \in StaleStates \ {"queued"} THEN "job" ELSE "nothing"]
  /\ UNCHANGED <<job, bundle, staging, expired, lock, mode, faulty, step, request, condemned>>

\* list_stale_upload_jobs; a failing list sweeps nothing.
Start ==
  /\ process = "down"
  /\ process' = "starting"
  /\ \/ toSweep' = [p \in Papers |-> IF job[p] \in StaleStates THEN "job" ELSE "nothing"]
     \/ faulty /\ UNCHANGED toSweep
  /\ UNCHANGED <<job, bundle, staging, expired, lock, mode, faulty, step, request, condemned>>

\* Mutant: every stale job without a plan may be retried.
SweptState_AlwaysRetry(p) ==
  {IF p \in plans THEN "ready" ELSE "abandoned_plan_retryable"}

\* _sweep_one_stale_upload_job: a plan makes the job ready, a spec makes it
\* retryable, neither asks for a new upload. A failing plan read counts as no plan.
SweptState(p) ==
  {s \in {"ready", "abandoned_plan_retryable", "abandoned_reupload_required"} :
     \/ s = "ready" /\ p \in plans
     \/ s = "abandoned_plan_retryable" /\ (p \notin plans \/ faulty) /\ p \in specs
     \/ s = "abandoned_reupload_required" /\ (p \notin plans \/ faulty) /\ p \notin specs}

SweepJob(p) ==
  /\ toSweep[p] = "job"
  /\ \/ /\ \E s \in SweptState(p) : job' = [job EXCEPT ![p] = s]
        /\ toSweep' = [toSweep EXCEPT ![p] = "staging"]
     \/ /\ faulty
        /\ UNCHANGED job
        /\ toSweep' = [toSweep EXCEPT ![p] = "nothing"]
  /\ UNCHANGED <<bundle, staging, expired, lock, mode, faulty, step, request, process, condemned>>

SweepStaging(p) ==
  /\ toSweep[p] = "staging"
  /\ staging' = staging \ {p} \/ (faulty /\ staging' = staging)
  /\ toSweep' = [toSweep EXCEPT ![p] = "nothing"]
  /\ UNCHANGED <<job, bundle, expired, lock, mode, faulty, step, request, process, condemned>>

\* Only now are requests served and the cleanup worker started.
Serve ==
  /\ process = "starting"
  /\ \A p \in Papers : toSweep[p] = "nothing"
  /\ process' = "up"
  /\ UNCHANGED <<job, bundle, staging, expired, lock, mode, faulty, step, request, toSweep, condemned>>

(***************************************************************************)
(* The system                                                              *)
(***************************************************************************)
UploadStep(p) ==
  \/ Accept(p) \/ SaveFiles(p) \/ Reject(p) \/ ReadDocuments(p) \/ PrimaryFailed(p)
  \/ DropStaging(p) \/ MarkUploadFailed(p) \/ Fuse(p) \/ PutSpec(p) \/ MarkSpecReady(p)
  \/ MarkPlanBusy(p) \/ StartInitialPlan(p) \/ ReadUnhandled(p) \/ MarkUnhandled(p)

ClientStep(c) == StartRerun(c) \/ ReadSpec(c) \/ PrepareChange(c) \/ CommitReparse(c) \/ CommitEdit(c)

PlanStep(w) ==
  \/ Acquire(w) \/ LockBusy(w) \/ Release(w)
  \/ Generate(w) \/ MarkPlanFailed(w) \/ Persist(w) \/ SavePlan(w) \/ MarkReady(w)

CleanupStep == DeleteExpired \/ RemoveStaging \/ \E p \in Papers : CondemnStaging(p)
StartupStep == Start \/ Serve \/ \E p \in Papers : SweepJob(p) \/ SweepStaging(p)

Next ==
  \/ \E p \in Papers : (process = "up" /\ Begin(p)) \/ UploadStep(p) \/ Age(p)
  \/ \E c \in Clients, p \in Papers, kind \in {"rerun", "reparse", "edit"} : AskFor(c, kind, p)
  \/ \E c \in Clients : ClientStep(c)
  \/ \E w \in Workers : PlanStep(w)
  \/ CleanupStep \/ StartupStep \/ Crash

Spec == Init /\ [][Next]_vars

\* The event loop runs whatever can run, LLM calls end (per-call timeouts and the
\* job's wall clock cap), and the cleanup worker comes round again. The process may
\* die at any time and for ever, but not always at the same line. Nothing may rely
\* on the retention time, so Age has no fairness.
FairSpec ==
  /\ Spec
  /\ \A p \in Papers : WF_vars(UploadStep(p))
  /\ \A c \in Clients : WF_vars(ClientStep(c))
  /\ \A w \in Workers : WF_vars(PlanStep(w))
  /\ SF_vars(DeleteExpired) /\ SF_vars(RemoveStaging)
  /\ \A p \in Papers : SF_vars(CondemnStaging(p))
  /\ SF_vars(Start) /\ SF_vars(Serve)
  /\ \A p \in Papers : SF_vars(SweepJob(p)) /\ SF_vars(SweepStaging(p))

(***************************************************************************)
(* Properties                                                              *)
(***************************************************************************)

\* Every variable has its type.
TypeOK ==
  /\ job \in [Papers -> JobStates \cup {"none"}]
  /\ specs \subseteq Papers /\ plans \subseteq Papers /\ sources \subseteq Papers
  /\ staging \subseteq Papers /\ expired \subseteq Papers
  /\ lock \in [Papers -> Workers \cup {NoOne}]
  /\ mode \in [Papers -> Modes] /\ faulty \in Weather
  /\ step \in [Workers -> UploadSteps \cup {"new", "done", "idle"}]
  /\ \A p \in Papers : step[p] \notin {"idle", "read_spec", "commit"}
  /\ \A c \in Clients : step[c] \in HoldingSteps \cup {"idle", "acquire", "escape"}
  /\ request \in [Clients -> Requests \cup {NoRequest}]
  /\ process \in {"up", "down", "starting"}
  /\ toSweep \in [Papers -> {"nothing", "job", "staging"}]
  /\ condemned \in Papers \cup {NoOne}

\* A worker is between acquire and release exactly when the registry says it
\* holds its paper's lock, whatever way it fails: so two never write one plan at
\* once, and no lock outlives its holder ("escape" is a holder that is leaving).
LockMatchesHolder ==
  \A w \in Workers :
    /\ step[w] \in HoldingSteps => lock[Paper(w)] = w
    /\ \A p \in Papers :
         lock[p] = w => Paper(w) = p /\ step[w] \in HoldingSteps \cup {"escape"}

\* The illegal third state of a bundle, a plan without its spec, is never
\* reached: not by a late save after the retention sweep, not by an edit. A
\* source never outlives its spec either.
PlanNeedsSpec == plans \cup sources \subseteq specs

\* "ready" tells the client to open the result, so spec and plan are stored.
ReadyHasBundle == \A p \in Papers : job[p] = "ready" => p \in specs \cap plans

\* A state that offers to rerun the plan has the spec the rerun starts from,
\* through failures of any call, restarts and the retention sweep.
RetryHasSpec == \A p \in Papers : job[p] \in RerunSources => p \in specs

\* A worker of the paper is there to take the job out of a state that tells
\* the client to wait.
WorkedOn(p) ==
  \/ step[p] \notin {"new", "done"}
  \/ \E c \in Clients : Is(c, "rerun") /\ Paper(c) = p /\ step[c] \in HoldingSteps \ {"start", "release"}

\* What a stored bundle promises, together.
BundleConsistent == PlanNeedsSpec /\ ReadyHasBundle /\ RetryHasSpec

\* While the service is up, nobody waits for a job no one works on: the startup
\* sweep and the background wrapper leave none behind. (A synchronous upload has
\* no wrapper, and a failing database leaves what it leaves.)
WaitingIsWorkedOn ==
  process = "up" /\ ~faulty
    => \A p \in Papers : mode[p] = "async" /\ job[p] \in StaleStates => WorkedOn(p)

\* The original files are there as long as the upload still reads them: no
\* cleanup, startup sweep or late decision of the worker takes them away.
FilesStayWhileRead == \A p \in Papers : step[p] = "docs" => p \in staging

\* Once the retention sweep has deleted a paper, no request still in flight
\* (minutes of LLM calls, no lock shared with the sweep) brings any of it back.
Gone(p) == p \in expired /\ job[p] = "none" /\ p \notin specs \cup plans \cup sources
ExpiredStaysGone == [][\A p \in Papers : Gone(p) => Gone(p)']_vars

\* Every waiting job is settled in the end and the original files of every
\* upload are removed, however often the process dies.
UploadsSettle ==
  \A p \in Papers :
    /\ ~faulty /\ mode[p] = "async" /\ job[p] \in StaleStates ~> job[p] \notin StaleStates
    /\ ~faulty /\ mode[p] = "async" /\ p \in staging ~> p \notin staging

\* What task-525 promises of a synchronous upload: a request that is over has
\* left a terminal state, never "running".
SyncUploadEndsSettled ==
  \A p \in Papers : process = "up" /\ step[p] = "done" => job[p] \notin {"queued", "running"}
=============================================================================
