--------------------------- MODULE ProjectService ---------------------------
(* The service for MATLAB projects as one system: uploads, the worker that  *)
(* deletes, teaching units, overviews and questions share the tables of     *)
(* ProjectStore; a restart ends everything that runs.                       *)
EXTENDS ProjectChat

(* A workload is a record [archive, learners, readers, askers, faults]:     *)
(* what is uploaded for each project, the requests that may arrive, each    *)
(* with what it asks for, and the number of faults.                         *)
CONSTANT Workloads

vars == <<archive, tables, ingestVars, teachingVars, overviewVars, askers>>

NoArchive == <<>>

ASSUME WorkloadsAssumption ==
  \A w \in Workloads :
    /\ w.archive \in [Projects -> DOMAIN Archives \cup {NoArchive}]
    /\ \A l \in DOMAIN w.learners : w.learners[l] \in UnitKeys
    /\ \A r \in DOMAIN w.readers : w.readers[r] \in Projects
    /\ \A a \in DOMAIN w.askers :
         /\ w.askers[a].project \in Projects
         /\ w.askers[a].session \in Sessions \cup {NoSessionName}
    /\ w.faults \in Nat

Init ==
  \E w \in Workloads :
    /\ archive = w.archive
    /\ rows = [p \in Projects |-> NoRow] /\ aged = {}
    /\ chunks = [p \in Projects |-> {}]
    /\ sessions = [s \in Sessions |-> NoSession]
    /\ units = [key \in UnitKeys |-> NoUnit]
    /\ dirs = {} /\ writers = {} /\ sweep = IdleSweep
    /\ faults = [left |-> w.faults, met |-> FALSE]
    /\ tasks = [p \in Projects |->
                  IF archive[p] = NoArchive THEN DoneTask ELSE NoTask]
    /\ learners = [l \in Learners |-> IF l \in DOMAIN w.learners
                                      THEN NewLearner(w.learners[l]) ELSE Answered]
    /\ locks = [key \in UnitKeys |-> "none"]
    /\ holders = [l \in Learners |-> "none"]
    /\ readers = [r \in Readers |-> IF r \in DOMAIN w.readers
                                    THEN NewReader(w.readers[r]) ELSE ReaderDone]
    /\ overviews = [p \in Projects |-> NoOverview]
    /\ askers = [a \in Askers |-> IF a \in DOMAIN w.askers
                                  THEN NewAsker(w.askers[a].project, w.askers[a].session)
                                  ELSE AskerDone]

Next ==
  /\ UNCHANGED archive
  /\ \/ IngestStep /\ UNCHANGED <<teachingVars, overviewVars, askers>>
     \/ TeachingStep /\ UNCHANGED <<overviewVars, askers>>
     \/ OverviewStep /\ UNCHANGED askers
     \/ ChatStep
     \/ Restart /\ ForgetLearners /\ ForgetReaders /\ ForgetAskers

(* Tasks, the worker and requests go on; uploads, requests, restarts, late  *)
(* writes and the passing of time need not happen.                          *)
Fairness ==
  /\ \A p \in Projects :
       WF_vars(ProcessStep(p) /\ UNCHANGED <<archive, teachingVars, overviewVars, askers>>)
  /\ WF_vars(WorkerStep /\ UNCHANGED <<archive, teachingVars, overviewVars, askers>>)
  /\ \A l \in Learners :
       WF_vars(LearnerStep(l) /\ UNCHANGED <<archive, restOfTeaching, overviewVars, askers>>)
  /\ \A r \in Readers :
       WF_vars(ReaderStep(r) /\ UNCHANGED <<archive, faults, restOfOverview, askers>>)
  /\ \A a \in Askers :
       WF_vars(AskerStep(a) /\ UNCHANGED <<archive, faults, restOfChat>>)

Spec == Init /\ [][Next]_vars /\ Fairness

----------------------------------------------------------------------------
(* In the end nothing is under way: every upload that was started has its   *)
(* row out of "parsing", every request that arrived is answered, also if it *)
(* had to queue for a lock, and no project stays past its time to live;     *)
(* only a fault may prevent the first and the last.                         *)
UploadsSettled ==
  \A p \in Projects :
    /\ tasks[p].pc \in {"none", "done"}
    /\ tasks[p].pc = "done" => rows[p].state # "parsing" \/ faults.met

RequestsSettled ==
  /\ \A l \in Learners : learners[l].pc \in {"new", "answered"}
  /\ \A r \in Readers : readers[r].pc \in {"new", "answered"}
  /\ \A a \in Askers : askers[a].pc \in {"new", "answered"}

ExpiredAreGone == aged = {} \/ faults.met

EverythingEnds == <>[](UploadsSettled /\ RequestsSettled /\ ExpiredAreGone)
=============================================================================
