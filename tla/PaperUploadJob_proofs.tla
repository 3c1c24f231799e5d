----------------------- MODULE PaperUploadJob_proofs -----------------------
(***************************************************************************)
(* What holds of paper upload jobs for any number of papers and of         *)
(* requests in flight, in either execution mode, with or without faults.   *)
(*                                                                         *)
(* The safety invariants say what a job state promises about stored rows,  *)
(* but a worker writes the state some steps after it saw the row, and the  *)
(* retention sweep may delete it in between.  The strengthening follows    *)
(* each worker through those steps: the upload still finds its rows, since *)
(* nothing expires under it, and a rerun finds its spec or no job row, in  *)
(* which case its writes fail.                                             *)
(***************************************************************************)
EXTENDS PaperUploadJob, TLAPS

PlanPhase == {"generate", "persist", "save", "saved", "plan_failed", "plan_refused"}

(* A client is idle exactly when it asks nothing; only a rerun, asked of a *)
(* paper whose upload had begun, is ever in the plan phase.                *)
RequestInv ==
  \A c \in Clients :
    /\ step[c] = "idle" \/ request[c] \in Requests
    /\ step[c] \in PlanPhase \cup {"read_spec"} => request[c].kind = "rerun"
    /\ request[c].kind = "rerun" => step[request[c].paper] # "new"

(* Nobody works while the process is not up, and the startup sweep deals   *)
(* with the jobs it listed before anyone else touches them.                *)
ProcessInv ==
  /\ process # "up" => /\ \A p \in Papers : step[p] \in {"new", "done"}
                       /\ \A c \in Clients : step[c] = "idle"
                       /\ condemned = NoOne
  /\ \A p \in Papers : toSweep[p] # "nothing" => process = "starting"
  /\ \A p \in Papers : toSweep[p] = "job" => job[p] \in StaleStates

(* How far an upload has come: no rows before it began, no spec while it   *)
(* reads documents, a spec from put_spec on, a plan from the save on, and  *)
(* retention only when it is over.                                         *)
UploadInv ==
  \A p \in Papers :
    /\ step[p] = "new" => job[p] = "none"
    /\ step[p] \in {"new", "accept", "saving", "docs"} => p \notin specs \cup plans \cup sources
    /\ step[p] \in {"new", "accept"} => p \notin staging
    /\ step[p] = "accept" => job[p] = "queued"
    /\ step[p] \in {"saving", "docs"} => job[p] = "running"
    /\ step[p] = "docs" => p \in staging
    /\ step[p] \in PlanPhase \cup {"spec_stored", "acquire", "busy", "start", "mark_plan_failure"}
         => p \in specs
    /\ step[p] = "saved" => p \in plans
    /\ p \in expired => step[p] = "done"

CondemnedInv ==
  condemned # NoOne => step[condemned] \notin {"new", "accept", "saving", "docs"}

(* What a rerun saw is still there, or the job row is gone with it.        *)
RerunInv ==
  \A c \in Clients :
    /\ step[c] \in PlanPhase \cup {"read_spec"}
         => job[request[c].paper] = "none" \/ request[c].paper \in specs
    /\ step[c] = "saved"
         => job[request[c].paper] = "none" \/ request[c].paper \in plans

(* A job in its plan phase, waiting for a retry, or ready, has its spec.   *)
SpecBehindJob ==
  \A p \in Papers : job[p] \in RerunSources \cup {"plan_generating", "ready"} => p \in specs

Shape == TypeOK /\ RequestInv /\ ProcessInv
Rows == PlanNeedsSpec /\ UploadInv /\ RerunInv /\ SpecBehindJob /\ ReadyHasBundle
IndInv == Shape /\ Rows /\ CondemnedInv /\ LockMatchesHolder

(* Types, requests and the process: a rerun is asked of a paper that has a *)
(* job row, so its upload has begun.                                       *)
LEMMA ShapeStep ==
  Shape /\ UploadInv /\ [Next]_vars => Shape'
<1> SUFFICES ASSUME Shape /\ UploadInv, [Next]_vars PROVE Shape'
  OBVIOUS
<1> USE WorkersDistinct
    DEF At, bundle, surroundings, Paper, Workers, NoRequest, Requests,
        JobStates, StaleStates, RerunSources, PAPER_STAGING_CLEANUP_STATES,
        HoldingSteps, UploadSteps, PlanPhase,
        Shape, TypeOK, RequestInv, ProcessInv
<1>1. ASSUME NEW p \in Papers, process = "up", Begin(p) PROVE Shape'
  BY <1>1 DEF Begin
<1>2. ASSUME NEW p \in Papers, Age(p) PROVE Shape'
  BY <1>2 DEF Age
<1>3. ASSUME NEW p \in Papers, CondemnStaging(p) PROVE Shape'
  BY <1>3 DEF CondemnStaging
<1>4. ASSUME NEW p \in Papers, SweepJob(p) PROVE Shape'
  BY <1>4 DEF SweepJob, SweptState
<1>5. ASSUME NEW p \in Papers, SweepStaging(p) PROVE Shape'
  BY <1>5 DEF SweepStaging
<1>6. ASSUME NEW c \in Clients, NEW p \in Papers, NEW kind \in {"rerun", "reparse", "edit"},
            AskFor(c, kind, p)
     PROVE  Shape'
  BY <1>6 DEF AskFor, UploadInv
<1>7. ASSUME NEW p \in Papers, Accept(p) PROVE Shape'
  BY <1>7 DEF Accept, Update
<1>8. ASSUME NEW p \in Papers, SaveFiles(p) PROVE Shape'
  BY <1>8 DEF SaveFiles
<1>9. ASSUME NEW p \in Papers, Reject(p) PROVE Shape'
  BY <1>9 DEF Reject, Update
<1>10. ASSUME NEW p \in Papers, ReadDocuments(p) PROVE Shape'
  BY <1>10 DEF ReadDocuments
<1>11. ASSUME NEW p \in Papers, PrimaryFailed(p) PROVE Shape'
  BY <1>11 DEF PrimaryFailed, Update
<1>12. ASSUME NEW p \in Papers, DropStaging(p) PROVE Shape'
  BY <1>12 DEF DropStaging, AfterStaging
<1>13. ASSUME NEW p \in Papers, MarkUploadFailed(p) PROVE Shape'
  BY <1>13 DEF MarkUploadFailed, Update
<1>14. ASSUME NEW p \in Papers, Fuse(p) PROVE Shape'
  BY <1>14 DEF Fuse, Update
<1>15. ASSUME NEW p \in Papers, PutSpec(p) PROVE Shape'
  BY <1>15 DEF PutSpec
<1>16. ASSUME NEW p \in Papers, MarkSpecReady(p) PROVE Shape'
  BY <1>16 DEF MarkSpecReady, Update
<1>17. ASSUME NEW p \in Papers, MarkPlanBusy(p) PROVE Shape'
  BY <1>17 DEF MarkPlanBusy, Update
<1>18. ASSUME NEW p \in Papers, StartInitialPlan(p) PROVE Shape'
  BY <1>18 DEF StartInitialPlan, StartPlan
<1>19. ASSUME NEW p \in Papers, ReadUnhandled(p) PROVE Shape'
  BY <1>19 DEF ReadUnhandled
<1>20. ASSUME NEW p \in Papers, MarkUnhandled(p) PROVE Shape'
  BY <1>20 DEF MarkUnhandled, Update
<1>21. ASSUME NEW c \in Clients, StartRerun(c) PROVE Shape'
  BY <1>21 DEF StartRerun, StartPlan, Is
<1>22. ASSUME NEW c \in Clients, ReadSpec(c) PROVE Shape'
  BY <1>22 DEF ReadSpec, Update
<1>23. ASSUME NEW c \in Clients, PrepareChange(c) PROVE Shape'
  BY <1>23 DEF PrepareChange, Is
<1>24. ASSUME NEW c \in Clients, CommitReparse(c) PROVE Shape'
  BY <1>24 DEF CommitReparse, Is
<1>25. ASSUME NEW c \in Clients, CommitEdit(c) PROVE Shape'
  BY <1>25 DEF CommitEdit, Is
<1>26. ASSUME NEW w \in Workers, Acquire(w) PROVE Shape'
  BY <1>26 DEF Acquire
<1>27. ASSUME NEW w \in Workers, LockBusy(w) PROVE Shape'
  BY <1>27 DEF LockBusy
<1>28. ASSUME NEW w \in Workers, Release(w) PROVE Shape'
  BY <1>28 DEF Release
<1>29. ASSUME NEW w \in Workers, Generate(w) PROVE Shape'
  BY <1>29 DEF Generate
<1>30. ASSUME NEW w \in Workers, MarkPlanFailed(w) PROVE Shape'
  BY <1>30 DEF MarkPlanFailed, Update
<1>31. ASSUME NEW w \in Workers, Persist(w) PROVE Shape'
  BY <1>31 DEF Persist, Update
<1>32. ASSUME NEW w \in Workers, SavePlan(w) PROVE Shape'
  BY <1>32 DEF SavePlan
<1>33. ASSUME NEW w \in Workers, MarkReady(w) PROVE Shape'
  BY <1>33 DEF MarkReady, Update
<1>34. CASE DeleteExpired
  BY <1>34 DEF DeleteExpired
<1>35. CASE RemoveStaging
  BY <1>35 DEF RemoveStaging
<1>36. CASE Start
  BY <1>36 DEF Start
<1>37. CASE Serve
  BY <1>37 DEF Serve
<1>38. CASE Crash
  BY <1>38 DEF Crash
<1>39. CASE UNCHANGED vars
  BY <1>39 DEF vars
<1> HIDE DEF Shape, At
<1> QED
  BY <1>1, <1>2, <1>3, <1>4, <1>5, <1>6, <1>7, <1>8, <1>9, <1>10, <1>11, <1>12,
     <1>13, <1>14, <1>15, <1>16, <1>17, <1>18, <1>19, <1>20, <1>21, <1>22, <1>23, <1>24,
     <1>25, <1>26, <1>27, <1>28, <1>29, <1>30, <1>31, <1>32, <1>33, <1>34, <1>35, <1>36,
     <1>37, <1>38, <1>39
  DEF Next, UploadStep, ClientStep, PlanStep, CleanupStep, StartupStep, vars

(* Rows: each step keeps what the workers still rely on.                   *)
LEMMA RowsStep ==
  Shape /\ Rows /\ CondemnedInv /\ [Next]_vars => Rows'
<1> SUFFICES ASSUME Shape /\ Rows /\ CondemnedInv, [Next]_vars PROVE Rows'
  OBVIOUS
<1> USE WorkersDistinct
    DEF At, bundle, surroundings, Paper, Workers, NoRequest, Requests,
        JobStates, StaleStates, RerunSources, PAPER_STAGING_CLEANUP_STATES,
        HoldingSteps, UploadSteps, PlanPhase,
        Shape, TypeOK, RequestInv, ProcessInv,
        Rows, PlanNeedsSpec, UploadInv, RerunInv, SpecBehindJob, ReadyHasBundle, CondemnedInv
<1>1. ASSUME NEW p \in Papers, process = "up", Begin(p) PROVE Rows'
  BY <1>1 DEF Begin
<1>2. ASSUME NEW p \in Papers, Age(p) PROVE Rows'
  BY <1>2 DEF Age
<1>3. ASSUME NEW p \in Papers, CondemnStaging(p) PROVE Rows'
  BY <1>3 DEF CondemnStaging
<1>4. ASSUME NEW p \in Papers, SweepJob(p) PROVE Rows'
  BY <1>4 DEF SweepJob, SweptState
<1>5. ASSUME NEW p \in Papers, SweepStaging(p) PROVE Rows'
  BY <1>5 DEF SweepStaging
<1>6. ASSUME NEW c \in Clients, NEW p \in Papers, NEW kind \in {"rerun", "reparse", "edit"},
            AskFor(c, kind, p)
     PROVE  Rows'
  BY <1>6 DEF AskFor
<1>7. ASSUME NEW p \in Papers, Accept(p) PROVE Rows'
  BY <1>7 DEF Accept, Update
<1>8. ASSUME NEW p \in Papers, SaveFiles(p) PROVE Rows'
  BY <1>8 DEF SaveFiles
<1>9. ASSUME NEW p \in Papers, Reject(p) PROVE Rows'
  BY <1>9 DEF Reject, Update
<1>10. ASSUME NEW p \in Papers, ReadDocuments(p) PROVE Rows'
  BY <1>10 DEF ReadDocuments
<1>11. ASSUME NEW p \in Papers, PrimaryFailed(p) PROVE Rows'
  BY <1>11 DEF PrimaryFailed, Update
<1>12. ASSUME NEW p \in Papers, DropStaging(p) PROVE Rows'
  BY <1>12 DEF DropStaging, AfterStaging
<1>13. ASSUME NEW p \in Papers, MarkUploadFailed(p) PROVE Rows'
  BY <1>13 DEF MarkUploadFailed, Update
<1>14. ASSUME NEW p \in Papers, Fuse(p) PROVE Rows'
  BY <1>14 DEF Fuse, Update
<1>15. ASSUME NEW p \in Papers, PutSpec(p) PROVE Rows'
  BY <1>15 DEF PutSpec
<1>16. ASSUME NEW p \in Papers, MarkSpecReady(p) PROVE Rows'
  BY <1>16 DEF MarkSpecReady, Update
<1>17. ASSUME NEW p \in Papers, MarkPlanBusy(p) PROVE Rows'
  BY <1>17 DEF MarkPlanBusy, Update
<1>18. ASSUME NEW p \in Papers, StartInitialPlan(p) PROVE Rows'
  BY <1>18 DEF StartInitialPlan, StartPlan
<1>19. ASSUME NEW p \in Papers, ReadUnhandled(p) PROVE Rows'
  BY <1>19 DEF ReadUnhandled
<1>20. ASSUME NEW p \in Papers, MarkUnhandled(p) PROVE Rows'
  BY <1>20 DEF MarkUnhandled, Update
<1>21. ASSUME NEW c \in Clients, StartRerun(c) PROVE Rows'
  BY <1>21 DEF StartRerun, StartPlan, Is
<1>22. ASSUME NEW c \in Clients, ReadSpec(c) PROVE Rows'
  BY <1>22 DEF ReadSpec, Update
<1>23. ASSUME NEW c \in Clients, PrepareChange(c) PROVE Rows'
  BY <1>23 DEF PrepareChange, Is
<1>24. ASSUME NEW c \in Clients, CommitReparse(c) PROVE Rows'
  BY <1>24 DEF CommitReparse, Is
<1>25. ASSUME NEW c \in Clients, CommitEdit(c) PROVE Rows'
  BY <1>25 DEF CommitEdit, Is
<1>26. ASSUME NEW w \in Workers, Acquire(w) PROVE Rows'
  BY <1>26 DEF Acquire
<1>27. ASSUME NEW w \in Workers, LockBusy(w) PROVE Rows'
  BY <1>27 DEF LockBusy
<1>28. ASSUME NEW w \in Workers, Release(w) PROVE Rows'
  BY <1>28 DEF Release
<1>29. ASSUME NEW w \in Workers, Generate(w) PROVE Rows'
  BY <1>29 DEF Generate
<1>30. ASSUME NEW w \in Workers, MarkPlanFailed(w) PROVE Rows'
  BY <1>30 DEF MarkPlanFailed, Update
<1>31. ASSUME NEW w \in Workers, Persist(w) PROVE Rows'
  BY <1>31 DEF Persist, Update
<1>32. ASSUME NEW w \in Workers, SavePlan(w) PROVE Rows'
  BY <1>32 DEF SavePlan
<1>33. ASSUME NEW w \in Workers, MarkReady(w) PROVE Rows'
  BY <1>33 DEF MarkReady, Update
<1>34. CASE DeleteExpired
  BY <1>34 DEF DeleteExpired
<1>35. CASE RemoveStaging
  BY <1>35 DEF RemoveStaging
<1>36. CASE Start
  BY <1>36 DEF Start
<1>37. CASE Serve
  BY <1>37 DEF Serve
<1>38. CASE Crash
  BY <1>38 DEF Crash
<1>39. CASE UNCHANGED vars
  BY <1>39 DEF vars
<1> HIDE DEF Rows, Shape, At
<1> QED
  BY <1>1, <1>2, <1>3, <1>4, <1>5, <1>6, <1>7, <1>8, <1>9, <1>10, <1>11, <1>12,
     <1>13, <1>14, <1>15, <1>16, <1>17, <1>18, <1>19, <1>20, <1>21, <1>22, <1>23, <1>24,
     <1>25, <1>26, <1>27, <1>28, <1>29, <1>30, <1>31, <1>32, <1>33, <1>34, <1>35, <1>36,
     <1>37, <1>38, <1>39
  DEF Next, UploadStep, ClientStep, PlanStep, CleanupStep, StartupStep, vars

(* A condemned directory is not one an upload still has to read: its job   *)
(* would be queued or running, and no such job comes back later.           *)
LEMMA CondemnedStep ==
  Shape /\ Rows /\ CondemnedInv /\ [Next]_vars => CondemnedInv'
<1> SUFFICES ASSUME Shape /\ Rows /\ CondemnedInv, [Next]_vars PROVE CondemnedInv'
  OBVIOUS
<1> USE WorkersDistinct
    DEF At, bundle, surroundings, Paper, Workers, NoRequest, Requests,
        JobStates, StaleStates, RerunSources, PAPER_STAGING_CLEANUP_STATES,
        HoldingSteps, UploadSteps, PlanPhase,
        Shape, TypeOK, RequestInv, ProcessInv,
        Rows, UploadInv, CondemnedInv
<1>1. ASSUME NEW p \in Papers, process = "up", Begin(p) PROVE CondemnedInv'
  BY <1>1 DEF Begin
<1>2. ASSUME NEW p \in Papers, Age(p) PROVE CondemnedInv'
  BY <1>2 DEF Age
<1>3. ASSUME NEW p \in Papers, CondemnStaging(p) PROVE CondemnedInv'
  BY <1>3 DEF CondemnStaging
<1>4. ASSUME NEW p \in Papers, SweepJob(p) PROVE CondemnedInv'
  BY <1>4 DEF SweepJob, SweptState
<1>5. ASSUME NEW p \in Papers, SweepStaging(p) PROVE CondemnedInv'
  BY <1>5 DEF SweepStaging
<1>6. ASSUME NEW c \in Clients, NEW p \in Papers, NEW kind \in {"rerun", "reparse", "edit"},
            AskFor(c, kind, p)
     PROVE  CondemnedInv'
  BY <1>6 DEF AskFor
<1>7. ASSUME NEW p \in Papers, Accept(p) PROVE CondemnedInv'
  BY <1>7 DEF Accept, Update
<1>8. ASSUME NEW p \in Papers, SaveFiles(p) PROVE CondemnedInv'
  BY <1>8 DEF SaveFiles
<1>9. ASSUME NEW p \in Papers, Reject(p) PROVE CondemnedInv'
  BY <1>9 DEF Reject, Update
<1>10. ASSUME NEW p \in Papers, ReadDocuments(p) PROVE CondemnedInv'
  BY <1>10 DEF ReadDocuments
<1>11. ASSUME NEW p \in Papers, PrimaryFailed(p) PROVE CondemnedInv'
  BY <1>11 DEF PrimaryFailed, Update
<1>12. ASSUME NEW p \in Papers, DropStaging(p) PROVE CondemnedInv'
  BY <1>12 DEF DropStaging, AfterStaging
<1>13. ASSUME NEW p \in Papers, MarkUploadFailed(p) PROVE CondemnedInv'
  BY <1>13 DEF MarkUploadFailed, Update
<1>14. ASSUME NEW p \in Papers, Fuse(p) PROVE CondemnedInv'
  BY <1>14 DEF Fuse, Update
<1>15. ASSUME NEW p \in Papers, PutSpec(p) PROVE CondemnedInv'
  BY <1>15 DEF PutSpec
<1>16. ASSUME NEW p \in Papers, MarkSpecReady(p) PROVE CondemnedInv'
  BY <1>16 DEF MarkSpecReady, Update
<1>17. ASSUME NEW p \in Papers, MarkPlanBusy(p) PROVE CondemnedInv'
  BY <1>17 DEF MarkPlanBusy, Update
<1>18. ASSUME NEW p \in Papers, StartInitialPlan(p) PROVE CondemnedInv'
  BY <1>18 DEF StartInitialPlan, StartPlan
<1>19. ASSUME NEW p \in Papers, ReadUnhandled(p) PROVE CondemnedInv'
  BY <1>19 DEF ReadUnhandled
<1>20. ASSUME NEW p \in Papers, MarkUnhandled(p) PROVE CondemnedInv'
  BY <1>20 DEF MarkUnhandled, Update
<1>21. ASSUME NEW c \in Clients, StartRerun(c) PROVE CondemnedInv'
  BY <1>21 DEF StartRerun, StartPlan, Is
<1>22. ASSUME NEW c \in Clients, ReadSpec(c) PROVE CondemnedInv'
  BY <1>22 DEF ReadSpec, Update
<1>23. ASSUME NEW c \in Clients, PrepareChange(c) PROVE CondemnedInv'
  BY <1>23 DEF PrepareChange, Is
<1>24. ASSUME NEW c \in Clients, CommitReparse(c) PROVE CondemnedInv'
  BY <1>24 DEF CommitReparse, Is
<1>25. ASSUME NEW c \in Clients, CommitEdit(c) PROVE CondemnedInv'
  BY <1>25 DEF CommitEdit, Is
<1>26. ASSUME NEW w \in Workers, Acquire(w) PROVE CondemnedInv'
  BY <1>26 DEF Acquire
<1>27. ASSUME NEW w \in Workers, LockBusy(w) PROVE CondemnedInv'
  BY <1>27 DEF LockBusy
<1>28. ASSUME NEW w \in Workers, Release(w) PROVE CondemnedInv'
  BY <1>28 DEF Release
<1>29. ASSUME NEW w \in Workers, Generate(w) PROVE CondemnedInv'
  BY <1>29 DEF Generate
<1>30. ASSUME NEW w \in Workers, MarkPlanFailed(w) PROVE CondemnedInv'
  BY <1>30 DEF MarkPlanFailed, Update
<1>31. ASSUME NEW w \in Workers, Persist(w) PROVE CondemnedInv'
  BY <1>31 DEF Persist, Update
<1>32. ASSUME NEW w \in Workers, SavePlan(w) PROVE CondemnedInv'
  BY <1>32 DEF SavePlan
<1>33. ASSUME NEW w \in Workers, MarkReady(w) PROVE CondemnedInv'
  BY <1>33 DEF MarkReady, Update
<1>34. CASE DeleteExpired
  BY <1>34 DEF DeleteExpired
<1>35. CASE RemoveStaging
  BY <1>35 DEF RemoveStaging
<1>36. CASE Start
  BY <1>36 DEF Start
<1>37. CASE Serve
  BY <1>37 DEF Serve
<1>38. CASE Crash
  BY <1>38 DEF Crash
<1>39. CASE UNCHANGED vars
  BY <1>39 DEF vars
<1> HIDE DEF CondemnedInv
<1> QED
  BY <1>1, <1>2, <1>3, <1>4, <1>5, <1>6, <1>7, <1>8, <1>9, <1>10, <1>11, <1>12,
     <1>13, <1>14, <1>15, <1>16, <1>17, <1>18, <1>19, <1>20, <1>21, <1>22, <1>23, <1>24,
     <1>25, <1>26, <1>27, <1>28, <1>29, <1>30, <1>31, <1>32, <1>33, <1>34, <1>35, <1>36,
     <1>37, <1>38, <1>39
  DEF Next, UploadStep, ClientStep, PlanStep, CleanupStep, StartupStep, vars

(* Locks: a worker enters the holding steps only through acquire, stays on *)
(* the paper it asked for, and leaves them only through release.           *)
LEMMA LockStep ==
  Shape /\ LockMatchesHolder /\ [Next]_vars => LockMatchesHolder'
<1> SUFFICES ASSUME Shape /\ LockMatchesHolder, [Next]_vars PROVE LockMatchesHolder'
  OBVIOUS
<1> USE WorkersDistinct
    DEF At, bundle, surroundings, Paper, Workers, NoRequest, Requests,
        HoldingSteps, UploadSteps, PlanPhase,
        Shape, TypeOK, RequestInv, ProcessInv,
        LockMatchesHolder
<1>1. ASSUME NEW p \in Papers, process = "up", Begin(p) PROVE LockMatchesHolder'
  BY <1>1 DEF Begin
<1>2. ASSUME NEW p \in Papers, Age(p) PROVE LockMatchesHolder'
  BY <1>2 DEF Age
<1>3. ASSUME NEW p \in Papers, CondemnStaging(p) PROVE LockMatchesHolder'
  BY <1>3 DEF CondemnStaging
<1>4. ASSUME NEW p \in Papers, SweepJob(p) PROVE LockMatchesHolder'
  BY <1>4 DEF SweepJob, SweptState
<1>5. ASSUME NEW p \in Papers, SweepStaging(p) PROVE LockMatchesHolder'
  BY <1>5 DEF SweepStaging
<1>6. ASSUME NEW c \in Clients, NEW p \in Papers, NEW kind \in {"rerun", "reparse", "edit"},
            AskFor(c, kind, p)
     PROVE  LockMatchesHolder'
  BY <1>6 DEF AskFor
<1>7. ASSUME NEW p \in Papers, Accept(p) PROVE LockMatchesHolder'
  BY <1>7 DEF Accept, Update
<1>8. ASSUME NEW p \in Papers, SaveFiles(p) PROVE LockMatchesHolder'
  BY <1>8 DEF SaveFiles
<1>9. ASSUME NEW p \in Papers, Reject(p) PROVE LockMatchesHolder'
  BY <1>9 DEF Reject, Update
<1>10. ASSUME NEW p \in Papers, ReadDocuments(p) PROVE LockMatchesHolder'
  BY <1>10 DEF ReadDocuments
<1>11. ASSUME NEW p \in Papers, PrimaryFailed(p) PROVE LockMatchesHolder'
  BY <1>11 DEF PrimaryFailed, Update
<1>12. ASSUME NEW p \in Papers, DropStaging(p) PROVE LockMatchesHolder'
  BY <1>12 DEF DropStaging, AfterStaging
<1>13. ASSUME NEW p \in Papers, MarkUploadFailed(p) PROVE LockMatchesHolder'
  BY <1>13 DEF MarkUploadFailed, Update
<1>14. ASSUME NEW p \in Papers, Fuse(p) PROVE LockMatchesHolder'
  BY <1>14 DEF Fuse, Update
<1>15. ASSUME NEW p \in Papers, PutSpec(p) PROVE LockMatchesHolder'
  BY <1>15 DEF PutSpec
<1>16. ASSUME NEW p \in Papers, MarkSpecReady(p) PROVE LockMatchesHolder'
  BY <1>16 DEF MarkSpecReady, Update
<1>17. ASSUME NEW p \in Papers, MarkPlanBusy(p) PROVE LockMatchesHolder'
  BY <1>17 DEF MarkPlanBusy, Update
<1>18. ASSUME NEW p \in Papers, StartInitialPlan(p) PROVE LockMatchesHolder'
  BY <1>18 DEF StartInitialPlan, StartPlan
<1>19. ASSUME NEW p \in Papers, ReadUnhandled(p) PROVE LockMatchesHolder'
  BY <1>19 DEF ReadUnhandled
<1>20. ASSUME NEW p \in Papers, MarkUnhandled(p) PROVE LockMatchesHolder'
  BY <1>20 DEF MarkUnhandled, Update
<1>21. ASSUME NEW c \in Clients, StartRerun(c) PROVE LockMatchesHolder'
  BY <1>21 DEF StartRerun, StartPlan, Is
<1>22. ASSUME NEW c \in Clients, ReadSpec(c) PROVE LockMatchesHolder'
  BY <1>22 DEF ReadSpec, Update
<1>23. ASSUME NEW c \in Clients, PrepareChange(c) PROVE LockMatchesHolder'
  BY <1>23 DEF PrepareChange, Is
<1>24. ASSUME NEW c \in Clients, CommitReparse(c) PROVE LockMatchesHolder'
  BY <1>24 DEF CommitReparse, Is
<1>25. ASSUME NEW c \in Clients, CommitEdit(c) PROVE LockMatchesHolder'
  BY <1>25 DEF CommitEdit, Is
<1>26. ASSUME NEW w \in Workers, Acquire(w) PROVE LockMatchesHolder'
  BY <1>26 DEF Acquire
<1>27. ASSUME NEW w \in Workers, LockBusy(w) PROVE LockMatchesHolder'
  BY <1>27 DEF LockBusy
<1>28. ASSUME NEW w \in Workers, Release(w) PROVE LockMatchesHolder'
  BY <1>28 DEF Release
<1>29. ASSUME NEW w \in Workers, Generate(w) PROVE LockMatchesHolder'
  BY <1>29 DEF Generate
<1>30. ASSUME NEW w \in Workers, MarkPlanFailed(w) PROVE LockMatchesHolder'
  BY <1>30 DEF MarkPlanFailed, Update
<1>31. ASSUME NEW w \in Workers, Persist(w) PROVE LockMatchesHolder'
  BY <1>31 DEF Persist, Update
<1>32. ASSUME NEW w \in Workers, SavePlan(w) PROVE LockMatchesHolder'
  BY <1>32 DEF SavePlan
<1>33. ASSUME NEW w \in Workers, MarkReady(w) PROVE LockMatchesHolder'
  BY <1>33 DEF MarkReady, Update
<1>34. CASE DeleteExpired
  BY <1>34 DEF DeleteExpired
<1>35. CASE RemoveStaging
  BY <1>35 DEF RemoveStaging
<1>36. CASE Start
  BY <1>36 DEF Start
<1>37. CASE Serve
  BY <1>37 DEF Serve
<1>38. CASE Crash
  BY <1>38 DEF Crash
<1>39. CASE UNCHANGED vars
  BY <1>39 DEF vars
<1> HIDE DEF LockMatchesHolder
<1> QED
  BY <1>1, <1>2, <1>3, <1>4, <1>5, <1>6, <1>7, <1>8, <1>9, <1>10, <1>11, <1>12,
     <1>13, <1>14, <1>15, <1>16, <1>17, <1>18, <1>19, <1>20, <1>21, <1>22, <1>23, <1>24,
     <1>25, <1>26, <1>27, <1>28, <1>29, <1>30, <1>31, <1>32, <1>33, <1>34, <1>35, <1>36,
     <1>37, <1>38, <1>39
  DEF Next, UploadStep, ClientStep, PlanStep, CleanupStep, StartupStep, vars

LEMMA Invariance == Spec => []IndInv
<1>1. Init => IndInv
  <2> SUFFICES ASSUME Init PROVE IndInv
    OBVIOUS
  <2>1. \A w \in Workers : step[w] \in {"new", "idle"}
    BY WorkersDistinct DEF Init, Workers
  <2>2. Shape
    <3>1. TypeOK
      <4>1. /\ job \in [Papers -> JobStates \cup {"none"}]
            /\ lock \in [Papers -> Workers \cup {NoOne}]
            /\ mode \in [Papers -> Modes] /\ faulty \in Weather
            /\ toSweep \in [Papers -> {"nothing", "job", "staging"}]
            /\ process \in {"up", "down", "starting"} /\ condemned \in Papers \cup {NoOne}
        BY DEF Init, JobStates
      <4>2. step \in [Workers -> UploadSteps \cup {"new", "done", "idle"}]
        BY DEF Init
      <4>3. request \in [Clients -> Requests \cup {NoRequest}]
        BY DEF Init
      <4>4. /\ \A p \in Papers : step[p] = "new"
            /\ \A c \in Clients : step[c] = "idle"
        BY WorkersDistinct DEF Init, Workers
      <4> QED
        BY <4>1, <4>2, <4>3, <4>4 DEF Init, TypeOK
    <3>2. RequestInv
      BY WorkersDistinct DEF Init, RequestInv, PlanPhase, NoRequest, Workers
    <3>3. ProcessInv
      BY DEF Init, ProcessInv
    <3> QED
      BY <3>1, <3>2, <3>3 DEF Shape
  <2>3. Rows
    BY WorkersDistinct
    DEF Init, Rows, PlanNeedsSpec, UploadInv, RerunInv, SpecBehindJob, ReadyHasBundle,
        JobStates, RerunSources, PlanPhase, NoRequest, Workers, Paper, Is
  <2>4. CondemnedInv
    BY WorkersDistinct DEF Init, CondemnedInv
  <2>5. LockMatchesHolder
    BY WorkersDistinct, <2>1 DEF Init, LockMatchesHolder, HoldingSteps, Workers
  <2> QED
    BY <2>2, <2>3, <2>4, <2>5 DEF IndInv
<1>2. IndInv /\ [Next]_vars => IndInv'
  BY ShapeStep, RowsStep, CondemnedStep, LockStep DEF IndInv, Rows
<1> QED
  BY <1>1, <1>2, PTL DEF Spec

(* Every variable keeps its type: in particular the job's state stays      *)
(* within the CHECK constraint of paper_upload_job.                        *)
THEOREM UploadTypeCorrect == Spec => []TypeOK
<1>1. IndInv => TypeOK
  BY DEF IndInv, Shape
<1> QED
  BY Invariance, <1>1, PTL

(* PaperReparseLockRegistry: for any number of uploads, reruns, reparses   *)
(* and edits, the lock is held exactly by the worker between acquire and   *)
(* release, on every exit.                                                 *)
THEOREM LockAlwaysMatchesHolder == Spec => []LockMatchesHolder
<1>1. IndInv => LockMatchesHolder
  BY DEF IndInv
<1> QED
  BY Invariance, <1>1, PTL

(* Of the three shapes of a stored bundle, a plan without a spec is never  *)
(* reached, though the retention sweep takes no lock.                      *)
THEOREM PlanAlwaysNeedsSpec == Spec => []PlanNeedsSpec
<1>1. IndInv => PlanNeedsSpec
  BY DEF IndInv, Rows
<1> QED
  BY Invariance, <1>1, PTL

(* A job that answers "open the result" has its spec and its plan.         *)
THEOREM ReadyAlwaysHasBundle == Spec => []ReadyHasBundle
<1>1. IndInv => ReadyHasBundle
  BY DEF IndInv, Rows
<1> QED
  BY Invariance, <1>1, PTL

(* A job that offers a rerun has the spec the rerun reads.                 *)
THEOREM RetryAlwaysHasSpec == Spec => []RetryHasSpec
<1>1. IndInv => RetryHasSpec
  BY DEF IndInv, Rows, SpecBehindJob, RetryHasSpec
<1> QED
  BY Invariance, <1>1, PTL

(* The three promises of a stored bundle together.                         *)
THEOREM BundleAlwaysConsistent == Spec => []BundleConsistent
<1>1. IndInv => BundleConsistent
  BY DEF IndInv, Rows, SpecBehindJob, RetryHasSpec, BundleConsistent
<1> QED
  BY Invariance, <1>1, PTL

(* No cleanup takes the files an upload is reading.                        *)
THEOREM FilesAlwaysStayWhileRead == Spec => []FilesStayWhileRead
<1>1. IndInv => FilesStayWhileRead
  BY DEF IndInv, Rows, UploadInv, FilesStayWhileRead
<1> QED
  BY Invariance, <1>1, PTL

(* Who could bring a deleted paper back: an upload is over before its      *)
(* paper expires, a rerun and an edit save only under a stored spec, every *)
(* job write needs the row, and the startup sweep lists only rows.         *)
LEMMA GoneStep ==
  IndInv /\ [Next]_vars => \A p \in Papers : Gone(p) => Gone(p)'
<1> SUFFICES ASSUME IndInv, [Next]_vars, NEW q \in Papers, Gone(q) PROVE Gone(q)'
  OBVIOUS
<1> USE WorkersDistinct
    DEF At, bundle, surroundings, Paper, Workers, Gone, IndInv, Shape, TypeOK, ProcessInv,
        Rows, UploadInv, PlanNeedsSpec, StaleStates, RerunSources
<1>1. ASSUME NEW p \in Papers, process = "up", Begin(p) PROVE Gone(q)'
  BY <1>1 DEF Begin
<1>2. ASSUME NEW p \in Papers, Age(p) PROVE Gone(q)'
  BY <1>2 DEF Age
<1>3. ASSUME NEW p \in Papers, CondemnStaging(p) PROVE Gone(q)'
  BY <1>3 DEF CondemnStaging
<1>4. ASSUME NEW p \in Papers, SweepJob(p) PROVE Gone(q)'
  BY <1>4 DEF SweepJob, SweptState
<1>5. ASSUME NEW p \in Papers, SweepStaging(p) PROVE Gone(q)'
  BY <1>5 DEF SweepStaging
<1>6. ASSUME NEW c \in Clients, NEW p \in Papers, NEW kind \in {"rerun", "reparse", "edit"},
            AskFor(c, kind, p)
     PROVE  Gone(q)'
  BY <1>6 DEF AskFor
<1>7. ASSUME NEW p \in Papers, Accept(p) PROVE Gone(q)'
  BY <1>7 DEF Accept, Update
<1>8. ASSUME NEW p \in Papers, SaveFiles(p) PROVE Gone(q)'
  BY <1>8 DEF SaveFiles
<1>9. ASSUME NEW p \in Papers, Reject(p) PROVE Gone(q)'
  BY <1>9 DEF Reject, Update
<1>10. ASSUME NEW p \in Papers, ReadDocuments(p) PROVE Gone(q)'
  BY <1>10 DEF ReadDocuments
<1>11. ASSUME NEW p \in Papers, PrimaryFailed(p) PROVE Gone(q)'
  BY <1>11 DEF PrimaryFailed, Update
<1>12. ASSUME NEW p \in Papers, DropStaging(p) PROVE Gone(q)'
  BY <1>12 DEF DropStaging, AfterStaging
<1>13. ASSUME NEW p \in Papers, MarkUploadFailed(p) PROVE Gone(q)'
  BY <1>13 DEF MarkUploadFailed, Update
<1>14. ASSUME NEW p \in Papers, Fuse(p) PROVE Gone(q)'
  BY <1>14 DEF Fuse, Update
<1>15. ASSUME NEW p \in Papers, PutSpec(p) PROVE Gone(q)'
  BY <1>15 DEF PutSpec
<1>16. ASSUME NEW p \in Papers, MarkSpecReady(p) PROVE Gone(q)'
  BY <1>16 DEF MarkSpecReady, Update
<1>17. ASSUME NEW p \in Papers, MarkPlanBusy(p) PROVE Gone(q)'
  BY <1>17 DEF MarkPlanBusy, Update
<1>18. ASSUME NEW p \in Papers, StartInitialPlan(p) PROVE Gone(q)'
  BY <1>18 DEF StartInitialPlan, StartPlan
<1>19. ASSUME NEW p \in Papers, ReadUnhandled(p) PROVE Gone(q)'
  BY <1>19 DEF ReadUnhandled
<1>20. ASSUME NEW p \in Papers, MarkUnhandled(p) PROVE Gone(q)'
  BY <1>20 DEF MarkUnhandled, Update
<1>21. ASSUME NEW c \in Clients, StartRerun(c) PROVE Gone(q)'
  BY <1>21 DEF StartRerun, StartPlan, Is
<1>22. ASSUME NEW c \in Clients, ReadSpec(c) PROVE Gone(q)'
  BY <1>22 DEF ReadSpec, Update
<1>23. ASSUME NEW c \in Clients, PrepareChange(c) PROVE Gone(q)'
  BY <1>23 DEF PrepareChange, Is
<1>24. ASSUME NEW c \in Clients, CommitReparse(c) PROVE Gone(q)'
  BY <1>24 DEF CommitReparse, Is
<1>25. ASSUME NEW c \in Clients, CommitEdit(c) PROVE Gone(q)'
  BY <1>25 DEF CommitEdit, Is
<1>26. ASSUME NEW w \in Workers, Acquire(w) PROVE Gone(q)'
  BY <1>26 DEF Acquire
<1>27. ASSUME NEW w \in Workers, LockBusy(w) PROVE Gone(q)'
  BY <1>27 DEF LockBusy
<1>28. ASSUME NEW w \in Workers, Release(w) PROVE Gone(q)'
  BY <1>28 DEF Release
<1>29. ASSUME NEW w \in Workers, Generate(w) PROVE Gone(q)'
  BY <1>29 DEF Generate
<1>30. ASSUME NEW w \in Workers, MarkPlanFailed(w) PROVE Gone(q)'
  BY <1>30 DEF MarkPlanFailed, Update
<1>31. ASSUME NEW w \in Workers, Persist(w) PROVE Gone(q)'
  BY <1>31 DEF Persist, Update
<1>32. ASSUME NEW w \in Workers, SavePlan(w) PROVE Gone(q)'
  BY <1>32 DEF SavePlan
<1>33. ASSUME NEW w \in Workers, MarkReady(w) PROVE Gone(q)'
  BY <1>33 DEF MarkReady, Update
<1>34. CASE DeleteExpired
  BY <1>34 DEF DeleteExpired
<1>35. CASE RemoveStaging
  BY <1>35 DEF RemoveStaging
<1>36. CASE Start
  BY <1>36 DEF Start
<1>37. CASE Serve
  BY <1>37 DEF Serve
<1>38. CASE Crash
  BY <1>38 DEF Crash
<1>39. CASE UNCHANGED vars
  BY <1>39 DEF vars
<1> HIDE DEF Gone, IndInv, At
<1> QED
  BY <1>1, <1>2, <1>3, <1>4, <1>5, <1>6, <1>7, <1>8, <1>9, <1>10, <1>11, <1>12,
     <1>13, <1>14, <1>15, <1>16, <1>17, <1>18, <1>19, <1>20, <1>21, <1>22, <1>23, <1>24,
     <1>25, <1>26, <1>27, <1>28, <1>29, <1>30, <1>31, <1>32, <1>33, <1>34, <1>35, <1>36,
     <1>37, <1>38, <1>39
  DEF Next, UploadStep, ClientStep, PlanStep, CleanupStep, StartupStep, vars

(* The retention sweep is final: what it deleted stays deleted.            *)
THEOREM ExpiredAlwaysStaysGone == Spec => ExpiredStaysGone
<1>1. IndInv /\ [Next]_vars => [\A p \in Papers : Gone(p) => Gone(p)']_vars
  BY GoneStep
<1> QED
  BY Invariance, <1>1, PTL DEF Spec, ExpiredStaysGone

(* A rerun past its compare-and-set works on its paper until it has written *)
(* the outcome.                                                             *)
ClientWorks(p) ==
  \E c \in Clients : /\ Is(c, "rerun") /\ Paper(c) = p
                      /\ step[c] \in HoldingSteps \ {"start", "release"}

(* Where the upload no longer answers for the job, a job that waits is a    *)
(* rerun's; and the startup sweep listed whatever it found waiting.         *)
WaitInv ==
  ~faulty =>
    /\ process = "up" =>
         \A p \in Papers :
           /\ mode[p] = "async" /\ job[p] \in StaleStates
           /\ step[p] \in {"new", "bail", "settled", "acquire", "start", "release", "done"}
           => ClientWorks(p)
    /\ process = "starting" => \A p \in Papers : job[p] \in StaleStates => toSweep[p] = "job"

(* Every exit of the upload and of a rerun leaves the job out of the states *)
(* that wait, or leaves it to the rerun that has it.                        *)
LEMMA WaitStep ==
  Shape /\ UploadInv /\ WaitInv /\ [Next]_vars => WaitInv'
<1> SUFFICES ASSUME Shape, UploadInv, WaitInv, [Next]_vars PROVE WaitInv'
  OBVIOUS
<1> USE WorkersDistinct
    DEF At, bundle, surroundings, Paper, Workers, NoRequest, Requests, Is,
        JobStates, StaleStates, RerunSources, HoldingSteps, PlanPhase,
        Shape, TypeOK, RequestInv, ProcessInv, UploadInv, WaitInv, ClientWorks
<1>a. ASSUME NEW p \in Papers, NEW s, NEW t, step[p] \notin {"new", "done"},
             job' = [job EXCEPT ![p] = s], step' = [step EXCEPT ![p] = t],
             UNCHANGED <<request, surroundings>>,
             mode[p] = "async" /\ s \in StaleStates
               => t \notin {"new", "bail", "settled", "acquire", "start", "release", "done"}
      PROVE  WaitInv'
  <2>1. process = "up"
    BY <1>a
  <2>2. \A c \in Clients : step'[c] = step[c] /\ request'[c] = request[c]
    BY <1>a
  <2>3. \A q \in Papers : ClientWorks(q) => ClientWorks(q)'
    BY <2>2
  <2>4. \A q \in Papers : q # p => job'[q] = job[q] /\ step'[q] = step[q]
    BY <1>a
  <2>5. job'[p] = s /\ step'[p] = t
    BY <1>a
  <2> HIDE DEF ClientWorks
  <2> QED
    BY <1>a, <2>1, <2>3, <2>4, <2>5
<1>b. ASSUME NEW c \in Clients, UNCHANGED <<job, surroundings>>,
             step[c] \notin HoldingSteps \ {"start", "release"},
             \A w \in Workers : w # c => step'[w] = step[w],
             \A d \in Clients : d # c => request'[d] = request[d]
      PROVE  WaitInv'
  <2>1. \A q \in Papers : ClientWorks(q) => ClientWorks(q)'
    BY <1>b
  <2>2. \A q \in Papers : step'[q] = step[q]
    BY <1>b
  <2> HIDE DEF ClientWorks
  <2> QED
    BY <1>b, <2>1, <2>2
<1>c. ASSUME faulty, UNCHANGED faulty PROVE WaitInv'
  BY <1>c
<1>1. ASSUME NEW p \in Papers, process = "up", Begin(p) PROVE WaitInv'
  BY <1>1, SMTT(30) DEF Begin
<1>2. ASSUME NEW p \in Papers, Age(p) PROVE WaitInv'
  BY <1>2 DEF Age
<1>3. ASSUME NEW p \in Papers, CondemnStaging(p) PROVE WaitInv'
  BY <1>3 DEF CondemnStaging
<1>4. ASSUME NEW p \in Papers, SweepJob(p) PROVE WaitInv'
  BY <1>4 DEF SweepJob, SweptState
<1>5. ASSUME NEW p \in Papers, SweepStaging(p) PROVE WaitInv'
  BY <1>5 DEF SweepStaging
<1>6. ASSUME NEW c \in Clients, NEW p \in Papers, NEW kind \in {"rerun", "reparse", "edit"},
            AskFor(c, kind, p)
     PROVE  WaitInv'
  BY <1>6 DEF AskFor
<1>7. ASSUME NEW p \in Papers, Accept(p) PROVE WaitInv'
  BY <1>7, <1>a DEF Accept, Update
<1>8. ASSUME NEW p \in Papers, SaveFiles(p) PROVE WaitInv'
  BY <1>8 DEF SaveFiles
<1>9. ASSUME NEW p \in Papers, Reject(p) PROVE WaitInv'
  BY <1>9 DEF Reject, Update
<1>10. ASSUME NEW p \in Papers, ReadDocuments(p) PROVE WaitInv'
  BY <1>10 DEF ReadDocuments
<1>11. ASSUME NEW p \in Papers, PrimaryFailed(p) PROVE WaitInv'
  <2>1. /\ step[p] = "docs" /\ job[p] = "running"
        /\ UNCHANGED <<request, surroundings>>
    BY <1>11 DEF PrimaryFailed
  <2>2. CASE faulty
    BY <2>1, <2>2, <1>c
  <2>3. CASE ~faulty
    <3>1. /\ job' = [job EXCEPT ![p] = "failed_no_usable_spec"]
          /\ step' = [step EXCEPT ![p] = "settled"]
      BY <1>11, <2>1, <2>3 DEF PrimaryFailed, Update
    <3> QED
      BY <1>a, <2>1, <3>1
  <2> QED
    BY <2>2, <2>3
<1>12. ASSUME NEW p \in Papers, DropStaging(p) PROVE WaitInv'
  BY <1>12 DEF DropStaging, AfterStaging
<1>13. ASSUME NEW p \in Papers, MarkUploadFailed(p) PROVE WaitInv'
  BY <1>13, <1>a, SMTT(30) DEF MarkUploadFailed, Update
<1>14. ASSUME NEW p \in Papers, Fuse(p) PROVE WaitInv'
  <2>1. step[p] = "fuse" /\ UNCHANGED <<request, surroundings>>
    BY <1>14 DEF Fuse
  <2>2. \E s \in JobStates \cup {"none"}, t \in {"persist_spec", "fail", "escape"} :
           job' = [job EXCEPT ![p] = s] /\ step' = [step EXCEPT ![p] = t]
    <3>1. job = [job EXCEPT ![p] = job[p]]
      OBVIOUS
    <3> QED
      BY <1>14, <3>1 DEF Fuse, Update
  <2> QED
    BY <1>a, <2>1, <2>2
<1>15. ASSUME NEW p \in Papers, PutSpec(p) PROVE WaitInv'
  BY <1>15 DEF PutSpec
<1>16. ASSUME NEW p \in Papers, MarkSpecReady(p) PROVE WaitInv'
  BY <1>16 DEF MarkSpecReady, Update
<1>17. ASSUME NEW p \in Papers, MarkPlanBusy(p) PROVE WaitInv'
  BY <1>17 DEF MarkPlanBusy, Update
<1>18. ASSUME NEW p \in Papers, StartInitialPlan(p) PROVE WaitInv'
  BY <1>18 DEF StartInitialPlan, StartPlan
<1>19. ASSUME NEW p \in Papers, ReadUnhandled(p) PROVE WaitInv'
  BY <1>19 DEF ReadUnhandled
<1>20. ASSUME NEW p \in Papers, MarkUnhandled(p) PROVE WaitInv'
  BY <1>20 DEF MarkUnhandled, Update
<1>21. ASSUME NEW c \in Clients, StartRerun(c) PROVE WaitInv'
  BY <1>21 DEF StartRerun, StartPlan, Is
<1>22. ASSUME NEW c \in Clients, ReadSpec(c) PROVE WaitInv'
  BY <1>22 DEF ReadSpec, Update
<1>23. ASSUME NEW c \in Clients, PrepareChange(c) PROVE WaitInv'
  BY <1>23, SMTT(30) DEF PrepareChange, Is
<1>24. ASSUME NEW c \in Clients, CommitReparse(c) PROVE WaitInv'
  BY <1>24 DEF CommitReparse, Is
<1>25. ASSUME NEW c \in Clients, CommitEdit(c) PROVE WaitInv'
  BY <1>25 DEF CommitEdit, Is
<1>26. ASSUME NEW w \in Workers, Acquire(w) PROVE WaitInv'
  BY <1>26 DEF Acquire
<1>27. ASSUME NEW w \in Workers, LockBusy(w) PROVE WaitInv'
  <2>1. CASE w \in Papers
    <3>1. /\ step[w] = "acquire" /\ UNCHANGED <<request, surroundings>>
          /\ job' = [job EXCEPT ![w] = job[w]]
          /\ step' = [step EXCEPT ![w] = "busy"]
      BY <1>27, <2>1 DEF LockBusy
    <3> QED
      BY <1>a, <2>1, <3>1
  <2>2. CASE w \in Clients
    BY <1>27, <1>b, <2>2 DEF LockBusy
  <2> QED
    BY <2>1, <2>2
<1>28. ASSUME NEW w \in Workers, Release(w) PROVE WaitInv'
  <2>1. CASE w \in Papers /\ step[w] = "release"
    BY <1>28, <2>1, SMTT(30) DEF Release
  <2>2. CASE w \in Papers /\ step[w] = "escape"
    <3>1. PICK t \in {"unhandled", "done"} :
             /\ t = "done" => mode[w] # "async"
             /\ step' = [step EXCEPT ![w] = t]
      BY <1>28, <2>2 DEF Release
    <3>2. UNCHANGED <<request, surroundings>> /\ job' = [job EXCEPT ![w] = job[w]]
      BY <1>28, <2>2 DEF Release
    <3> QED
      BY <1>a, <2>2, <3>1, <3>2
  <2>3. CASE w \in Clients
    BY <1>28, <1>b, <2>3 DEF Release
  <2> QED
    BY <1>28, <2>1, <2>2, <2>3 DEF Release
<1>29. ASSUME NEW w \in Workers, Generate(w) PROVE WaitInv'
  BY <1>29 DEF Generate
<1>30. ASSUME NEW w \in Workers, MarkPlanFailed(w) PROVE WaitInv'
  BY <1>30 DEF MarkPlanFailed, Update
<1>31. ASSUME NEW w \in Workers, Persist(w) PROVE WaitInv'
  <2>1. /\ step[w] = "persist" /\ UNCHANGED <<request, surroundings>>
        /\ \/ job' = [job EXCEPT ![Paper(w)] = "plan_generating"]
           \/ job' = job
        /\ \E t \in {"save", "plan_failed"} : step' = [step EXCEPT ![w] = t]
    BY <1>31 DEF Persist, Update
  <2>2. CASE w \in Papers
    <3>1. job = [job EXCEPT ![w] = job[w]]
      BY <2>2
    <3> QED
      BY <1>a, <2>1, <2>2, <3>1
  <2>3. CASE w \in Clients
    <3>1. \A q \in Papers : ClientWorks(q) => ClientWorks(q)'
      BY <2>1, <2>3
    <3>2. ClientWorks(Paper(w))'
      BY <2>1, <2>3
    <3>3. process = "up" /\ \A q \in Papers : step'[q] = step[q]
      BY <2>1, <2>3
    <3>4. \A q \in Papers : q # Paper(w) => job'[q] = job[q]
      BY <2>1, <2>3
    <3> HIDE DEF ClientWorks
    <3> QED
      BY <2>1, <3>1, <3>2, <3>3, <3>4
  <2> QED
    BY <2>2, <2>3
<1>32. ASSUME NEW w \in Workers, SavePlan(w) PROVE WaitInv'
  BY <1>32 DEF SavePlan
<1>33. ASSUME NEW w \in Workers, MarkReady(w) PROVE WaitInv'
  BY <1>33 DEF MarkReady, Update
<1>34. CASE DeleteExpired
  BY <1>34 DEF DeleteExpired
<1>35. CASE RemoveStaging
  BY <1>35 DEF RemoveStaging
<1>36. CASE Start
  BY <1>36 DEF Start
<1>37. CASE Serve
  BY <1>37 DEF Serve
<1>38. CASE Crash
  BY <1>38 DEF Crash
<1>39. CASE UNCHANGED vars
  BY <1>39 DEF vars
<1> HIDE DEF WaitInv, At
<1> QED
  BY <1>1, <1>2, <1>3, <1>4, <1>5, <1>6, <1>7, <1>8, <1>9, <1>10, <1>11, <1>12,
     <1>13, <1>14, <1>15, <1>16, <1>17, <1>18, <1>19, <1>20, <1>21, <1>22, <1>23, <1>24,
     <1>25, <1>26, <1>27, <1>28, <1>29, <1>30, <1>31, <1>32, <1>33, <1>34, <1>35, <1>36,
     <1>37, <1>38, <1>39
  DEF Next, UploadStep, ClientStep, PlanStep, CleanupStep, StartupStep, vars

(* While the service is up and nothing fails, nobody waits for an           *)
(* asynchronous job no one works on: not after an early exit, a busy lock,  *)
(* an unhandled error, or a restart.                                        *)
THEOREM WaitingAlwaysWorkedOn == Spec => []WaitingIsWorkedOn
<1>1. Init => WaitInv
  BY WorkersDistinct DEF Init, WaitInv, StaleStates, Workers
<1>2. IndInv /\ WaitInv /\ [Next]_vars => WaitInv'
  BY WaitStep DEF IndInv, Rows
<1>3. IndInv /\ WaitInv => WaitingIsWorkedOn
  BY DEF IndInv, Shape, TypeOK, WaitInv, WaitingIsWorkedOn, WorkedOn, ClientWorks
<1> QED
  BY Invariance, <1>1, <1>2, <1>3, PTL DEF Spec
=============================================================================
