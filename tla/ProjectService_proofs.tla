----------------------- MODULE ProjectService_proofs -----------------------
(***************************************************************************)
(* What holds of projects for any number of them, of archives, requests    *)
(* and faults.                                                             *)
(*                                                                         *)
(* A project's row, once gone, never comes back: everything that outlives  *)
(* a deletion meanwhile, a generation, an answer, a round of the index,    *)
(* finds nothing to write to.  The invariants say of each request what it  *)
(* relies on, or that its project is gone.                                 *)
(*                                                                         *)
(* What is indexed of an archive is shown list by list, down to how a      *)
(* file is cut; the index is then what was drafted of the files of a       *)
(* project that is there, and what a question finds stands in them.        *)
(***************************************************************************)
EXTENDS ProjectService, SequenceFacts, FiniteSetTheorems, TLAPS

----------------------------------------------------------------------------
(* Types. *)

FaultCodes ==
  {Fine, "zip_bomb", "zip_slip", "project_too_large", "file_type_not_allowed",
   "parse_error", "internal_error"}

TaskSteps ==
  {"none", "mkdir", "extract", "parse", "mark", "draft", "add", "fail", "rmdir", "done"}

UnitIds == {UnitId(k) : k \in UnitKeys}

UnitStates == {"generating", "ready", "failed_retryable", "failed_permanent"}

UnitRecords ==
  {NoUnit} \cup
    [state : UnitStates, retries : Nat, expired : BOOLEAN, named : BOOLEAN,
     prerequisites : SUBSET UnitIds]

Tasks == [pc : TaskSteps, code : FaultCodes, onDisk : BOOLEAN]
Rows == [state : {"none", "parsing", "ready", "failed"}, code : FaultCodes]
Sweeps == [pc : {"idle", "next", "delete"}, todo : SUBSET Projects,
           project : Projects \cup {"none"}]

IngestTyped ==
  /\ archive \in [Projects -> DOMAIN Archives \cup {NoArchive}]
  /\ rows \in [Projects -> Rows]
  /\ aged \subseteq Projects
  /\ tasks \in [Projects -> Tasks]
  /\ dirs \subseteq Projects /\ writers \subseteq Projects
  /\ sweep \in Sweeps
  /\ faults \in [left : Nat, met : BOOLEAN]

LearnerSteps ==
  {"new", "look", "lock", "recheck", "begin", "wait", "gather", "build", "store",
   "retryable", "final", "answered"}

LearnerRecords ==
  [pc : LearnerSteps, key : UnitKeys \cup {NoKey}, lock : Learners \cup {"none"},
   candidates : SUBSET UnitIds]

TeachingTyped ==
  /\ units \in [UnitKeys -> UnitRecords]
  /\ learners \in [Learners -> LearnerRecords]
  /\ \A l \in Learners : learners[l].pc # "answered" => learners[l].key \in UnitKeys
  /\ locks \in [UnitKeys -> Learners \cup {"none"}]
  /\ holders \in [Learners -> Learners \cup {"none"}]

----------------------------------------------------------------------------
(* How far the task of a project has come, and what is known of it then.   *)

Before == {"none", "mkdir", "extract", "parse", "mark"}

TaskInv ==
  \A p \in Projects :
    /\ tasks[p].pc = "none" =>
         /\ tasks[p] = NoTask /\ rows[p] = NoRow
         /\ p \notin aged /\ p \notin sweep.todo /\ sweep.project # p
    /\ tasks[p].pc # "done" => archive[p] \in DOMAIN Archives
    /\ tasks[p].pc \in {"parse", "mark", "draft", "add"} =>
         ArchiveFault(Archives[archive[p]].entries, Limits) = Fine
    /\ tasks[p].pc \in {"mark", "draft", "add"} \/ rows[p].state = "ready" =>
         archive[p] \in Readable
    /\ rows[p].state = "none" => rows[p] = NoRow

\* The row of the project is gone, and there will be none.
RowGone(p) == rows[p] = NoRow /\ tasks[p].pc # "none"

LEMMA ProjectNames == "none" \notin Projects /\ "gone" \notin Projects
BY ProjectsAssumption

LEMMA CodesOfArchives ==
  ASSUME NEW entries, IsSequence(entries)
  PROVE  ArchiveFault(entries, Limits) \in FaultCodes
<1>1. \A i : EntryFault(entries, i, Limits) \in FaultCodes
  BY DEF EntryFault, FaultCodes, Fine
<1>2. CopyFault(entries, Limits) \in FaultCodes
  <2> DEFINE lying == {i \in Consumed(entries) : entries[i].actual # entries[i].size}
  <2> QED
    BY DEF CopyFault, FaultCodes, Fine
<1>3. ScanFault(entries, Limits) \in FaultCodes
  <2>1. PICK n \in Nat : n = Len(entries) /\ DOMAIN entries = 1 .. n
    BY DEF IsSequence
  <2>2. IsFiniteSet(FileEntries(entries))
    <3>1. IsFiniteSet(1 .. n) /\ FileEntries(entries) \subseteq 1 .. n
      BY <2>1, FS_Interval DEF FileEntries
    <3> QED
      BY <3>1, FS_Subset
  <2>3. PICK m \in Nat : m = Cardinality(FileEntries(entries))
    BY <2>2, FS_CardinalityType
  <2>4. entries # <<>> => n # 0
    BY <2>1 DEF IsSequence
  <2>5. /\ Limits.entries \in Nat /\ Limits.files \in Nat
    BY LimitsAssumption
  <2>6. "zip_bomb" \in FaultCodes /\ "project_too_large" \in FaultCodes /\ Fine \in FaultCodes
    BY DEF FaultCodes
  <2>7. CASE entries = <<>>
    BY <2>7, <2>6 DEF ScanFault
  <2>8. CASE entries # <<>> /\ (n > Limits.entries \/ m > Limits.files)
    <3>1. ~(n \in 1 .. Limits.entries /\ m <= Limits.files)
      BY <2>5, <2>8
    <3> QED
      BY <2>1, <2>3, <2>6, <2>8, <3>1 DEF ScanFault
  <2>9. CASE entries # <<>> /\ n <= Limits.entries /\ m <= Limits.files
    <3>1. ~(n > Limits.entries \/ m > Limits.files) /\ n \in 1 .. Limits.entries
      BY <2>4, <2>5, <2>9
    <3> QED
      BY <1>1, <2>1, <2>3, <2>6, <2>9, <3>1 DEF ScanFault
  <2> QED
    BY <2>5, <2>7, <2>8, <2>9
<1> QED
  BY <1>2, <1>3 DEF ArchiveFault

LEMMA FaultTyped ==
  ASSUME IngestTyped, Fault \/ NoFault
  PROVE  faults' \in [left : Nat, met : BOOLEAN] /\ (faults.met => faults'.met)
<1>1. faults \in [left : Nat, met : BOOLEAN]
  BY DEF IngestTyped
<1>2. CASE NoFault
  BY <1>1, <1>2 DEF NoFault
<1>3. CASE Fault
  <2>1. faults.left - 1 \in Nat
    BY <1>1, <1>3 DEF Fault
  <2> QED
    BY <1>3, <2>1 DEF Fault
<1> QED
  BY <1>2, <1>3

LEMMA IngestInit == Init => IngestTyped /\ TaskInv
<1> SUFFICES ASSUME NEW w \in Workloads,
                    /\ archive = w.archive
                    /\ rows = [p \in Projects |-> NoRow] /\ aged = {}
                    /\ dirs = {} /\ writers = {} /\ sweep = IdleSweep
                    /\ faults = [left |-> w.faults, met |-> FALSE]
                    /\ tasks = [p \in Projects |->
                                  IF archive[p] = NoArchive THEN DoneTask ELSE NoTask]
             PROVE  IngestTyped /\ TaskInv
  BY DEF Init
<1>1. archive \in [Projects -> DOMAIN Archives \cup {NoArchive}] /\ w.faults \in Nat
  BY WorkloadsAssumption
<1>2. IngestTyped
  BY <1>1 DEF IngestTyped, Rows, Tasks, Sweeps, NoRow, NoTask, DoneTask, IdleSweep,
              TaskSteps, FaultCodes, Fine
<1>3. TaskInv
  BY <1>1, ProjectNames DEF TaskInv, NoRow, NoTask, DoneTask, IdleSweep
<1> QED
  BY <1>2, <1>3

(* A step of one project's task: where it goes and what it does to the row. *)
Allowed(p, new, row) ==
  /\ tasks[p].pc # "done" /\ new.pc # "none"
  /\ row.state = "none" => row = NoRow
  /\ new.pc \in {"parse", "mark", "draft", "add"} =>
       ArchiveFault(Archives[archive[p]].entries, Limits) = Fine
  /\ new.pc \in {"mark", "draft", "add"} \/ row.state = "ready" => archive[p] \in Readable

TaskMove(p, new, row) ==
  /\ Allowed(p, new, row)
  /\ tasks' = [tasks EXCEPT ![p] = new] /\ rows' = [rows EXCEPT ![p] = row]
  /\ Fault \/ NoFault
  /\ archive' = archive /\ aged' = aged /\ sweep' = sweep
  /\ dirs' \subseteq Projects /\ writers' \subseteq Projects

LEMMA TaskMoves ==
  ASSUME IngestTyped, TaskInv, NEW p \in Projects, NEW new \in Tasks, NEW row \in Rows,
         TaskMove(p, new, row)
  PROVE  IngestTyped' /\ TaskInv'
<1>1. IngestTyped'
  BY FaultTyped DEF IngestTyped, TaskMove
<1>2. \A q \in Projects : q # p => tasks'[q] = tasks[q] /\ rows'[q] = rows[q]
  BY DEF IngestTyped, TaskMove
<1>3. tasks'[p] = new /\ rows'[p] = row
  BY DEF IngestTyped, TaskMove
<1>4. TaskInv'
  BY <1>2, <1>3 DEF TaskInv, TaskMove, Allowed
<1> QED
  BY <1>1, <1>4

Stepped(p, pc) == [tasks[p] EXCEPT !.pc = pc]
Failed(p, code) == [tasks[p] EXCEPT !.pc = "fail", !.code = code]

LEMMA GoesTo ==
  ASSUME IngestTyped, NEW p \in Projects, NEW pc \in TaskSteps
  PROVE  /\ Stepped(p, pc) \in Tasks /\ Stepped(p, pc).pc = pc
         /\ Goto(p, pc) => tasks' = [tasks EXCEPT ![p] = Stepped(p, pc)]
<1>1. tasks[p] \in Tasks
  BY DEF IngestTyped
<1>2. Stepped(p, pc) \in Tasks /\ Stepped(p, pc).pc = pc
  BY <1>1 DEF Stepped, Tasks
<1>3. Goto(p, pc) => tasks' = [tasks EXCEPT ![p] = Stepped(p, pc)]
  BY DEF Goto, Stepped
<1> QED
  BY <1>2, <1>3

LEMMA FailsWith ==
  ASSUME IngestTyped, NEW p \in Projects, NEW code \in FaultCodes
  PROVE  /\ Failed(p, code) \in Tasks /\ Failed(p, code).pc = "fail"
         /\ FailWith(p, code) => tasks' = [tasks EXCEPT ![p] = Failed(p, code)]
<1>1. tasks[p] \in Tasks
  BY DEF IngestTyped
<1>2. Failed(p, code) \in Tasks /\ Failed(p, code).pc = "fail"
  BY <1>1 DEF Failed, Tasks, TaskSteps
<1>3. FailWith(p, code) => tasks' = [tasks EXCEPT ![p] = Failed(p, code)]
  BY DEF FailWith, Failed
<1> QED
  BY <1>2, <1>3

(* Most steps leave the row alone.                                         *)
LEMMA RowStays ==
  ASSUME IngestTyped, TaskInv, NEW p \in Projects
  PROVE  /\ rows[p] \in Rows /\ rows = [rows EXCEPT ![p] = rows[p]]
         /\ rows[p].state = "none" => rows[p] = NoRow
         /\ rows[p].state = "ready" => archive[p] \in Readable
BY DEF IngestTyped, TaskInv

\* A step to another place of the task, and to its failure.
LEMMA GoesOn ==
  ASSUME IngestTyped, TaskInv, NEW p \in Projects, NEW pc \in TaskSteps, Goto(p, pc),
         NEW row \in Rows, rows' = [rows EXCEPT ![p] = row], Fault \/ NoFault,
         archive' = archive /\ aged' = aged /\ sweep' = sweep,
         dirs' \subseteq Projects /\ writers' \subseteq Projects,
         Allowed(p, Stepped(p, pc), row)
  PROVE  IngestTyped' /\ TaskInv'
<1>1. Stepped(p, pc) \in Tasks /\ tasks' = [tasks EXCEPT ![p] = Stepped(p, pc)]
  BY GoesTo
<1>2. TaskMove(p, Stepped(p, pc), row)
  BY <1>1 DEF TaskMove
<1> QED
  BY <1>1, <1>2, TaskMoves

LEMMA Fails ==
  ASSUME IngestTyped, TaskInv, NEW p \in Projects, NEW code \in FaultCodes,
         FailWith(p, code), tasks[p].pc # "done", rows' = rows, Fault \/ NoFault,
         archive' = archive /\ aged' = aged /\ sweep' = sweep,
         dirs' \subseteq Projects /\ writers' \subseteq Projects
  PROVE  IngestTyped' /\ TaskInv'
<1>1. /\ Failed(p, code) \in Tasks /\ Failed(p, code).pc = "fail"
      /\ tasks' = [tasks EXCEPT ![p] = Failed(p, code)]
  BY FailsWith
<1>2. Allowed(p, Failed(p, code), rows[p])
  BY <1>1, RowStays DEF Allowed
<1>3. rows[p] \in Rows /\ rows' = [rows EXCEPT ![p] = rows[p]]
  BY RowStays
<1>4. TaskMove(p, Failed(p, code), rows[p])
  BY <1>1, <1>2, <1>3 DEF TaskMove
<1> QED
  BY <1>1, <1>3, <1>4, TaskMoves

LEMMA IngestKeeps ==
  ASSUME IngestTyped, TaskInv, archive' = archive, IngestStep
  PROVE  IngestTyped' /\ TaskInv'
<1> DEFINE P == IngestTyped' /\ TaskInv'
<1> USE RowStays, GoesTo, FailsWith
<1>0. \A c \in {"parse_error", "internal_error", "project_too_large"} : c \in FaultCodes
  BY DEF FaultCodes
<1>1. ASSUME NEW p \in Projects, Upload(p) PROVE P
  <2> DEFINE row == [state |-> "parsing", code |-> Fine]
  <2>1. row \in Rows /\ "mkdir" \in TaskSteps
    BY DEF Rows, FaultCodes, Fine, TaskSteps
  <2>2. /\ Goto(p, "mkdir") /\ rows' = [rows EXCEPT ![p] = row] /\ NoFault /\ tasks[p].pc = "none"
        /\ archive' = archive /\ aged' = aged /\ sweep' = sweep
        /\ dirs' \subseteq Projects /\ writers' \subseteq Projects
    BY <1>1 DEF Upload, CreatePending, NoFault, IngestTyped, NoTask
  <2>3. Allowed(p, Stepped(p, "mkdir"), row)
    BY <2>1, <2>2 DEF Allowed
  <2> HIDE DEF row
  <2> QED
    BY <2>1, <2>2, <2>3, GoesOn
<1>2. ASSUME NEW p \in Projects, MakeDirectory(p) PROVE P
  <2>1. /\ rows' = rows /\ archive' = archive /\ aged' = aged /\ sweep' = sweep
        /\ dirs' \subseteq Projects /\ writers' \subseteq Projects /\ (Fault \/ NoFault)
    BY <1>2 DEF MakeDirectory, tables, IngestTyped
  <2>2. ASSUME Goto(p, "extract") PROVE P
    <3>1. "extract" \in TaskSteps
      BY DEF TaskSteps
    <3>2. Allowed(p, Stepped(p, "extract"), rows[p])
      BY <1>2, <3>1 DEF Allowed, MakeDirectory
    <3> QED
      BY <2>1, <2>2, <3>1, <3>2, GoesOn
  <2>3. ASSUME FailWith(p, "internal_error") PROVE P
    BY <1>0, <1>2, <2>1, <2>3, Fails DEF MakeDirectory
  <2> QED
    BY <1>2, <2>2, <2>3 DEF MakeDirectory
<1>3. ASSUME NEW p \in Projects, Extract(p) PROVE P
  <2>1. /\ rows' = rows /\ archive' = archive /\ aged' = aged /\ sweep' = sweep
        /\ dirs' \subseteq Projects /\ writers' \subseteq Projects /\ NoFault
        /\ tasks[p].pc = "extract"
    BY <1>3 DEF Extract, tables, IngestTyped, NoFault
  <2> DEFINE fault == ArchiveFault(Archives[archive[p]].entries, Limits)
  <2>2. fault \in FaultCodes
    BY <2>1, EntriesAssumption, CodesOfArchives DEF TaskInv
  <2>3. CASE fault = Fine
    <3>1. "parse" \in TaskSteps /\ Goto(p, "parse")
      BY <1>3, <2>3 DEF TaskSteps, Extract
    <3>2. Allowed(p, Stepped(p, "parse"), rows[p])
      BY <2>1, <2>3, <3>1 DEF Allowed
    <3> QED
      BY <2>1, <3>1, <3>2, GoesOn
  <2>4. CASE fault # Fine
    <3>1. FailWith(p, fault)
      BY <1>3, <2>4 DEF Extract
    <3> HIDE DEF fault
    <3> QED
      BY <2>1, <2>2, <3>1, Fails
  <2> QED
    BY <2>3, <2>4
<1>4. ASSUME NEW p \in Projects, GiveUpExtraction(p) PROVE P
  BY <1>0, <1>4, Fails DEF GiveUpExtraction, tables, IngestTyped, NoFault
<1>5. ASSUME NEW p \in Projects, WriteLate(p) \/ StopWriting(p) PROVE P
  BY <1>5 DEF WriteLate, StopWriting, tables, IngestTyped, TaskInv
<1>6. ASSUME NEW p \in Projects, Parse(p) PROVE P
  <2>1. /\ rows' = rows /\ archive' = archive /\ aged' = aged /\ sweep' = sweep
        /\ dirs' \subseteq Projects /\ writers' \subseteq Projects /\ NoFault
        /\ tasks[p].pc = "parse"
    BY <1>6 DEF Parse, tables, IngestTyped, NoFault
  <2>2. CASE Archives[archive[p]].broken
    <3>1. FailWith(p, "parse_error")
      BY <1>6, <2>2 DEF Parse
    <3> QED
      BY <1>0, <2>1, <3>1, Fails
  <2>3. CASE ~Archives[archive[p]].broken
    <3>1. "mark" \in TaskSteps /\ Goto(p, "mark")
      BY <1>6, <2>3 DEF TaskSteps, Parse
    <3>2. archive[p] \in Readable
      BY <2>1, <2>3 DEF TaskInv, Readable
    <3>3. Allowed(p, Stepped(p, "mark"), rows[p])
      BY <2>1, <3>1, <3>2 DEF Allowed, TaskInv
    <3> QED
      BY <2>1, <3>1, <3>3, GoesOn
  <2> QED
    BY <2>2, <2>3
<1>7. ASSUME NEW p \in Projects, MarkReady(p) PROVE P
  <2>1. /\ archive' = archive /\ aged' = aged /\ sweep' = sweep
        /\ dirs' \subseteq Projects /\ writers' \subseteq Projects /\ (Fault \/ NoFault)
        /\ tasks[p].pc = "mark"
    BY <1>7 DEF MarkReady, MarkRow, tables, IngestTyped, NoFault
  <2>2. ASSUME MarkRow(p, "ready", Fine), Goto(p, "draft") PROVE P
    <3> DEFINE row == [state |-> "ready", code |-> Fine]
    <3>1. row \in Rows /\ "draft" \in TaskSteps /\ rows' = [rows EXCEPT ![p] = row]
      BY <2>2 DEF Rows, FaultCodes, Fine, TaskSteps, MarkRow
    <3>2. Allowed(p, Stepped(p, "draft"), row)
      BY <2>1, <3>1 DEF Allowed, TaskInv
    <3> HIDE DEF row
    <3> QED
      BY <2>1, <2>2, <3>1, <3>2, GoesOn
  <2>3. ASSUME rows' = rows, FailWith(p, "internal_error") PROVE P
    BY <1>0, <2>1, <2>3, Fails
  <2> QED
    BY <1>7, <2>2, <2>3 DEF MarkReady, tables
<1>8. ASSUME NEW p \in Projects, MarkFailed(p) PROVE P
  <2>1. /\ archive' = archive /\ aged' = aged /\ sweep' = sweep
        /\ dirs' \subseteq Projects /\ writers' \subseteq Projects /\ (Fault \/ NoFault)
        /\ tasks[p].pc = "fail" /\ tasks[p].code \in FaultCodes
    BY <1>8 DEF MarkFailed, MarkRow, tables, IngestTyped, NoFault, Tasks
  <2>2. ASSUME MarkRow(p, "failed", tasks[p].code), Goto(p, "rmdir") PROVE P
    <3> DEFINE row == [state |-> "failed", code |-> tasks[p].code]
    <3>1. row \in Rows /\ "rmdir" \in TaskSteps /\ rows' = [rows EXCEPT ![p] = row]
      BY <2>1, <2>2 DEF Rows, TaskSteps, MarkRow
    <3>2. Allowed(p, Stepped(p, "rmdir"), row)
      BY <2>1, <3>1 DEF Allowed
    <3> HIDE DEF row
    <3> QED
      BY <2>1, <2>2, <3>1, <3>2, GoesOn
  <2>3. ASSUME rows' = rows, Goto(p, "done") PROVE P
    <3>1. "done" \in TaskSteps
      BY DEF TaskSteps
    <3>2. Allowed(p, Stepped(p, "done"), rows[p])
      BY <2>1, <3>1 DEF Allowed
    <3> QED
      BY <2>1, <2>3, <3>1, <3>2, GoesOn
  <2> QED
    BY <1>8, <2>2, <2>3 DEF MarkFailed, tables
<1>9. ASSUME NEW p \in Projects, RemoveDirectory(p) \/ Index(p) PROVE P
  <2>1. /\ archive' = archive /\ aged' = aged /\ sweep' = sweep /\ rows' = rows
        /\ dirs' \subseteq Projects /\ writers' \subseteq Projects /\ (Fault \/ NoFault)
        /\ tasks[p].pc \in {"rmdir", "add"} /\ Goto(p, "done")
    BY <1>9 DEF RemoveDirectory, Index, AddChunks, tables, IngestTyped, NoFault
  <2>2. "done" \in TaskSteps
    BY DEF TaskSteps
  <2>3. Allowed(p, Stepped(p, "done"), rows[p])
    BY <2>1, <2>2 DEF Allowed
  <2> QED
    BY <2>1, <2>2, <2>3, GoesOn
<1>10. ASSUME NEW p \in Projects, Draft(p) PROVE P
  <2>1. /\ archive' = archive /\ aged' = aged /\ sweep' = sweep /\ rows' = rows
        /\ dirs' \subseteq Projects /\ writers' \subseteq Projects /\ NoFault
        /\ tasks[p].pc = "draft" /\ tasks[p] \in Tasks
    BY <1>10 DEF Draft, tables, IngestTyped, NoFault
  <2> DEFINE pc == IF HasChunkInputs(Contents(p)) /\ HasGraph(Contents(p)) THEN "add" ELSE "done"
             disk == p \in dirs
             new == [tasks[p] EXCEPT !.pc = pc, !.onDisk = disk]
  <2>2. pc \in {"add", "done"} /\ disk \in BOOLEAN
    OBVIOUS
  <2>3. tasks' = [tasks EXCEPT ![p].pc = pc, ![p].onDisk = disk]
    BY <1>10 DEF Draft
  <2> HIDE DEF pc, disk
  <2>4. tasks' = [tasks EXCEPT ![p] = new]
    BY <2>3
  <2>7. new \in Tasks /\ new.pc = pc
    BY <2>1, <2>2 DEF Tasks, TaskSteps
  <2> HIDE DEF new
  <2>5. Allowed(p, new, rows[p])
    BY <2>1, <2>2, <2>7 DEF Allowed, TaskInv
  <2>6. TaskMove(p, new, rows[p])
    BY <2>1, <2>4, <2>5 DEF TaskMove
  <2> QED
    BY <2>6, <2>7, TaskMoves
<1>11. ASSUME NEW p \in Projects, Age(p) PROVE P
  BY <1>11 DEF Age, IngestTyped, TaskInv
<1>12. ASSUME ListExpired PROVE P
  <2>1. /\ rows' = rows /\ aged' = aged /\ tasks' = tasks /\ dirs' = dirs /\ writers' = writers
        /\ sweep' \in {sweep, [IdleSweep EXCEPT !.pc = "next", !.todo = aged]}
        /\ Fault \/ NoFault
    BY <1>12 DEF ListExpired, tables, NoFault
  <2>2. /\ sweep' \in Sweeps
        /\ sweep'.project \in {sweep.project, "none"} /\ sweep'.todo \subseteq sweep.todo \cup aged
    BY <2>1, ZenonT(40) DEF IngestTyped, IdleSweep, Sweeps
  <2>3. IngestTyped'
    BY <2>1, <2>2, FaultTyped DEF IngestTyped
  <2> QED
    BY <2>1, <2>2, <2>3, ProjectNames DEF TaskInv
<1>13. ASSUME NEW p \in Projects, SweepDirectory(p) PROVE P
  BY <1>13, FaultTyped DEF SweepDirectory, IngestTyped, TaskInv, tables, Sweeps, NoFault
<1>14. ASSUME NEW p \in Projects, SweepRow(p) PROVE P
  <2>1. /\ tasks' = tasks /\ dirs' = dirs /\ writers' = writers /\ (Fault \/ NoFault)
        /\ aged' \subseteq aged /\ rows' \in {rows, [rows EXCEPT ![p] = NoRow]}
        /\ sweep' \in {IdleSweep, [sweep EXCEPT !.pc = "next", !.project = "none"]}
        /\ sweep.project = p
    BY <1>14 DEF SweepRow, DeleteRow, tables, NoFault
  <2>2. /\ sweep' \in Sweeps /\ sweep'.project = "none" /\ sweep'.todo \subseteq sweep.todo
    <3>1. sweep \in Sweeps
      BY DEF IngestTyped
    <3>2. CASE sweep' = IdleSweep
      BY <3>1, <3>2 DEF IdleSweep, Sweeps
    <3>3. CASE sweep' = [sweep EXCEPT !.pc = "next", !.project = "none"]
      BY <3>1, <3>3 DEF Sweeps
    <3> QED
      BY <2>1, <3>2, <3>3
  <2>3. NoRow \in Rows /\ NoRow.state = "none"
    BY DEF NoRow, Rows, FaultCodes
  <2>4. IngestTyped'
    BY <2>1, <2>2, <2>3, FaultTyped DEF IngestTyped
  <2>5. rows' \in [Projects -> Rows] /\ \A q \in Projects : rows'[q] \in {rows[q], NoRow}
    BY <2>1, <2>3 DEF IngestTyped
  <2> QED
    BY <2>1, <2>2, <2>3, <2>4, <2>5, ProjectNames DEF TaskInv
<1> QED
  BY <1>1, <1>2, <1>3, <1>4, <1>5, <1>6, <1>7, <1>8, <1>9, <1>10, <1>11, <1>12, <1>13, <1>14
  DEF IngestStep, WorkerStep, ProcessStep

LEMMA RestartKeeps ==
  ASSUME IngestTyped, TaskInv, archive' = archive, Restart
  PROVE  IngestTyped' /\ TaskInv' /\ rows' = rows /\ faults'.met
<1>1. /\ rows' = rows /\ aged' = aged /\ dirs' = dirs /\ writers' = {} /\ sweep' = IdleSweep
      /\ tasks' = [p \in Projects |-> IF tasks[p] = NoTask THEN NoTask ELSE DoneTask]
      /\ Fault
  BY DEF Restart, tables
<1>2. NoTask \in Tasks /\ DoneTask \in Tasks /\ NoTask.pc = "none" /\ DoneTask.pc = "done"
  BY DEF NoTask, DoneTask, Tasks, TaskSteps, FaultCodes
<1>3. IdleSweep \in Sweeps /\ IdleSweep.todo = {} /\ IdleSweep.project = "none"
  BY DEF IdleSweep, Sweeps
<1>4. IngestTyped'
  BY <1>1, <1>2, <1>3, FaultTyped DEF IngestTyped
<1>5. \A p \in Projects : tasks'[p] = tasks[p] \/ (tasks'[p] = DoneTask /\ tasks[p].pc # "none")
  BY <1>1, <1>2 DEF TaskInv
<1>6. TaskInv'
  BY <1>1, <1>2, <1>3, <1>5, ProjectNames DEF TaskInv
<1> QED
  BY <1>1, <1>4, <1>6 DEF Fault

\* Requests leave the uploads alone.
LEMMA RequestsKeep ==
  ASSUME IngestTyped, TaskInv, archive' = archive, rows' = rows, aged' = aged, dirs' = dirs,
         tasks' = tasks, writers' = writers, sweep' = sweep, Fault \/ NoFault
  PROVE  IngestTyped' /\ TaskInv'
<1>1. IngestTyped'
  BY FaultTyped DEF IngestTyped
<1>2. TaskInv'
  BY DEF TaskInv
<1> QED
  BY <1>1, <1>2

(* The kinds of steps there are, by what they do to the uploads.           *)
Apart == /\ archive' = archive /\ rows' = rows /\ aged' = aged /\ dirs' = dirs /\ tasks' = tasks
         /\ writers' = writers /\ sweep' = sweep
         /\ Fault \/ NoFault

LEMMA Kinds ==
  ASSUME [Next]_vars
  PROVE  /\ archive' = archive
         /\ \/ IngestStep /\ UNCHANGED <<teachingVars, overviewVars, askers>>
            \/ Apart /\ TeachingStep /\ UNCHANGED <<chunks, sessions, overviewVars, askers>>
            \/ Apart /\ OverviewStep /\ UNCHANGED <<units, sessions, teachingVars, askers>>
            \/ Apart /\ ChatStep /\ UNCHANGED <<units, chunks, teachingVars, overviewVars>>
            \/ Restart /\ ForgetLearners /\ ForgetReaders /\ ForgetAskers
            \/ Apart /\ UNCHANGED <<tables, teachingVars, overviewVars, askers>>
BY DEF Next, Apart, vars, tables, ingestVars, teachingVars, overviewVars, TeachingStep, restOfTeaching,
       OverviewStep, restOfOverview, ChatStep, restOfChat, NoFault

LEMMA IngestNext ==
  ASSUME IngestTyped, TaskInv, [Next]_vars
  PROVE  IngestTyped' /\ TaskInv'
BY Kinds, IngestKeeps, RequestsKeep, RestartKeeps DEF Apart

(* What a step of the uploads does to the tables.                          *)
Lives(q) ==
  /\ tasks[q].pc # "none" => tasks'[q].pc # "none"
  /\ rows[q] = NoRow => rows'[q] = NoRow \/ tasks[q].pc = "none"
  /\ rows[q] # NoRow => rows'[q] # NoRow
  /\ rows[q].state = "ready" => rows'[q] = rows[q]

Indexes(p) ==
  /\ tasks[p].pc = "add"
  /\ CanAddChunks(p, DraftsOf[p][archive[p]][tasks[p].onDisk])
  /\ AddChunks(p, DraftsOf[p][archive[p]][tasks[p].onDisk])

Deletes(p) == DeleteRow(p) /\ tasks' = tasks /\ tasks[p].pc # "none"

LEMMA RowsMove ==
  ASSUME IngestTyped, TaskInv, IngestStep
  PROVE  \/ \E p \in Projects : Deletes(p)
         \/ /\ units' = units /\ sessions' = sessions /\ \A q \in Projects : Lives(q)
            /\ chunks' = chunks \/ \E p \in Projects : Indexes(p)
<1> DEFINE Rest == /\ units' = units /\ sessions' = sessions /\ \A q \in Projects : Lives(q)
                   /\ chunks' = chunks \/ \E p \in Projects : Indexes(p)
<1>a. \A q \in Projects : tasks[q].pc = "none" => tasks[q] = NoTask /\ rows[q] = NoRow
  BY DEF TaskInv
<1>b. \A p \in Projects, q \in Projects : tasks' = [tasks EXCEPT ![p].pc = tasks'[p].pc]
         \/ tasks' = [tasks EXCEPT ![p] = tasks'[p]] => (q # p => tasks'[q] = tasks[q])
  BY DEF IngestTyped
<1>0. ASSUME NEW p \in Projects, NEW new \in TaskSteps, new # "none", Goto(p, new)
      PROVE  \A q \in Projects : tasks[q].pc # "none" => tasks'[q].pc # "none"
  BY <1>0 DEF Goto, IngestTyped, Tasks
<1>1. ASSUME NEW p \in Projects, NEW code, FailWith(p, code)
      PROVE  \A q \in Projects : tasks[q].pc # "none" => tasks'[q].pc # "none"
  BY <1>1 DEF FailWith, IngestTyped, Tasks
<1>2. ASSUME NEW p \in Projects, Upload(p) PROVE Rest
  BY <1>2, <1>0 DEF Upload, CreatePending, Lives, IngestTyped, TaskSteps, NoRow, NoTask
<1>3. ASSUME NEW p \in Projects, MakeDirectory(p) \/ Extract(p) \/ Parse(p) \/ GiveUpExtraction(p)
      PROVE  Rest
  BY <1>3, <1>0, <1>1
  DEF MakeDirectory, Extract, Parse, GiveUpExtraction, tables, Lives, TaskSteps
<1>4. ASSUME NEW p \in Projects, MarkReady(p) \/ MarkFailed(p) PROVE Rest
  BY <1>4, <1>0, <1>1 DEF MarkReady, MarkFailed, MarkRow, tables, Lives, TaskSteps, NoRow, IngestTyped
<1>5. ASSUME NEW p \in Projects, RemoveDirectory(p) PROVE Rest
  BY <1>5, <1>0 DEF RemoveDirectory, tables, Lives, TaskSteps
<1>6. ASSUME NEW p \in Projects, Draft(p) PROVE Rest
  BY <1>6 DEF Draft, tables, Lives, IngestTyped, Tasks
<1>7. ASSUME NEW p \in Projects, Index(p) PROVE Rest
  BY <1>7, <1>0 DEF Index, AddChunks, tables, Lives, TaskSteps, Indexes
<1>8. ASSUME NEW p \in Projects, WriteLate(p) \/ StopWriting(p) \/ SweepDirectory(p) \/ Age(p)
      PROVE  Rest
  BY <1>8 DEF WriteLate, StopWriting, SweepDirectory, Age, tables, Lives
<1>9. ASSUME ListExpired PROVE Rest
  BY <1>9 DEF ListExpired, tables, Lives
<1>10. ASSUME NEW p \in Projects, SweepRow(p) PROVE Rest \/ Deletes(p)
  BY <1>10 DEF SweepRow, tables, Lives, Deletes, TaskInv
<1> QED
  BY <1>2, <1>3, <1>4, <1>5, <1>6, <1>7, <1>8, <1>9, <1>10 DEF IngestStep, WorkerStep, ProcessStep

----------------------------------------------------------------------------
(* Teaching units. *)

Working == {"gather", "build", "store", "retryable", "final"}

\* A unit of this project has this name, and keeps it.
HasUnit(p, id) ==
  \E k \in UnitKeys : ProjectOf(k) = p /\ UnitId(k) = id /\ units[k] # NoUnit /\ units[k].named

\* What a request works on is being generated, or is gone with its project; nobody else does.
WorkHolds(l) ==
  learners[l].pc \in Working =>
    \/ units[learners[l].key].state = "generating"
    \/ RowGone(ProjectOf(learners[l].key))

WorkInv ==
  /\ \A l \in Learners : WorkHolds(l)
  /\ \A l, m \in Learners :
       learners[l].pc \in Working /\ learners[m].pc \in Working /\ learners[l].key = learners[m].key
         => l = m

\* Only a fault takes a generation away from its request.
OwnedInv ==
  \A key \in UnitKeys : units[key].state = "generating" /\ ~faults.met =>
    \E l \in Learners : learners[l].pc \in Working /\ learners[l].key = key

UnitInv ==
  \A key \in UnitKeys :
    /\ rows[ProjectOf(key)] = NoRow => units[key] = NoUnit
    /\ units[key].state = "ready" => units[key].named
    /\ units[key] # NoUnit => \A id \in units[key].prerequisites :
         id # UnitId(key) /\ HasUnit(ProjectOf(key), id)

CandidatesHold(l) ==
  learners[l].pc \in {"build", "store"} =>
    \A id \in learners[l].candidates :
      /\ id # UnitId(learners[l].key)
      /\ RowGone(ProjectOf(learners[l].key)) \/ HasUnit(ProjectOf(learners[l].key), id)

CandidateInv == \A l \in Learners : CandidatesHold(l)

TeachingInv == TeachingTyped /\ WorkInv /\ OwnedInv /\ UnitInv /\ CandidateInv

LEMMA KeyParts ==
  \A key \in UnitKeys : ProjectOf(key) \in Projects
BY KeysAssumption DEF ProjectOf

LEMMA TeachingInit == Init => TeachingInv
<1> SUFFICES ASSUME NEW w \in Workloads,
                    /\ rows = [p \in Projects |-> NoRow]
                    /\ units = [key \in UnitKeys |-> NoUnit]
                    /\ learners = [l \in Learners |-> IF l \in DOMAIN w.learners
                                      THEN NewLearner(w.learners[l]) ELSE Answered]
                    /\ locks = [key \in UnitKeys |-> "none"]
                    /\ holders = [l \in Learners |-> "none"]
             PROVE  TeachingInv
  BY DEF Init
<1>1. \A l \in DOMAIN w.learners : w.learners[l] \in UnitKeys
  BY WorkloadsAssumption
<1>2. \A key \in UnitKeys \cup {NoKey} :
        NewLearner(key) \in LearnerRecords /\ NewLearner(key).pc = "new" /\ NewLearner(key).key = key
  BY DEF NewLearner, LearnerRecords, LearnerSteps
<1>3. Answered \in LearnerRecords /\ Answered.pc = "answered"
  BY DEF NewLearner, Answered, LearnerRecords, LearnerSteps
<1>4. \A l \in Learners : learners[l] \in LearnerRecords /\ learners[l].pc \in {"new", "answered"}
                          /\ (learners[l].pc = "new" => learners[l].key \in UnitKeys)
  BY <1>1, <1>2, <1>3
<1>5. TeachingTyped
  BY <1>4 DEF TeachingTyped, UnitRecords
<1> QED
  BY <1>4, <1>5
  DEF TeachingInv, WorkInv, WorkHolds, OwnedInv, UnitInv, CandidateInv, CandidatesHold, Working, NoUnit

(* A step of a request: what becomes of it, and of the unit it is about.   *)
LearnerMove(l, new, u) ==
  LET key == learners[l].key
  IN  /\ learners' = [learners EXCEPT ![l] = new] /\ units' = [units EXCEPT ![key] = u]
      /\ learners[l].pc # "answered"
      /\ new.pc # "answered" => new.key = key
      /\ rows' = rows /\ tasks' = tasks /\ (faults.met => faults'.met)
      /\ locks' \in [UnitKeys -> Learners \cup {"none"}]
      /\ holders' \in [Learners -> Learners \cup {"none"}]

UnitMove(l, new, u) ==
  LET key == learners[l].key
      old == units[key]
  IN  /\ u # old => rows[ProjectOf(key)] # NoRow /\ u # NoUnit /\ (old # NoUnit /\ old.named => u.named)
      /\ u.state = "ready" => u.named
      /\ u # NoUnit => \A id \in u.prerequisites : id # UnitId(key) /\ HasUnit(ProjectOf(key), id)
      /\ new.pc \in Working => u.state = "generating" \/ RowGone(ProjectOf(key))
      /\ new.pc \in Working => \/ learners[l].pc \in Working
                               \/ old.state # "generating" /\ ~RowGone(ProjectOf(key))
      /\ u.state = "generating" =>
           \/ new.pc \in Working \/ faults'.met
           \/ old.state = "generating" /\ learners[l].pc \notin Working
      /\ old.state = "generating" /\ u.state # "generating" => learners[l].pc \in Working
      /\ new.pc \in {"build", "store"} => \A id \in new.candidates :
           id # UnitId(key) /\ (RowGone(ProjectOf(key)) \/ HasUnit(ProjectOf(key), id))

LEMMA LearnerMoves ==
  ASSUME TeachingInv, NEW l \in Learners, NEW new \in LearnerRecords, NEW u \in UnitRecords,
         LearnerMove(l, new, u), UnitMove(l, new, u)
  PROVE  TeachingInv'
<1> DEFINE key == learners[l].key
<1> USE DEF TeachingInv
<1>0. /\ key \in UnitKeys /\ ProjectOf(key) \in Projects
      /\ learners'[l] = new /\ \A m \in Learners : m # l => learners'[m] = learners[m]
      /\ units'[key] = u /\ \A k \in UnitKeys : k # key => units'[k] = units[k]
      /\ \A q : RowGone(q)' <=> RowGone(q)
  BY KeyParts DEF TeachingTyped, LearnerMove, RowGone
<1>1. TeachingTyped'
  <2>1. units' \in [UnitKeys -> UnitRecords] /\ learners' \in [Learners -> LearnerRecords]
    BY DEF TeachingTyped, LearnerMove
  <2>2. \A m \in Learners : learners'[m].pc # "answered" => learners'[m].key \in UnitKeys
    BY <1>0 DEF TeachingTyped, LearnerMove
  <2> QED
    BY <2>1, <2>2 DEF TeachingTyped, LearnerMove
<1>2. \A k \in UnitKeys : units[k] # NoUnit /\ units[k].named => units'[k] # NoUnit /\ units'[k].named
  BY <1>0 DEF UnitMove
<1>3. \A q, id : HasUnit(q, id) => HasUnit(q, id)'
  BY <1>2 DEF HasUnit
<1>4. WorkInv'
  <2>1. ASSUME NEW m \in Learners, m # l, learners[m].pc \in Working, learners[m].key = key
        PROVE  learners[l].pc \notin Working /\ units[key].state = units'[key].state
    <3>1. learners[l].pc \notin Working
      BY <2>1 DEF WorkInv
    <3>2. units[key].state = "generating" \/ RowGone(ProjectOf(key))
      BY <2>1 DEF WorkInv, WorkHolds
    <3>3. u = units[key] \/ ~RowGone(ProjectOf(key))
      BY DEF UnitMove, RowGone
    <3> QED
      BY <1>0, <3>1, <3>2, <3>3 DEF UnitMove
  <2>2. ASSUME NEW m \in Learners, m # l, learners[m].pc \in Working, learners[m].key = key
        PROVE  new.pc \notin Working
    BY <2>1, <2>2, <1>0 DEF UnitMove, WorkInv
  <2>3. ASSUME NEW m \in Learners PROVE WorkHolds(m)'
    <3>1. CASE m = l
      <4>1. learners'[m] = new /\ (new.pc \in Working => new.key = key)
        BY <1>0, <3>1 DEF LearnerMove, Working
      <4> QED
        BY <1>0, <4>1 DEF UnitMove, WorkHolds
    <3>2. CASE m # l /\ learners[m].key = key
      <4>1. learners'[m] = learners[m]
        BY <1>0, <3>2
      <4>2. learners[m].pc \in Working => units[key].state = units'[key].state
        BY <2>1, <3>2
      <4> QED
        BY <1>0, <3>2, <4>1, <4>2 DEF WorkInv, WorkHolds
    <3>3. CASE m # l /\ learners[m].key # key
      <4>1. /\ learners'[m] = learners[m]
            /\ learners[m].pc \in Working => learners[m].key \in UnitKeys
        BY <1>0, <3>3 DEF TeachingTyped, Working
      <4> QED
        BY <1>0, <3>3, <4>1 DEF WorkInv, WorkHolds
    <3> QED
      BY <3>1, <3>2, <3>3
  <2>4. \A m, n \in Learners :
          learners'[m].pc \in Working /\ learners'[n].pc \in Working
            /\ learners'[m].key = learners'[n].key => m = n
    <3>1. new.pc \in Working => new.key = key
      BY DEF LearnerMove, Working
    <3>2. \A m \in Learners : m # l /\ learners'[m].pc \in Working /\ learners'[m].key = key
                                => new.pc \notin Working
      BY <1>0, <2>2
    <3> QED
      BY <1>0, <3>1, <3>2 DEF WorkInv
  <2> QED
    BY <2>3, <2>4 DEF WorkInv
<1>5. OwnedInv'
  <2> SUFFICES ASSUME NEW k \in UnitKeys, units'[k].state = "generating", ~faults'.met
               PROVE  \E m \in Learners : learners'[m].pc \in Working /\ learners'[m].key = k
    BY DEF OwnedInv
  <2>1. ~faults.met
    BY DEF LearnerMove
  <2>2. CASE new.pc \in Working /\ k = key
    <3>1. learners'[l].pc \in Working /\ learners'[l].key = k
      BY <1>0, <2>2 DEF LearnerMove, Working
    <3> QED
      BY <3>1
  <2>3. CASE k = key /\ new.pc \notin Working
    <3>1. units[key].state = "generating" /\ learners[l].pc \notin Working
      BY <1>0, <2>3 DEF UnitMove
    <3>2. PICK m \in Learners : learners[m].pc \in Working /\ learners[m].key = k
      BY <1>0, <2>1, <2>3, <3>1 DEF OwnedInv
    <3>3. learners'[m] = learners[m]
      BY <1>0, <3>1, <3>2
    <3> QED
      BY <3>2, <3>3
  <2>4. CASE k # key
    <3>1. PICK m \in Learners : learners[m].pc \in Working /\ learners[m].key = k
      BY <1>0, <2>1, <2>4 DEF OwnedInv
    <3>2. learners'[m] = learners[m]
      BY <1>0, <2>4, <3>1
    <3> QED
      BY <3>1, <3>2
  <2> QED
    BY <2>2, <2>3, <2>4
<1>6. UnitInv'
  <2> SUFFICES ASSUME NEW k \in UnitKeys
               PROVE  /\ rows'[ProjectOf(k)] = NoRow => units'[k] = NoUnit
                      /\ units'[k].state = "ready" => units'[k].named
                      /\ units'[k] # NoUnit => \A id \in units'[k].prerequisites :
                           id # UnitId(k) /\ HasUnit(ProjectOf(k), id)'
    BY DEF UnitInv
  <2>1. rows'[ProjectOf(k)] = rows[ProjectOf(k)]
    BY DEF LearnerMove
  <2>2. CASE k = key
    <3>1. rows[ProjectOf(key)] = NoRow => u = units[key]
      BY DEF UnitMove
    <3>2. u # NoUnit => \A id \in u.prerequisites : id # UnitId(key) /\ HasUnit(ProjectOf(key), id)
      BY DEF UnitMove
    <3>3. u.state = "ready" => u.named
      BY DEF UnitMove
    <3> QED
      BY <1>0, <1>3, <2>1, <2>2, <3>1, <3>2, <3>3 DEF UnitInv
  <2>3. CASE k # key
    BY <1>0, <1>3, <2>1, <2>3 DEF UnitInv
  <2> QED
    BY <2>2, <2>3
<1>7. ASSUME NEW m \in Learners PROVE CandidatesHold(m)'
  <2>1. CASE m = l
    <3>1. learners'[m] = new /\ (new.pc \in {"build", "store"} => new.key = key)
      BY <1>0, <2>1 DEF LearnerMove
    <3>2. new.pc \in {"build", "store"} => \A id \in new.candidates :
            id # UnitId(key) /\ (RowGone(ProjectOf(key)) \/ HasUnit(ProjectOf(key), id))
      BY DEF UnitMove
    <3> QED
      BY <1>0, <1>3, <3>1, <3>2 DEF CandidatesHold
  <2>2. CASE m # l
    <3>1. learners'[m] = learners[m]
      BY <1>0, <2>2
    <3> QED
      BY <1>0, <1>3, <3>1 DEF CandidateInv, CandidatesHold
  <2> QED
    BY <2>1, <2>2
<1> QED
  BY <1>1, <1>4, <1>5, <1>6, <1>7 DEF CandidateInv

(* What a request leaves as it is.                                         *)
LEMMA UnitStays ==
  ASSUME TeachingInv, NEW l \in Learners, learners[l].pc # "answered", NEW new,
         new.pc \in Working => learners[l].pc \in Working,
         learners[l].pc \in Working => \/ new.pc \in Working \/ faults'.met
                                      \/ units[learners[l].key].state # "generating",
         new.pc \in {"build", "store"} => \A id \in new.candidates :
           /\ id # UnitId(learners[l].key)
           /\ RowGone(ProjectOf(learners[l].key)) \/ HasUnit(ProjectOf(learners[l].key), id)
  PROVE  /\ UnitMove(l, new, units[learners[l].key]) /\ units[learners[l].key] \in UnitRecords
         /\ units = [units EXCEPT ![learners[l].key] = units[learners[l].key]]
<1>1. learners[l].key \in UnitKeys /\ units \in [UnitKeys -> UnitRecords]
  BY DEF TeachingInv, TeachingTyped
<1>2. learners[l].pc \in Working =>
        units[learners[l].key].state = "generating" \/ RowGone(ProjectOf(learners[l].key))
  BY DEF TeachingInv, WorkInv, WorkHolds
<1>3. UnitMove(l, new, units[learners[l].key])
  BY <1>1, <1>2 DEF UnitMove, TeachingInv, UnitInv
<1> QED
  BY <1>1, <1>3

LearnerStepped(l, pc) == [learners[l] EXCEPT !.pc = pc]

LEMMA LearnerGoes ==
  ASSUME TeachingInv, NEW l \in Learners, NEW pc \in LearnerSteps
  PROVE  /\ LearnerStepped(l, pc) \in LearnerRecords /\ LearnerStepped(l, pc).pc = pc
         /\ LearnerStepped(l, pc).key = learners[l].key
         /\ LearnerStepped(l, pc).candidates = learners[l].candidates
         /\ LearnerTo(l, pc) => learners' = [learners EXCEPT ![l] = LearnerStepped(l, pc)]
<1>1. learners[l] \in LearnerRecords
  BY DEF TeachingInv, TeachingTyped
<1>2. LearnerTo(l, pc) => learners' = [learners EXCEPT ![l] = LearnerStepped(l, pc)]
  BY DEF LearnerTo, LearnerStepped
<1> QED
  BY <1>1, <1>2 DEF LearnerStepped, LearnerRecords

LEMMA LearnerLeaves ==
  ASSUME TeachingInv, NEW l \in Learners, Leave(l) \/ learners' = [learners EXCEPT ![l] = Answered],
         Leave(l) \/ UNCHANGED <<locks, holders>>
  PROVE  /\ Answered \in LearnerRecords /\ Answered.pc = "answered"
         /\ learners' = [learners EXCEPT ![l] = Answered]
         /\ locks' \in [UnitKeys -> Learners \cup {"none"}]
         /\ holders' \in [Learners -> Learners \cup {"none"}]
<1>1. locks \in [UnitKeys -> Learners \cup {"none"}] /\ holders \in [Learners -> Learners \cup {"none"}]
  BY DEF TeachingInv, TeachingTyped
<1>2. Answered \in LearnerRecords /\ Answered.pc = "answered"
  BY DEF Answered, NewLearner, LearnerRecords, LearnerSteps
<1> QED
  BY <1>1, <1>2 DEF Leave

\* A step that neither begins nor ends a generation.
LEMMA Queues ==
  ASSUME TeachingInv, NEW l \in Learners, NEW new \in LearnerRecords,
         learners' = [learners EXCEPT ![l] = new], units' = units,
         learners[l].pc \notin Working \cup {"answered"}, new.pc \notin Working,
         new.pc # "answered" => new.key = learners[l].key,
         rows' = rows, tasks' = tasks, faults.met => faults'.met,
         locks' \in [UnitKeys -> Learners \cup {"none"}],
         holders' \in [Learners -> Learners \cup {"none"}]
  PROVE  TeachingInv'
<1>1. UnitMove(l, new, units[learners[l].key]) /\ units[learners[l].key] \in UnitRecords
      /\ units = [units EXCEPT ![learners[l].key] = units[learners[l].key]]
  BY UnitStays DEF Working
<1>2. LearnerMove(l, new, units[learners[l].key])
  BY <1>1 DEF LearnerMove
<1> QED
  BY <1>1, <1>2, LearnerMoves

LEMMA LearnerActions ==
  ASSUME TeachingInv, NEW l \in Learners, rows' = rows, tasks' = tasks,
         Request(l) \/ LearnerStep(l) \/ (LoseStatement(l) /\ faults'.met),
         faults.met => faults'.met
  PROVE  TeachingInv'
<1> DEFINE key == learners[l].key
<1> USE DEF Working
<1>0. /\ learners \in [Learners -> LearnerRecords]
      /\ learners[l] \in LearnerRecords /\ learners[l].candidates \subseteq UnitIds
      /\ learners[l].pc # "answered" => key \in UnitKeys /\ units[key] \in UnitRecords
      /\ units \in [UnitKeys -> UnitRecords]
      /\ locks \in [UnitKeys -> Learners \cup {"none"}]
      /\ holders \in [Learners -> Learners \cup {"none"}]
  BY DEF TeachingInv, TeachingTyped, LearnerRecords
<1>a. \A pc \in {"look", "lock", "recheck", "begin", "wait", "gather", "build", "store",
                 "retryable", "final"} : pc \in LearnerSteps
  BY DEF LearnerSteps
<1>1. ASSUME learners[l].pc \notin Working \cup {"answered"}, units' = units,
             NEW pc \in {"look", "lock", "recheck", "begin", "wait"}, LearnerTo(l, pc),
             locks' \in [UnitKeys -> Learners \cup {"none"}],
             holders' \in [Learners -> Learners \cup {"none"}]
      PROVE  TeachingInv'
  <2>1. pc \in LearnerSteps
    BY <1>a
  <2>2. /\ LearnerStepped(l, pc) \in LearnerRecords /\ LearnerStepped(l, pc).pc = pc
        /\ LearnerStepped(l, pc).key = learners[l].key
        /\ learners' = [learners EXCEPT ![l] = LearnerStepped(l, pc)]
    BY <1>1, <2>1, LearnerGoes
  <2> QED
    BY <1>1, <2>2, Queues
<1>2. ASSUME learners[l].pc \notin Working \cup {"answered"}, units' = units,
             Leave(l) \/ learners' = [learners EXCEPT ![l] = Answered],
             Leave(l) \/ UNCHANGED <<locks, holders>>
      PROVE  TeachingInv'
  BY <1>2, LearnerLeaves, Queues
<1>3. CASE Request(l)
  BY <1>0, <1>1, <1>2, <1>3 DEF Request
<1>4. CASE Look(l)
  <2> DEFINE lock == IF locks[key] = "none" THEN l ELSE locks[key]
             new == [learners[l] EXCEPT !.pc = "lock", !.lock = lock]
  <2>1. learners[l].pc = "look" /\ units' = units /\ holders' = holders /\ key \in UnitKeys
    BY <1>0, <1>4 DEF Look
  <2>2. CASE RecordSays(units[key]) = "go on"
    <3>1. learners' = [learners EXCEPT ![l].pc = "lock", ![l].lock = lock] /\ locks' = [locks EXCEPT ![key] = lock]
      BY <1>4, <2>2 DEF Look
    <3>2. lock \in Learners \cup {"none"}
      BY <1>0, <2>1
    <3> HIDE DEF lock
    <3>3. new \in LearnerRecords /\ new.pc = "lock" /\ new.key = key
      BY <1>0, <3>2 DEF LearnerRecords, LearnerSteps
    <3>4. learners' = [learners EXCEPT ![l] = new] /\ locks' \in [UnitKeys -> Learners \cup {"none"}]
      BY <1>0, <3>1, <3>2
    <3> HIDE DEF new
    <3> QED
      BY <1>0, <2>1, <3>3, <3>4, Queues
  <2>3. CASE RecordSays(units[key]) # "go on"
    <3>1. learners' = [learners EXCEPT ![l] = Answered] /\ locks' = locks
      BY <1>4, <2>3 DEF Look
    <3> QED
      BY <1>2, <2>1, <3>1
  <2> QED
    BY <2>2, <2>3
<1>5. CASE Enter(l)
  BY <1>0, <1>1, <1>5 DEF Enter
<1>6. CASE Recheck(l)
  BY <1>0, <1>1, <1>2, <1>6 DEF Recheck
<1>7. CASE Wait(l)
  BY <1>2, <1>7 DEF Wait
<1>8. CASE Begin(l)
  <2>1. learners[l].pc = "begin" /\ key \in UnitKeys
    BY <1>0, <1>8 DEF Begin
  <2>2. CASE Leave(l) /\ units' = units
    BY <1>2, <2>1, <2>2
  <2>3. CASE LearnerTo(l, "wait") /\ UNCHANGED <<locks, holders, units>>
    BY <1>0, <1>1, <2>1, <2>3
  <2>4. CASE /\ rows[ProjectOf(key)] # NoRow /\ MayClaim(units[key])
             /\ units' = [units EXCEPT ![key] = Claimed(@)]
             /\ LearnerTo(l, "gather") /\ UNCHANGED <<locks, holders>>
    <3> DEFINE u == Claimed(units[key])
               new == LearnerStepped(l, "gather")
    <3>1. /\ u \in UnitRecords /\ u # NoUnit /\ u.state = "generating"
          /\ units[key].state # "generating"
          /\ units[key] # NoUnit /\ units[key].named => u.named
          /\ units[key] = NoUnit => u.prerequisites = {}
          /\ units[key] # NoUnit => u.prerequisites = units[key].prerequisites
      <4>1. CASE units[key] = NoUnit
        BY <4>1 DEF Claimed, Generating, UnitRecords, UnitStates, NoUnit
      <4>2. CASE units[key] # NoUnit
        <5>1. /\ units[key] \in [state : UnitStates, retries : Nat, expired : BOOLEAN,
                                 named : BOOLEAN, prerequisites : SUBSET UnitIds]
              /\ units[key].state \in {"ready", "failed_retryable"}
          BY <1>0, <2>1, <2>4, <4>2 DEF UnitRecords, MayClaim
        <5> QED
          BY <4>2, <5>1 DEF Claimed, UnitRecords, UnitStates, NoUnit
      <4> QED
        BY <4>1, <4>2
    <3>2. /\ new \in LearnerRecords /\ new.pc = "gather" /\ new.key = key
          /\ learners' = [learners EXCEPT ![l] = new]
      BY <1>a, <2>4, LearnerGoes
    <3>3. units' = [units EXCEPT ![key] = u]
      BY <2>4
    <3> HIDE DEF u, new
    <3>4. LearnerMove(l, new, u)
      BY <1>0, <2>1, <2>4, <3>2, <3>3 DEF LearnerMove
    <3>5. u # NoUnit => \A id \in u.prerequisites : id # UnitId(key) /\ HasUnit(ProjectOf(key), id)
      BY <2>1, <3>1 DEF TeachingInv, UnitInv
    <3>6. UnitMove(l, new, u)
      BY <2>1, <2>4, <3>1, <3>2, <3>5 DEF UnitMove, RowGone
    <3> QED
      BY <3>1, <3>2, <3>4, <3>6, LearnerMoves
  <2> QED
    BY <1>8, <2>2, <2>3, <2>4 DEF Begin

\* A step within a generation that leaves the unit as it is.
<1>9. ASSUME learners[l].pc \in {"gather", "build", "store"}, units' = units,
             NEW pc \in {"build", "store", "retryable", "final"},
             NEW candidates \in SUBSET UnitIds,
             \A id \in candidates :
               id # UnitId(key) /\ (RowGone(ProjectOf(key)) \/ HasUnit(ProjectOf(key), id)),
             learners' = [learners EXCEPT ![l].pc = pc, ![l].candidates = candidates],
             UNCHANGED <<locks, holders>>
      PROVE  TeachingInv'
  <2> DEFINE new == [learners[l] EXCEPT !.pc = pc, !.candidates = candidates]
  <2>1. /\ new \in LearnerRecords /\ new.pc = pc /\ new.key = key /\ new.candidates = candidates
        /\ pc \in Working
    BY <1>0, <1>9, <1>a DEF LearnerRecords
  <2>2. learners' = [learners EXCEPT ![l] = new]
    BY <1>9
  <2> HIDE DEF new
  <2>3. UnitMove(l, new, units[key]) /\ units[key] \in UnitRecords
        /\ units = [units EXCEPT ![key] = units[key]]
    BY <1>9, <2>1, UnitStays
  <2>4. LearnerMove(l, new, units[key])
    BY <1>0, <1>9, <2>1, <2>2, <2>3 DEF LearnerMove
  <2> QED
    BY <2>1, <2>3, <2>4, LearnerMoves
<1>10. ASSUME learners[l].pc \in {"gather", "build", "store"}, units' = units,
              NEW pc \in {"retryable", "final"}, LearnerTo(l, pc), UNCHANGED <<locks, holders>>
       PROVE  TeachingInv'
  <2>1. pc \in LearnerSteps /\ pc \in Working
    BY <1>a
  <2>2. /\ LearnerStepped(l, pc) \in LearnerRecords /\ LearnerStepped(l, pc).pc = pc
        /\ LearnerStepped(l, pc).key = key
        /\ learners' = [learners EXCEPT ![l] = LearnerStepped(l, pc)]
    BY <1>10, <2>1, LearnerGoes
  <2>3. UnitMove(l, LearnerStepped(l, pc), units[key]) /\ units[key] \in UnitRecords
        /\ units = [units EXCEPT ![key] = units[key]]
    BY <1>10, <2>1, <2>2, UnitStays
  <2>4. LearnerMove(l, LearnerStepped(l, pc), units[key])
    BY <1>0, <1>10, <2>2, <2>3 DEF LearnerMove
  <2> QED
    BY <2>2, <2>3, <2>4, LearnerMoves
<1>11. CASE Gather(l)
  <2> DEFINE p == ProjectOf(key)
             candidates == ReadyUnits(p) \ {UnitId(key)}
  <2>1. learners[l].pc = "gather" /\ UNCHANGED <<locks, holders, units>>
    BY <1>11 DEF Gather
  <2>2. CASE learners' = [learners EXCEPT ![l].pc = "build", ![l].candidates = candidates]
    <3>1. candidates \subseteq UnitIds
      BY DEF ReadyUnits, UnitIds
    <3>2. \A id \in candidates : id # UnitId(key) /\ HasUnit(p, id)
      BY DEF ReadyUnits, HasUnit, TeachingInv, UnitInv, NoUnit
    <3> QED
      BY <1>9, <2>1, <2>2, <3>1, <3>2
  <2>3. CASE LearnerTo(l, "final")
    BY <1>10, <2>1, <2>3
  <2> QED
    BY <1>11, <2>2, <2>3 DEF Gather
<1>12. CASE Build(l)
  <2>1. learners[l].pc = "build" /\ UNCHANGED <<locks, holders, units>>
    BY <1>12 DEF Build
  <2>2. ASSUME NEW chosen \in Prerequisites(learners[l].candidates),
               learners' = [learners EXCEPT ![l].pc = "store", ![l].candidates = chosen]
        PROVE  TeachingInv'
    <3>1. chosen \subseteq learners[l].candidates
      BY <2>2 DEF Prerequisites
    <3>2. \A id \in learners[l].candidates :
            id # UnitId(key) /\ (RowGone(ProjectOf(key)) \/ HasUnit(ProjectOf(key), id))
      BY <2>1 DEF TeachingInv, CandidateInv, CandidatesHold
    <3>3. chosen \in SUBSET UnitIds
      BY <1>0, <3>1
    <3>4. \A id \in chosen :
            id # UnitId(key) /\ (RowGone(ProjectOf(key)) \/ HasUnit(ProjectOf(key), id))
      BY <3>1, <3>2
    <3> QED
      BY <1>9, <2>1, <2>2, <3>3, <3>4
  <2>3. ASSUME NEW pc \in {"retryable", "final"}, LearnerTo(l, pc) PROVE TeachingInv'
    BY <1>10, <2>1, <2>3
  <2> QED
    BY <1>12, <2>2, <2>3 DEF Build

\* The end of a generation.
<1>13. ASSUME learners[l].pc \in Working, Leave(l), units' = units,
              units[key].state = "generating" => faults'.met
       PROVE  TeachingInv'
  <2>1. /\ Answered \in LearnerRecords /\ Answered.pc = "answered"
        /\ learners' = [learners EXCEPT ![l] = Answered]
        /\ locks' \in [UnitKeys -> Learners \cup {"none"}]
        /\ holders' \in [Learners -> Learners \cup {"none"}]
    BY <1>13, LearnerLeaves
  <2>2. UnitMove(l, Answered, units[key]) /\ units[key] \in UnitRecords
        /\ units = [units EXCEPT ![key] = units[key]]
    BY <1>13, <2>1, UnitStays
  <2>3. LearnerMove(l, Answered, units[key])
    BY <1>13, <2>1, <2>2 DEF LearnerMove
  <2> QED
    BY <2>1, <2>2, <2>3, LearnerMoves
<1>14. ASSUME learners[l].pc \in Working, Leave(l), NEW u \in UnitRecords,
              units[key].state = "generating", units' = [units EXCEPT ![key] = u],
              u # NoUnit, u.state # "generating", u.state = "ready" => u.named,
              units[key].named => u.named,
              \A id \in u.prerequisites : id # UnitId(key) /\ HasUnit(ProjectOf(key), id)
       PROVE  TeachingInv'
  <2>1. /\ Answered \in LearnerRecords /\ Answered.pc = "answered"
        /\ learners' = [learners EXCEPT ![l] = Answered]
        /\ locks' \in [UnitKeys -> Learners \cup {"none"}]
        /\ holders' \in [Learners -> Learners \cup {"none"}]
    BY <1>14, LearnerLeaves
  <2>2. rows[ProjectOf(key)] # NoRow
    BY <1>0, <1>14 DEF TeachingInv, UnitInv, NoUnit
  <2>3. UnitMove(l, Answered, u)
    BY <1>14, <2>1, <2>2 DEF UnitMove
  <2>4. LearnerMove(l, Answered, u)
    BY <1>14, <2>1 DEF LearnerMove
  <2> QED
    BY <2>1, <2>3, <2>4, LearnerMoves
<1>15. CASE StoreUnit(l)
  <2>1. learners[l].pc = "store" /\ key \in UnitKeys
    BY <1>0, <1>15 DEF StoreUnit
  <2>2. CASE units[key].state = "generating" /\ ~NameTaken(key)
    <3> DEFINE u == [units[key] EXCEPT !.state = "ready", !.named = TRUE,
                                       !.prerequisites = learners[l].candidates]
    <3>1. units' = [units EXCEPT ![key] = u] /\ Leave(l)
      BY <1>15, <2>2 DEF StoreUnit
    <3>2. /\ units[key] \in [state : UnitStates, retries : Nat, expired : BOOLEAN,
                             named : BOOLEAN, prerequisites : SUBSET UnitIds]
          /\ units[key] # NoUnit
      BY <1>0, <2>1, <2>2 DEF UnitRecords, NoUnit
    <3>3. /\ u \in UnitRecords /\ u.state = "ready" /\ u.named
          /\ u.prerequisites = learners[l].candidates
      BY <1>0, <3>2 DEF UnitRecords, UnitStates
    <3>4. u # NoUnit
      BY <3>3 DEF NoUnit
    <3> HIDE DEF u
    <3>5. \A id \in u.prerequisites : id # UnitId(key) /\ HasUnit(ProjectOf(key), id)
      <4>1. ~RowGone(ProjectOf(key))
        BY <2>1, <3>2 DEF TeachingInv, UnitInv, RowGone
      <4> QED
        BY <2>1, <3>3, <4>1 DEF TeachingInv, CandidateInv, CandidatesHold
    <3> QED
      BY <1>14, <2>1, <2>2, <3>1, <3>3, <3>4, <3>5
  <2>3. CASE ~(units[key].state = "generating" /\ ~NameTaken(key))
    <3>1. LearnerTo(l, "final") /\ UNCHANGED <<locks, holders, units>>
      BY <1>15, <2>3 DEF StoreUnit
    <3> QED
      BY <1>10, <2>1, <3>1
  <2> QED
    BY <2>2, <2>3
<1>16. CASE StoreFailure(l)
  <2>1. learners[l].pc \in {"retryable", "final"} /\ key \in UnitKeys /\ Leave(l)
    BY <1>0, <1>16 DEF StoreFailure
  <2>2. CASE units[key].state = "generating"
    <3> DEFINE state == IF learners[l].pc = "final" THEN "failed_permanent" ELSE "failed_retryable"
               u == [units[key] EXCEPT !.state = state, !.retries = @ + 1]
    <3>1. units' = [units EXCEPT ![key].state = state, ![key].retries = @ + 1]
      BY <1>16, <2>2 DEF StoreFailure
    <3>2. /\ units[key] \in [state : UnitStates, retries : Nat, expired : BOOLEAN,
                             named : BOOLEAN, prerequisites : SUBSET UnitIds]
          /\ units[key] # NoUnit
      BY <1>0, <2>1, <2>2 DEF UnitRecords, NoUnit
    <3>3. state \in {"failed_permanent", "failed_retryable"}
      OBVIOUS
    <3> HIDE DEF state
    <3>4. units' = [units EXCEPT ![key] = u]
      BY <3>1
    <3>5. /\ u \in UnitRecords /\ u.state = state
          /\ u.prerequisites = units[key].prerequisites
          /\ units[key].named => u.named
      <4>1. u \in [state : UnitStates, retries : Nat, expired : BOOLEAN,
                  named : BOOLEAN, prerequisites : SUBSET UnitIds]
        <5>1. units[key].retries + 1 \in Nat /\ state \in UnitStates
          BY <3>2, <3>3 DEF UnitStates
        <5> QED
          BY <3>2, <5>1
      <4>2. u.state = state /\ u.prerequisites = units[key].prerequisites
        BY <3>2
      <4>3. units[key].named => u.named
        BY <3>2
      <4> QED
        BY <4>1, <4>2, <4>3 DEF UnitRecords
    <3>6. u # NoUnit
      BY <3>3, <3>5 DEF NoUnit
    <3> HIDE DEF u
    <3>7. \A id \in u.prerequisites : id # UnitId(key) /\ HasUnit(ProjectOf(key), id)
      BY <2>1, <3>2, <3>5 DEF TeachingInv, UnitInv
    <3> QED
      BY <1>14, <2>1, <2>2, <3>3, <3>4, <3>5, <3>6, <3>7
  <2>3. CASE units[key].state # "generating"
    <3>1. units' = units
      BY <1>16, <2>3 DEF StoreFailure
    <3> QED
      BY <1>13, <2>1, <2>3, <3>1
  <2> QED
    BY <2>2, <2>3
<1>17. CASE LoseStatement(l) /\ faults'.met
  <2>1. CASE learners[l].pc = "look"
    BY <1>2, <1>17, <2>1 DEF LoseStatement
  <2>2. CASE learners[l].pc \in {"gather", "store"}
    BY <1>10, <1>17, <2>2 DEF LoseStatement
  <2>3. CASE learners[l].pc \in {"recheck", "begin"}
    BY <1>2, <1>17, <2>3 DEF LoseStatement
  <2>4. CASE learners[l].pc \in {"retryable", "final"}
    BY <1>13, <1>17, <2>4 DEF LoseStatement
  <2> QED
    BY <1>17, <2>1, <2>2, <2>3, <2>4 DEF LoseStatement
<1> QED
  BY <1>3, <1>4, <1>5, <1>6, <1>7, <1>8, <1>11, <1>12, <1>15, <1>16, <1>17 DEF LearnerStep

\* Time passes for a unit.
LEMMA UnitExpiresKeeps ==
  ASSUME TeachingInv, NEW key \in UnitKeys, UnitExpires(key), rows' = rows, tasks' = tasks,
         faults' = faults
  PROVE  TeachingInv'
<1> USE DEF TeachingInv
<1> DEFINE u == [units[key] EXCEPT !.expired = TRUE]
<1>1. /\ learners' = learners /\ locks' = locks /\ holders' = holders
      /\ units' = [units EXCEPT ![key] = u] /\ units[key] # NoUnit
      /\ units \in [UnitKeys -> UnitRecords]
  BY DEF UnitExpires, teachingVars, TeachingTyped
<1>2. units[key] \in [state : UnitStates, retries : Nat, expired : BOOLEAN,
                     named : BOOLEAN, prerequisites : SUBSET UnitIds]
  BY <1>1 DEF UnitRecords
<1>3. u \in UnitRecords /\ u.state = units[key].state /\ u.prerequisites = units[key].prerequisites
  BY <1>2 DEF UnitRecords
<1>4. u # NoUnit
  BY <1>2, <1>3 DEF UnitStates, NoUnit
<1>5. units[key].named => u.named
  BY <1>2
<1> HIDE DEF u
<1>6. \A k \in UnitKeys :
        /\ units'[k].state = units[k].state
        /\ units'[k] = NoUnit <=> units[k] = NoUnit
        /\ units[k] # NoUnit => units'[k].prerequisites = units[k].prerequisites
  BY <1>1, <1>3, <1>4
<1>7. \A k \in UnitKeys : units[k].named => units'[k].named
  BY <1>1, <1>5
<1>8. TeachingTyped'
  BY <1>1, <1>3 DEF TeachingTyped
<1>9. \A q, id : HasUnit(q, id) => HasUnit(q, id)'
  BY <1>6, <1>7 DEF HasUnit
<1>10. \A q : RowGone(q)' <=> RowGone(q)
  BY DEF RowGone
<1>11. ASSUME NEW l \in Learners PROVE WorkHolds(l)' /\ CandidatesHold(l)'
  BY <1>1, <1>6, <1>9, <1>10 DEF WorkInv, WorkHolds, CandidateInv, CandidatesHold, TeachingTyped, Working
<1>12. WorkInv' /\ CandidateInv'
  BY <1>1, <1>11 DEF WorkInv, CandidateInv
<1>13. OwnedInv'
  BY <1>1, <1>6 DEF OwnedInv
<1>14. UnitInv'
  BY <1>6, <1>7, <1>9 DEF UnitInv
<1> QED
  BY <1>8, <1>12, <1>13, <1>14

(* The units go with their project, and stay as long as it does.            *)
Accompany ==
  /\ \A q \in Projects : RowGone(q) => RowGone(q)'
  /\ \A q \in Projects : rows'[q] = NoRow => rows[q] = NoRow \/ RowGone(q)'
  /\ units' \in [UnitKeys -> UnitRecords]
  /\ \A k \in UnitKeys : \/ units'[k] = NoUnit /\ rows'[ProjectOf(k)] = NoRow
                         \/ units'[k] = units[k] /\ rows'[ProjectOf(k)] # NoRow
  /\ faults.met => faults'.met

LEMMA UnitsAccompany ==
  ASSUME TeachingInv, Accompany, UNCHANGED teachingVars
  PROVE  TeachingInv'
<1> USE DEF TeachingInv
<1>1. learners' = learners /\ locks' = locks /\ holders' = holders
  BY DEF teachingVars
<1>2. TeachingTyped'
  BY <1>1 DEF TeachingTyped, Accompany
<1>3. NoUnit.state = "none"
  BY DEF NoUnit
<1>4. \A q \in Projects : \A id : HasUnit(q, id) => RowGone(q)' \/ HasUnit(q, id)'
  BY KeyParts DEF HasUnit, Accompany, UnitInv
<1>5. ASSUME NEW l \in Learners PROVE WorkHolds(l)' /\ CandidatesHold(l)'
  <2>1. learners[l].pc # "answered" => learners[l].key \in UnitKeys
    BY DEF TeachingTyped
  <2>2. CASE learners[l].pc \in Working
    <3> DEFINE key == learners[l].key
    <3>1. key \in UnitKeys /\ ProjectOf(key) \in Projects
      BY <2>1, <2>2, KeyParts DEF Working
    <3>2. units[key].state = "generating" \/ RowGone(ProjectOf(key))
      BY <2>2 DEF WorkInv, WorkHolds
    <3>3. units'[key].state = "generating" \/ RowGone(ProjectOf(key))'
      BY <1>1, <1>3, <3>1, <3>2 DEF Accompany, UnitInv
    <3>4. WorkHolds(l)'
      BY <1>1, <3>3 DEF WorkHolds
    <3>5. learners[l].pc \in {"build", "store"} =>
            \A id \in learners[l].candidates :
              id # UnitId(key) /\ (RowGone(ProjectOf(key)) \/ HasUnit(ProjectOf(key), id))
      BY DEF CandidateInv, CandidatesHold
    <3>6. learners[l].pc \in {"build", "store"} =>
            \A id \in learners[l].candidates :
              id # UnitId(key) /\ (RowGone(ProjectOf(key))' \/ HasUnit(ProjectOf(key), id)')
      BY <1>1, <1>4, <3>1, <3>5 DEF Accompany
    <3>7. CandidatesHold(l)'
      BY <1>1, <3>6 DEF CandidatesHold
    <3> QED
      BY <3>4, <3>7
  <2>3. CASE learners[l].pc \notin Working
    BY <1>1, <2>3 DEF Working, WorkHolds, CandidatesHold
  <2> QED
    BY <2>2, <2>3
<1>6. WorkInv' /\ CandidateInv'
  BY <1>1, <1>5 DEF WorkInv, CandidateInv
<1>7. OwnedInv'
  BY <1>1, <1>3 DEF OwnedInv, Accompany
<1>8. UnitInv'
  BY <1>3, <1>4, KeyParts DEF UnitInv, Accompany, RowGone
<1> QED
  BY <1>2, <1>6, <1>7, <1>8

LEMMA IngestAccompanies ==
  ASSUME IngestTyped, TaskInv, TeachingInv, IngestStep
  PROVE  Accompany
<1>1. faults.met => faults'.met
  BY FaultTyped DEF IngestStep, WorkerStep, ListExpired, SweepDirectory, SweepRow, ProcessStep,
     Upload, MakeDirectory, Extract, Parse, GiveUpExtraction, MarkReady, MarkFailed,
     RemoveDirectory, Draft, Index, WriteLate, StopWriting, Age, NoFault
<1>2. units \in [UnitKeys -> UnitRecords]
  BY DEF TeachingInv, TeachingTyped
<1>3. CASE \E p \in Projects : Deletes(p)
  <2>1. PICK p \in Projects : Deletes(p)
    BY <1>3
  <2>2. /\ rows' = [rows EXCEPT ![p] = NoRow] /\ tasks' = tasks /\ tasks[p].pc # "none"
        /\ units' = [k \in UnitKeys |-> IF k[1] = p THEN NoUnit ELSE units[k]]
        /\ rows \in [Projects -> Rows]
    BY <2>1 DEF Deletes, DeleteRow, IngestTyped
  <2>3. units' \in [UnitKeys -> UnitRecords]
    BY <1>2, <2>2 DEF UnitRecords
  <2>4. ASSUME NEW q \in Projects
        PROVE  /\ RowGone(q) => RowGone(q)'
               /\ rows'[q] = NoRow => rows[q] = NoRow \/ RowGone(q)'
    BY <2>2 DEF RowGone
  <2>5. ASSUME NEW k \in UnitKeys
        PROVE  \/ units'[k] = NoUnit /\ rows'[ProjectOf(k)] = NoRow
               \/ units'[k] = units[k] /\ rows'[ProjectOf(k)] # NoRow
    BY <2>2, KeyParts DEF ProjectOf, TeachingInv, UnitInv
  <2> QED
    BY <1>1, <2>3, <2>4, <2>5 DEF Accompany
<1>4. CASE units' = units /\ \A q \in Projects : Lives(q)
  <2>1. ASSUME NEW q \in Projects
        PROVE  /\ RowGone(q) => RowGone(q)'
               /\ rows'[q] = NoRow => rows[q] = NoRow
               /\ rows'[q] = NoRow \/ rows[q] # NoRow \/ tasks[q].pc = "none"
    BY <1>4 DEF RowGone, Lives
  <2> QED
    BY <1>1, <1>2, <1>4, <2>1, KeyParts DEF Accompany, TeachingInv, UnitInv
<1> QED
  BY <1>3, <1>4, RowsMove, SMTT(30)

LEMMA TeachingNext ==
  ASSUME IngestTyped, TaskInv, TeachingInv, [Next]_vars
  PROVE  TeachingInv'
<1>1. CASE IngestStep /\ UNCHANGED teachingVars
  BY <1>1, IngestAccompanies, UnitsAccompany
<1>2. CASE Apart /\ TeachingStep
  <2>1. rows' = rows /\ tasks' = tasks /\ (faults.met => faults'.met)
    BY <1>2, FaultTyped DEF Apart
  <2>2. ASSUME NEW l \in Learners, Request(l) \/ LearnerStep(l) PROVE TeachingInv'
    BY <2>1, <2>2, LearnerActions
  <2>3. ASSUME NEW l \in Learners, LoseStatement(l), Fault PROVE TeachingInv'
    BY <2>1, <2>3, LearnerActions DEF Fault
  <2>4. ASSUME NEW key \in UnitKeys, UnitExpires(key), faults' = faults PROVE TeachingInv'
    BY <2>1, <2>4, UnitExpiresKeeps
  <2> QED
    BY <1>2, <2>2, <2>3, <2>4 DEF TeachingStep, restOfTeaching, ingestVars
<1>3. CASE Apart /\ UNCHANGED <<units, teachingVars>>
  <2>1. rows' = rows /\ tasks' = tasks /\ (faults.met => faults'.met)
    BY <1>3, FaultTyped DEF Apart
  <2>2. Accompany
    BY <1>3, <2>1 DEF Accompany, RowGone, TeachingInv, TeachingTyped, UnitInv
  <2> QED
    BY <1>3, <2>2, UnitsAccompany
<1>4. CASE Restart /\ ForgetLearners
  <2>1. /\ rows' = rows /\ units' = units /\ faults'.met
        /\ learners' = [l \in Learners |-> Answered]
    BY <1>4 DEF Restart, tables, Fault, ForgetLearners
  <2>2. Answered \in LearnerRecords /\ Answered.pc = "answered"
    BY DEF Answered, NewLearner, LearnerRecords, LearnerSteps
  <2>3. TeachingTyped'
    BY <1>4, <2>1, <2>2 DEF TeachingInv, TeachingTyped, ForgetLearners
  <2>4. WorkInv' /\ CandidateInv'
    <3>1. \A l \in Learners : learners'[l].pc = "answered"
      BY <2>1, <2>2
    <3> QED
      BY <3>1 DEF WorkInv, WorkHolds, CandidateInv, CandidatesHold, Working
  <2>5. OwnedInv' /\ UnitInv'
    BY <2>1 DEF OwnedInv, TeachingInv, UnitInv, HasUnit
  <2> QED
    BY <2>3, <2>4, <2>5 DEF TeachingInv
<1> QED
  BY <1>1, <1>2, <1>3, <1>4, Kinds DEF tables

ServiceInv == IngestTyped /\ TaskInv /\ TeachingInv

THEOREM ServiceInductive == Spec => []ServiceInv
<1>1. Init => ServiceInv
  BY IngestInit, TeachingInit DEF ServiceInv
<1>2. ServiceInv /\ [Next]_vars => ServiceInv'
  BY IngestNext, TeachingNext DEF ServiceInv
<1> QED
  BY <1>1, <1>2, PTL DEF Spec

(* Uploads, the worker and the requests keep to their types, whatever fails *)
(* and whenever the process is started again.                               *)
THEOREM ProjectTypes == Spec => [](IngestTyped /\ TeachingTyped)
<1>1. ServiceInv => IngestTyped /\ TeachingTyped
  BY DEF ServiceInv, TeachingInv
<1> QED
  BY <1>1, ServiceInductive, PTL

LEMMA OneOwner == ServiceInv => EveryGenerationHasOneOwner
<1> SUFFICES ASSUME ServiceInv, NEW key \in UnitKeys
             PROVE  /\ Cardinality(WorkingOn(key)) <= 1
                    /\ units[key].state = "generating" /\ ~faults.met => WorkingOn(key) # {}
  BY DEF EveryGenerationHasOneOwner
<1>1. WorkingOn(key) = {l \in Learners : learners[l].pc \in Working /\ learners[l].key = key}
  BY DEF WorkingOn, Working
<1>2. Cardinality(WorkingOn(key)) <= 1
  <2>1. CASE WorkingOn(key) = {}
    BY <2>1, FS_EmptySet
  <2>2. CASE WorkingOn(key) # {}
    <3>1. PICK l : l \in WorkingOn(key)
      BY <2>2
    <3>2. WorkingOn(key) = {l}
      BY <1>1, <3>1 DEF ServiceInv, TeachingInv, WorkInv
    <3>3. Cardinality({l}) = 1
      BY FS_Singleton
    <3> QED
      BY <3>2, <3>3
  <2> QED
    BY <2>1, <2>2
<1>3. units[key].state = "generating" /\ ~faults.met => WorkingOn(key) # {}
  BY <1>1 DEF ServiceInv, TeachingInv, OwnedInv
<1> QED
  BY <1>2, <1>3

(* Never do two requests generate one unit, although the lock they queue    *)
(* for may be another one meanwhile: the claim in the database decides.  And *)
(* a unit is only being generated while somebody is at it, or after a fault. *)
THEOREM GenerationsHaveOneOwner == Spec => []EveryGenerationHasOneOwner
BY OneOwner, ServiceInductive, PTL

(* What a unit builds upon are other units of its project that exist, also  *)
(* if they expired or failed since they were offered as candidates, and     *)
(* although nothing in the database ties them.                              *)
THEOREM PrerequisitesAreUnits == Spec => []PrerequisitesExist
<1>1. ServiceInv => PrerequisitesExist
  BY DEF ServiceInv, TeachingInv, UnitInv, HasUnit, PrerequisitesExist
<1> QED
  BY <1>1, ServiceInductive, PTL

(* A ready unit is replaced only once its time is over: no request that     *)
(* lost the race for it, however late, touches it.                          *)
Steady ==
  \A key \in UnitKeys :
    units[key].state = "ready" /\ ~units[key].expired /\ rows'[ProjectOf(key)] # NoRow
      => units'[key] \in {units[key], [units[key] EXCEPT !.expired = TRUE]}

LEMMA ReadyStays ==
  ASSUME ServiceInv, [Next]_vars
  PROVE  Steady
<1> SUFFICES ASSUME NEW key \in UnitKeys, units[key].state = "ready", ~units[key].expired,
                    rows'[ProjectOf(key)] # NoRow
             PROVE  units'[key] \in {units[key], [units[key] EXCEPT !.expired = TRUE]}
  BY DEF Steady
<1>1. CASE IngestStep
  <2>1. Accompany
    BY <1>1, IngestAccompanies DEF ServiceInv
  <2> QED
    BY <2>1 DEF Accompany
<1>2. CASE units' = units
  BY <1>2
<1>3. CASE TeachingStep
  <2>1. units \in [UnitKeys -> UnitRecords] /\ units[key] # NoUnit
    BY DEF ServiceInv, TeachingInv, TeachingTyped, NoUnit
  <2>2. ASSUME NEW k \in UnitKeys, UnitExpires(k)
        PROVE  units'[key] \in {units[key], [units[key] EXCEPT !.expired = TRUE]}
    BY <2>1, <2>2 DEF UnitExpires
  <2>3. ASSUME NEW l \in Learners, Request(l) \/ LearnerStep(l) \/ LoseStatement(l)
        PROVE  units'[key] = units[key]
    <3>1. CASE Begin(l)
      <4>1. units' = units \/ (MayClaim(units[learners[l].key])
                /\ units' = [units EXCEPT ![learners[l].key] = Claimed(@)])
        BY <3>1 DEF Begin
      <4>2. ~MayClaim(units[key])
        BY <2>1 DEF MayClaim
      <4> QED
        BY <2>1, <4>1, <4>2
    <3>2. CASE StoreUnit(l)
      <4>1. \/ units' = units
            \/ units[learners[l].key].state = "generating"
               /\ \E u : units' = [units EXCEPT ![learners[l].key] = u]
        BY <3>2 DEF StoreUnit
      <4> QED
        BY <2>1, <4>1
    <3>3. CASE StoreFailure(l)
      <4>1. \/ units' = units
            \/ units[learners[l].key].state = "generating"
               /\ \E u : units' = [units EXCEPT ![learners[l].key] = u]
        BY <3>3 DEF StoreFailure
      <4> QED
        BY <2>1, <4>1
    <3>4. CASE units' = units
      BY <3>4
    <3> QED
      BY <2>3, <3>1, <3>2, <3>3, <3>4
      DEF Request, LearnerStep, Look, Enter, Recheck, Gather, Build, Wait, LoseStatement
  <2> QED
    BY <1>3, <2>2, <2>3 DEF TeachingStep
<1> QED
  BY <1>1, <1>2, <1>3, Kinds DEF Restart, tables

THEOREM ReadyUnitsAreSteady == Spec => ReadyUnitsStay
<1>1. ServiceInv /\ [Next]_vars => [Steady]_units
  BY ReadyStays
<1> QED
  BY <1>1, ServiceInductive, PTL DEF Spec, ReadyUnitsStay, Steady

----------------------------------------------------------------------------
(* Overviews. *)

ReaderRecords ==
  [pc : {"new", "generate", "index", "answered"}, project : Projects \cup {"none"}, attempts : Nat]

OverviewTyped ==
  /\ readers \in [Readers -> ReaderRecords]
  /\ overviews \in [Projects -> {NoOverview} \cup {Truncated(reply) : reply \in Replies}]

\* Who asks for an overview asks of a project that could be parsed.
ReaderInv ==
  \A r \in Readers :
    /\ readers[r].pc # "answered" => readers[r].project \in Projects
    /\ readers[r].pc = "generate" => archive[readers[r].project] \in Readable

OverviewInv == OverviewTyped /\ ReaderInv /\ OverviewIsGrounded

(* Everything o names is in the contents.                                  *)
Grounded(o, contents) ==
  LET listed == {contents.files[i].path : i \in DOMAIN contents.files}
  IN  /\ ToSet(o.files) \subseteq listed
      /\ ToSet(o.models) \subseteq DOMAIN contents.models
      /\ \A entry \in ToSet(o.blocks) :
           \E path \in DOMAIN contents.models :
             /\ Last(path) = Last(entry.model)
             /\ \E b \in BlocksOf(contents.models[path]) :
                  <<b.name, b.type, b.parent>> = <<entry.name, entry.type, entry.parent>>
      /\ \A ref \in ToSet(o.evidence) :
           /\ ref.path \in listed
           /\ ref.id # "" => \E path \in DOMAIN contents.models :
                               \E b \in BlocksOf(contents.models[path]) : b.id = ref.id

LEMMA GroundedOverviews ==
  OverviewIsGrounded <=>
    \A p \in Projects : overviews[p] # NoOverview => Grounded(overviews[p], Contents(p))
BY DEF OverviewIsGrounded, Grounded

\* The blocks a model is known by under the name of another are blocks of one named alike.
LEMMA ValidatedIsGrounded ==
  ASSUME NEW a \in Readable, NEW alias \in Aliases(ContentsOf[a]), NEW o,
         Validated(ContentsOf[a], alias, o)
  PROVE  Grounded(o, ContentsOf[a])
<1> DEFINE contents == ContentsOf[a]
           listed == {contents.files[i].path : i \in DOMAIN contents.files}
<1>1. DOMAIN contents.models = PathsOf(contents, ".slx")
  BY FilesAssumption DEF ContentsOf
<1> HIDE DEF contents
<1>2. ToSet(o.files) \subseteq listed /\ ToSet(o.models) \subseteq DOMAIN contents.models
  BY <1>1 DEF Validated, contents
<1>3. \A entry \in ToSet(o.blocks) : entry \in KnownBlocks(contents, alias)
  BY DEF Validated, contents
<1>4. \A path \in DOMAIN contents.models : Last(alias[Last(path)]) = Last(path)
  BY <1>1 DEF Aliases, contents
<1>5. ASSUME NEW entry \in KnownBlocks(contents, alias)
      PROVE  \E path \in DOMAIN contents.models :
               /\ Last(path) = Last(entry.model)
               /\ \E b \in BlocksOf(contents.models[path]) :
                    <<b.name, b.type, b.parent>> = <<entry.name, entry.type, entry.parent>>
  <2>1. PICK path \in DOMAIN contents.models :
               \E b \in BlocksOf(contents.models[path]) :
                 entry = [model |-> alias[Last(path)], name |-> b.name, type |-> b.type,
                          parent |-> b.parent]
    BY DEF KnownBlocks
  <2> QED
    BY <1>4, <2>1
<1>6. ASSUME NEW ref \in ToSet(o.evidence)
      PROVE  /\ ref.path \in listed
             /\ ref.id # "" => \E path \in DOMAIN contents.models :
                                 \E b \in BlocksOf(contents.models[path]) : b.id = ref.id
  <2> DEFINE ids == UNION {{b.id : b \in BlocksOf(contents.models[path])} :
                          path \in DOMAIN contents.models}
  <2>1. ref.path \in listed /\ (ref.id # "" => ref.id \in ids)
    BY <1>6 DEF Validated, contents
  <2>2. ref.id \in ids => \E path \in DOMAIN contents.models :
                           \E b \in BlocksOf(contents.models[path]) : b.id = ref.id
    OBVIOUS
  <2> QED
    BY <2>1, <2>2
<1>7. \A entry \in ToSet(o.blocks) :
        \E path \in DOMAIN contents.models :
          /\ Last(path) = Last(entry.model)
          /\ \E b \in BlocksOf(contents.models[path]) :
               <<b.name, b.type, b.parent>> = <<entry.name, entry.type, entry.parent>>
  BY <1>3, <1>5
<1> QED
  BY <1>2, <1>6, <1>7 DEF Grounded, contents

LEMMA OverviewInit == Init => OverviewInv
<1> SUFFICES ASSUME NEW w \in Workloads,
                    /\ readers = [r \in Readers |-> IF r \in DOMAIN w.readers
                                    THEN NewReader(w.readers[r]) ELSE ReaderDone]
                    /\ overviews = [p \in Projects |-> NoOverview]
             PROVE  OverviewInv
  BY DEF Init
<1>1. \A r \in DOMAIN w.readers : w.readers[r] \in Projects
  BY WorkloadsAssumption
<1>2. \A p \in Projects : NewReader(p) \in ReaderRecords /\ NewReader(p).pc = "new" /\ NewReader(p).project = p
  BY DEF NewReader, ReaderRecords
<1>3. ReaderDone \in ReaderRecords /\ ReaderDone.pc = "answered"
  BY DEF NewReader, ReaderDone, ReaderRecords
<1>4. OverviewTyped /\ ReaderInv
  BY <1>1, <1>2, <1>3 DEF OverviewTyped, ReaderInv
<1>5. OverviewIsGrounded
  BY GroundedOverviews
<1> QED
  BY <1>4, <1>5 DEF OverviewInv

LEMMA OverviewNext ==
  ASSUME IngestTyped, TaskInv, OverviewInv, [Next]_vars
  PROVE  OverviewInv'
<1> USE DEF OverviewInv
<1>0. archive' = archive /\ \A p : Contents(p)' = Contents(p)
  BY Kinds DEF Contents
<1>a. ASSUME \A p \in Projects : overviews'[p] # NoOverview => Grounded(overviews'[p], Contents(p)')
      PROVE  OverviewIsGrounded'
  BY <1>a DEF OverviewIsGrounded, Grounded
<1>b. overviews' = overviews => OverviewIsGrounded'
  BY <1>0, <1>a, GroundedOverviews
<1>1. ASSUME UNCHANGED overviewVars PROVE OverviewInv'
  <2>1. OverviewTyped' /\ ReaderInv'
    BY <1>0, <1>1 DEF overviewVars, OverviewTyped, ReaderInv
  <2>2. OverviewIsGrounded'
    BY <1>1, <1>b DEF overviewVars
  <2> QED
    BY <2>1, <2>2
<1>2. ReaderDone \in ReaderRecords /\ ReaderDone.pc = "answered"
  BY DEF NewReader, ReaderDone, ReaderRecords

\* A step of a request that leaves the overviews alone.
<1>3. ASSUME NEW r \in Readers, NEW new \in ReaderRecords, readers' = [readers EXCEPT ![r] = new],
             overviews' = overviews, readers[r].pc # "answered",
             new.pc # "answered" => new.project = readers[r].project,
             new.pc = "generate" => archive[readers[r].project] \in Readable
      PROVE  OverviewInv'
  <2>1. OverviewTyped'
    BY <1>3 DEF OverviewTyped
  <2>2. ReaderInv'
    BY <1>0, <1>3 DEF OverviewTyped, ReaderInv
  <2>3. OverviewIsGrounded'
    BY <1>3, <1>b
  <2> QED
    BY <2>1, <2>2, <2>3
<1>4. ASSUME NEW r \in Readers, NEW pc \in {"generate", "index"}, ReaderTo(r, pc),
             readers[r].pc # "answered"
      PROVE  LET new == [readers[r] EXCEPT !.pc = pc]
             IN  /\ new \in ReaderRecords /\ readers' = [readers EXCEPT ![r] = new]
                 /\ new.pc = pc /\ new.project = readers[r].project
  BY <1>4 DEF ReaderTo, OverviewTyped, ReaderRecords
<1>5. ASSUME NEW r \in Readers, AnswerReader(r), overviews' = overviews, readers[r].pc # "answered"
      PROVE  OverviewInv'
  BY <1>2, <1>3, <1>5 DEF AnswerReader
<1>6. ASSUME NEW r \in Readers, NEW pc \in {"generate", "index"}, ReaderTo(r, pc),
             readers[r].pc # "answered", overviews' = overviews,
             pc = "generate" => archive[readers[r].project] \in Readable
      PROVE  OverviewInv'
  <2> DEFINE new == [readers[r] EXCEPT !.pc = pc]
  <2>1. /\ new \in ReaderRecords /\ readers' = [readers EXCEPT ![r] = new]
        /\ new.pc = pc /\ new.project = readers[r].project
    BY <1>4, <1>6
  <2> HIDE DEF new
  <2> QED
    BY <1>3, <1>6, <2>1
<1>7. ASSUME NEW r \in Readers, Open(r) PROVE OverviewInv'
  <2>1. readers[r].pc = "new" /\ overviews' = overviews /\ readers[r].project \in Projects
    BY <1>7 DEF Open, ReaderInv
  <2>2. IsReady(readers[r].project) => archive[readers[r].project] \in Readable
    BY <2>1 DEF TaskInv, IsReady
  <2> QED
    BY <1>5, <1>6, <1>7, <2>1, <2>2 DEF Open
<1>8. ASSUME NEW r \in Readers, Generate(r) PROVE OverviewInv'
  <2> DEFINE p == readers[r].project
  <2>1. readers[r].pc = "generate" /\ p \in Projects /\ archive[p] \in Readable
    BY <1>8 DEF Generate, ReaderInv
  <2>2. ASSUME readers' = [readers EXCEPT ![r].attempts = readers[r].attempts + 1], overviews' = overviews
        PROVE  OverviewInv'
    <3> DEFINE new == [readers[r] EXCEPT !.attempts = readers[r].attempts + 1]
    <3>1. /\ new \in ReaderRecords /\ readers' = [readers EXCEPT ![r] = new]
          /\ new.project = p
      BY <2>2 DEF OverviewTyped, ReaderRecords
    <3> HIDE DEF new
    <3> QED
      BY <1>3, <2>1, <2>2, <3>1
  <2>3. ASSUME NEW reply \in Replies, NEW alias \in Aliases(Contents(p)),
               Validated(Contents(p), alias, Truncated(reply)),
               overviews' = [overviews EXCEPT ![p] = Truncated(reply)], ReaderTo(r, "index")
        PROVE  OverviewInv'
    <3> DEFINE new == [readers[r] EXCEPT !.pc = "index"]
               o == Truncated(reply)
    <3>1. /\ new \in ReaderRecords /\ readers' = [readers EXCEPT ![r] = new]
          /\ new.pc = "index" /\ new.project = p
      BY <1>4, <2>1, <2>3
    <3>2. Grounded(o, Contents(p))
      BY <2>1, <2>3, ValidatedIsGrounded DEF Contents
    <3>3. o \in {Truncated(x) : x \in Replies}
      OBVIOUS
    <3> HIDE DEF new, o
    <3>4. OverviewTyped'
      BY <2>1, <2>3, <3>1, <3>3 DEF OverviewTyped, o
    <3>5. ReaderInv'
      BY <1>0, <2>1, <3>1 DEF OverviewTyped, ReaderInv
    <3>6. /\ overviews'[p] = o
          /\ \A q \in Projects : q # p => overviews'[q] = overviews[q]
      BY <2>1, <2>3 DEF OverviewTyped, o
    <3>7. ASSUME NEW q \in Projects, overviews'[q] # NoOverview
          PROVE  Grounded(overviews'[q], Contents(q)')
      BY <1>0, <3>2, <3>6, <3>7, GroundedOverviews
    <3>8. OverviewIsGrounded'
      BY <3>7, <1>a
    <3> QED
      BY <3>4, <3>5, <3>8
  <2> QED
    BY <1>5, <1>8, <2>1, <2>2, <2>3 DEF Generate
<1>9. ASSUME NEW r \in Readers, IndexOverview(r) \/ LoseIndexing(r) PROVE OverviewInv'
  BY <1>5, <1>9 DEF IndexOverview, LoseIndexing
<1>10. ASSUME ForgetReaders PROVE OverviewInv'
  <2>1. OverviewTyped' /\ ReaderInv'
    BY <1>2, <1>10 DEF ForgetReaders, OverviewTyped, ReaderInv
  <2>2. OverviewIsGrounded'
    BY <1>10 DEF ForgetReaders, OverviewIsGrounded
  <2> QED
    BY <2>1, <2>2
<1> QED
  BY <1>1, <1>7, <1>8, <1>9, <1>10, Kinds DEF OverviewStep, ReaderStep

(* Whatever the language model answers, in whichever attempt, an overview   *)
(* that is kept names nothing that its project does not hold.               *)
THEOREM OverviewsAreGrounded == Spec => []OverviewIsGrounded
<1>1. Init => OverviewInv
  BY OverviewInit
<1>2. ServiceInv /\ OverviewInv /\ [Next]_vars => OverviewInv'
  BY OverviewNext DEF ServiceInv
<1>3. OverviewInv => OverviewIsGrounded
  BY DEF OverviewInv
<1> QED
  BY <1>1, <1>2, <1>3, ServiceInductive, PTL DEF Spec

----------------------------------------------------------------------------
(* How C files are cut: a section begins at every opening line that none    *)
(* before it has reached.                                                   *)

\* The first line of a set of lines, the last of all if there is none.
LEMMA FirstOf ==
  ASSUME NEW lines, IsSequence(lines), NEW k \in 1 .. Len(lines), NEW S,
         S \subseteq k .. Len(lines)
  PROVE  /\ FirstOrLast(lines, S) \in k .. Len(lines)
         /\ S # {} => FirstOrLast(lines, S) \in S /\ \A j \in S : FirstOrLast(lines, S) <= j
<1>1. PICK n \in Nat : n = Len(lines) /\ k \in 1 .. n /\ S \subseteq k .. n
  BY LengthOf
<1>2. CASE S = {}
  BY <1>1, <1>2 DEF FirstOrLast
<1>3. CASE S # {}
  <2>0. S \subseteq Nat
    BY <1>1
  <2>1. \E x \in S : \A y \in S : x <= y
    BY <1>3, <2>0, LeastElement
  <2>2. FirstOrLast(lines, S) = CHOOSE i \in S : \A j \in S : i <= j
    BY <1>3 DEF FirstOrLast
  <2> QED
    BY <1>1, <2>1, <2>2
<1> QED
  BY <1>2, <1>3

\* A run of lines of given shapes ends at or below its first line.
LEMMA RunEnds ==
  ASSUME NEW lines, IsSequence(lines), NEW k \in 1 .. Len(lines), NEW shapes
  PROVE  RunEnd(lines, k, shapes) \in k .. Len(lines)
<1>1. PICK n \in Nat : n = Len(lines) /\ k \in 1 .. n
  BY LengthOf
<1> DEFINE S == {e \in k .. n : e = n \/ lines[e + 1] \notin shapes}
<1>2. n \in S /\ S \subseteq Nat
  BY <1>1
<1>3. PICK e \in S : \A y \in S : e <= y
  BY <1>2, LeastElement
<1>4. ASSUME NEW i \in (k + 1) .. e PROVE lines[i] \in shapes
  <2>1. i - 1 \in k .. n /\ i - 1 # n /\ (i - 1) + 1 = i /\ ~(e <= i - 1)
    BY <1>1, <1>3
  <2>2. i - 1 \notin S
    BY <1>3, <2>1
  <2> QED
    BY <2>1, <2>2
<1>5. \E x \in k .. n : /\ \A i \in (k + 1) .. x : lines[i] \in shapes
                        /\ x = n \/ lines[x + 1] \notin shapes
  BY <1>3, <1>4
<1> QED
  BY <1>1, <1>5 DEF RunEnd

\* A section begins at the line it is read from, and does so at each opening line.
LEMMA SectionPlaced ==
  ASSUME NEW lines, IsSequence(lines), NEW k \in 1 .. Len(lines)
  PROVE  /\ SectionAt(lines, k).from = k /\ SectionAt(lines, k).to \in k .. Len(lines)
         /\ OpensSection(lines[k]) => Opens(lines, k)
<1>1. PICK n \in Nat : n = Len(lines) /\ k \in 1 .. n
  BY LengthOf
<1>2. CASE lines[k] \in Preprocessor
  <2>1. RunEnd(lines, k, Preprocessor) \in k .. Len(lines)
    BY RunEnds
  <2> QED
    BY <1>2, <2>1 DEF SectionAt, Section, Opens, Preprocessor
<1>3. CASE lines[k] \in {"typedef {", "typedef ;"}
  <2>1. TypedefEnd(lines, k) \in k .. Len(lines)
    BY FirstOf DEF TypedefEnd
  <2>2. SectionAt(lines, k) = Section("typedef_block", k, TypedefEnd(lines, k))
    BY <1>3 DEF SectionAt, Preprocessor
  <2> QED
    BY <2>1, <2>2 DEF Section, Opens
<1>4. CASE lines[k] \in {"function", "function {"}
  <2>1. FunctionEnd(lines, k) \in k .. Len(lines)
    BY FirstOf DEF FunctionEnd
  <2>2. SectionAt(lines, k) = Section("function_body", k, FunctionEnd(lines, k))
    BY <1>4 DEF SectionAt, Preprocessor
  <2> QED
    BY <2>1, <2>2 DEF Section, Opens
<1>5. CASE lines[k] = "variable"
  <2>1. RunEnd(lines, k, {"variable"}) \in k .. Len(lines)
    BY RunEnds
  <2>2. SectionAt(lines, k) = Section("global_var_block", k, RunEnd(lines, k, {"variable"}))
    BY <1>5 DEF SectionAt, Preprocessor
  <2> QED
    BY <2>1, <2>2 DEF Section, Opens
<1>6. CASE /\ lines[k] \notin Preprocessor /\ lines[k] # "variable"
           /\ lines[k] \notin {"typedef {", "typedef ;"} /\ lines[k] \notin {"function", "function {"}
  <2>1. SectionAt(lines, k) = Section("none", k, k)
    BY <1>6 DEF SectionAt
  <2>2. SectionAt(lines, k).from = k /\ SectionAt(lines, k).to = k
    BY <2>1 DEF Section
  <2>3. ~OpensSection(lines[k])
    BY <1>6 DEF OpensSection, Preprocessor
  <2>4. k \in k .. Len(lines)
    BY <1>1
  <2> QED
    BY <2>2, <2>3, <2>4
<1> QED
  BY <1>2, <1>3, <1>4, <1>5, <1>6

\* A comment at the top of the file, if there is one, comes before every construct.
LEMMA HeaderPlaced ==
  ASSUME NEW lines, IsSequence(lines)
  PROVE  LET head == HeaderComment(lines)
         IN  \/ head = Section("none", 1, 0)
             \/ /\ head.kind = "header_comment" /\ head.from \in 1 .. Len(lines)
                /\ head.to \in head.from .. Len(lines)
                /\ \A j \in 1 .. Len(lines) : j < head.from => lines[j] = ""
<1>1. PICK n \in Nat : n = Len(lines) /\ DOMAIN lines = 1 .. n
  BY LengthOf
<1>2. CASE lines = <<>>
  BY <1>2 DEF HeaderComment
<1>3. CASE lines # <<>>
  <2> DEFINE S == {i \in 1 .. n : lines[i] # ""}
             first == FirstOrLast(lines, S)
             E == {i \in first .. n : lines[i] = "/* */"}
  <2>1. n # 0 /\ 1 \in 1 .. Len(lines)
    BY <1>1, <1>3 DEF IsSequence
  <2>2. /\ first \in 1 .. n
        /\ S # {} => first \in S /\ \A j \in S : first <= j
    BY <1>1, <2>1, FirstOf
  <2>3. S = {} => \A j \in 1 .. n : lines[j] = ""
    OBVIOUS
  <2>4. HeaderComment(lines) = CASE lines[first] \in {"/*", "/* */"} ->
                                      Section("header_comment", first, FirstOrLast(lines, E))
                                 [] lines[first] = "//" ->
                                      Section("header_comment", first, RunEnd(lines, first, {"//"}))
                                 [] OTHER -> Section("none", 1, 0)
    BY <1>1, <1>3 DEF HeaderComment
  <2> HIDE DEF first
  <2>5. FirstOrLast(lines, E) \in first .. n /\ RunEnd(lines, first, {"//"}) \in first .. n
    BY <1>1, <2>2, FirstOf, RunEnds
  <2>6. ASSUME NEW j \in 1 .. n, j < first PROVE lines[j] = ""
    <3>1. CASE S = {}
      BY <2>3, <3>1
    <3>2. CASE S # {}
      <4>1. ~(first <= j)
        <5>1. first \in 1 .. n
          BY <2>2
        <5> QED
          BY <1>1, <2>6, <5>1
      <4>2. j \notin S
        BY <2>2, <3>2, <4>1
      <4> QED
        BY <4>2
    <3> QED
      BY <3>1, <3>2
  <2>7. CASE lines[first] \in {"/*", "/* */"}
    <3>1. HeaderComment(lines) = Section("header_comment", first, FirstOrLast(lines, E))
      BY <2>4, <2>7
    <3>2. /\ HeaderComment(lines).kind = "header_comment" /\ HeaderComment(lines).from = first
          /\ HeaderComment(lines).to = FirstOrLast(lines, E)
      <4> HIDE DEF E
      <4> QED
        BY <3>1 DEF Section
    <3> QED
      BY <1>1, <2>2, <2>5, <2>6, <3>2
  <2>8. CASE lines[first] = "//"
    <3>1. HeaderComment(lines) = Section("header_comment", first, RunEnd(lines, first, {"//"}))
      BY <2>4, <2>8
    <3>2. /\ HeaderComment(lines).kind = "header_comment" /\ HeaderComment(lines).from = first
          /\ HeaderComment(lines).to = RunEnd(lines, first, {"//"})
      BY <3>1 DEF Section
    <3> QED
      BY <1>1, <2>2, <2>5, <2>6, <3>2
  <2>9. CASE lines[first] \notin {"/*", "/* */", "//"}
    BY <2>4, <2>9
  <2> QED
    BY <2>7, <2>8, <2>9
<1> QED
  BY <1>2, <1>3

\* How far the sections so far have reached, line by line.
LEMMA ReachSteps ==
  ASSUME NEW lines, IsSequence(lines)
  PROVE  /\ Reach(lines) \in [0 .. Len(lines) -> 0 .. Len(lines)]
         /\ Reach(lines)[0] = HeaderComment(lines).to
         /\ \A k \in 1 .. Len(lines) :
              Reach(lines)[k] = IF Reach(lines)[k - 1] < k /\ Opens(lines, k)
                                THEN SectionAt(lines, k).to ELSE Reach(lines)[k - 1]
<1>1. PICK n \in Nat : n = Len(lines)
  BY LengthOf
<1> DEFINE A == 0 .. n
           b == HeaderComment(lines).to
           h == [k \in 1 .. n |-> [a \in A |-> IF a < k /\ Opens(lines, k)
                                               THEN SectionAt(lines, k).to ELSE a]]
<1>2. b \in A
  <2>1. \/ HeaderComment(lines) = Section("none", 1, 0)
        \/ /\ HeaderComment(lines).from \in 1 .. n
           /\ HeaderComment(lines).to \in HeaderComment(lines).from .. n
    BY <1>1, HeaderPlaced
  <2> QED
    BY <2>1 DEF Section
<1>3. StepsIn(h, n, A)
  <2>1. ASSUME NEW k \in 1 .. n, NEW a \in A PROVE h[k][a] \in A
    <3>1. SectionAt(lines, k).to \in k .. n
      BY <1>1, SectionPlaced
    <3> QED
      BY <3>1
  <2> HIDE DEF h, A
  <2> QED
    BY <2>1 DEF StepsIn
<1> HIDE DEF b
<1>4. PICK f \in [0 .. n -> A] : Recurs(f, b, h, n)
  <2> HIDE DEF h, A
  <2> QED
    BY <1>2, <1>3, UpToRecursion
<1>5. ASSUME NEW k \in 1 .. n
      PROVE  f[k] = IF f[k - 1] < k /\ Opens(lines, k) THEN SectionAt(lines, k).to ELSE f[k - 1]
  <2>1. f[k - 1] \in A
    BY <1>4
  <2>2. f[k] = h[k][f[k - 1]]
    BY <1>4 DEF Recurs
  <2> QED
    BY <2>1, <2>2
<1>6. f = [k \in 0 .. n |-> IF k = 0 THEN b
             ELSE IF f[k - 1] < k /\ Opens(lines, k) THEN SectionAt(lines, k).to ELSE f[k - 1]]
  <2>1. f[0] = b
    BY <1>4 DEF Recurs
  <2>2. \A k \in 0 .. n : k = 0 \/ k \in 1 .. n
    OBVIOUS
  <2> QED
    BY <1>4, <1>5, <2>1, <2>2
<1>7. Reach(lines) = [k \in 0 .. n |-> IF k = 0 THEN b
             ELSE IF Reach(lines)[k - 1] < k /\ Opens(lines, k) THEN SectionAt(lines, k).to
             ELSE Reach(lines)[k - 1]]
  BY <1>1, <1>6 DEF Reach, b
<1>8. /\ Reach(lines)[0] = b
      /\ \A k \in 1 .. n :
           Reach(lines)[k] = IF Reach(lines)[k - 1] < k /\ Opens(lines, k)
                             THEN SectionAt(lines, k).to ELSE Reach(lines)[k - 1]
  <2>1. 0 \in 0 .. n /\ \A k \in 1 .. n : k \in 0 .. n /\ k # 0
    OBVIOUS
  <2> DEFINE reach == Reach(lines)
  <2>2. reach = [k \in 0 .. n |-> IF k = 0 THEN b
             ELSE IF reach[k - 1] < k /\ Opens(lines, k) THEN SectionAt(lines, k).to
             ELSE reach[k - 1]]
    BY <1>7
  <2> HIDE DEF reach
  <2>3. reach[0] = b
    BY <2>1, <2>2
  <2>4. ASSUME NEW k \in 1 .. n
        PROVE  reach[k] = IF reach[k - 1] < k /\ Opens(lines, k)
                          THEN SectionAt(lines, k).to ELSE reach[k - 1]
    BY <2>1, <2>2
  <2> QED
    BY <2>3, <2>4 DEF reach
<1> DEFINE reach == Reach(lines)
           S == {k \in 0 .. n : reach[k] \in A}
<1>9. \A k \in 1 .. n : k - 1 \in S => k \in S
  <2> SUFFICES ASSUME NEW k \in 1 .. n, k - 1 \in S PROVE reach[k] \in A
    OBVIOUS
  <2>1. SectionAt(lines, k).to \in A
    <3>1. SectionAt(lines, k).to \in k .. n
      BY <1>1, SectionPlaced
    <3> QED
      BY <3>1
  <2> QED
    BY <1>8, <2>1
<1>10. 0 .. n \subseteq S
  <2>1. 0 \in S
    BY <1>2, <1>8
  <2> HIDE DEF S
  <2> QED
    BY <1>9, <2>1, UpToInduction
<1>11. Reach(lines) \in [0 .. n -> A]
  <2> HIDE DEF A
  <2>1. \A k \in 0 .. n : Reach(lines)[k] \in A
    BY <1>10
  <2> QED
    BY <1>7, <2>1
<1> QED
  BY <1>1, <1>8, <1>11 DEF b

\* What is cut out reaches further and further down.
LEMMA ReachGrows ==
  ASSUME NEW lines, IsSequence(lines), NEW k \in 0 .. Len(lines), NEW m \in k .. Len(lines)
  PROVE  Reach(lines)[k] <= Reach(lines)[m]
<1>1. PICK n \in Nat : n = Len(lines)
  BY LengthOf
<1> DEFINE reach == Reach(lines)
           S == {x \in 0 .. n : \A y \in 0 .. x : reach[y] <= reach[x]}
<1>2. reach \in [0 .. n -> 0 .. n]
  BY <1>1, ReachSteps
<1>3. ASSUME NEW x \in 1 .. n PROVE reach[x - 1] <= reach[x]
  <2>1. reach[x] = IF reach[x - 1] < x /\ Opens(lines, x) THEN SectionAt(lines, x).to
                   ELSE reach[x - 1]
    BY <1>1, ReachSteps
  <2>2. SectionAt(lines, x).to \in x .. n
    BY <1>1, SectionPlaced
  <2>3. reach[x - 1] \in 0 .. n
    BY <1>2
  <2> HIDE DEF reach
  <2> QED
    BY <2>1, <2>2, <2>3
<1> HIDE DEF reach
<1>4. ASSUME NEW x \in 1 .. n, x - 1 \in S PROVE x \in S
  <2>1. ASSUME NEW y \in 0 .. x PROVE reach[y] <= reach[x]
    <3>1. CASE y = x
      BY <1>2, <3>1
    <3>2. CASE y # x
      <4>1. y \in 0 .. (x - 1) /\ x - 1 \in 0 .. n
        BY <3>2
      <4>2. reach[y] <= reach[x - 1] /\ reach[x - 1] <= reach[x]
        BY <1>3, <1>4, <4>1
      <4>3. reach[x - 1] \in 0 .. n /\ reach[x] \in 0 .. n /\ reach[y] \in 0 .. n
        BY <1>2, <4>1, SMTT(30)
      <4> QED
        BY <4>2, <4>3
    <3> QED
      BY <3>1, <3>2
  <2> QED
    BY <2>1
<1>5. 0 \in S
  BY <1>2
<1>6. 0 .. n \subseteq S
  <2> HIDE DEF S
  <2> QED
    BY <1>4, <1>5, UpToInduction
<1>7. m \in S /\ k \in 0 .. m
  BY <1>1, <1>6
<1> QED
  BY <1>7 DEF reach

\* Where line k is covered.
Covered(lines, k) ==
  \/ \E i \in SectionStarts(lines) : k \in i .. SectionAt(lines, i).to
  \/ HeaderComment(lines).kind # "none" /\ k \in HeaderComment(lines).from .. HeaderComment(lines).to

LEMMA OpeningsCovered ==
  ASSUME NEW lines, IsSequence(lines), NEW k \in 1 .. Len(lines), OpensSection(lines[k])
  PROVE  Covered(lines, k)
<1>1. PICK n \in Nat : n = Len(lines) /\ DOMAIN lines = 1 .. n
  BY LengthOf
<1> DEFINE reach == Reach(lines)
           S == {x \in 0 .. n : x < k /\ k <= reach[x] => Covered(lines, k)}
<1>2. reach \in [0 .. n -> 0 .. n] /\ reach[0] = HeaderComment(lines).to
  BY <1>1, ReachSteps
<1>3. ASSUME NEW x \in 1 .. n
      PROVE  reach[x] = IF reach[x - 1] < x /\ Opens(lines, x) THEN SectionAt(lines, x).to
                        ELSE reach[x - 1]
  BY <1>1, ReachSteps
<1>4. k \in 1 .. n /\ Opens(lines, k) /\ SectionAt(lines, k).to \in k .. n
  BY <1>1, SectionPlaced
<1>5. SectionStarts(lines) = {x \in 1 .. n : reach[x - 1] < x /\ Opens(lines, x)}
  BY <1>1 DEF SectionStarts
<1> HIDE DEF reach
<1>6. 0 \in S
  <2> SUFFICES ASSUME k <= reach[0] PROVE Covered(lines, k)
    OBVIOUS
  <2>1. \/ HeaderComment(lines) = Section("none", 1, 0)
        \/ /\ HeaderComment(lines).kind = "header_comment"
           /\ HeaderComment(lines).from \in 1 .. n
           /\ HeaderComment(lines).to \in HeaderComment(lines).from .. n
           /\ k < HeaderComment(lines).from => lines[k] = ""
    BY <1>1, <1>4, HeaderPlaced
  <2>2. HeaderComment(lines) # Section("none", 1, 0)
    <3>1. HeaderComment(lines).to # 0
      <4>1. k \in Nat /\ k # 0
        BY <1>1, <1>4
      <4>2. reach[0] # 0
        BY <4>1
      <4> QED
        BY <1>2, <4>2
    <3> QED
      BY <3>1 DEF Section
  <2>3. lines[k] # ""
    BY Zenon DEF OpensSection
  <2>4. HeaderComment(lines).kind = "header_comment" /\ HeaderComment(lines).from \in 1 .. n
        /\ ~(k < HeaderComment(lines).from) /\ k <= HeaderComment(lines).to
        /\ HeaderComment(lines).to \in HeaderComment(lines).from .. n
    BY <1>2, <2>1, <2>2, <2>3
  <2>5. k \in HeaderComment(lines).from .. HeaderComment(lines).to
    BY <1>4, <2>4
  <2> QED
    BY <2>4, <2>5 DEF Covered
<1>7. ASSUME NEW x \in 1 .. n, x - 1 \in S PROVE x \in S
  <2> SUFFICES ASSUME x < k, k <= reach[x] PROVE Covered(lines, k)
    OBVIOUS
  <2>1. CASE reach[x - 1] < x /\ Opens(lines, x)
    <3>1. x \in SectionStarts(lines) /\ k <= SectionAt(lines, x).to
      BY <1>3, <1>5, <2>1
    <3>2. SectionAt(lines, x).to \in x .. n
      BY <1>1, SectionPlaced
    <3>3. k \in x .. SectionAt(lines, x).to
      BY <1>4, <3>1, <3>2
    <3> QED
      BY <3>1, <3>3 DEF Covered
  <2>2. CASE ~(reach[x - 1] < x /\ Opens(lines, x))
    <3>1. reach[x] = reach[x - 1]
      BY <1>3, <2>2
    <3>2. x - 1 < k
      BY <1>4
    <3> QED
      BY <1>7, <3>1, <3>2
  <2> QED
    BY <2>1, <2>2
<1>8. 0 .. n \subseteq S
  <2> HIDE DEF S
  <2> QED
    BY <1>6, <1>7, UpToInduction
<1>9. CASE reach[k - 1] < k
  <2>1. k \in SectionStarts(lines) /\ k \in k .. SectionAt(lines, k).to
    BY <1>4, <1>5, <1>9
  <2> QED
    BY <2>1 DEF Covered
<1>10. CASE ~(reach[k - 1] < k)
  <2>1. k - 1 \in 0 .. n /\ k - 1 < k
    BY <1>4
  <2>2. k <= reach[k - 1]
    BY <1>2, <1>4, <1>10, <2>1
  <2> QED
    BY <1>8, <2>1, <2>2
<1> QED
  BY <1>9, <1>10

\* What the sections of a source are to it.
Clear(s, t) == s.to < t.from \/ t.to < s.from

InOrder(sections, length) ==
  /\ IsSequence(sections)
  /\ \A i \in DOMAIN sections :
       sections[i].from \in 1 .. length /\ sections[i].to \in sections[i].from .. length
  /\ \A i, k \in DOMAIN sections : i # k => Clear(sections[i], sections[k])

CutsUp(sections, lines) ==
  /\ InOrder(sections, Len(lines))
  /\ \A k \in 1 .. Len(lines) : OpensSection(lines[k]) =>
       \E i \in DOMAIN sections : k \in sections[i].from .. sections[i].to

(* However a C file is laid out, the sections it is cut into are ranges of  *)
(* its lines of which no two share one, and every line that opens an        *)
(* include, a define, a typedef or a function is in one of them.            *)
THEOREM SplitCutsUp ==
  ASSUME NEW lines, IsSequence(lines)
  PROVE  CutsUp(SplitC(lines), lines)
<1>1. PICK n \in Nat : n = Len(lines) /\ DOMAIN lines = 1 .. n
  BY LengthOf
<1> DEFINE head == HeaderComment(lines)
           front == IF head.kind = "none" THEN <<>> ELSE <<head>>
           all == [k \in 1 .. n |-> SectionAt(lines, k)]
           places == SectionStarts(lines)
           picked == Picked(all, places)
           reach == Reach(lines)
<1>2. \A k \in 1 .. n : SectionAt(lines, k).from = k /\ SectionAt(lines, k).to \in k .. n
  BY <1>1, SectionPlaced
<1>3. /\ reach \in [0 .. n -> 0 .. n] /\ reach[0] = head.to
      /\ \A k \in 1 .. n : reach[k] = IF reach[k - 1] < k /\ Opens(lines, k)
                                      THEN SectionAt(lines, k).to ELSE reach[k - 1]
      /\ \A k \in 0 .. n : \A m \in k .. n : reach[k] <= reach[m]
  BY <1>1, ReachSteps, ReachGrows
<1>4. places = {x \in 1 .. n : reach[x - 1] < x /\ Opens(lines, x)}
  BY <1>1 DEF SectionStarts
<1>5. \/ head.kind = "none" /\ front = <<>>
      \/ /\ head.kind # "none" /\ front = <<head>>
         /\ head.from \in 1 .. n /\ head.to \in head.from .. n
  <2>1. \/ head = Section("none", 1, 0)
        \/ /\ head.kind = "header_comment" /\ head.from \in 1 .. n
           /\ head.to \in head.from .. n
    BY <1>1, HeaderPlaced
  <2> HIDE DEF head
  <2> QED
    BY <2>1 DEF Section
<1>6. IsSequence(all) /\ Len(all) = n /\ DOMAIN all = 1 .. n
  BY BuiltSequence
<1>7. IsSequence(picked) /\ ToSet(picked) = {all[i] : i \in DOMAIN all \cap places}
  <2> HIDE DEF all, places
  <2> QED
    BY <1>6, PickedSequence
<1>8. PICK at : Embeds(at, picked, all, places)
  <2> HIDE DEF all, places
  <2> QED
    BY <1>6, PickedEmbeds DEF IsSequence
<1>9. SplitC(lines) = front \o picked
  BY <1>1 DEF SplitC
<1> HIDE DEF head, front, all, places, reach, picked
<1>10. /\ \A i \in DOMAIN picked : at[i] \in places /\ at[i] \in 1 .. n
                                 /\ picked[i] = SectionAt(lines, at[i])
       /\ \A i, k \in DOMAIN picked : i < k => at[i] < at[k]
  BY <1>6, <1>8 DEF Embeds, all
<1>11. \A x, y \in places : x < y => SectionAt(lines, x).to < y
  <2> SUFFICES ASSUME NEW x \in places, NEW y \in places, x < y
               PROVE  SectionAt(lines, x).to < y
    OBVIOUS
  <2>1. x \in 1 .. n /\ y \in 1 .. n /\ y - 1 \in x .. n /\ y - 1 \in 0 .. n /\ x \in 0 .. n
    BY <1>4
  <2>2. reach[x] = SectionAt(lines, x).to /\ reach[y - 1] < y
    BY <1>3, <1>4, <2>1
  <2>3. reach[x] <= reach[y - 1]
    BY <1>3, <2>1
  <2>4. reach[x] \in 0 .. n /\ reach[y - 1] \in 0 .. n
    BY <1>3, <2>1
  <2> QED
    BY <2>1, <2>2, <2>3, <2>4
<1>12. \A y \in places : head.to < y
  <2> SUFFICES ASSUME NEW y \in places PROVE head.to < y
    OBVIOUS
  <2>1. y \in 1 .. n /\ y - 1 \in 0 .. n
    BY <1>4
  <2>2. reach[0] <= reach[y - 1] /\ reach[y - 1] < y /\ reach[0] \in 0 .. n /\ reach[y - 1] \in 0 .. n
    BY <1>3, <1>4, <2>1, SMTT(30)
  <2> QED
    BY <1>3, <2>1, <2>2, SMTT(30)
<1> DEFINE sections == front \o picked
<1>13. IsSequence(front) /\ IsSequence(sections)
  BY <1>5, <1>7, ShortSequences, ConcatSequence
<1>14. ASSUME NEW i \in DOMAIN sections
       PROVE  \/ head.kind # "none" /\ i = 1 /\ sections[i] = head
              \/ \E m \in DOMAIN picked : i = m + Len(front) /\ sections[i] = picked[m]
  <2>1. PICK E : front \in Seq(E) /\ picked \in Seq(E)
    <3>1. PICK E : E = ToSet(front) \cup ToSet(picked)
      OBVIOUS
    <3> QED
      BY <1>7, <1>13, <3>1 DEF IsSequence
  <2>2. /\ Len(front) \in {0, 1} /\ Len(picked) \in Nat
        /\ Len(front) = 1 => head.kind # "none" /\ front[1] = head
    BY <1>5, <2>1
  <2>3. IF i <= Len(front) THEN i \in DOMAIN front /\ sections[i] = front[i]
        ELSE i - Len(front) \in DOMAIN picked /\ sections[i] = picked[i - Len(front)]
    BY <2>1, ConcatPlaces
  <2>4. CASE i <= Len(front)
    <3>1. i \in 1 .. Len(front) /\ sections[i] = front[i]
      BY <2>1, <2>3, <2>4
    <3>2. i = 1 /\ Len(front) = 1
      <4>1. PICK f \in {0, 1} : f = Len(front)
        BY <2>2
      <4>2. i \in 1 .. f
        BY <3>1, <4>1
      <4> QED
        BY <4>1, <4>2
    <3> QED
      BY <2>2, <3>1, <3>2
  <2>5. CASE ~(i <= Len(front))
    <3>1. i - Len(front) \in 1 .. Len(picked) /\ sections[i] = picked[i - Len(front)]
      BY <2>1, <2>3, <2>5
    <3>2. i \in Int
      BY <2>1, ConcatPlaces
    <3>3. i = (i - Len(front)) + Len(front)
      BY <2>2, <3>2
    <3> QED
      BY <2>1, <3>1, <3>3
  <2> QED
    BY <2>4, <2>5
<1>15. /\ \A m \in DOMAIN picked : \E i \in DOMAIN sections : sections[i] = picked[m]
       /\ head.kind # "none" => \E i \in DOMAIN sections : sections[i] = head
  <2>1. ToSet(sections) = ToSet(front) \cup ToSet(picked)
    BY <1>7, <1>13, ConcatSequence
  <2>2. head.kind # "none" => head \in ToSet(front)
    BY <1>5, ShortSequences
  <2> QED
    BY <2>1, <2>2 DEF ToSet
<1> HIDE DEF sections
<1>16. ASSUME NEW i \in DOMAIN sections
       PROVE  sections[i].from \in 1 .. n /\ sections[i].to \in sections[i].from .. n
  <2>1. CASE sections[i] = head /\ head.kind # "none"
    BY <1>5, <2>1
  <2>2. ASSUME NEW m \in DOMAIN picked, sections[i] = picked[m]
        PROVE  sections[i].from \in 1 .. n /\ sections[i].to \in sections[i].from .. n
    BY <1>2, <1>10, <2>2
  <2> QED
    BY <1>14, <2>1, <2>2
<1>17. ASSUME NEW i \in DOMAIN sections, NEW k \in DOMAIN sections, i # k
       PROVE  Clear(sections[i], sections[k])
  <2>1. ASSUME NEW x \in DOMAIN picked, NEW y \in DOMAIN picked, x < y
        PROVE  picked[x].to < picked[y].from
    <3>1. at[x] < at[y] /\ at[x] \in places /\ at[y] \in places /\ at[y] \in 1 .. n
      BY <1>10, <2>1
    <3>2. SectionAt(lines, at[x]).to < at[y] /\ SectionAt(lines, at[y]).from = at[y]
      BY <1>2, <1>11, <3>1
    <3> QED
      BY <1>10, <3>2
  <2>2. ASSUME NEW y \in DOMAIN picked PROVE head.to < picked[y].from
    <3>1. at[y] \in places /\ at[y] \in 1 .. n /\ picked[y] = SectionAt(lines, at[y])
      BY <1>10
    <3> QED
      BY <1>2, <1>12, <3>1
  <2>3. CASE sections[i] = head /\ i = 1
    <3>1. PICK m \in DOMAIN picked : sections[k] = picked[m]
      BY <1>14, <1>17, <2>3
    <3> QED
      BY <2>2, <2>3, <3>1 DEF Clear
  <2>4. CASE sections[k] = head /\ k = 1
    <3>1. PICK m \in DOMAIN picked : sections[i] = picked[m]
      BY <1>14, <1>17, <2>4
    <3> QED
      BY <2>2, <2>4, <3>1 DEF Clear
  <2>5. CASE /\ \E m \in DOMAIN picked : i = m + Len(front) /\ sections[i] = picked[m]
             /\ \E m \in DOMAIN picked : k = m + Len(front) /\ sections[k] = picked[m]
    <3>1. PICK x \in DOMAIN picked : i = x + Len(front) /\ sections[i] = picked[x]
      BY <2>5
    <3>2. PICK y \in DOMAIN picked : k = y + Len(front) /\ sections[k] = picked[y]
      BY <2>5
    <3>3. x \in Nat /\ y \in Nat /\ x # y
      BY <1>7, <1>17, <3>1, <3>2, LengthOf
    <3> QED
      BY <2>1, <3>1, <3>2, <3>3 DEF Clear
  <2> QED
    BY <1>14, <2>3, <2>4, <2>5
<1>18. ASSUME NEW k \in 1 .. n, OpensSection(lines[k])
       PROVE  \E i \in DOMAIN sections : k \in sections[i].from .. sections[i].to
  <2>1. Covered(lines, k)
    BY <1>1, <1>18, OpeningsCovered
  <2>2. ASSUME NEW x \in places, k \in x .. SectionAt(lines, x).to
        PROVE  \E i \in DOMAIN sections : k \in sections[i].from .. sections[i].to
    <3>1. SectionAt(lines, x) \in ToSet(picked) /\ SectionAt(lines, x).from = x
      BY <1>2, <1>4, <1>6, <1>7 DEF all
    <3>2. PICK m \in DOMAIN picked : picked[m] = SectionAt(lines, x)
      BY <3>1 DEF ToSet
    <3> QED
      BY <1>15, <2>2, <3>1, <3>2
  <2> QED
    BY <1>15, <2>1, <2>2 DEF Covered, places, head
<1> QED
  BY <1>1, <1>9, <1>13, <1>16, <1>17, <1>18 DEF CutsUp, InOrder, sections

LEMMA LengthAtLeastOne ==
  ASSUME NEW n \in Nat
  PROVE  Max({1, n}) \in Nat /\ 1 <= Max({1, n}) /\ n <= Max({1, n})
<1>1. \E x \in {1, n} : \A y \in {1, n} : x >= y
  OBVIOUS
<1>2. Max({1, n}) \in {1, n} /\ \A y \in {1, n} : Max({1, n}) >= y
  BY <1>1 DEF Max
<1> QED
  BY <1>2

\* A short header is one section, also when it is empty.
LEMMA SplitsInOrder ==
  ASSUME NEW lines, IsSequence(lines), NEW short
  PROVE  /\ InOrder(SplitC(lines), Max({1, Len(lines)}))
         /\ InOrder(SplitH(lines, short), Max({1, Len(lines)}))
<1>1. PICK n \in Nat : n = Len(lines)
  BY LengthOf
<1> DEFINE length == Max({1, n})
<1>2. length \in Nat /\ 1 <= length /\ n <= length
  BY LengthAtLeastOne
<1> HIDE DEF length
<1>3. CutsUp(SplitC(lines), lines)
  BY SplitCutsUp
<1>4. \A i \in 1 .. n : i \in 1 .. length /\ \A k \in i .. n : k \in i .. length
  BY <1>2
<1>5. InOrder(SplitC(lines), length)
  BY <1>1, <1>3, <1>4 DEF CutsUp, InOrder
<1> DEFINE whole == Section("preprocessor_block", 1, IF lines = <<>> THEN 1 ELSE Len(lines))
<1>6. whole.from \in 1 .. length /\ whole.to \in whole.from .. length
  <2>1. lines = <<>> \/ n # 0
    BY <1>1 DEF IsSequence
  <2> QED
    BY <1>1, <1>2, <2>1 DEF Section
<1> HIDE DEF whole
<1>7. InOrder(<<whole>>, length)
  BY <1>6, ShortSequences DEF InOrder
<1>8. SplitH(lines, short) \in {<<whole>>, SplitC(lines)}
  BY DEF SplitH, whole
<1> QED
  BY <1>1, <1>5, <1>7, <1>8 DEF length

----------------------------------------------------------------------------
(* The functions of a MATLAB file lie in it and share no line.              *)

\* A function ends before the next one starts.
LEMMA FunctionEnds ==
  ASSUME NEW lines, IsSequence(lines), NEW start \in Starts(lines)
  PROVE  /\ start \in 1 .. Len(lines) /\ FunctionLast(lines, start) \in start .. Len(lines)
         /\ \A k \in Starts(lines) : k > start => FunctionLast(lines, start) < k
<1>1. PICK n \in Nat : n = Len(lines) /\ DOMAIN lines = 1 .. n
  BY LengthOf
<1>2. Starts(lines) \subseteq 1 .. n
  BY <1>1 DEF Starts
<1> DEFINE later == {k \in Starts(lines) : k > start}
           least == CHOOSE k \in start .. n : k + 1 \in later /\ \A m \in later : k + 1 <= m
           limit == IF later = {} THEN n ELSE least
           count(shapes, to) == Cardinality({i \in (start + 1) .. to : lines[i].shape \in shapes})
           closed == {k \in (start + 1) .. limit :
                        1 + count(OpeningShapes, k) - count({"end"}, k) <= 0}
           last == CHOOSE k \in closed : \A m \in closed : k <= m
<1>3. FunctionLast(lines, start) = IF closed = {} THEN limit ELSE last
  BY <1>1 DEF FunctionLast
<1> HIDE DEF closed
<1>4. closed \subseteq (start + 1) .. limit
  BY DEF closed
<1>5. limit \in start .. n /\ \A k \in later : limit < k
  <2>1. CASE later = {}
    BY <1>1, <1>2, <2>1
  <2>2. CASE later # {}
    <3>1. later \subseteq Nat
      BY <1>2
    <3>2. PICK k \in later : \A m \in later : k <= m
      BY <2>2, <3>1, LeastElement
    <3>3. k - 1 \in start .. n /\ (k - 1) + 1 = k
      BY <1>2, <3>2
    <3>4. \E x \in start .. n : x + 1 \in later /\ \A m \in later : x + 1 <= m
      BY <3>2, <3>3
    <3>5. least \in start .. n /\ \A m \in later : least + 1 <= m
      BY <3>4
    <3> HIDE DEF least
    <3> QED
      BY <1>2, <2>2, <3>1, <3>5
  <2> QED
    BY <2>1, <2>2
<1> HIDE DEF limit
<1>6. FunctionLast(lines, start) \in start .. limit
  <2>1. CASE closed = {}
    BY <1>2, <1>3, <1>5, <2>1
  <2>2. CASE closed # {}
    <3>1. closed \subseteq Nat
      BY <1>2, <1>4
    <3>2. \E k \in closed : \A m \in closed : k <= m
      BY <2>2, <3>1, LeastElement
    <3>3. last \in closed
      BY <3>2
    <3>4. FunctionLast(lines, start) = last
      BY <1>3, <2>2
    <3> HIDE DEF last
    <3>5. last \in (start + 1) .. limit /\ start \in 1 .. n /\ limit \in start .. n
      BY <1>2, <1>4, <1>5, <3>3
    <3>6. last \in start .. limit
      BY <3>5
    <3> QED
      BY <3>4, <3>6
  <2> QED
    BY <2>1, <2>2
<1> QED
  BY <1>1, <1>2, <1>5, <1>6

LEMMA FunctionsInOrder ==
  ASSUME NEW lines, IsSequence(lines)
  PROVE  /\ IsSequence(FunctionsOf(lines))
         /\ \A f \in ToSet(FunctionsOf(lines)) :
              f.from \in 1 .. Len(lines) /\ f.to \in f.from .. Len(lines)
         /\ \A f, g \in ToSet(FunctionsOf(lines)) : f # g => Clear(f, g)
<1>1. PICK n \in Nat : n = Len(lines) /\ DOMAIN lines = 1 .. n
  BY LengthOf
<1>2. CASE Role(lines) = "class"
  BY <1>2, ShortSequences DEF FunctionsOf
<1>3. CASE Role(lines) # "class"
  <2> DEFINE named == {k \in Starts(lines) : lines[k].name # ""}
             numbers == [k \in 1 .. n |-> k]
             order == Picked(numbers, named)
             function(k) == [name |-> lines[k].name, from |-> k, to |-> FunctionLast(lines, k)]
             functions == [i \in DOMAIN order |-> function(order[i])]
  <2>1. FunctionsOf(lines) = functions
    BY <1>1, <1>3 DEF FunctionsOf
  <2>2. IsSequence(numbers) /\ DOMAIN numbers = 1 .. n
    BY BuiltSequence
  <2>3. IsSequence(order) /\ ToSet(order) = {numbers[i] : i \in DOMAIN numbers \cap named}
    <3> HIDE DEF numbers, named
    <3> QED
      BY <2>2, PickedSequence
  <2>4. ToSet(order) \subseteq Starts(lines)
    BY <2>2, <2>3
  <2> HIDE DEF order
  <2>5. PICK m \in Nat : DOMAIN order = 1 .. m
    BY <2>3, LengthOf
  <2>6. IsSequence(functions) /\ DOMAIN functions = 1 .. m
    <3>1. functions = [i \in 1 .. m |-> functions[i]]
      BY <2>5
    <3> HIDE DEF functions
    <3> QED
      BY <3>1, BuiltSequence
  <2>7. \A f \in ToSet(functions) : \E k \in Starts(lines) : f = function(k)
    BY <2>4, <2>5 DEF ToSet
  <2> HIDE DEF functions
  <2>8. \A k \in Starts(lines) :
          /\ k \in 1 .. n /\ FunctionLast(lines, k) \in k .. n
          /\ \A l \in Starts(lines) : l > k => FunctionLast(lines, k) < l
    BY <1>1, FunctionEnds
  <2>9. ASSUME NEW f \in ToSet(functions) PROVE f.from \in 1 .. n /\ f.to \in f.from .. n
    <3>1. PICK k \in Starts(lines) : f = function(k)
      BY <2>7
    <3>2. f.from = k /\ f.to = FunctionLast(lines, k)
      BY <3>1
    <3> QED
      BY <2>8, <3>2
  <2>10. ASSUME NEW f \in ToSet(functions), NEW g \in ToSet(functions), f # g PROVE Clear(f, g)
    <3>1. PICK k \in Starts(lines) : f = function(k)
      BY <2>7
    <3>2. PICK l \in Starts(lines) : g = function(l)
      BY <2>7
    <3>3. /\ f.from = k /\ f.to = FunctionLast(lines, k)
          /\ g.from = l /\ g.to = FunctionLast(lines, l)
      BY <3>1, <3>2
    <3>4. k # l /\ k \in 1 .. n /\ l \in 1 .. n
      BY <2>8, <2>10, <3>1, <3>2
    <3>5. k < l \/ l < k
      BY <1>1, <3>4
    <3> QED
      BY <2>8, <3>3, <3>4, <3>5 DEF Clear
  <2> QED
    BY <1>1, <2>1, <2>6, <2>9, <2>10
<1> QED
  BY <1>2, <1>3

----------------------------------------------------------------------------
(* What is read of a Simulink file is finite.                               *)

LEMMA FinitePlaces ==
  ASSUME NEW systems, IsSimulinkFile(systems)
  PROVE  IsFiniteSet(BlockPlaces(systems)) /\ Cardinality(BlockPlaces(systems)) \in Nat
<1> DEFINE places == [name \in DOMAIN systems |-> {name} \X DOMAIN systems[name].blocks]
<1>1. \A name \in DOMAIN systems : IsFiniteSet(places[name])
  <2> SUFFICES ASSUME NEW name \in DOMAIN systems
               PROVE  IsFiniteSet({name} \X DOMAIN systems[name].blocks)
    OBVIOUS
  <2>1. PICK n \in Nat : DOMAIN systems[name].blocks = 1 .. n
    BY LengthOf DEF IsSimulinkFile
  <2>2. 1 \in Int /\ n \in Int
    OBVIOUS
  <2>3. IsFiniteSet(1 .. n)
    BY <2>2, FS_Interval
  <2>4. IsFiniteSet({name})
    BY FS_Singleton
  <2> QED
    BY <2>1, <2>3, <2>4, FS_Product
<1>2. BlockPlaces(systems) = UNION {places[name] : name \in DOMAIN systems}
  BY DEF BlockPlaces
<1>3. places = [name \in DOMAIN systems |-> places[name]] /\ IsFiniteSet(DOMAIN systems)
  BY DEF IsSimulinkFile
<1> HIDE DEF places
<1>4. IsFiniteSet({places[name] : name \in DOMAIN systems})
  BY <1>3, FiniteImage
<1>5. \A T \in {places[name] : name \in DOMAIN systems} : IsFiniteSet(T)
  BY <1>1
<1>6. IsFiniteSet(UNION {places[name] : name \in DOMAIN systems})
  BY <1>4, <1>5, FS_UNION
<1> QED
  BY <1>2, <1>6, FS_CardinalityType

(* The states a walk over these systems can be in.                          *)
BlockNames(systems) == {KeyOf(b) : b \in RawBlocks(systems)}
ReadBlocks(systems) ==
  {ParsedBlock(bp[1], bp[2]) : bp \in RawBlocks(systems) \X (BlockNames(systems) \cup {""})}
ToDo(systems) ==
  {Down(b) : b \in {x \in RawBlocks(systems) : x.system \in DOMAIN systems}}
    \cup {Up(kn[1], kn[2]) : kn \in BlockNames(systems) \X Nat}
Notes(systems) ==
  UNION {[K -> SUBSET {b.id : b \in ReadBlocks(systems)}] :
         K \in {N \in SUBSET BlockNames(systems) : IsFiniteSet(N)}}

Walks(systems) ==
  [visited : SUBSET DOMAIN systems, blocks : Seq(ReadBlocks(systems)),
   lines : SUBSET UNION {LinesIn(systems[name]) : name \in DOMAIN systems},
   subsystems : Notes(systems), todo : Seq(ToDo(systems))]

\* The blocks of one system file, as they are read.
LEMMA BlocksInRead ==
  ASSUME NEW systems, IsSimulinkFile(systems), NEW name \in DOMAIN systems,
         NEW parent \in BlockNames(systems) \cup {""}
  PROVE  BlocksIn(systems[name], parent) \in Seq(ReadBlocks(systems))
<1> DEFINE all == systems[name].blocks
           kept == {i \in DOMAIN all : all[i].sid # ""}
           read == Picked(all, kept)
<1>1. IsSequence(all)
  BY DEF IsSimulinkFile
<1>2. IsSequence(read) /\ ToSet(read) = {all[i] : i \in DOMAIN all \cap kept}
  <2> HIDE DEF kept, all
  <2> QED
    BY <1>1, PickedSequence
<1>3. ToSet(read) \subseteq RawBlocks(systems)
  <2>1. \A i \in DOMAIN all : all[i] \in ToSet(all)
    BY DEF ToSet
  <2>2. ToSet(all) \subseteq RawBlocks(systems)
    BY DEF RawBlocks
  <2> HIDE DEF all, read
  <2> QED
    BY <1>2, <2>1, <2>2
<1>4. BlocksIn(systems[name], parent) = [i \in DOMAIN read |-> ParsedBlock(read[i], parent)]
  BY DEF BlocksIn
<1> HIDE DEF read
<1>5. PICK n \in Nat : DOMAIN read = 1 .. n
  BY <1>2, LengthOf
<1>6. \A i \in 1 .. n : ParsedBlock(read[i], parent) \in ReadBlocks(systems)
  <2> SUFFICES ASSUME NEW i \in 1 .. n PROVE ParsedBlock(read[i], parent) \in ReadBlocks(systems)
    OBVIOUS
  <2> DEFINE bp == <<read[i], parent>>
  <2>1. bp \in RawBlocks(systems) \X (BlockNames(systems) \cup {""}) /\ bp[1] = read[i] /\ bp[2] = parent
    BY <1>3, <1>5 DEF ToSet
  <2> HIDE DEF bp
  <2> QED
    BY <2>1 DEF ReadBlocks
<1> DEFINE parsed == [i \in 1 .. n |-> ParsedBlock(read[i], parent)]
<1>7. parsed \in [1 .. n -> ReadBlocks(systems)]
  BY <1>6
<1>8. BlocksIn(systems[name], parent) = parsed
  BY <1>4, <1>5
<1> HIDE DEF parsed
<1> QED
  BY <1>7, <1>8, FunctionSequence

\* To enter a system leaves a walk over system files one.
LEMMA EnteredWalks ==
  ASSUME NEW systems, IsSimulinkFile(systems), NEW walked \in Walks(systems),
         NEW name \in DOMAIN systems, NEW parent \in BlockNames(systems) \cup {""}
  PROVE  Entered(systems, name, parent, walked) \in Walks(systems)
<1> DEFINE all == systems[name].blocks
           kept == {i \in DOMAIN all : all[i].system \in DOMAIN systems}
           within == Picked(all, kept)
           downs == [i \in DOMAIN within |-> Down(within[i])]
<1>1. IsSequence(all)
  BY DEF IsSimulinkFile
<1>2. IsSequence(within) /\ ToSet(within) = {all[i] : i \in DOMAIN all \cap kept}
  <2> HIDE DEF kept, all
  <2> QED
    BY <1>1, PickedSequence
<1>3. ToSet(within) \subseteq {x \in RawBlocks(systems) : x.system \in DOMAIN systems}
  <2>1. \A i \in DOMAIN all : all[i] \in ToSet(all)
    BY DEF ToSet
  <2>2. ToSet(all) \subseteq RawBlocks(systems)
    BY DEF RawBlocks
  <2>3. \A i \in DOMAIN all \cap kept : all[i].system \in DOMAIN systems
    OBVIOUS
  <2> HIDE DEF all, within, kept
  <2> QED
    BY <1>2, <2>1, <2>2, <2>3
<1> HIDE DEF within
<1>4. PICK n \in Nat : DOMAIN within = 1 .. n
  BY <1>2, LengthOf
<1>5. downs \in [1 .. n -> ToDo(systems)]
  <2>1. \A i \in 1 .. n : within[i] \in ToSet(within)
    BY <1>4 DEF ToSet
  <2> QED
    BY <1>3, <1>4, <2>1 DEF ToDo
<1>6. downs \in Seq(ToDo(systems))
  <2> HIDE DEF downs
  <2> QED
    BY <1>5, FunctionSequence
<1> DEFINE read == BlocksIn(systems[name], parent)
<1>7. read \in Seq(ReadBlocks(systems))
  BY BlocksInRead
<1> HIDE DEF downs, read
<1>8. /\ walked.visited \subseteq DOMAIN systems /\ walked.blocks \in Seq(ReadBlocks(systems))
      /\ walked.subsystems \in Notes(systems) /\ walked.todo \in Seq(ToDo(systems))
      /\ walked.lines \subseteq UNION {LinesIn(systems[x]) : x \in DOMAIN systems}
  BY DEF Walks
<1> DEFINE entered ==
         [visited |-> walked.visited \cup {name}, blocks |-> walked.blocks \o read,
          lines |-> walked.lines \cup LinesIn(systems[name]), subsystems |-> walked.subsystems,
          todo |-> downs \o walked.todo]
<1>9. Entered(systems, name, parent, walked) = entered
  BY DEF Entered, downs, within, read
<1>10. /\ walked.visited \cup {name} \subseteq DOMAIN systems
       /\ walked.lines \cup LinesIn(systems[name])
            \subseteq UNION {LinesIn(systems[x]) : x \in DOMAIN systems}
  BY <1>8
<1>11. walked.blocks \o read \in Seq(ReadBlocks(systems))
  BY <1>7, <1>8, ConcatIn
<1>12. downs \o walked.todo \in Seq(ToDo(systems))
  BY <1>6, <1>8, ConcatIn
<1>13. entered \in Walks(systems)
  <2> DEFINE B == Seq(ReadBlocks(systems))
             N == Notes(systems)
             D == Seq(ToDo(systems))
             L == UNION {LinesIn(systems[x]) : x \in DOMAIN systems}
  <2>1. Walks(systems) = [visited : SUBSET DOMAIN systems, blocks : B, lines : SUBSET L,
                          subsystems : N, todo : D]
    BY DEF Walks
  <2>2. /\ walked.visited \cup {name} \in SUBSET DOMAIN systems
        /\ walked.blocks \o read \in B /\ walked.lines \cup LinesIn(systems[name]) \in SUBSET L
        /\ walked.subsystems \in N /\ downs \o walked.todo \in D
    BY <1>8, <1>10, <1>11, <1>12
  <2> HIDE DEF B, N, D, L
  <2> QED
    BY <2>1, <2>2
<1> QED
  BY <1>9, <1>13

(* An entry of the list of what is to be done goes down or comes up.        *)
IsDown(u) == u.system # ""

\* What is next is of a block of the file, and to go down is to go into a system of it.
LEMMA NextToDo ==
  ASSUME NEW systems, NEW walked \in Walks(systems), walked.todo # <<>>
  PROVE  LET next == Head(walked.todo)
         IN  /\ next.key \in BlockNames(systems) /\ next.from \in Nat
             /\ IsDown(next) => next.system \in DOMAIN systems
<1> DEFINE next == Head(walked.todo)
<1>1. next \in ToDo(systems)
  BY DEF Walks
<1>2. \/ \E b \in RawBlocks(systems) : b.system \in DOMAIN systems /\ next = Down(b)
      \/ \E key \in BlockNames(systems), k \in Nat : next = Up(key, k)
  BY <1>1 DEF ToDo
<1> HIDE DEF next
<1>3. CASE \E b \in RawBlocks(systems) : b.system \in DOMAIN systems /\ next = Down(b)
  <2>1. PICK b \in RawBlocks(systems) : b.system \in DOMAIN systems /\ next = Down(b)
    BY <1>3
  <2>2. next.key = KeyOf(b) /\ next.system = b.system /\ next.from = 0
    BY <2>1 DEF Down
  <2>3. KeyOf(b) \in BlockNames(systems)
    BY DEF BlockNames
  <2> QED
    BY <2>1, <2>2, <2>3 DEF next
<1>4. CASE \E key \in BlockNames(systems), k \in Nat : next = Up(key, k)
  <2>1. PICK key \in BlockNames(systems), k \in Nat : next = Up(key, k)
    BY <1>4
  <2>2. next.key = key /\ next.from = k /\ ~IsDown(next)
    BY <2>1, Zenon DEF Up, IsDown
  <2> QED
    BY <2>2 DEF next
<1> QED
  BY <1>2, <1>3, <1>4

(* The walk when it has come to a block: it will note what is found below.  *)
Passed(walked) ==
  [walked EXCEPT !.todo = <<Up(Head(walked.todo).key, Len(walked.blocks))>> \o Tail(walked.todo)]

LEMMA PassedWalks ==
  ASSUME NEW systems, NEW walked \in Walks(systems), walked.todo # <<>>
  PROVE  Passed(walked) \in Walks(systems)
<1> DEFINE B == ReadBlocks(systems)
           D == ToDo(systems)
           N == Notes(systems)
           L == UNION {LinesIn(systems[x]) : x \in DOMAIN systems}
           next == Head(walked.todo)
           up == Up(next.key, Len(walked.blocks))
           rest == <<up>> \o Tail(walked.todo)
<1>1. Walks(systems) = [visited : SUBSET DOMAIN systems, blocks : Seq(B), lines : SUBSET L,
                        subsystems : N, todo : Seq(D)]
  BY DEF Walks
<1> HIDE DEF B, D, N, L
<1>2. Tail(walked.todo) \in Seq(D) /\ Len(walked.blocks) \in Nat
  BY <1>1
<1>3. up \in D
  <2> DEFINE kn == <<next.key, Len(walked.blocks)>>
  <2>1. kn \in BlockNames(systems) \X Nat /\ kn[1] = next.key /\ kn[2] = Len(walked.blocks)
    BY <1>2, NextToDo
  <2> HIDE DEF kn
  <2> QED
    BY <2>1 DEF D, ToDo
<1> HIDE DEF up
<1>4. <<up>> \in Seq(D)
  BY <1>3
<1>5. rest \in Seq(D)
  BY <1>2, <1>4, ConcatIn
<1>6. Passed(walked) = [walked EXCEPT !.todo = rest]
  BY DEF Passed, up
<1> HIDE DEF rest
<1> QED
  BY <1>1, <1>5, <1>6

\* And so does each further step of it.
LEMMA WalksGoOn ==
  ASSUME NEW systems, IsSimulinkFile(systems), NEW walked \in Walks(systems)
  PROVE  WalkOn(systems, walked) \in Walks(systems)
<1> DEFINE B == ReadBlocks(systems)
           D == ToDo(systems)
           N == Notes(systems)
           L == UNION {LinesIn(systems[x]) : x \in DOMAIN systems}
           next == Head(walked.todo)
<1>0. Walks(systems) = [visited : SUBSET DOMAIN systems, blocks : Seq(B), lines : SUBSET L,
                        subsystems : N, todo : Seq(D)]
  BY DEF Walks
<1> HIDE DEF B, D, N, L
<1>1. /\ walked.visited \subseteq DOMAIN systems /\ walked.blocks \in Seq(B)
      /\ walked.subsystems \in N /\ walked.todo \in Seq(D) /\ walked.lines \subseteq L
  BY <1>0
<1>2. CASE walked.todo = <<>>
  BY <1>2 DEF WalkOn
<1>3. CASE walked.todo # <<>>
  <2>1. Tail(walked.todo) \in Seq(D)
    BY <1>1, <1>3
  <2>2. /\ next.key \in BlockNames(systems) /\ next.from \in Nat
        /\ IsDown(next) => next.system \in DOMAIN systems
    BY <1>3, NextToDo
  <2> DEFINE I == {b.id : b \in B}
             below == {walked.blocks[i].id : i \in (next.from + 1) .. Len(walked.blocks)}
             noted == [key \in DOMAIN walked.subsystems \cup {next.key} |->
                         IF key = next.key THEN below ELSE walked.subsystems[key]]
             passed == Passed(walked)
  <2>4. below \in SUBSET I
    <3>1. ASSUME NEW i \in (next.from + 1) .. Len(walked.blocks) PROVE walked.blocks[i] \in B
      <4>1. PICK n \in Nat : n = Len(walked.blocks) /\ DOMAIN walked.blocks = 1 .. n
        BY <1>1
      <4>2. PICK m \in Nat : m = next.from
        BY <2>2
      <4>3. i \in 1 .. n
        BY <3>1, <4>1, <4>2
      <4> QED
        BY <1>1, <4>1, <4>3
    <3> QED
      BY <3>1
  <2>5. noted \in N
    <3>1. PICK K \in SUBSET BlockNames(systems) : IsFiniteSet(K) /\ walked.subsystems \in [K -> SUBSET I]
      BY <1>1 DEF N, Notes, B
    <3> DEFINE M == K \cup {next.key}
    <3>2. M \in SUBSET BlockNames(systems) /\ IsFiniteSet(M)
      BY <2>2, <3>1, FS_AddElement
    <3>3. noted \in [M -> SUBSET I]
      <4> HIDE DEF below, I
      <4> QED
        BY <2>4, <3>1
    <3> HIDE DEF noted, M, I
    <3>4. N = UNION {[G -> SUBSET I] : G \in {H \in SUBSET BlockNames(systems) : IsFiniteSet(H)}}
      BY DEF N, Notes, I, B
    <3> QED
      BY <3>2, <3>3, <3>4
  <2>6. passed \in Walks(systems)
    BY <1>3, PassedWalks
  <2> HIDE DEF noted, passed
  <2>7. CASE ~IsDown(next)
    <3>1. WalkOn(systems, walked) = [walked EXCEPT !.todo = Tail(walked.todo), !.subsystems = noted]
      BY <1>3, <2>7, Zenon DEF WalkOn, next, noted, IsDown
    <3> QED
      BY <1>0, <2>1, <2>5, <3>1
  <2>8. CASE IsDown(next) /\ next.system \in walked.visited
    <3>1. WalkOn(systems, walked) = passed
      BY <1>3, <2>8, Zenon DEF WalkOn, next, passed, Passed, IsDown
    <3> QED
      BY <2>6, <3>1
  <2>9. CASE IsDown(next) /\ next.system \notin walked.visited
    <3>1. WalkOn(systems, walked) = Entered(systems, next.system, next.key, passed)
      BY <1>3, <2>9, Zenon DEF WalkOn, next, passed, Passed, IsDown
    <3> QED
      BY <2>2, <2>6, <2>9, <3>1, EnteredWalks
  <2> QED
    BY <2>7, <2>8, <2>9
<1> QED
  BY <1>2, <1>3

(* The walk a model is the end of.                                          *)
Unread == [visited |-> {}, blocks |-> <<>>, lines |-> {}, subsystems |-> <<>>, todo |-> <<>>]
WalkSteps(systems) == 2 * Cardinality(BlockPlaces(systems))
IsWalk(walk, systems) ==
  /\ walk[0] = Entered(systems, "root", "", Unread)
  /\ \A k \in 1 .. WalkSteps(systems) : walk[k] = WalkOn(systems, walk[k - 1])
  /\ \A k \in 0 .. WalkSteps(systems) : walk[k] \in Walks(systems)
  /\ Model(systems) = walk[WalkSteps(systems)]

LEMMA UnreadWalks ==
  ASSUME NEW systems, IsSimulinkFile(systems)
  PROVE  Unread \in Walks(systems) /\ Entered(systems, "root", "", Unread) \in Walks(systems)
<1>2. Unread \in Walks(systems)
  <2>1. <<>> \in Notes(systems)
    <3> DEFINE I == {x.id : x \in ReadBlocks(systems)}
    <3>1. <<>> \in [{} -> SUBSET I] /\ {} \in SUBSET BlockNames(systems) /\ IsFiniteSet({})
      BY FS_EmptySet
    <3>2. Notes(systems) = UNION {[G -> SUBSET I] : G \in {H \in SUBSET BlockNames(systems) : IsFiniteSet(H)}}
      BY DEF Notes
    <3> HIDE DEF I
    <3> QED
      BY <3>1, <3>2
  <2>2. <<>> \in Seq(ReadBlocks(systems)) /\ <<>> \in Seq(ToDo(systems))
    OBVIOUS
  <2> QED
    BY <2>1, <2>2 DEF Walks, Unread
<1>1. "root" \in DOMAIN systems /\ "" \in BlockNames(systems) \cup {""}
  BY DEF IsSimulinkFile
<1> QED
  BY <1>1, <1>2, EnteredWalks

\* A model is what such a walk leaves, after however many steps.
LEMMA ModelWalked ==
  ASSUME NEW systems, IsSimulinkFile(systems)
  PROVE  \E walk : IsWalk(walk, systems)
<1> DEFINE W == Walks(systems)
           b == Entered(systems, "root", "", Unread)
           steps == WalkSteps(systems)
           on == [w \in W |-> WalkOn(systems, w)]
           h == [k \in 1 .. steps |-> on]
<1>1. steps \in Nat
  BY FinitePlaces DEF WalkSteps
<1> HIDE DEF steps
<1>3. b \in W
  BY UnreadWalks
<1> HIDE DEF b, W
<1>4. StepsIn(h, steps, W)
  <2>1. \A w \in W : on[w] \in W
    BY WalksGoOn DEF W
  <2> HIDE DEF on
  <2> QED
    BY <2>1 DEF StepsIn
<1>5. PICK f \in [0 .. steps -> W] : Recurs(f, b, h, steps)
  <2> HIDE DEF h
  <2> QED
    BY <1>1, <1>3, <1>4, UpToRecursion
<1>6. ASSUME NEW k \in 1 .. steps PROVE f[k] = WalkOn(systems, f[k - 1])
  <2>1. f[k - 1] \in W
    BY <1>1, <1>5
  <2>2. f[k] = h[k][f[k - 1]]
    BY <1>5 DEF Recurs
  <2> QED
    BY <2>1, <2>2
<1>7. f[0] = b
  BY <1>5 DEF Recurs
<1>8. f = [k \in 0 .. steps |-> IF k = 0 THEN b ELSE WalkOn(systems, f[k - 1])]
  <2>1. \A k \in 0 .. steps : k = 0 \/ k \in 1 .. steps
    BY <1>1
  <2> QED
    BY <1>5, <1>6, <1>7, <2>1
<1> DEFINE walk == CHOOSE g : g = [k \in 0 .. steps |-> IF k = 0 THEN b ELSE WalkOn(systems, g[k - 1])]
<1>9. walk = [k \in 0 .. steps |-> IF k = 0 THEN b ELSE WalkOn(systems, walk[k - 1])]
  BY <1>8
<1>10. Model(systems) = walk[steps]
  BY DEF Model, walk, b, steps, WalkSteps, Unread
<1> HIDE DEF walk
<1> DEFINE S == {k \in 0 .. steps : walk[k] \in W}
<1>11. 0 .. steps \subseteq S
  <2>1. 0 \in S
    BY <1>1, <1>3, <1>9
  <2>2. \A k \in 1 .. steps : k - 1 \in S => k \in S
    <3> SUFFICES ASSUME NEW k \in 1 .. steps, k - 1 \in S PROVE walk[k] \in W
      BY <1>1
    <3>1. walk[k] = WalkOn(systems, walk[k - 1])
      BY <1>1, <1>9
    <3> QED
      BY <3>1, WalksGoOn DEF W
  <2> HIDE DEF S
  <2> QED
    BY <1>1, <2>1, <2>2, UpToInduction
<1>12. ASSUME NEW k \in 1 .. steps PROVE walk[k] = WalkOn(systems, walk[k - 1])
  BY <1>1, <1>9
<1>13. walk[0] = b
  BY <1>1, <1>9
<1>14. IsWalk(walk, systems)
  <2>1. \A k \in 0 .. steps : walk[k] \in Walks(systems)
    BY <1>11 DEF W
  <2> QED
    BY <1>10, <1>12, <1>13, <2>1 DEF IsWalk, steps, b
<1> QED
  BY <1>14

LEMMA ModelFinite ==
  ASSUME NEW systems, IsSimulinkFile(systems)
  PROVE  IsSequence(Model(systems).blocks) /\ IsFiniteSet(DOMAIN Model(systems).subsystems)
<1> DEFINE model == Model(systems)
           B == Seq(ReadBlocks(systems))
           N == Notes(systems)
           D == Seq(ToDo(systems))
           L == UNION {LinesIn(systems[x]) : x \in DOMAIN systems}
<1>1. Walks(systems) = [visited : SUBSET DOMAIN systems, blocks : B, lines : SUBSET L,
                        subsystems : N, todo : D]
  BY DEF Walks
<1>2. model \in Walks(systems)
  <2>1. PICK walk : IsWalk(walk, systems)
    BY ModelWalked
  <2>2. WalkSteps(systems) \in Nat
    BY FinitePlaces DEF WalkSteps
  <2>3. WalkSteps(systems) \in 0 .. WalkSteps(systems)
    BY <2>2
  <2> QED
    BY <2>1, <2>3, Zenon DEF IsWalk
<1> HIDE DEF model, B, N, D, L
<1>3. model.blocks \in B /\ model.subsystems \in N
  BY <1>1, <1>2
<1>4. IsSequence(model.blocks)
  BY <1>3, AnySequence DEF B
<1>5. PICK K \in SUBSET BlockNames(systems) :
        IsFiniteSet(K) /\ model.subsystems \in [K -> SUBSET {b.id : b \in ReadBlocks(systems)}]
  BY <1>3 DEF N, Notes
<1> QED
  BY <1>4, <1>5 DEF model

----------------------------------------------------------------------------
(* Where the walk has read a system, it has read the block above it.        *)

HasParent(b) == b.parent # ""
IsTop(parent) == parent = ""
IsAbove(parent, systems) == parent \in BlockNames(systems) \cup {""}
IsRead(b) == b.type = "SubSystem" /\ b.sid # ""

(* No SubSystem block has that name, or one of the first n that were read.  *)
KeyHeld(systems, read, n, key) ==
  \/ key \notin SubsystemNames(systems)
  \/ \E j \in 1 .. n : read[j].type = "SubSystem" /\ read[j].name = key

(* What was found under that key has been noted, or will be.                *)
Noted(w, key) ==
  \/ key \in DOMAIN w.subsystems
  \/ \E u \in ToSet(w.todo) : ~IsDown(u) /\ u.key = key

BlockHeld(systems, w, i) ==
  /\ w.blocks[i].type = "SubSystem" => w.blocks[i].name \in SubsystemNames(systems)
  /\ HasParent(w.blocks[i]) =>
       /\ KeyHeld(systems, w.blocks, i - 1, w.blocks[i].parent)
       /\ Noted(w, w.blocks[i].parent)

WalkHeld(systems, w) ==
  /\ \A i \in DOMAIN w.blocks : BlockHeld(systems, w, i)
  /\ \A u \in ToSet(w.todo) : IsDown(u) => KeyHeld(systems, w.blocks, Len(w.blocks), u.key)

\* What is read of a system: blocks under its key, its SubSystem blocks with an id among them.
LEMMA ReadOfSystem ==
  ASSUME NEW systems, IsSimulinkFile(systems), NEW name \in DOMAIN systems, NEW parent
  PROVE  LET read == BlocksIn(systems[name], parent)
         IN  /\ IsSequence(read)
             /\ \A i \in DOMAIN read :
                  /\ read[i].parent = parent
                  /\ read[i].type = "SubSystem" => read[i].name \in SubsystemNames(systems)
             /\ \A b \in ToSet(systems[name].blocks) :
                  IsRead(b) =>
                    \E i \in DOMAIN read : read[i].type = "SubSystem" /\ read[i].name = NameOf(b)
<1> DEFINE all == systems[name].blocks
           kept == {i \in DOMAIN all : all[i].sid # ""}
           picked == Picked(all, kept)
           read == BlocksIn(systems[name], parent)
<1>1. IsSequence(all)
  BY DEF IsSimulinkFile
<1>2. IsSequence(picked) /\ ToSet(picked) = {all[i] : i \in DOMAIN all \cap kept}
  <2> HIDE DEF kept, all
  <2> QED
    BY <1>1, PickedSequence
<1>3. read = [i \in DOMAIN picked |-> ParsedBlock(picked[i], parent)]
  BY DEF BlocksIn
<1>4. ASSUME NEW i \in DOMAIN picked
      PROVE  picked[i] \in RawBlocks(systems) /\ picked[i].sid # ""
  <2>1. picked[i] \in ToSet(picked)
    BY DEF ToSet
  <2>2. PICK k \in DOMAIN all \cap kept : picked[i] = all[k]
    BY <1>2, <2>1
  <2>3. all[k] \in ToSet(all) /\ all[k].sid # ""
    BY DEF ToSet
  <2> QED
    BY <2>2, <2>3 DEF RawBlocks
<1>5. ASSUME NEW b \in ToSet(all), b.sid # "" PROVE \E i \in DOMAIN picked : picked[i] = b
  <2>1. PICK k \in DOMAIN all : all[k] = b
    BY <1>5 DEF ToSet
  <2>2. k \in DOMAIN all \cap kept
    BY <1>5, <2>1
  <2>3. b \in ToSet(picked)
    BY <1>2, <2>1, <2>2
  <2> QED
    BY <2>3 DEF ToSet
<1> HIDE DEF picked, read, all
<1>6. IsSequence(read) /\ DOMAIN read = DOMAIN picked
  <2>1. PICK n \in Nat : DOMAIN picked = 1 .. n
    BY <1>2, LengthOf
  <2>2. read = [i \in 1 .. n |-> read[i]]
    BY <1>3, <2>1
  <2> QED
    BY <1>3, <2>2, BuiltSequence
<1>7. ASSUME NEW i \in DOMAIN picked
      PROVE  /\ read[i].parent = parent /\ read[i].type = picked[i].type
             /\ read[i].name = NameOf(picked[i])
  BY <1>3 DEF ParsedBlock
<1>8. ASSUME NEW i \in DOMAIN picked, picked[i].type = "SubSystem"
      PROVE  NameOf(picked[i]) \in SubsystemNames(systems)
  BY <1>4, <1>8 DEF SubsystemNames
<1>9. \A b \in ToSet(all) : IsRead(b) =>
        \E i \in DOMAIN read : read[i].type = "SubSystem" /\ read[i].name = NameOf(b)
  <2> SUFFICES ASSUME NEW b \in ToSet(all), IsRead(b)
               PROVE  \E i \in DOMAIN read : read[i].type = "SubSystem" /\ read[i].name = NameOf(b)
    BY Zenon
  <2>1. b.sid # "" /\ b.type = "SubSystem"
    BY Zenon DEF IsRead
  <2>2. PICK i \in DOMAIN picked : picked[i] = b
    BY <1>5, <2>1, Zenon
  <2> QED
    BY <1>6, <1>7, <2>1, <2>2, Zenon
<1>10. \A i \in DOMAIN read :
         read[i].parent = parent /\ (read[i].type = "SubSystem" => read[i].name \in SubsystemNames(systems))
  BY <1>6, <1>7, <1>8
<1> QED
  BY <1>6, <1>9, <1>10, Zenon DEF all, read

\* What is to be done below a system: to go down under blocks of it.
LEMMA DownsOfSystem ==
  ASSUME NEW systems, IsSimulinkFile(systems), NEW name \in DOMAIN systems
  PROVE  LET all == systems[name].blocks
             within == Picked(all, {i \in DOMAIN all : all[i].system \in DOMAIN systems})
             downs == [i \in DOMAIN within |-> Down(within[i])]
         IN  /\ IsSequence(downs) /\ Len(downs) \in Nat /\ Len(downs) <= Len(all)
             /\ \A u \in ToSet(downs) :
                  /\ IsDown(u)
                  /\ \E b \in ToSet(all) : b.system \in DOMAIN systems /\ u.key = KeyOf(b)
<1> DEFINE all == systems[name].blocks
           kept == {i \in DOMAIN all : all[i].system \in DOMAIN systems}
           within == Picked(all, kept)
           downs == [i \in DOMAIN within |-> Down(within[i])]
<1>1. IsSequence(all) /\ Len(all) \in Nat /\ DOMAIN all = 1 .. Len(all)
  BY LengthOf DEF IsSimulinkFile
<1>a. PICK E : all \in Seq(E)
  BY <1>1 DEF IsSequence
<1>2. IsSequence(within) /\ ToSet(within) = {all[i] : i \in DOMAIN all \cap kept}
  <2> HIDE DEF kept, all
  <2> QED
    BY <1>1, PickedSequence
<1>b. PICK at : Embeds(at, within, all, kept)
  <2> HIDE DEF kept, all
  <2> QED
    BY <1>a, PickedEmbeds
<1>3. ASSUME NEW i \in DOMAIN within
      PROVE  within[i] \in ToSet(all) /\ within[i].system \in DOMAIN systems
  <2>1. within[i] \in ToSet(within)
    BY DEF ToSet
  <2>2. PICK k \in DOMAIN all \cap kept : within[i] = all[k]
    BY <1>2, <2>1
  <2> QED
    BY <2>2 DEF ToSet
<1> HIDE DEF within, all, kept
<1>4. IsSequence(downs) /\ Len(downs) = Len(within) /\ DOMAIN downs = DOMAIN within
  <2>1. Len(within) \in Nat /\ DOMAIN within = 1 .. Len(within)
    BY <1>2, LengthOf
  <2>2. downs = [i \in 1 .. Len(within) |-> downs[i]]
    BY <2>1
  <2> HIDE DEF downs
  <2> QED
    BY <2>1, <2>2, BuiltSequence
<1>5. Len(within) <= Len(all) /\ Len(within) \in Nat
  <2>1. Len(within) \in Nat /\ DOMAIN within = 1 .. Len(within)
    BY <1>2, LengthOf
  <2>2. \A k \in 1 .. Len(within) : at[k] \in 1 .. Len(all)
    BY <1>1, <1>b, <2>1 DEF Embeds
  <2>3. \A k, m \in 1 .. Len(within) : k < m => at[k] < at[m]
    BY <1>b, <2>1 DEF Embeds
  <2> DEFINE S == {k \in 0 .. Len(within) : k = 0 \/ k <= at[k]}
  <2>4. \A k \in 1 .. Len(within) : k - 1 \in S => k \in S
    <3> SUFFICES ASSUME NEW k \in 1 .. Len(within), k - 1 \in S PROVE k <= at[k]
      BY <2>1
    <3>1. CASE k = 1
      BY <2>2, <3>1
    <3>2. CASE k # 1
      <4>1. k - 1 \in 1 .. Len(within) /\ k - 1 < k
        BY <2>1, <3>2
      <4>2. at[k - 1] < at[k] /\ k - 1 <= at[k - 1] /\ at[k] \in Int /\ at[k - 1] \in Int
        BY <2>2, <2>3, <4>1
      <4> QED
        BY <4>2
    <3> QED
      BY <3>1, <3>2
  <2>5. 0 \in S
    BY <2>1
  <2> HIDE DEF S
  <2>6. 0 .. Len(within) \subseteq S
    BY <2>1, <2>4, <2>5, UpToInduction
  <2>7. Len(within) \in S
    BY <2>1, <2>6
  <2>8. Len(within) = 0 \/ Len(within) <= at[Len(within)]
    BY <2>7 DEF S
  <2>9. Len(within) = 0 \/ at[Len(within)] \in 1 .. Len(all)
    BY <2>1, <2>2
  <2> QED
    BY <1>1, <2>1, <2>8, <2>9
<1>6. ASSUME NEW u \in ToSet(downs)
      PROVE  IsDown(u) /\ \E b \in ToSet(all) : b.system \in DOMAIN systems /\ u.key = KeyOf(b)
  <2>1. PICK i \in DOMAIN within : u = Down(within[i])
    BY <1>4 DEF ToSet
  <2>2. u.system = within[i].system /\ u.key = KeyOf(within[i])
    BY <2>1 DEF Down
  <2>3. "" \notin DOMAIN systems
    BY DEF IsSimulinkFile
  <2>4. IsDown(u)
    BY <1>3, <2>2, <2>3, Zenon DEF IsDown
  <2> QED
    BY <1>3, <2>2, <2>4
<1> QED
  BY <1>4, <1>5, <1>6 DEF downs, within, kept, all

\* A key that is held stays so when more is read.
LEMMA HeldLonger ==
  ASSUME NEW systems, NEW E, NEW s \in Seq(E), NEW t \in Seq(E), NEW key,
         NEW n \in Nat, NEW m \in Nat, n <= m, n <= Len(s), KeyHeld(systems, s, n, key)
  PROVE  KeyHeld(systems, s \o t, m, key)
<1>1. ASSUME NEW j \in 1 .. n PROVE j \in 1 .. m /\ (s \o t)[j] = s[j]
  BY <1>1
<1> QED
  BY <1>1 DEF KeyHeld

\* To enter a system under a key that is held and noted keeps it all held.
LEMMA EnteredHeld ==
  ASSUME NEW systems, IsSimulinkFile(systems), SubsystemsStandOut(systems),
         NEW w \in Walks(systems), WalkHeld(systems, w), NEW name \in DOMAIN systems,
         NEW parent, IsAbove(parent, systems),
         ~IsTop(parent) => KeyHeld(systems, w.blocks, Len(w.blocks), parent) /\ Noted(w, parent)
  PROVE  WalkHeld(systems, Entered(systems, name, parent, w))
<1> DEFINE all == systems[name].blocks
           within == Picked(all, {i \in DOMAIN all : all[i].system \in DOMAIN systems})
           downs == [i \in DOMAIN within |-> Down(within[i])]
           read == BlocksIn(systems[name], parent)
           e == Entered(systems, name, parent, w)
           E == ReadBlocks(systems)
           s == w.blocks
           n == Len(s)
           r == e.blocks
<1>1. s \in Seq(E) /\ w.todo \in Seq(ToDo(systems))
  BY DEF Walks
<1>2. read \in Seq(E)
  BY BlocksInRead, Zenon DEF IsAbove
<1>3. r = s \o read /\ e.todo = downs \o w.todo /\ e.subsystems = w.subsystems
  BY DEF Entered
<1>4. /\ \A i \in DOMAIN read :
           read[i].parent = parent /\ (read[i].type = "SubSystem" => read[i].name \in SubsystemNames(systems))
      /\ \A b \in ToSet(all) : IsRead(b) =>
           \E i \in DOMAIN read : read[i].type = "SubSystem" /\ read[i].name = NameOf(b)
  <2> DEFINE given == systems[name]
             got == BlocksIn(given, parent)
  <2>1. /\ \A i \in DOMAIN got :
             got[i].parent = parent /\ (got[i].type = "SubSystem" => got[i].name \in SubsystemNames(systems))
        /\ \A b \in ToSet(given.blocks) : IsRead(b) =>
             \E i \in DOMAIN got : got[i].type = "SubSystem" /\ got[i].name = NameOf(b)
    BY ReadOfSystem
  <2> QED
    BY <2>1, Zenon
<1>5. /\ IsSequence(downs)
      /\ \A u \in ToSet(downs) :
           IsDown(u) /\ \E b \in ToSet(all) : b.system \in DOMAIN systems /\ u.key = KeyOf(b)
  BY DownsOfSystem, Zenon
<1>6. \A b \in ToSet(all) : b \in RawBlocks(systems)
  BY DEF RawBlocks
<1> HIDE DEF downs, read, all, within, e, E, s, r
<1>7. ToSet(e.todo) = ToSet(downs) \cup ToSet(w.todo)
  <2>1. IsSequence(w.todo)
    BY <1>1, AnySequence
  <2> QED
    BY <1>3, <1>5, <2>1, ConcatSequence
<1>8. \A key : Noted(w, key) => Noted(e, key)
  BY <1>3, <1>7 DEF Noted
<1>9. n \in Nat /\ Len(r) \in Nat /\ n <= Len(r) /\ Len(r) = n + Len(read)
         /\ Len(read) \in Nat /\ DOMAIN read = 1 .. Len(read)
  <2>1. Len(s \o read) = Len(s) + Len(read)
    BY <1>1, <1>2, ConcatIn
  <2>2. Len(s) \in Nat /\ Len(read) \in Nat /\ DOMAIN read = 1 .. Len(read)
    BY <1>1, <1>2
  <2> QED
    BY <1>3, <2>1, <2>2
<1> HIDE DEF n
<1>10. ASSUME NEW i \in DOMAIN r PROVE BlockHeld(systems, e, i)
  <2>1. /\ i \in Int /\ i \in 1 .. Len(r)
        /\ IF i <= n THEN i \in DOMAIN s /\ r[i] = s[i]
           ELSE i - n \in DOMAIN read /\ r[i] = read[i - n]
    BY <1>1, <1>2, <1>3, <1>9, <1>10, ConcatPlaces DEF n
  <2>2. CASE i <= n
    <3>1. BlockHeld(systems, w, i) /\ r[i] = s[i]
      BY <2>1, <2>2 DEF WalkHeld, s, n
    <3>2. i - 1 \in Nat /\ i - 1 <= n
      BY <1>9, <2>1, <2>2
    <3>3. ASSUME NEW key, KeyHeld(systems, s, i - 1, key)
          PROVE  KeyHeld(systems, r, i - 1, key)
      BY <1>1, <1>2, <1>3, <3>2, <3>3, HeldLonger DEF n
    <3> QED
      BY <1>8, <3>1, <3>3 DEF BlockHeld, s, r
  <2>3. CASE i > n
    <3>1. /\ r[i] = read[i - n] /\ i - n \in DOMAIN read
          /\ i - 1 \in Nat /\ n <= i - 1
      BY <1>9, <2>1, <2>3
    <3>2. /\ r[i].parent = parent
          /\ r[i].type = "SubSystem" => r[i].name \in SubsystemNames(systems)
      BY <1>4, <3>1
    <3>3. CASE IsTop(parent)
      <4>1. ~HasParent(r[i])
        BY <3>2, <3>3, Zenon DEF HasParent, IsTop
      <4> QED
        BY <3>2, <4>1 DEF BlockHeld, s, r
    <3>4. CASE KeyHeld(systems, s, n, parent) /\ Noted(w, parent)
      <4>1. KeyHeld(systems, r, i - 1, parent)
        BY <1>1, <1>2, <1>3, <1>9, <3>1, <3>4, HeldLonger DEF n
      <4> QED
        BY <1>8, <3>2, <3>4, <4>1 DEF BlockHeld, s, r
    <3> QED
      BY <3>3, <3>4 DEF n, s
  <2> QED
    BY <1>9, <2>1, <2>2, <2>3
<1>11. ASSUME NEW u \in ToSet(e.todo), IsDown(u)
       PROVE  KeyHeld(systems, r, Len(r), u.key)
  <2>1. CASE u \in ToSet(w.todo)
    <3>1. KeyHeld(systems, s, n, u.key)
      BY <1>11, <2>1 DEF WalkHeld, s, n
    <3>2. KeyHeld(systems, s \o read, Len(r), u.key)
      BY <1>1, <1>2, <1>9, <3>1, HeldLonger DEF n
    <3> QED
      BY <1>3, <3>2
  <2>2. CASE u \in ToSet(downs)
    <3>1. PICK b \in ToSet(all) : b.system \in DOMAIN systems /\ u.key = KeyOf(b)
      BY <1>5, <2>2
    <3>2. IsRead(b) \/ KeyOf(b) \notin SubsystemNames(systems)
      BY <1>6, <3>1, Zenon DEF SubsystemsStandOut, IsRead
    <3>3. CASE KeyOf(b) \notin SubsystemNames(systems)
      BY <3>1, <3>3 DEF KeyHeld
    <3>4. CASE IsRead(b)
      <4>1. PICK i \in DOMAIN read : read[i].type = "SubSystem" /\ read[i].name = NameOf(b)
        BY <1>4, <3>4, Zenon
      <4>2. KeyOf(b) = NameOf(b)
        BY <3>4, Zenon DEF KeyOf, NameOf, IsRead
      <4>3. n + i \in 1 .. Len(r) /\ r[n + i] = read[i]
        <5>1. i \in 1 .. Len(read)
          BY <1>9
        <5> QED
          BY <1>1, <1>2, <1>3, <1>9, <5>1
      <4> QED
        BY <3>1, <4>1, <4>2, <4>3 DEF KeyHeld
    <3> QED
      BY <3>2, <3>3, <3>4
  <2> QED
    BY <1>7, <2>1, <2>2
<1> QED
  BY <1>10, <1>11 DEF WalkHeld, e, r

\* The three things a walk can do.
LEMMA WalkMoves ==
  ASSUME NEW systems, IsSimulinkFile(systems), NEW w \in Walks(systems), w.todo # <<>>
  PROVE  LET next == Head(w.todo)
         IN  /\ Passed(w) \in Walks(systems) /\ IsAbove(next.key, systems)
             /\ \/ /\ ~IsDown(next)
                   /\ WalkOn(systems, w).todo = Tail(w.todo)
                   /\ WalkOn(systems, w).blocks = w.blocks
                   /\ WalkOn(systems, w).visited = w.visited
                   /\ DOMAIN WalkOn(systems, w).subsystems = DOMAIN w.subsystems \cup {next.key}
                \/ IsDown(next) /\ WalkOn(systems, w) = Passed(w)
                \/ /\ IsDown(next) /\ next.system \in DOMAIN systems \ w.visited
                   /\ WalkOn(systems, w) = Entered(systems, next.system, next.key, Passed(w))
<1> DEFINE next == Head(w.todo)
<1>1. Passed(w) \in Walks(systems) /\ next.key \in BlockNames(systems)
         /\ (IsDown(next) => next.system \in DOMAIN systems)
  BY PassedWalks, NextToDo
<1>2. IsAbove(next.key, systems)
  BY <1>1, Zenon DEF IsAbove
<1>3. CASE ~IsDown(next)
  <2> DEFINE below == {w.blocks[i].id : i \in (next.from + 1) .. Len(w.blocks)}
             noted == [key \in DOMAIN w.subsystems \cup {next.key} |->
                         IF key = next.key THEN below ELSE w.subsystems[key]]
             on == [w EXCEPT !.todo = Tail(w.todo), !.subsystems = noted]
  <2>1. WalkOn(systems, w) = on
    BY <1>3, Zenon DEF WalkOn, IsDown
  <2>2. DOMAIN noted = DOMAIN w.subsystems \cup {next.key}
    OBVIOUS
  <2> HIDE DEF noted
  <2>3. /\ on.todo = Tail(w.todo) /\ on.subsystems = noted
        /\ on.blocks = w.blocks /\ on.visited = w.visited
    BY DEF Walks
  <2> HIDE DEF on, next
  <2>4. /\ WalkOn(systems, w).todo = Tail(w.todo) /\ WalkOn(systems, w).blocks = w.blocks
        /\ WalkOn(systems, w).visited = w.visited
        /\ DOMAIN WalkOn(systems, w).subsystems = DOMAIN w.subsystems \cup {next.key}
    BY <2>1, <2>2, <2>3
  <2> QED
    BY <1>1, <1>2, <1>3, <2>4 DEF next
<1>4. CASE IsDown(next) /\ next.system \in w.visited
  <2>1. WalkOn(systems, w) = Passed(w)
    BY <1>4, Zenon DEF WalkOn, Passed, IsDown
  <2> QED
    BY <1>1, <1>2, <1>4, <2>1
<1>5. CASE IsDown(next) /\ next.system \notin w.visited
  <2>1. WalkOn(systems, w) = Entered(systems, next.system, next.key, Passed(w))
    BY <1>5, Zenon DEF WalkOn, Passed, IsDown
  <2> QED
    BY <1>1, <1>2, <1>5, <2>1
<1> QED
  BY <1>3, <1>4, <1>5

\* What is passed is held, and will be noted.
LEMMA PassedHeld ==
  ASSUME NEW systems, NEW w \in Walks(systems), WalkHeld(systems, w), w.todo # <<>>,
         IsDown(Head(w.todo))
  PROVE  /\ WalkHeld(systems, Passed(w)) /\ Noted(Passed(w), Head(w.todo).key)
         /\ KeyHeld(systems, Passed(w).blocks, Len(Passed(w).blocks), Head(w.todo).key)
<1> DEFINE next == Head(w.todo)
           up == Up(next.key, Len(w.blocks))
           p == Passed(w)
<1>1. w.todo \in Seq(ToDo(systems))
  BY DEF Walks
<1>2. next \in ToSet(w.todo) /\ Tail(w.todo) \in Seq(ToDo(systems))
        /\ ToSet(w.todo) = {next} \cup ToSet(Tail(w.todo))
  BY <1>1, HeadAndTail
<1>3. /\ p.todo = <<up>> \o Tail(w.todo) /\ p.blocks = w.blocks /\ p.subsystems = w.subsystems
  BY DEF Passed, Walks
<1>4. ~IsDown(up) /\ up.key = next.key
  BY Zenon DEF Up, IsDown
<1> HIDE DEF up, p, next
<1>5. ToSet(p.todo) = {up} \cup ToSet(Tail(w.todo))
  <2>1. IsSequence(Tail(w.todo)) /\ IsSequence(<<up>>) /\ ToSet(<<up>>) = {up}
    BY <1>2, AnySequence, ShortSequences
  <2> QED
    BY <1>3, <2>1, ConcatSequence
<1>6. \A key : Noted(w, key) => Noted(p, key)
  BY <1>2, <1>3, <1>5 DEF Noted, next
<1>7. Noted(p, next.key)
  BY <1>4, <1>5 DEF Noted
<1>8. KeyHeld(systems, w.blocks, Len(w.blocks), next.key)
  BY <1>2 DEF WalkHeld, next
<1>9. ASSUME NEW i \in DOMAIN p.blocks PROVE BlockHeld(systems, p, i)
  BY <1>3, <1>6 DEF WalkHeld, BlockHeld
<1>10. \A u \in ToSet(p.todo) : IsDown(u) => KeyHeld(systems, p.blocks, Len(p.blocks), u.key)
  BY <1>2, <1>3, <1>4, <1>5 DEF WalkHeld
<1> QED
  BY <1>3, <1>7, <1>8, <1>9, <1>10 DEF WalkHeld, p, next

\* Every step of a walk keeps what it has read held.
LEMMA StepHeld ==
  ASSUME NEW systems, IsSimulinkFile(systems), SubsystemsStandOut(systems),
         NEW w \in Walks(systems), WalkHeld(systems, w)
  PROVE  WalkHeld(systems, WalkOn(systems, w))
<1> DEFINE next == Head(w.todo)
           on == WalkOn(systems, w)
<1>1. CASE w.todo = <<>>
  BY <1>1 DEF WalkOn
<1>2. CASE w.todo # <<>> /\ ~IsDown(next)
  <2>1. /\ on.todo = Tail(w.todo) /\ on.blocks = w.blocks
        /\ DOMAIN on.subsystems = DOMAIN w.subsystems \cup {next.key}
    BY <1>2, WalkMoves
  <2>2. w.todo \in Seq(ToDo(systems))
    BY DEF Walks
  <2>3. ToSet(w.todo) = {next} \cup ToSet(Tail(w.todo))
    BY <1>2, <2>2, HeadAndTail
  <2> HIDE DEF on, next
  <2>4. \A key : Noted(w, key) => Noted(on, key)
    BY <2>1, <2>3 DEF Noted
  <2>5. ASSUME NEW i \in DOMAIN on.blocks PROVE BlockHeld(systems, on, i)
    BY <2>1, <2>4 DEF WalkHeld, BlockHeld
  <2>6. \A u \in ToSet(on.todo) : IsDown(u) => KeyHeld(systems, on.blocks, Len(on.blocks), u.key)
    BY <2>1, <2>3 DEF WalkHeld
  <2> QED
    BY <2>5, <2>6 DEF WalkHeld, on
<1>3. CASE w.todo # <<>> /\ IsDown(next)
  <2>1. /\ WalkHeld(systems, Passed(w)) /\ Noted(Passed(w), next.key)
        /\ KeyHeld(systems, Passed(w).blocks, Len(Passed(w).blocks), next.key)
    BY <1>3, PassedHeld
  <2>2. /\ Passed(w) \in Walks(systems) /\ IsAbove(next.key, systems)
        /\ \/ on = Passed(w)
           \/ next.system \in DOMAIN systems /\ on = Entered(systems, next.system, next.key, Passed(w))
    BY <1>3, WalkMoves
  <2> HIDE DEF on, next
  <2>3. CASE on = Passed(w)
    BY <2>1, <2>3 DEF on
  <2>4. CASE next.system \in DOMAIN systems /\ on = Entered(systems, next.system, next.key, Passed(w))
    <3>1. WalkHeld(systems, Entered(systems, next.system, next.key, Passed(w)))
      BY <2>1, <2>2, <2>4, EnteredHeld
    <3> QED
      BY <2>4, <3>1 DEF on
  <2> QED
    BY <2>2, <2>3, <2>4
<1> QED
  BY <1>1, <1>2, <1>3

----------------------------------------------------------------------------
(* The walk ends: every step takes something off what it may still do.      *)

DownsIn(todo) == {i \in DOMAIN todo : IsDown(todo[i])}
PlacesLeft(systems, w) == {place \in BlockPlaces(systems) : place[1] \notin w.visited}
StillToDo(systems, w) ==
  2 * Cardinality(PlacesLeft(systems, w)) + Len(w.todo) + Cardinality(DownsIn(w.todo))

\* Those of two lists are those of either.
LEMMA DownsOfBoth ==
  ASSUME NEW s, NEW t, IsSequence(s), IsSequence(t)
  PROVE  /\ Cardinality(DownsIn(s)) \in Nat /\ Cardinality(DownsIn(s)) <= Len(s)
         /\ Len(s \o t) = Len(s) + Len(t)
         /\ Cardinality(DownsIn(s \o t)) = Cardinality(DownsIn(s)) + Cardinality(DownsIn(t))
<1>1. /\ Len(s) \in Nat /\ Len(t) \in Nat /\ DOMAIN s = 1 .. Len(s) /\ DOMAIN t = 1 .. Len(t)
  BY LengthOf
<1>2. PICK E : s \in Seq(E) /\ t \in Seq(E)
  <2> DEFINE E == ToSet(s) \cup ToSet(t)
  <2>1. s \in Seq(E) /\ t \in Seq(E)
    BY DEF IsSequence
  <2> QED
    BY <2>1
<1>3. /\ Len(s \o t) = Len(s) + Len(t) /\ DOMAIN (s \o t) = 1 .. Len(s) + Len(t)
      /\ \A i \in 1 .. Len(s) : (s \o t)[i] = s[i]
      /\ \A i \in 1 .. Len(t) : (s \o t)[Len(s) + i] = t[i]
  BY <1>1, <1>2
<1> DEFINE n == Len(s)
           R == DownsIn(s)
           S == DownsIn(t)
           shift == [i \in S |-> n + i]
           T == {shift[i] : i \in S}
<1>4. DownsIn(s \o t) = R \cup T
  <2>1. ASSUME NEW i \in DownsIn(s \o t) PROVE i \in R \cup T
    <3>1. i \in 1 .. n + Len(t) /\ IsDown((s \o t)[i])
      BY <1>3 DEF DownsIn
    <3>2. CASE i <= n
      <4>1. i \in 1 .. n
        BY <1>1, <3>1, <3>2
      <4> QED
        BY <1>1, <1>3, <3>1, <4>1 DEF DownsIn
    <3>3. CASE i > n
      <4>1. i - n \in 1 .. Len(t) /\ i = n + (i - n)
        BY <1>1, <3>1, <3>3
      <4>2. IsDown(t[i - n])
        BY <1>3, <3>1, <4>1
      <4>3. i - n \in S
        BY <1>1, <4>1, <4>2 DEF DownsIn
      <4> QED
        BY <4>1, <4>3
    <3> QED
      BY <1>1, <3>1, <3>2, <3>3
  <2>2. ASSUME NEW i \in R PROVE i \in DownsIn(s \o t)
    <3>1. i \in 1 .. n /\ IsDown(s[i]) /\ i \in 1 .. n + Len(t)
      BY <1>1 DEF DownsIn
    <3> QED
      BY <1>3, <3>1 DEF DownsIn
  <2>3. ASSUME NEW i \in S PROVE n + i \in DownsIn(s \o t)
    <3>1. i \in 1 .. Len(t) /\ IsDown(t[i]) /\ n + i \in 1 .. n + Len(t)
      BY <1>1 DEF DownsIn
    <3> QED
      BY <1>3, <3>1 DEF DownsIn
  <2> QED
    BY <2>1, <2>2, <2>3
<1>5. /\ R \subseteq 1 .. n /\ S \subseteq 1 .. Len(t)
  BY <1>1 DEF DownsIn
<1>6. /\ IsFiniteSet(R) /\ Cardinality(R) \in Nat /\ Cardinality(R) <= n
      /\ IsFiniteSet(S) /\ Cardinality(S) \in Nat
  <2>1. IsFiniteSet(1 .. n) /\ Cardinality(1 .. n) = n /\ IsFiniteSet(1 .. Len(t))
    <3>1. 1 \in Int /\ n \in Int /\ Len(t) \in Int /\ (1 <= n \/ n = 0)
      BY <1>1
    <3>2. IsFiniteSet(1 .. n) /\ IsFiniteSet(1 .. Len(t))
      BY <3>1, FS_Interval
    <3>3. Cardinality(1 .. n) = IF 1 > n THEN 0 ELSE n - 1 + 1
      BY <3>1, FS_Interval
    <3> QED
      BY <1>1, <3>1, <3>2, <3>3
  <2> HIDE DEF R, S, n
  <2>2. IsFiniteSet(R) /\ Cardinality(R) <= n /\ IsFiniteSet(S)
    BY <1>5, <2>1, FS_Subset
  <2> QED
    BY <2>2, FS_CardinalityType
<1>7. IsFiniteSet(T) /\ Cardinality(T) = Cardinality(S)
  <2>1. shift \in [S -> T] /\ \A i, k \in S : i # k => shift[i] # shift[k]
    BY <1>1, <1>5
  <2>2. \A x \in T : \E i \in S : shift[i] = x
    OBVIOUS
  <2>3. shift \in Bijection(S, T)
    <3> HIDE DEF shift, S, T
    <3> QED
      BY <2>1, <2>2 DEF Bijection, Injection, Surjection, IsInjective
  <2> HIDE DEF shift, S, T
  <2>4. ExistsBijection(S, T)
    BY <2>3 DEF ExistsBijection
  <2> QED
    BY <1>6, <2>4, FS_Bijection
<1>8. R \cap T = {}
  BY <1>1, <1>5
<1>9. Cardinality(R \cup T) = Cardinality(R) + Cardinality(T)
  <2>1. Cardinality(R \cup T) = Cardinality(R) + Cardinality(T) - Cardinality(R \cap T)
    <3> HIDE DEF R, T
    <3> QED
      BY <1>6, <1>7, FS_Union
  <2>2. Cardinality(R \cap T) = 0
    BY <1>8, FS_EmptySet
  <2> HIDE DEF R, T, S
  <2> QED
    BY <1>6, <1>7, <2>1, <2>2
<1> QED
  BY <1>3, <1>4, <1>6, <1>7, <1>9

\* What a walk may still do is a number, and not none before it has ended.
LEMMA StillANumber ==
  ASSUME NEW systems, IsSimulinkFile(systems), NEW w \in Walks(systems)
  PROVE  /\ IsFiniteSet(PlacesLeft(systems, w)) /\ Cardinality(PlacesLeft(systems, w)) \in Nat
         /\ IsSequence(w.todo) /\ Len(w.todo) \in Nat /\ Cardinality(DownsIn(w.todo)) \in Nat
         /\ StillToDo(systems, w) \in Nat /\ (w.todo # <<>> => StillToDo(systems, w) >= 1)
<1>1. PlacesLeft(systems, w) \subseteq BlockPlaces(systems) /\ IsFiniteSet(BlockPlaces(systems))
  BY FinitePlaces DEF PlacesLeft
<1>2. IsFiniteSet(PlacesLeft(systems, w)) /\ Cardinality(PlacesLeft(systems, w)) \in Nat
  BY <1>1, FS_Subset, FS_CardinalityType
<1>3. w.todo \in Seq(ToDo(systems))
  BY DEF Walks
<1>4. Len(w.todo) \in Nat /\ (w.todo # <<>> => Len(w.todo) >= 1)
  BY <1>3
<1>5. IsSequence(w.todo)
  BY <1>3, AnySequence
<1>6. Cardinality(DownsIn(w.todo)) \in Nat
  BY <1>5, DownsOfBoth
<1> QED
  BY <1>2, <1>4, <1>5, <1>6 DEF StillToDo

LEMMA DownsOfOne ==
  ASSUME NEW x
  PROVE  Cardinality(DownsIn(<<x>>)) = IF IsDown(x) THEN 1 ELSE 0
<1>1. DownsIn(<<x>>) = IF IsDown(x) THEN {1} ELSE {}
  BY DEF DownsIn
<1> QED
  BY <1>1, FS_Singleton, FS_EmptySet

\* What a system adds to the list is never more than what its blocks give up.
LEMMA EnteredOwes ==
  ASSUME NEW systems, IsSimulinkFile(systems), NEW w \in Walks(systems),
         NEW name \in DOMAIN systems \ w.visited, NEW parent,
         Entered(systems, name, parent, w) \in Walks(systems)
  PROVE  StillToDo(systems, Entered(systems, name, parent, w)) <= StillToDo(systems, w)
<1> DEFINE all == systems[name].blocks
           within == Picked(all, {i \in DOMAIN all : all[i].system \in DOMAIN systems})
           downs == [i \in DOMAIN within |-> Down(within[i])]
           e == Entered(systems, name, parent, w)
           n == Len(all)
           here == {name} \X DOMAIN all
           left == PlacesLeft(systems, w)
           after == PlacesLeft(systems, e)
<1>1. e.todo = downs \o w.todo /\ e.visited = w.visited \cup {name}
  BY DEF Entered
<1>2. IsSequence(downs) /\ Len(downs) \in Nat /\ Len(downs) <= n
  BY DownsOfSystem, Zenon
<1>3. n \in Nat /\ DOMAIN all = 1 .. n
  BY LengthOf DEF IsSimulinkFile
<1>4. Cardinality(here) = n /\ IsFiniteSet(here)
  <2>1. 1 \in Int /\ n \in Int /\ (1 <= n \/ n = 0)
    BY <1>3
  <2>2. IsFiniteSet(1 .. n)
    BY <2>1, FS_Interval
  <2>3. Cardinality(1 .. n) = n
    <3>1. Cardinality(1 .. n) = IF 1 > n THEN 0 ELSE n - 1 + 1
      BY <2>1, FS_Interval
    <3> QED
      BY <1>3, <2>1, <3>1
  <2>4. IsFiniteSet({name}) /\ Cardinality({name}) = 1
    BY FS_Singleton
  <2>5. IsFiniteSet({name} \X (1 .. n)) /\ Cardinality({name} \X (1 .. n)) = 1 * n
    BY <2>2, <2>3, <2>4, FS_Product, ZenonT(40)
  <2> QED
    BY <1>3, <2>5
<1>5. left = after \cup here /\ after \cap here = {}
  <2>1. here \subseteq BlockPlaces(systems)
    BY DEF BlockPlaces
  <2>2. \A place \in BlockPlaces(systems) : place[1] = name => place \in here
    <3> SUFFICES ASSUME NEW place \in BlockPlaces(systems), place[1] = name PROVE place \in here
      OBVIOUS
    <3>1. PICK x \in DOMAIN systems : place \in {x} \X DOMAIN systems[x].blocks
      BY DEF BlockPlaces
    <3>2. x = name
      BY <3>1
    <3> QED
      BY <3>1, <3>2
  <2>3. \A place \in here : place[1] = name
    OBVIOUS
  <2> HIDE DEF here
  <2> QED
    BY <1>1, <2>1, <2>2, <2>3 DEF PlacesLeft
<1>6. /\ IsFiniteSet(after) /\ Cardinality(after) \in Nat /\ Cardinality(left) \in Nat
      /\ IsSequence(w.todo) /\ Len(w.todo) \in Nat /\ Cardinality(DownsIn(w.todo)) \in Nat
  BY StillANumber
<1> HIDE DEF downs, within, e, n, here, left, after, all
<1>7. Cardinality(left) = Cardinality(after) + n
  <2>1. Cardinality(after \cup here) = Cardinality(after) + Cardinality(here) - Cardinality(after \cap here)
    BY <1>4, <1>6, FS_Union
  <2>2. Cardinality(after \cap here) = 0
    BY <1>5, FS_EmptySet
  <2> QED
    BY <1>3, <1>4, <1>5, <1>6, <2>1, <2>2
<1>8. /\ Cardinality(DownsIn(downs)) \in Nat /\ Cardinality(DownsIn(downs)) <= Len(downs)
      /\ Len(e.todo) = Len(downs) + Len(w.todo)
      /\ Cardinality(DownsIn(e.todo)) = Cardinality(DownsIn(downs)) + Cardinality(DownsIn(w.todo))
  BY <1>1, <1>2, <1>6, DownsOfBoth
<1>9. /\ StillToDo(systems, e) = 2 * Cardinality(after) + Len(e.todo) + Cardinality(DownsIn(e.todo))
      /\ StillToDo(systems, w) = 2 * Cardinality(left) + Len(w.todo) + Cardinality(DownsIn(w.todo))
  BY DEF StillToDo, after, left
<1> QED
  <2> DEFINE A == Cardinality(after)
             L == Len(downs)
             M == Cardinality(DownsIn(downs))
             O == Len(w.todo)
             P == Cardinality(DownsIn(w.todo))
  <2>1. A \in Nat /\ L \in Nat /\ M \in Nat /\ O \in Nat /\ P \in Nat /\ M <= L /\ L <= n
    BY <1>2, <1>6, <1>8
  <2>2. StillToDo(systems, e) = 2 * A + (L + O) + (M + P)
    BY <1>8, <1>9
  <2>3. StillToDo(systems, w) = 2 * (A + n) + O + P
    BY <1>7, <1>9, SMTT(30)
  <2> HIDE DEF A, L, M, O, P
  <2> QED
    BY <1>3, <2>1, <2>2, <2>3 DEF e

\* To come to a block, and to come up from it, is one thing less to do.
LEMMA ListOwes ==
  ASSUME NEW systems, IsSimulinkFile(systems), NEW w \in Walks(systems), w.todo # <<>>
  PROVE  /\ IsDown(Head(w.todo)) => StillToDo(systems, Passed(w)) = StillToDo(systems, w) - 1
         /\ \A on \in Walks(systems) :
              ~IsDown(Head(w.todo)) /\ on.todo = Tail(w.todo) /\ on.visited = w.visited
                => StillToDo(systems, on) = StillToDo(systems, w) - 1
<1> DEFINE next == Head(w.todo)
           rest == Tail(w.todo)
           up == Up(next.key, Len(w.blocks))
           C == Cardinality(PlacesLeft(systems, w))
<1>1. w.todo \in Seq(ToDo(systems)) /\ C \in Nat
  BY StillANumber DEF Walks
<1>2. rest \in Seq(ToDo(systems)) /\ w.todo = <<next>> \o rest
  BY <1>1, HeadAndTail
<1>3. /\ IsSequence(rest) /\ IsSequence(<<next>>) /\ IsSequence(<<up>>)
      /\ Len(<<next>>) = 1 /\ Len(<<up>>) = 1
  BY <1>2, AnySequence, ShortSequences
<1>4. Passed(w).todo = <<up>> \o rest /\ Passed(w).visited = w.visited
  BY DEF Passed, Walks
<1>5. ~IsDown(up)
  BY Zenon DEF Up, IsDown
<1> HIDE DEF next, rest, up
<1>6. /\ Cardinality(DownsIn(rest)) \in Nat /\ Len(rest) \in Nat
      /\ Len(w.todo) = 1 + Len(rest)
      /\ Cardinality(DownsIn(w.todo)) = (IF IsDown(next) THEN 1 ELSE 0) + Cardinality(DownsIn(rest))
      /\ Len(Passed(w).todo) = 1 + Len(rest)
      /\ Cardinality(DownsIn(Passed(w).todo)) = Cardinality(DownsIn(rest))
  <2>1. Len(rest) \in Nat
    BY <1>2
  <2>2. /\ Cardinality(DownsIn(rest)) \in Nat
        /\ Len(<<next>> \o rest) = Len(<<next>>) + Len(rest)
        /\ Cardinality(DownsIn(<<next>> \o rest)) =
             Cardinality(DownsIn(<<next>>)) + Cardinality(DownsIn(rest))
    BY <1>3, DownsOfBoth
  <2>3. /\ Len(<<up>> \o rest) = Len(<<up>>) + Len(rest)
        /\ Cardinality(DownsIn(<<up>> \o rest)) = Cardinality(DownsIn(<<up>>)) + Cardinality(DownsIn(rest))
    BY <1>3, DownsOfBoth
  <2>4. /\ Cardinality(DownsIn(<<next>>)) = IF IsDown(next) THEN 1 ELSE 0
        /\ Cardinality(DownsIn(<<up>>)) = 0
    BY <1>5, DownsOfOne
  <2>5. Cardinality(DownsIn(<<up>> \o rest)) = Cardinality(DownsIn(rest))
    BY <2>2, <2>3, <2>4
  <2> QED
    BY <1>2, <1>3, <1>4, <2>1, <2>2, <2>3, <2>4, <2>5
<1>7. StillToDo(systems, w) = 2 * C + Len(w.todo) + Cardinality(DownsIn(w.todo))
  BY DEF StillToDo
<1>8. \A on : on.visited = w.visited =>
        StillToDo(systems, on) = 2 * C + Len(on.todo) + Cardinality(DownsIn(on.todo))
  BY DEF StillToDo, PlacesLeft
<1> HIDE DEF C
<1>9. ASSUME IsDown(next) PROVE StillToDo(systems, Passed(w)) = StillToDo(systems, w) - 1
  <2>1. StillToDo(systems, Passed(w)) = 2 * C + (1 + Len(rest)) + Cardinality(DownsIn(rest))
    BY <1>4, <1>6, <1>8
  <2>2. StillToDo(systems, w) = 2 * C + (1 + Len(rest)) + (1 + Cardinality(DownsIn(rest)))
    BY <1>6, <1>7, <1>9
  <2> QED
    BY <1>1, <1>6, <2>1, <2>2
<1>10. ASSUME NEW on \in Walks(systems), ~IsDown(next), on.todo = rest, on.visited = w.visited
       PROVE  StillToDo(systems, on) = StillToDo(systems, w) - 1
  <2>1. StillToDo(systems, on) = 2 * C + Len(rest) + Cardinality(DownsIn(rest))
    BY <1>8, <1>10
  <2>2. StillToDo(systems, w) = 2 * C + (1 + Len(rest)) + (0 + Cardinality(DownsIn(rest)))
    BY <1>6, <1>7, <1>10
  <2> QED
    BY <1>1, <1>6, <2>1, <2>2
<1> QED
  BY <1>9, <1>10 DEF next, rest

\* So does every step of a walk that has not ended.
LEMMA StepOwes ==
  ASSUME NEW systems, IsSimulinkFile(systems), NEW w \in Walks(systems), w.todo # <<>>
  PROVE  StillToDo(systems, WalkOn(systems, w)) <= StillToDo(systems, w) - 1
<1> DEFINE next == Head(w.todo)
           on == WalkOn(systems, w)
<1>1. on \in Walks(systems) /\ Passed(w) \in Walks(systems)
  BY WalksGoOn, PassedWalks
<1>2. /\ StillToDo(systems, w) \in Nat /\ StillToDo(systems, on) \in Nat
      /\ StillToDo(systems, Passed(w)) \in Nat
  BY <1>1, StillANumber
<1>3. /\ IsDown(next) => StillToDo(systems, Passed(w)) = StillToDo(systems, w) - 1
      /\ ~IsDown(next) /\ on.todo = Tail(w.todo) /\ on.visited = w.visited
           => StillToDo(systems, on) = StillToDo(systems, w) - 1
  BY <1>1, ListOwes
<1>4. /\ IsAbove(next.key, systems)
      /\ \/ ~IsDown(next) /\ on.todo = Tail(w.todo) /\ on.visited = w.visited
         \/ IsDown(next) /\ on = Passed(w)
         \/ /\ IsDown(next) /\ next.system \in DOMAIN systems \ w.visited
            /\ on = Entered(systems, next.system, next.key, Passed(w))
  BY WalkMoves
<1>5. Passed(w).visited = w.visited
  BY DEF Passed, Walks
<1> HIDE DEF next, on
<1>6. CASE ~IsDown(next) /\ on.todo = Tail(w.todo) /\ on.visited = w.visited
  BY <1>2, <1>3, <1>6 DEF on
<1>7. CASE IsDown(next) /\ on = Passed(w)
  BY <1>2, <1>3, <1>7 DEF on
<1>8. CASE /\ IsDown(next) /\ next.system \in DOMAIN systems \ w.visited
           /\ on = Entered(systems, next.system, next.key, Passed(w))
  <2>1. StillToDo(systems, Entered(systems, next.system, next.key, Passed(w)))
          <= StillToDo(systems, Passed(w))
    BY <1>1, <1>5, <1>8, EnteredOwes
  <2> QED
    BY <1>2, <1>3, <1>8, <2>1 DEF on
<1> QED
  BY <1>4, <1>6, <1>7, <1>8

(* The parser goes down into every system once, however systems hold each   *)
(* other: when the model has been read, nothing is left to be done, so the  *)
(* bound on the steps of the walk cuts nothing off.                         *)
THEOREM WalksEnd ==
  ASSUME NEW systems, IsSimulinkFile(systems)
  PROVE  Model(systems) \in Walks(systems) /\ Model(systems).todo = <<>>
<1>1. PICK walk : IsWalk(walk, systems)
  BY ModelWalked
<1> DEFINE steps == WalkSteps(systems)
           S == {k \in 0 .. steps : walk[k].todo = <<>> \/ StillToDo(systems, walk[k]) <= steps - k}
<1>2. steps \in Nat
  BY FinitePlaces DEF WalkSteps
<1>0. walk[0] = Entered(systems, "root", "", Unread)
  BY <1>1, Zenon DEF IsWalk
<1>3. /\ \A k \in 1 .. steps : walk[k] = WalkOn(systems, walk[k - 1])
      /\ \A k \in 0 .. steps : walk[k] \in Walks(systems)
      /\ Model(systems) = walk[steps]
  BY <1>1, Zenon DEF IsWalk
<1>4. StillToDo(systems, walk[0]) <= steps
  <2>1. Unread \in Walks(systems) /\ Entered(systems, "root", "", Unread) \in Walks(systems)
    BY UnreadWalks
  <2>2. Unread.visited = {} /\ Unread.todo = <<>>
    BY DEF Unread
  <2>3. "root" \in DOMAIN systems \ Unread.visited
    BY <2>2 DEF IsSimulinkFile
  <2>4. StillToDo(systems, walk[0]) <= StillToDo(systems, Unread)
    BY <1>0, <2>1, <2>3, EnteredOwes, Zenon
  <2>5. PlacesLeft(systems, Unread) = BlockPlaces(systems)
    BY <2>2 DEF PlacesLeft
  <2>6. Len(Unread.todo) = 0 /\ Cardinality(DownsIn(Unread.todo)) = 0
    <3>1. DownsIn(<<>>) = {}
      BY DEF DownsIn
    <3> QED
      BY <2>2, <3>1, FS_EmptySet
  <2>7. StillToDo(systems, Unread) = 2 * Cardinality(BlockPlaces(systems)) + 0 + 0
    BY <2>5, <2>6 DEF StillToDo
  <2> QED
    BY <1>2, <2>4, <2>7, FinitePlaces DEF WalkSteps
<1> HIDE DEF steps
<1>5. 0 \in S
  BY <1>2, <1>4
<1>6. ASSUME NEW k \in 1 .. steps, k - 1 \in S PROVE k \in S
  <2>1. k \in 0 .. steps /\ k - 1 \in 0 .. steps /\ walk[k - 1] \in Walks(systems)
    BY <1>2, <1>3
  <2>2. walk[k] = WalkOn(systems, walk[k - 1])
    BY <1>3
  <2>3. CASE walk[k - 1].todo = <<>>
    <3>1. walk[k] = walk[k - 1]
      BY <2>2, <2>3 DEF WalkOn
    <3> QED
      BY <2>1, <2>3, <3>1
  <2>4. CASE walk[k - 1].todo # <<>>
    <3>1. StillToDo(systems, walk[k - 1]) <= steps - (k - 1)
      BY <1>6, <2>4
    <3>2. StillToDo(systems, WalkOn(systems, walk[k - 1])) <= StillToDo(systems, walk[k - 1]) - 1
      BY <2>1, <2>4, StepOwes
    <3>3. walk[k] \in Walks(systems)
      BY <1>3, <2>1
    <3>4. StillToDo(systems, walk[k]) \in Nat /\ StillToDo(systems, walk[k - 1]) \in Nat
      BY <2>1, <3>3, StillANumber
    <3>5. StillToDo(systems, walk[k]) <= steps - k
      BY <1>2, <2>2, <3>1, <3>2, <3>4
    <3> QED
      BY <2>1, <3>5
  <2> QED
    BY <2>3, <2>4
<1> HIDE DEF S
<1>7. steps \in S
  <2>1. 0 .. steps \subseteq S
    BY <1>2, <1>5, <1>6, UpToInduction
  <2> QED
    BY <1>2, <2>1
<1>8. walk[steps] \in Walks(systems)
  BY <1>2, <1>3
<1>9. walk[steps].todo = <<>>
  <2>1. walk[steps].todo = <<>> \/ StillToDo(systems, walk[steps]) <= 0
    BY <1>2, <1>7 DEF S
  <2>2. walk[steps].todo = <<>> \/ StillToDo(systems, walk[steps]) >= 1
    BY <1>8, StillANumber
  <2>3. StillToDo(systems, walk[steps]) \in Nat
    BY <1>8, StillANumber
  <2> QED
    BY <2>1, <2>2, <2>3
<1> QED
  BY <1>3, <1>8, <1>9

\* What has been read is held from the root on.
LEMMA ModelHeld ==
  ASSUME NEW systems, IsSimulinkFile(systems), SubsystemsStandOut(systems)
  PROVE  WalkHeld(systems, Model(systems))
<1>1. PICK walk : IsWalk(walk, systems)
  BY ModelWalked
<1> DEFINE steps == WalkSteps(systems)
           S == {k \in 0 .. steps : WalkHeld(systems, walk[k])}
<1>2. steps \in Nat
  BY FinitePlaces DEF WalkSteps
<1>0. walk[0] = Entered(systems, "root", "", Unread)
  BY <1>1, Zenon DEF IsWalk
<1>3. /\ \A k \in 1 .. steps : walk[k] = WalkOn(systems, walk[k - 1])
      /\ \A k \in 0 .. steps : walk[k] \in Walks(systems)
      /\ Model(systems) = walk[steps]
  BY <1>1, Zenon DEF IsWalk
<1>4. WalkHeld(systems, walk[0])
  <2>1. Unread \in Walks(systems) /\ "root" \in DOMAIN systems
    BY UnreadWalks DEF IsSimulinkFile
  <2>2. WalkHeld(systems, Unread)
    <3>1. Unread.blocks = <<>> /\ Unread.todo = <<>>
      BY DEF Unread
    <3>2. ToSet(<<>>) = {} /\ DOMAIN <<>> = {}
      BY DEF ToSet
    <3> QED
      BY <3>1, <3>2 DEF WalkHeld
  <2>3. PICK parent : parent = ""
    OBVIOUS
  <2>4. IsTop(parent) /\ IsAbove(parent, systems)
    BY <2>3, Zenon DEF IsTop, IsAbove
  <2>5. WalkHeld(systems, Entered(systems, "root", parent, Unread))
    <3>1. PICK name \in DOMAIN systems : name = "root"
      BY <2>1, Zenon
    <3>2. WalkHeld(systems, Entered(systems, name, parent, Unread))
      BY <2>1, <2>2, <2>4, EnteredHeld
    <3> QED
      BY <3>1, <3>2, Zenon
  <2> QED
    BY <1>0, <2>3, <2>5, Zenon
<1> HIDE DEF steps
<1>5. 0 \in S
  BY <1>2, <1>4
<1>6. ASSUME NEW k \in 1 .. steps, k - 1 \in S PROVE k \in S
  <2>1. k \in 0 .. steps /\ k - 1 \in 0 .. steps /\ walk[k - 1] \in Walks(systems)
    BY <1>2, <1>3
  <2>2. WalkHeld(systems, WalkOn(systems, walk[k - 1]))
    BY <1>6, <2>1, StepHeld
  <2> QED
    BY <1>3, <2>1, <2>2
<1> HIDE DEF S
<1>7. steps \in S
  <2>1. 0 .. steps \subseteq S
    BY <1>2, <1>5, <1>6, UpToInduction
  <2> QED
    BY <1>2, <2>1
<1> QED
  BY <1>3, <1>7 DEF S

----------------------------------------------------------------------------
(* The files of an archive. *)

Listed(contents) == {contents.files[i].path : i \in DOMAIN contents.files}

\* An archive lists sequences of names, each path with one type, and no extracted path.
LEMMA ListedFiles ==
  ASSUME NEW a \in Readable
  PROVE  /\ IsSequence(ContentsOf[a].files)
         /\ \A path \in Listed(ContentsOf[a]) :
              IsSequence(path) /\ \A p \in Projects : Extracted(p, path) \notin Listed(ContentsOf[a])
         /\ \A i, k \in DOMAIN ContentsOf[a].files :
              ContentsOf[a].files[i].path = ContentsOf[a].files[k].path
                => ContentsOf[a].files[i].type = ContentsOf[a].files[k].type
<1> DEFINE entries == Archives[a].entries
           kept == Picked(entries, Consumed(entries))
           files == ContentsOf[a].files
           typeOf(e) == IF Policy(e.type) = "allow" THEN e.type ELSE "other"
<1>1. /\ IsSequence(entries)
      /\ \A i \in DOMAIN entries : IsSequence(entries[i].path)
      /\ \A i, k \in DOMAIN entries :
           /\ entries[i].path = entries[k].path => entries[i].type = entries[k].type
           /\ \A p \in Projects : entries[i].path # Extracted(p, entries[k].path)
  BY EntriesAssumption DEF Readable
<1>2. files = FilesIn(entries)
  BY DEF ContentsOf
<1> HIDE DEF entries
<1>3. IsSequence(kept) /\ ToSet(kept) = {entries[i] : i \in DOMAIN entries \cap Consumed(entries)}
  BY <1>1, PickedSequence
<1>4. files = [i \in DOMAIN kept |-> [path |-> kept[i].path, type |-> typeOf(kept[i])]]
  BY <1>2 DEF FilesIn
<1> HIDE DEF kept, files
<1>5. DOMAIN files = DOMAIN kept /\ \A i \in DOMAIN kept :
        files[i].path = kept[i].path /\ files[i].type = typeOf(kept[i])
  BY <1>4
<1>6. IsSequence(files)
  <2>1. files = [i \in DOMAIN kept |-> files[i]]
    BY <1>4
  <2> QED
    BY <1>3, <2>1, OverSequence
<1>7. \A i \in DOMAIN kept : \E k \in DOMAIN entries : kept[i] = entries[k]
  <2>1. \A i \in DOMAIN kept : kept[i] \in ToSet(kept)
    BY DEF ToSet
  <2> QED
    BY <1>3, <2>1
<1> HIDE DEF typeOf
<1>8. ASSUME NEW i \in DOMAIN files, NEW k \in DOMAIN files
      PROVE  /\ IsSequence(files[i].path)
             /\ \A p \in Projects : Extracted(p, files[i].path) # files[k].path
             /\ files[i].path = files[k].path => files[i].type = files[k].type
  <2>1. PICK x \in DOMAIN entries : kept[i] = entries[x]
    BY <1>5, <1>7
  <2>2. PICK y \in DOMAIN entries : kept[k] = entries[y]
    BY <1>5, <1>7
  <2>3. files[i].path = entries[x].path /\ files[k].path = entries[y].path
        /\ files[i].type = typeOf(entries[x]) /\ files[k].type = typeOf(entries[y])
    BY <1>5, <2>1, <2>2
  <2>4. entries[x].path = entries[y].path => typeOf(entries[x]) = typeOf(entries[y])
    BY <1>1 DEF typeOf
  <2> QED
    BY <1>1, <2>3, <2>4
<1> QED
  BY <1>6, <1>8 DEF Listed, files

\* An extracted path ends in the path the archive lists.
LEMMA SuffixOfExtracted ==
  ASSUME NEW p, NEW path, IsSequence(path)
  PROVE  IsSuffix(path, Extracted(p, path))
<1> DEFINE E == ToSet(path) \cup {"uploads", p}
           n == Len(path)
           front == <<"uploads", p>>
           raw == front \o path
           back == [i \in 1 .. n |-> path[(n - i) + 1]]
           long == [i \in 1 .. n + 2 |-> raw[((n + 2) - i) + 1]]
<1>1. path \in Seq(E) /\ front \in Seq(E) /\ Len(front) = 2
  BY DEF IsSequence
<1> HIDE DEF E, front
<1>2. /\ n \in Nat /\ DOMAIN path = 1 .. n /\ raw \in Seq(E) /\ Len(raw) = n + 2
      /\ \A i \in 1 .. n : raw[i + 2] = path[i]
  <2>1. n \in Nat /\ DOMAIN path = 1 .. n
    BY <1>1
  <2>2. raw \in Seq(E) /\ Len(raw) = Len(front) + n
    BY <1>1, ConcatIn
  <2>3. Len(raw) = n + 2
    <3> HIDE DEF raw, n
    <3> QED
      BY <1>1, <2>1, <2>2
  <2>4. ASSUME NEW i \in 1 .. n PROVE raw[i + 2] = path[i]
    <3>1. DOMAIN raw = 1 .. n + 2
      BY <2>2, <2>3
    <3>2. i + 2 \in DOMAIN raw /\ ~(i + 2 <= 2) /\ (i + 2) - 2 = i
      BY <2>1, <3>1
    <3>3. IF i + 2 <= Len(front) THEN i + 2 \in DOMAIN front /\ raw[i + 2] = front[i + 2]
          ELSE (i + 2) - Len(front) \in DOMAIN path /\ raw[i + 2] = path[(i + 2) - Len(front)]
      BY <1>1, <3>2, ConcatPlaces
    <3> HIDE DEF raw, n
    <3> QED
      BY <1>1, <3>2, <3>3
  <2> QED
    BY <2>1, <2>2, <2>3, <2>4
<1> HIDE DEF raw
<1>3. Reverse(path) = back /\ Reverse(raw) = long
  BY <1>2 DEF Reverse
<1>4. \A i \in 1 .. n : long[i] = back[i]
  <2> SUFFICES ASSUME NEW i \in 1 .. n PROVE raw[((n + 2) - i) + 1] = path[(n - i) + 1]
    BY <1>2
  <2>1. (n - i) + 1 \in 1 .. n /\ ((n - i) + 1) + 2 = ((n + 2) - i) + 1
    BY <1>2
  <2> QED
    BY <1>2, <2>1
<1>5. back \in Seq(E) /\ Len(back) = n
  <2>1. \A i \in 1 .. n : (n - i) + 1 \in DOMAIN path
    BY <1>2
  <2>2. back \in [1 .. n -> E]
    BY <1>1, <2>1
  <2> HIDE DEF back, n
  <2> QED
    BY <1>2, <2>2, FunctionSequence
<1>6. long \in Seq(E) /\ Len(long) = n + 2
  <2>1. \A i \in 1 .. n + 2 : ((n + 2) - i) + 1 \in DOMAIN raw
    BY <1>2
  <2>2. long \in [1 .. n + 2 -> E] /\ n + 2 \in Nat
    BY <1>2, <2>1
  <2> HIDE DEF long
  <2> QED
    BY <2>2, FunctionSequence
<1> HIDE DEF back, long, n
<1>7. SubSeq(back, 1, n) = SubSeq(long, 1, n)
  BY <1>2, <1>4, <1>5, <1>6
<1>8. IsPrefix(back, long)
  BY <1>2, <1>5, <1>6, <1>7 DEF IsPrefix
<1> QED
  BY <1>3, <1>8 DEF IsSuffix, Extracted, raw, front

\* A file is named by its own path, or by none if several end so.
LEMMA NamedByPath ==
  ASSUME NEW a \in Readable, NEW p \in Projects, NEW i \in DOMAIN ContentsOf[a].files
  PROVE  Named(p, ContentsOf[a], ContentsOf[a].files[i]) \in {ContentsOf[a].files[i].path, NoPath}
<1> DEFINE files == ContentsOf[a].files
           path == files[i].path
           raw == Extracted(p, path)
           paths == {files[k].path : k \in DOMAIN files}
           S == PathMatches(raw, files)
<1>1. IsSequence(files) /\ paths = Listed(ContentsOf[a]) /\ path \in paths
  BY ListedFiles DEF Listed
<1>2. IsSequence(path) /\ raw \notin paths
  BY <1>1, ListedFiles
<1>3. IsSuffix(path, raw)
  BY <1>2, SuffixOfExtracted
<1>4. IsFiniteSet(paths)
  <2> DEFINE f == [k \in DOMAIN files |-> files[k].path]
  <2>1. IsFiniteSet(DOMAIN files)
    <3>1. PICK n \in Nat : DOMAIN files = 1 .. n
      BY <1>1, LengthOf
    <3>2. 1 \in Int /\ n \in Int
      OBVIOUS
    <3> QED
      BY <3>1, <3>2, FS_Interval
  <2>2. f = [k \in DOMAIN files |-> f[k]]
    OBVIOUS
  <2>3. paths = {f[k] : k \in DOMAIN files}
    OBVIOUS
  <2> HIDE DEF f, paths
  <2>4. IsFiniteSet({f[k] : k \in DOMAIN files})
    BY <2>1, <2>2, FiniteImage
  <2> QED
    BY <2>3, <2>4
<1>5. S = {x \in paths : x # raw /\ IsSuffix(x, raw)}
  BY <1>2 DEF PathMatches
<1>6. path \in S /\ IsFiniteSet(S)
  <2>1. path # raw
    BY <1>1, <1>2
  <2>2. S \subseteq paths
    BY <1>5
  <2> HIDE DEF S, paths
  <2>3. IsFiniteSet(S)
    BY <1>4, <2>2, FS_Subset
  <2> QED
    BY <1>1, <1>3, <1>5, <2>1, <2>3
<1>7. Named(p, ContentsOf[a], files[i]) = IF Cardinality(S) = 1 THEN CHOOSE x \in S : TRUE ELSE NoPath
  BY DEF Named, PublicPath
<1> HIDE DEF S, path
<1>8. Cardinality(S) = 1 => (CHOOSE x \in S : TRUE) = path
  <2>1. Cardinality(S) = 1 => \E x : S = {x}
    BY <1>6, FS_Singleton
  <2> QED
    BY <1>6, <2>1
<1> QED
  BY <1>7, <1>8 DEF path

\* Files with a public name carry the path the archive lists.
LEMMA PublishedFiles ==
  ASSUME NEW a \in Readable, NEW p \in Projects, NEW type
  PROVE  /\ IsSequence(Published(p, ContentsOf[a], type))
         /\ \A n \in DOMAIN Published(p, ContentsOf[a], type) :
              LET file == Published(p, ContentsOf[a], type)[n]
              IN  /\ file.path \in PathsOf(ContentsOf[a], type)
                  /\ Named(p, ContentsOf[a], file) = file.path
<1> DEFINE files == ContentsOf[a].files
           places == {i \in DOMAIN files :
                        /\ files[i].type = type
                        /\ PublicPath(Extracted(p, files[i].path), files) # NoPath}
           published == Picked(files, places)
<1>1. IsSequence(files)
  BY ListedFiles
<1>2. published = Published(p, ContentsOf[a], type)
  BY DEF Published
<1>3. IsSequence(published) /\ ToSet(published) = {files[i] : i \in DOMAIN files \cap places}
  <2> HIDE DEF files, places
  <2> QED
    BY <1>1, PickedSequence
<1>4. ASSUME NEW n \in DOMAIN published
      PROVE  /\ published[n].path \in PathsOf(ContentsOf[a], type)
             /\ Named(p, ContentsOf[a], published[n]) = published[n].path
  <2>1. published[n] \in ToSet(published)
    BY DEF ToSet
  <2>2. PICK i \in places : published[n] = files[i]
    <3> HIDE DEF published, places
    <3> QED
      BY <1>3, <2>1
  <2>3. i \in DOMAIN files /\ files[i].type = type /\ Named(p, ContentsOf[a], files[i]) # NoPath
    BY DEF Named
  <2>4. Named(p, ContentsOf[a], files[i]) = files[i].path
    BY <2>3, NamedByPath
  <2>5. files[i].path \in PathsOf(ContentsOf[a], type)
    BY <2>3 DEF PathsOf
  <2> QED
    BY <2>2, <2>4, <2>5
<1> HIDE DEF published
<1> QED
  BY <1>2, <1>3, <1>4

----------------------------------------------------------------------------
(* What is indexed of a project: chunks of whole files and subsystems, of   *)
(* blocks, of functions, and of sections of C files and headers.            *)

PlainChunk(contents, c) ==
  c.kind \in {"m_file", "slx_subsystem"} /\ c.lines = <<>> /\ c.file \in Listed(contents)

BlockChunk(contents, c) ==
  /\ c.kind = "slx_block" /\ c.lines = <<>> /\ c.file \in PathsOf(contents, ".slx")
  /\ \E b \in BlocksOf(contents.models[c.file]) : c.id[3] = b.id /\ c.block = Placed(b)

FunctionChunk(path, f) == Chunk("m_function", path, f.name, <<f.from, f.to>>, NoBlock)
SectionChunk(kind, path, sections, i) ==
  Chunk(kind, path, ToString(i), <<sections[i].from, sections[i].to>>, NoBlock)

OfFunction(contents, c) ==
  \E path \in PathsOf(contents, ".m") :
    \E f \in ToSet(contents.code[path].functions) : c = FunctionChunk(path, f)

OfSource(contents, c) ==
  \E path \in PathsOf(contents, ".c") :
    \E i \in DOMAIN SplitC(contents.sources[path]) :
      c = SectionChunk("c_file", path, SplitC(contents.sources[path]), i)

HeaderSections(lines) == SplitH(lines, Len(lines) <= ShortHeader)

OfHeader(contents, c) ==
  \E path \in PathsOf(contents, ".h") :
    \E i \in DOMAIN HeaderSections(contents.sources[path]) :
      c = SectionChunk("h_file", path, HeaderSections(contents.sources[path]), i)

\* What is parsed of an archive are the files it lists.
LEMMA Parsed ==
  ASSUME NEW a \in Readable
  PROVE  LET contents == ContentsOf[a]
         IN  /\ DOMAIN contents.code = PathsOf(contents, ".m")
             /\ DOMAIN contents.models = PathsOf(contents, ".slx")
             /\ DOMAIN contents.sources = PathsOf(contents, ".c") \cup PathsOf(contents, ".h")
             /\ \A path \in DOMAIN contents.code :
                  /\ IsSequence(contents.code[path].lines)
                  /\ contents.code[path].functions = FunctionsOf(contents.code[path].lines)
                  /\ IsSequence(contents.code[path].functions)
             /\ \A path \in DOMAIN contents.models :
                  /\ IsSequence(contents.models[path].blocks)
                  /\ IsFiniteSet(DOMAIN contents.models[path].subsystems)
             /\ \A path \in DOMAIN contents.sources : IsSequence(contents.sources[path])
<1> DEFINE contents == ContentsOf[a]
           given == Archives[a]
<1>1. /\ DOMAIN given.code = PathsOf(contents, ".m")
      /\ DOMAIN given.models = PathsOf(contents, ".slx")
      /\ DOMAIN given.sources = PathsOf(contents, ".c") \cup PathsOf(contents, ".h")
      /\ \A path \in DOMAIN given.code :
           IsSequence(given.code[path].lines) /\ IsSequence(given.code[path].parts)
      /\ \A path \in DOMAIN given.models : IsSimulinkFile(given.models[path])
      /\ \A path \in DOMAIN given.sources : IsSequence(given.sources[path])
  BY FilesAssumption
<1>2. /\ contents.code = [path \in DOMAIN given.code |-> ParsedCode(given.code[path])]
      /\ contents.models = [path \in DOMAIN given.models |-> Model(given.models[path])]
      /\ contents.sources = given.sources
  BY DEF ContentsOf
<1> HIDE DEF contents, given
<1>3. ASSUME NEW path \in DOMAIN given.code
      PROVE  /\ contents.code[path].lines = given.code[path].lines
             /\ contents.code[path].functions = FunctionsOf(given.code[path].lines)
  BY <1>2 DEF ParsedCode
<1>4. \A path \in DOMAIN given.code : IsSequence(FunctionsOf(given.code[path].lines))
  BY <1>1, FunctionsInOrder
<1>5. \A path \in DOMAIN given.models :
        /\ IsSequence(Model(given.models[path]).blocks)
        /\ IsFiniteSet(DOMAIN Model(given.models[path]).subsystems)
  BY <1>1, ModelFinite
<1>6. /\ DOMAIN contents.code = DOMAIN given.code
      /\ DOMAIN contents.models = DOMAIN given.models
  BY <1>2
<1>7. \A path \in DOMAIN given.models : contents.models[path] = Model(given.models[path])
  BY <1>2
<1>8. \A path \in DOMAIN contents.code :
        /\ IsSequence(contents.code[path].lines)
        /\ contents.code[path].functions = FunctionsOf(contents.code[path].lines)
        /\ IsSequence(contents.code[path].functions)
  BY <1>1, <1>3, <1>4, <1>6
<1>9. \A path \in DOMAIN contents.models :
        /\ IsSequence(contents.models[path].blocks)
        /\ IsFiniteSet(DOMAIN contents.models[path].subsystems)
  BY <1>5, <1>6, <1>7
<1> QED
  BY <1>1, <1>2, <1>6, <1>8, <1>9 DEF contents

(* A script is cut into a list of sections. *)
LEMMA ScriptInSequence ==
  ASSUME NEW parts, IsSequence(parts), \A i \in DOMAIN parts : parts[i].blocks \in Nat
  PROVE  IsSequence(SplitScript(parts, MaxSections))
<1> DEFINE open == {i \in DOMAIN parts : ~parts[i].blank}
           kept == Picked(parts, open)
           cut == [i \in DOMAIN kept |-> SplitBlockParams(kept[i])]
           titles == FlattenSeq(cut)
<1>1. IsSequence(kept) /\ ToSet(kept) = {parts[i] : i \in DOMAIN parts \cap open}
  <2> HIDE DEF open
  <2> QED
    BY PickedSequence
<1>2. \A i \in DOMAIN kept : kept[i].blocks \in Nat
  <2>1. \A i \in DOMAIN kept : kept[i] \in ToSet(kept)
    BY DEF ToSet
  <2> HIDE DEF kept
  <2> QED
    BY <1>1, <2>1
<1> HIDE DEF kept
<1>3. ASSUME NEW i \in DOMAIN kept PROVE IsSequence(SplitBlockParams(kept[i]))
  <2> DEFINE part == kept[i]
             many == [k \in 1 .. part.blocks |->
                        IF part.title.number = 0 THEN part.title
                        ELSE [part.title EXCEPT !.params = FALSE]]
  <2>1. SplitBlockParams(part) \in {<<part.title>>, many}
    BY DEF SplitBlockParams
  <2>2. part.blocks \in Nat
    BY <1>2
  <2>3. many = [k \in 1 .. part.blocks |-> many[k]]
    OBVIOUS
  <2> HIDE DEF many, part
  <2>4. IsSequence(many)
    BY <2>2, <2>3, BuiltSequence
  <2> QED
    BY <2>1, <2>4, ShortSequences DEF part
<1>4. IsSequence(titles)
  <2>1. cut = [i \in DOMAIN kept |-> cut[i]] /\ \A i \in DOMAIN kept : IsSequence(cut[i])
    BY <1>3
  <2> HIDE DEF cut
  <2> QED
    BY <1>1, <2>1, FlattenOver
<1>5. SplitScript(parts, MaxSections) =
        IF Len(titles) <= MaxSections THEN titles
        ELSE SubSeq(titles, 1, MaxSections - 1) \o <<Merged>>
  BY DEF SplitScript, kept
<1> HIDE DEF titles
<1>6. CASE Len(titles) <= MaxSections
  BY <1>4, <1>5, <1>6
<1>7. CASE ~(Len(titles) <= MaxSections)
  <2> DEFINE front == SubSeq(titles, 1, MaxSections - 1)
  <2>1. PICK E : titles \in Seq(E)
    BY <1>4 DEF IsSequence
  <2>2. Len(titles) \in Nat /\ MaxSections - 1 \in 0 .. Len(titles)
    BY <1>7, <2>1, SectionsAssumption
  <2>3. front \in Seq(E)
    BY <2>1, <2>2
  <2>4. IsSequence(front)
    BY <2>3, AnySequence
  <2> HIDE DEF front
  <2>5. IsSequence(front \o <<Merged>>)
    BY <2>4, ShortSequences, ConcatSequence
  <2> QED
    BY <1>5, <1>7, <2>5 DEF front
<1> QED
  BY <1>6, <1>7

(* The lists one after another hold what is made of single files. *)
LEMMA FileDraftsArePlain ==
  ASSUME NEW a \in Readable, NEW p \in Projects
  PROVE  /\ IsSequence(FileDrafts(p, ContentsOf[a]))
         /\ \A c \in ToSet(FileDrafts(p, ContentsOf[a])) : PlainChunk(ContentsOf[a], c)
<1> DEFINE contents == ContentsOf[a]
           files == Published(p, contents, ".m")
           drafts == [n \in DOMAIN files |->
                        Chunk("m_file", Named(p, contents, files[n]), "", <<>>, NoBlock)]
<1>1. IsSequence(files) /\ \A n \in DOMAIN files : Named(p, contents, files[n]) \in Listed(contents)
  <2>1. PathsOf(contents, ".m") \subseteq Listed(contents)
    BY DEF PathsOf, Listed
  <2> HIDE DEF contents
  <2> QED
    BY <2>1, PublishedFiles DEF contents
<1>2. drafts = FileDrafts(p, contents)
  BY DEF FileDrafts
<1> HIDE DEF contents, files
<1>3. \A n \in DOMAIN files : PlainChunk(contents, drafts[n])
  BY <1>1 DEF PlainChunk, Chunk
<1>4. drafts = [n \in DOMAIN files |-> drafts[n]]
  OBVIOUS
<1> HIDE DEF drafts
<1>5. IsSequence(drafts) /\ ToSet(drafts) = {drafts[n] : n \in DOMAIN files}
  BY <1>1, <1>4, OverSequence
<1> QED
  BY <1>2, <1>3, <1>5 DEF contents

LEMMA FunctionDraftsAre ==
  ASSUME NEW a \in Readable, NEW p \in Projects
  PROVE  /\ IsSequence(FunctionDrafts(p, ContentsOf[a]))
         /\ \A c \in ToSet(FunctionDrafts(p, ContentsOf[a])) : OfFunction(ContentsOf[a], c)
<1> DEFINE contents == ContentsOf[a]
           files == Published(p, contents, ".m")
           lists == [n \in DOMAIN files |->
                       FunctionChunks(Named(p, contents, files[n]), contents.code[files[n].path])]
<1>1. /\ IsSequence(files)
      /\ \A n \in DOMAIN files : files[n].path \in PathsOf(contents, ".m")
                                 /\ Named(p, contents, files[n]) = files[n].path
  BY PublishedFiles
<1>2. FunctionDrafts(p, contents) = FlattenSeq(lists)
  BY DEF FunctionDrafts
<1>3. \A path \in PathsOf(contents, ".m") : IsSequence(contents.code[path].functions)
  BY Parsed
<1> HIDE DEF contents, files
<1>4. ASSUME NEW n \in DOMAIN files
      PROVE  IsSequence(lists[n]) /\ \A c \in ToSet(lists[n]) : OfFunction(contents, c)
  <2> DEFINE path == files[n].path
             functions == contents.code[path].functions
             list == [i \in DOMAIN functions |-> FunctionChunk(path, functions[i])]
  <2>1. lists[n] = list
    BY <1>1 DEF FunctionChunks, FunctionChunk
  <2>2. IsSequence(functions) /\ path \in PathsOf(contents, ".m")
    BY <1>1, <1>3
  <2>3. \A i \in DOMAIN functions : OfFunction(contents, list[i])
    BY <2>2 DEF OfFunction, ToSet
  <2>4. list = [i \in DOMAIN functions |-> list[i]]
    OBVIOUS
  <2> HIDE DEF list, functions, lists
  <2>5. IsSequence(list) /\ ToSet(list) = {list[i] : i \in DOMAIN functions}
    BY <2>2, <2>4, OverSequence
  <2> QED
    BY <2>1, <2>3, <2>5
<1>5. lists = [n \in DOMAIN files |-> lists[n]]
  OBVIOUS
<1> HIDE DEF lists
<1>6. IsSequence(FlattenSeq(lists)) /\ ToSet(FlattenSeq(lists)) = UNION {ToSet(lists[n]) : n \in DOMAIN files}
  BY <1>1, <1>4, <1>5, FlattenOver
<1> QED
  BY <1>2, <1>4, <1>6 DEF contents

LEMMA SectionDraftsArePlain ==
  ASSUME NEW a \in Readable, NEW p \in Projects
  PROVE  /\ IsSequence(SectionDrafts(p, ContentsOf[a], MaxSections))
         /\ \A c \in ToSet(SectionDrafts(p, ContentsOf[a], MaxSections)) : PlainChunk(ContentsOf[a], c)
<1> DEFINE contents == ContentsOf[a]
           files == Published(p, contents, ".m")
           lists == [n \in DOMAIN files |->
                       SectionChunks(Named(p, contents, files[n]), contents.code[files[n].path],
                                     MaxSections)]
<1>1. /\ IsSequence(files)
      /\ \A n \in DOMAIN files : files[n].path \in PathsOf(contents, ".m")
                                 /\ Named(p, contents, files[n]) = files[n].path
  BY PublishedFiles
<1>2. SectionDrafts(p, contents, MaxSections) = FlattenSeq(lists)
  BY DEF SectionDrafts
<1>3. \A path \in PathsOf(contents, ".m") :
        IsSequence(SplitScript(contents.code[path].parts, MaxSections))
  <2> DEFINE given == Archives[a]
  <2>1. /\ DOMAIN given.code = PathsOf(contents, ".m")
        /\ \A path \in DOMAIN given.code :
             /\ IsSequence(given.code[path].parts)
             /\ \A i \in DOMAIN given.code[path].parts : given.code[path].parts[i].blocks \in Nat
    BY FilesAssumption
  <2>2. \A path \in DOMAIN given.code : contents.code[path].parts = given.code[path].parts
    BY DEF ContentsOf, ParsedCode
  <2> HIDE DEF contents, given
  <2> QED
    BY <2>1, <2>2, ScriptInSequence
<1>4. PathsOf(contents, ".m") \subseteq Listed(contents)
  BY DEF PathsOf, Listed
<1> HIDE DEF contents, files
<1>5. ASSUME NEW n \in DOMAIN files
      PROVE  IsSequence(lists[n]) /\ \A c \in ToSet(lists[n]) : PlainChunk(contents, c)
  <2> DEFINE path == files[n].path
             titles == SplitScript(contents.code[path].parts, MaxSections)
             numbers == [i \in DOMAIN titles |-> i]
             shown == {i \in DOMAIN titles : ~IsBlockParameters(titles[i])}
             kept == Picked(numbers, shown)
             list == [i \in DOMAIN kept |-> Chunk("m_file", path, ToString(kept[i]), <<>>, NoBlock)]
  <2>1. lists[n] \in {<<>>, list}
    BY <1>1 DEF SectionChunks
  <2>2. IsSequence(titles) /\ path \in Listed(contents)
    BY <1>1, <1>3, <1>4, SMTT(30)
  <2>3. \A i \in DOMAIN kept : PlainChunk(contents, list[i])
    BY <2>2 DEF PlainChunk, Chunk
  <2>4. list = [i \in DOMAIN kept |-> list[i]]
    OBVIOUS
  <2> HIDE DEF list
  <2>5. numbers = [i \in DOMAIN titles |-> numbers[i]]
    OBVIOUS
  <2> HIDE DEF titles, numbers, shown, lists
  <2>6. IsSequence(numbers)
    BY <2>2, <2>5, OverSequence
  <2>7. IsSequence(kept)
    BY <2>6, PickedSequence
  <2> HIDE DEF kept
  <2>8. IsSequence(list) /\ ToSet(list) = {list[i] : i \in DOMAIN kept}
    BY <2>4, <2>7, OverSequence
  <2> QED
    BY <2>1, <2>3, <2>8, ShortSequences, SMTT(30)
<1>6. lists = [n \in DOMAIN files |-> lists[n]]
  OBVIOUS
<1> HIDE DEF lists
<1>7. IsSequence(FlattenSeq(lists)) /\ ToSet(FlattenSeq(lists)) = UNION {ToSet(lists[n]) : n \in DOMAIN files}
  BY <1>1, <1>5, <1>6, FlattenOver
<1> QED
  BY <1>2, <1>5, <1>7 DEF contents

LEMMA BlockDraftsAre ==
  ASSUME NEW a \in Readable, NEW p \in Projects
  PROVE  /\ IsSequence(BlockDrafts(p, ContentsOf[a]))
         /\ \A c \in ToSet(BlockDrafts(p, ContentsOf[a])) : BlockChunk(ContentsOf[a], c)
<1> DEFINE contents == ContentsOf[a]
           files == Published(p, contents, ".slx")
           lists == [n \in DOMAIN files |->
                       BlockChunks(Named(p, contents, files[n]), contents.models[files[n].path])]
<1>1. /\ IsSequence(files)
      /\ \A n \in DOMAIN files : files[n].path \in PathsOf(contents, ".slx")
                                 /\ Named(p, contents, files[n]) = files[n].path
  BY PublishedFiles
<1>2. BlockDrafts(p, contents) = FlattenSeq(lists)
  BY DEF BlockDrafts
<1>3. \A path \in PathsOf(contents, ".slx") : IsSequence(contents.models[path].blocks)
  BY Parsed
<1> HIDE DEF contents, files
<1>4. ASSUME NEW n \in DOMAIN files
      PROVE  IsSequence(lists[n]) /\ \A c \in ToSet(lists[n]) : BlockChunk(contents, c)
  <2> DEFINE path == files[n].path
             all == contents.models[path].blocks
             kinds == {i \in DOMAIN all : all[i].type \notin DropBlockTypes /\ Meaningful(all[i]) # {}}
             told == Picked(all, kinds)
             firsts == {i \in DOMAIN told : ~IsCopy(told, i)}
             kept == Picked(told, firsts)
             list == [i \in DOMAIN kept |->
                        Chunk("slx_block", path, kept[i].id, <<>>,
                              [name |-> kept[i].name, type |-> kept[i].type, parent |-> kept[i].parent])]
  <2>1. lists[n] = list
    BY <1>1, Zenon DEF BlockChunks
  <2>2. path \in PathsOf(contents, ".slx") /\ IsSequence(all)
    BY <1>1, <1>3
  <2>3. list = [i \in DOMAIN kept |-> list[i]]
    BY Zenon
  <2>4. \A i \in DOMAIN kept :
          list[i] = Chunk("slx_block", path, kept[i].id, <<>>, Placed(kept[i]))
    BY Zenon DEF Placed
  <2> HIDE DEF list, kinds, firsts, lists
  <2>5. IsSequence(told) /\ ToSet(told) = {all[i] : i \in DOMAIN all \cap kinds}
    <3> HIDE DEF all
    <3> QED
      BY <2>2, PickedSequence
  <2> HIDE DEF told
  <2>6. IsSequence(kept) /\ ToSet(kept) = {told[i] : i \in DOMAIN told \cap firsts}
    BY <2>5, PickedSequence
  <2> HIDE DEF kept
  <2>7. \A i \in DOMAIN kept : kept[i] \in BlocksOf(contents.models[path])
    <3>1. \A i \in DOMAIN kept : kept[i] \in ToSet(kept)
      BY DEF ToSet
    <3>2. \A i \in DOMAIN told : told[i] \in ToSet(told)
      BY DEF ToSet
    <3> QED
      BY <2>5, <2>6, <3>1, <3>2 DEF BlocksOf
  <2>8. \A i \in DOMAIN kept : BlockChunk(contents, list[i])
    <3> SUFFICES ASSUME NEW i \in DOMAIN kept PROVE BlockChunk(contents, list[i])
      OBVIOUS
    <3>0. list[i] = [id |-> <<"slx_block", path, kept[i].id>>, kind |-> "slx_block", file |-> path,
                     lines |-> <<>>, block |-> Placed(kept[i])]
      BY <2>4 DEF Chunk
    <3>1. /\ list[i].kind = "slx_block" /\ list[i].file = path /\ list[i].lines = <<>>
          /\ list[i].block = Placed(kept[i]) /\ list[i].id[3] = kept[i].id
      BY <3>0
    <3> HIDE DEF path
    <3> QED
      BY <2>2, <2>7, <3>1 DEF BlockChunk
  <2>9. IsSequence(list) /\ ToSet(list) = {list[i] : i \in DOMAIN kept}
    BY <2>3, <2>6, OverSequence
  <2> QED
    BY <2>1, <2>8, <2>9
<1>5. lists = [n \in DOMAIN files |-> lists[n]]
  OBVIOUS
<1> HIDE DEF lists
<1>6. IsSequence(FlattenSeq(lists)) /\ ToSet(FlattenSeq(lists)) = UNION {ToSet(lists[n]) : n \in DOMAIN files}
  BY <1>1, <1>4, <1>5, FlattenOver
<1> QED
  BY <1>2, <1>4, <1>6 DEF contents

LEMMA SubsystemDraftsArePlain ==
  ASSUME NEW a \in Readable, NEW p \in Projects
  PROVE  /\ IsSequence(SubsystemDrafts(p, ContentsOf[a]))
         /\ \A c \in ToSet(SubsystemDrafts(p, ContentsOf[a])) : PlainChunk(ContentsOf[a], c)
<1> DEFINE contents == ContentsOf[a]
           files == Published(p, contents, ".slx")
           lists == [n \in DOMAIN files |->
                       SubsystemChunks(Named(p, contents, files[n]), contents.models[files[n].path])]
<1>1. /\ IsSequence(files)
      /\ \A n \in DOMAIN files : files[n].path \in PathsOf(contents, ".slx")
                                 /\ Named(p, contents, files[n]) = files[n].path
  BY PublishedFiles
<1>2. SubsystemDrafts(p, contents) = FlattenSeq(lists)
  BY DEF SubsystemDrafts
<1>3. \A path \in PathsOf(contents, ".slx") : IsFiniteSet(DOMAIN contents.models[path].subsystems)
  BY Parsed
<1>a. PathsOf(contents, ".slx") \subseteq Listed(contents)
  BY DEF PathsOf, Listed
<1> HIDE DEF contents, files
<1>4. ASSUME NEW n \in DOMAIN files
      PROVE  IsSequence(lists[n]) /\ \A c \in ToSet(lists[n]) : PlainChunk(contents, c)
  <2> DEFINE path == files[n].path
             keys == DOMAIN contents.models[path].subsystems
             names == SetToSeq(keys)
             list == [i \in DOMAIN names |->
                        Chunk("slx_subsystem", path, names[i], <<>>,
                              [name |-> names[i], type |-> "Subsystem", parent |-> ""])]
  <2>1. lists[n] = list
    BY <1>1 DEF SubsystemChunks
  <2>2. path \in Listed(contents) /\ IsFiniteSet(keys)
    BY <1>1, <1>3, <1>a
  <2>3. list = [i \in DOMAIN names |-> list[i]]
    OBVIOUS
  <2>4. \A i \in DOMAIN names : PlainChunk(contents, list[i])
    BY <2>2 DEF PlainChunk, Chunk
  <2> HIDE DEF list, keys, lists
  <2>5. IsSequence(names)
    BY <2>2, NamesInSequence
  <2> HIDE DEF names
  <2>6. IsSequence(list) /\ ToSet(list) = {list[i] : i \in DOMAIN names}
    BY <2>3, <2>5, OverSequence
  <2> QED
    BY <2>1, <2>4, <2>6
<1>5. lists = [n \in DOMAIN files |-> lists[n]]
  OBVIOUS
<1> HIDE DEF lists
<1>6. IsSequence(FlattenSeq(lists)) /\ ToSet(FlattenSeq(lists)) = UNION {ToSet(lists[n]) : n \in DOMAIN files}
  BY <1>1, <1>4, <1>5, FlattenOver
<1> QED
  BY <1>2, <1>4, <1>6 DEF contents

(* Of sources every section is drafted, and nothing else. *)
SectionsOf(contents, type, kind, split, c) ==
  \E path \in PathsOf(contents, type) :
    \E i \in DOMAIN split[path] : c = SectionChunk(kind, path, split[path], i)

LEMMA SourceDraftsAre ==
  ASSUME NEW a \in Readable, NEW type, NEW kind, NEW split,
         \A path \in PathsOf(ContentsOf[a], type) : IsSequence(split[path])
  PROVE  /\ IsSequence(SourceDrafts(ContentsOf[a], type, kind, split))
         /\ \A c : c \in ToSet(SourceDrafts(ContentsOf[a], type, kind, split))
                     <=> SectionsOf(ContentsOf[a], type, kind, split, c)
<1> DEFINE contents == ContentsOf[a]
           all == contents.files
           places == {i \in DOMAIN all : all[i].type = type}
           files == Picked(all, places)
           lists == [n \in DOMAIN files |-> SourceChunks(kind, files[n].path, split[files[n].path])]
<1>1. SourceDrafts(contents, type, kind, split) = FlattenSeq(lists)
  BY DEF SourceDrafts
<1>2. IsSequence(files) /\ ToSet(files) = {all[i] : i \in DOMAIN all \cap places}
  <2>1. IsSequence(all)
    BY ListedFiles
  <2> HIDE DEF all, places
  <2> QED
    BY <2>1, PickedSequence
<1>3. PathsOf(contents, type) = {all[i].path : i \in places}
  BY DEF PathsOf
<1>a. \A path \in PathsOf(contents, type) : IsSequence(split[path])
  OBVIOUS
<1> HIDE DEF contents
<1>4. PathsOf(contents, type) = {files[n].path : n \in DOMAIN files}
  <2>1. ToSet(files) = {files[n] : n \in DOMAIN files}
    BY DEF ToSet
  <2>2. DOMAIN all \cap places = places
    OBVIOUS
  <2> HIDE DEF files, places, all
  <2>3. {files[n].path : n \in DOMAIN files} = {all[i].path : i \in places}
    <3>1. \A n \in DOMAIN files : \E i \in places : files[n] = all[i]
      BY <1>2, <2>1, <2>2
    <3>2. \A i \in places : \E n \in DOMAIN files : files[n] = all[i]
      BY <1>2, <2>1, <2>2
    <3> QED
      BY <3>1, <3>2
  <2> QED
    BY <1>3, <2>3
<1> HIDE DEF files
<1>5. ASSUME NEW n \in DOMAIN files
      PROVE  /\ IsSequence(lists[n])
             /\ ToSet(lists[n]) = {SectionChunk(kind, files[n].path, split[files[n].path], i) :
                                     i \in DOMAIN split[files[n].path]}
  <2> DEFINE path == files[n].path
             sections == split[path]
             list == [i \in DOMAIN sections |-> SectionChunk(kind, path, sections, i)]
  <2>1. lists[n] = list
    BY DEF SourceChunks, SectionChunk
  <2>2. IsSequence(sections)
    BY <1>4, <1>a
  <2>3. list = [i \in DOMAIN sections |-> list[i]]
    OBVIOUS
  <2>4. {list[i] : i \in DOMAIN sections} = {SectionChunk(kind, path, sections, i) : i \in DOMAIN sections}
    OBVIOUS
  <2> HIDE DEF list, sections, lists
  <2>5. IsSequence(list) /\ ToSet(list) = {list[i] : i \in DOMAIN sections}
    BY <2>2, <2>3, OverSequence
  <2> QED
    BY <2>1, <2>4, <2>5 DEF sections
<1>6. lists = [n \in DOMAIN files |-> lists[n]]
  OBVIOUS
<1> HIDE DEF lists
<1>7. IsSequence(FlattenSeq(lists)) /\ ToSet(FlattenSeq(lists)) = UNION {ToSet(lists[n]) : n \in DOMAIN files}
  BY <1>2, <1>5, <1>6, FlattenOver
<1>8. ASSUME NEW c
      PROVE  c \in ToSet(FlattenSeq(lists)) <=> SectionsOf(contents, type, kind, split, c)
  <2>1. c \in ToSet(FlattenSeq(lists)) <=>
          \E n \in DOMAIN files : \E i \in DOMAIN split[files[n].path] :
            c = SectionChunk(kind, files[n].path, split[files[n].path], i)
    BY <1>5, <1>7
  <2> QED
    BY <1>4, <2>1 DEF SectionsOf
<1> QED
  BY <1>1, <1>7, <1>8 DEF contents

(* A set of chunks that holds of C files all sections or none. *)
OfContents(contents, c) ==
  \/ PlainChunk(contents, c) \/ BlockChunk(contents, c)
  \/ OfFunction(contents, c) \/ OfSource(contents, c) \/ OfHeader(contents, c)

Whole(contents, C) ==
  \A c \in C : c.kind = "c_file" =>
    \A i \in DOMAIN SplitC(contents.sources[c.file]) :
      SectionChunk("c_file", c.file, SplitC(contents.sources[c.file]), i) \in C

LEMMA SourcesOfContents ==
  ASSUME NEW a \in Readable
  PROVE  LET contents == ContentsOf[a]
             inC == [path \in DOMAIN contents.sources |-> SplitC(contents.sources[path])]
             inH == [path \in DOMAIN contents.sources |->
                       SplitH(contents.sources[path], Len(contents.sources[path]) <= ShortHeader)]
             ofC == SourceDrafts(contents, ".c", "c_file", inC)
             ofH == SourceDrafts(contents, ".h", "h_file", inH)
         IN  /\ IsSequence(ofC) /\ \A c : c \in ToSet(ofC) <=> OfSource(contents, c)
             /\ IsSequence(ofH) /\ \A c : c \in ToSet(ofH) <=> OfHeader(contents, c)
<1> DEFINE contents == ContentsOf[a]
           inC == [path \in DOMAIN contents.sources |-> SplitC(contents.sources[path])]
           inH == [path \in DOMAIN contents.sources |->
                     SplitH(contents.sources[path], Len(contents.sources[path]) <= ShortHeader)]
<1>1. /\ DOMAIN contents.sources = PathsOf(contents, ".c") \cup PathsOf(contents, ".h")
      /\ \A path \in DOMAIN contents.sources : IsSequence(contents.sources[path])
  BY Parsed
<1>2. /\ \A path \in PathsOf(contents, ".c") : inC[path] = SplitC(contents.sources[path])
      /\ \A path \in PathsOf(contents, ".h") : inH[path] = HeaderSections(contents.sources[path])
  BY <1>1 DEF HeaderSections
<1>3. /\ \A path \in PathsOf(contents, ".c") : IsSequence(inC[path])
      /\ \A path \in PathsOf(contents, ".h") : IsSequence(inH[path])
  <2> HIDE DEF contents, inC, inH
  <2>1. \A path \in DOMAIN contents.sources : \A short :
          /\ InOrder(SplitC(contents.sources[path]), Max({1, Len(contents.sources[path])}))
          /\ InOrder(SplitH(contents.sources[path], short), Max({1, Len(contents.sources[path])}))
    BY <1>1, SplitsInOrder
  <2> QED
    BY <1>1, <1>2, <2>1 DEF InOrder, HeaderSections
<1> HIDE DEF inC, inH
<1>4. ASSUME NEW c
      PROVE  /\ SectionsOf(contents, ".c", "c_file", inC, c) <=> OfSource(contents, c)
             /\ SectionsOf(contents, ".h", "h_file", inH, c) <=> OfHeader(contents, c)
  <2> HIDE DEF contents
  <2>1. \A path \in PathsOf(contents, ".c") : \A i :
          SectionChunk("c_file", path, inC[path], i)
            = SectionChunk("c_file", path, SplitC(contents.sources[path]), i)
    BY <1>2
  <2>2. \A path \in PathsOf(contents, ".h") : \A i :
          SectionChunk("h_file", path, inH[path], i)
            = SectionChunk("h_file", path, HeaderSections(contents.sources[path]), i)
    BY <1>2
  <2> QED
    BY <1>2, <2>1, <2>2 DEF SectionsOf, OfSource, OfHeader
<1>5. /\ IsSequence(SourceDrafts(contents, ".c", "c_file", inC))
      /\ \A c : c \in ToSet(SourceDrafts(contents, ".c", "c_file", inC))
                  <=> SectionsOf(contents, ".c", "c_file", inC, c)
  BY <1>3, SourceDraftsAre
<1>6. /\ IsSequence(SourceDrafts(contents, ".h", "h_file", inH))
      /\ \A c : c \in ToSet(SourceDrafts(contents, ".h", "h_file", inH))
                  <=> SectionsOf(contents, ".h", "h_file", inH, c)
  BY <1>3, SourceDraftsAre
<1> HIDE DEF contents
<1> QED
  BY <1>4, <1>5, <1>6 DEF contents, inC, inH

\* The kind of a chunk tells where it comes from.
LEMMA KindsOfChunks ==
  ASSUME NEW contents, NEW c, OfContents(contents, c)
  PROVE  /\ c.kind = "c_file" <=> OfSource(contents, c)
         /\ c.kind = "h_file" <=> OfHeader(contents, c)
         /\ c.kind = "m_function" <=> OfFunction(contents, c)
         /\ c.kind = "slx_block" <=> BlockChunk(contents, c)
<1>1. OfSource(contents, c) => c.kind = "c_file"
  BY DEF OfSource, SectionChunk, Chunk
<1>2. OfHeader(contents, c) => c.kind = "h_file"
  BY DEF OfHeader, SectionChunk, Chunk
<1>3. OfFunction(contents, c) => c.kind = "m_function"
  BY DEF OfFunction, FunctionChunk, Chunk
<1>4. BlockChunk(contents, c) => c.kind = "slx_block"
  BY DEF BlockChunk
<1>5. PlainChunk(contents, c) => c.kind = "m_file" \/ c.kind = "slx_subsystem"
  BY DEF PlainChunk
<1> QED
  BY <1>1, <1>2, <1>3, <1>4, <1>5 DEF OfContents

LEMMA DraftsAre ==
  ASSUME NEW a \in Readable, NEW p \in Projects, NEW onDisk \in BOOLEAN
  PROVE  /\ \A c \in ToSet(DraftsOf[p][a][onDisk]) : OfContents(ContentsOf[a], c)
         /\ Whole(ContentsOf[a], ToSet(DraftsOf[p][a][onDisk]))
<1> DEFINE contents == ContentsOf[a]
           inC == [path \in DOMAIN contents.sources |-> SplitC(contents.sources[path])]
           inH == [path \in DOMAIN contents.sources |->
                     SplitH(contents.sources[path], Len(contents.sources[path]) <= ShortHeader)]
           ofC == SourceDrafts(contents, ".c", "c_file", inC)
           ofH == SourceDrafts(contents, ".h", "h_file", inH)
           d1 == FileDrafts(p, contents)
           d2 == FunctionDrafts(p, contents)
           d3 == SectionDrafts(p, contents, MaxSections)
           d4 == BlockDrafts(p, contents)
           d5 == SubsystemDrafts(p, contents)
           d6 == IF ~onDisk THEN <<>> ELSE ofC \o ofH
           drafts == d1 \o d2 \o d3 \o d4 \o d5 \o d6
<1>1. DraftsOf[p][a][onDisk] = drafts
  BY DEF DraftsOf, Drafts
<1>2. /\ IsSequence(ofC) /\ \A c : c \in ToSet(ofC) <=> OfSource(contents, c)
      /\ IsSequence(ofH) /\ \A c : c \in ToSet(ofH) <=> OfHeader(contents, c)
  BY SourcesOfContents
<1>3. /\ IsSequence(d1) /\ \A c \in ToSet(d1) : PlainChunk(contents, c)
      /\ IsSequence(d3) /\ \A c \in ToSet(d3) : PlainChunk(contents, c)
      /\ IsSequence(d5) /\ \A c \in ToSet(d5) : PlainChunk(contents, c)
  BY FileDraftsArePlain, SectionDraftsArePlain, SubsystemDraftsArePlain
<1>4. /\ IsSequence(d2) /\ \A c \in ToSet(d2) : OfFunction(contents, c)
      /\ IsSequence(d4) /\ \A c \in ToSet(d4) : BlockChunk(contents, c)
  BY FunctionDraftsAre, BlockDraftsAre
<1> HIDE DEF ofC, ofH, inC, inH, contents, d1, d2, d3, d4, d5
<1>5. /\ IsSequence(d6)
      /\ ToSet(d6) = IF ~onDisk THEN {} ELSE ToSet(ofC) \cup ToSet(ofH)
  <2>1. IsSequence(ofC \o ofH) /\ ToSet(ofC \o ofH) = ToSet(ofC) \cup ToSet(ofH)
    BY <1>2, ConcatSequence
  <2> QED
    BY <2>1, ShortSequences
<1> HIDE DEF d6
<1>6. ToSet(drafts) = ToSet(d1) \cup ToSet(d2) \cup ToSet(d3) \cup ToSet(d4) \cup ToSet(d5) \cup ToSet(d6)
  <2>1. IsSequence(d1 \o d2) /\ ToSet(d1 \o d2) = ToSet(d1) \cup ToSet(d2)
    BY <1>3, <1>4, ConcatSequence
  <2>2. IsSequence(d1 \o d2 \o d3) /\ ToSet(d1 \o d2 \o d3) = ToSet(d1 \o d2) \cup ToSet(d3)
    BY <1>3, <2>1, ConcatSequence
  <2>3. /\ IsSequence(d1 \o d2 \o d3 \o d4)
        /\ ToSet(d1 \o d2 \o d3 \o d4) = ToSet(d1 \o d2 \o d3) \cup ToSet(d4)
    BY <1>4, <2>2, ConcatSequence
  <2>4. /\ IsSequence(d1 \o d2 \o d3 \o d4 \o d5)
        /\ ToSet(d1 \o d2 \o d3 \o d4 \o d5) = ToSet(d1 \o d2 \o d3 \o d4) \cup ToSet(d5)
    BY <1>3, <2>3, ConcatSequence
  <2>5. ToSet(drafts) = ToSet(d1 \o d2 \o d3 \o d4 \o d5) \cup ToSet(d6)
    BY <1>5, <2>4, ConcatSequence
  <2> QED
    BY <2>1, <2>2, <2>3, <2>4, <2>5
<1> HIDE DEF drafts
<1>7. ASSUME NEW c \in ToSet(drafts) PROVE OfContents(contents, c)
  BY <1>2, <1>3, <1>4, <1>5, <1>6 DEF OfContents
<1>8. Whole(contents, ToSet(drafts))
  <2> SUFFICES ASSUME NEW c \in ToSet(drafts), c.kind = "c_file",
                      NEW i \in DOMAIN SplitC(contents.sources[c.file])
               PROVE  SectionChunk("c_file", c.file, SplitC(contents.sources[c.file]), i) \in ToSet(drafts)
    BY DEF Whole
  <2>1. OfSource(contents, c)
    BY <1>7, KindsOfChunks
  <2>2. c \in ToSet(d6)
    <3>1. \A e \in ToSet(d1) \cup ToSet(d3) \cup ToSet(d5) : e.kind # "c_file"
      BY <1>3 DEF PlainChunk
    <3>2. \A e \in ToSet(d2) : e.kind # "c_file"
      BY <1>4 DEF OfFunction, FunctionChunk, Chunk
    <3>3. \A e \in ToSet(d4) : e.kind # "c_file"
      BY <1>4 DEF BlockChunk
    <3> QED
      BY <1>6, <3>1, <3>2, <3>3
  <2>3. ToSet(ofC) \subseteq ToSet(drafts)
    BY <1>5, <1>6, <2>2
  <2>4. c.file \in PathsOf(contents, ".c")
    BY <2>1 DEF OfSource, SectionChunk, Chunk
  <2>5. OfSource(contents, SectionChunk("c_file", c.file, SplitC(contents.sources[c.file]), i))
    BY <2>4 DEF OfSource
  <2> QED
    BY <1>2, <2>3, <2>5
<1> QED
  BY <1>1, <1>7, <1>8 DEF contents

(* Chunks made so match the files. *)
LEMMA SourcesMatch ==
  ASSUME NEW a \in Readable, NEW c, NEW d,
         \/ OfSource(ContentsOf[a], c) /\ OfSource(ContentsOf[a], d)
         \/ OfHeader(ContentsOf[a], c) /\ OfHeader(ContentsOf[a], d)
  PROVE  LET length == Max({1, Len(ContentsOf[a].sources[c.file])})
         IN  /\ 1 <= c.lines[1] /\ c.lines[1] <= c.lines[2] /\ c.lines[2] <= length
             /\ c # d /\ c.file = d.file => Disjoint(c, d)
<1> DEFINE contents == ContentsOf[a]
           lines == contents.sources[c.file]
           length == Max({1, Len(lines)})
<1>1. /\ DOMAIN contents.sources = PathsOf(contents, ".c") \cup PathsOf(contents, ".h")
      /\ \A path \in DOMAIN contents.sources : IsSequence(contents.sources[path])
  BY Parsed
<1>2. PICK kind, path, sections, i :
        /\ c = SectionChunk(kind, path, sections, i) /\ i \in DOMAIN sections
        /\ path \in DOMAIN contents.sources
        /\ \/ kind = "c_file" /\ sections = SplitC(contents.sources[path])
           \/ kind = "h_file" /\ sections = HeaderSections(contents.sources[path])
  BY <1>1 DEF OfSource, OfHeader
<1>3. PICK other, there, parts, k :
        /\ d = SectionChunk(other, there, parts, k) /\ k \in DOMAIN parts
        /\ there \in DOMAIN contents.sources
        /\ \/ other = "c_file" /\ parts = SplitC(contents.sources[there])
           \/ other = "h_file" /\ parts = HeaderSections(contents.sources[there])
  BY <1>1 DEF OfSource, OfHeader
<1>4. /\ c.kind = kind /\ c.file = path
      /\ c.lines[1] = sections[i].from /\ c.lines[2] = sections[i].to
      /\ d.kind = other /\ d.file = there
      /\ d.lines[1] = parts[k].from /\ d.lines[2] = parts[k].to
  BY <1>2, <1>3 DEF SectionChunk, Chunk
<1>5. kind = other
  <2>1. OfSource(contents, c) /\ OfSource(contents, d)
          => c.kind = "c_file" /\ d.kind = "c_file"
    BY DEF OfSource, SectionChunk, Chunk
  <2>2. OfHeader(contents, c) /\ OfHeader(contents, d)
          => c.kind = "h_file" /\ d.kind = "h_file"
    BY DEF OfHeader, SectionChunk, Chunk
  <2> QED
    BY <1>4, <2>1, <2>2
<1>6. IsSequence(lines) /\ Len(lines) \in Nat
  BY <1>1, <1>2, <1>4, LengthOf
<1>7. InOrder(sections, length)
  <2> HIDE DEF contents
  <2>1. InOrder(SplitC(lines), length) /\ InOrder(HeaderSections(lines), length)
    BY <1>6, SplitsInOrder DEF HeaderSections
  <2> QED
    BY <1>2, <1>4, <2>1
<1>8. length \in Nat
  BY <1>6, LengthAtLeastOne
<1> HIDE DEF length, contents
<1>9. sections[i].from \in 1 .. length /\ sections[i].to \in sections[i].from .. length
  BY <1>2, <1>7 DEF InOrder
<1>10. 1 <= c.lines[1] /\ c.lines[1] <= c.lines[2] /\ c.lines[2] <= length
  BY <1>4, <1>8, <1>9
<1>11. ASSUME c # d, c.file = d.file PROVE Disjoint(c, d)
  <2>1. parts = sections /\ i # k
    BY <1>2, <1>3, <1>4, <1>5, <1>11
  <2>2. Clear(sections[i], sections[k])
    BY <1>2, <1>3, <1>7, <2>1 DEF InOrder
  <2> QED
    BY <1>4, <2>1, <2>2 DEF Clear, Disjoint
<1> QED
  BY <1>10, <1>11 DEF length, contents

LEMMA FunctionsMatch ==
  ASSUME NEW a \in Readable, NEW c, NEW d,
         OfFunction(ContentsOf[a], c), OfFunction(ContentsOf[a], d)
  PROVE  LET length == Len(ContentsOf[a].code[c.file].lines)
         IN  /\ 1 <= c.lines[1] /\ c.lines[1] <= c.lines[2] /\ c.lines[2] <= length
             /\ c # d /\ c.file = d.file => Disjoint(c, d)
<1> DEFINE contents == ContentsOf[a]
           lines == contents.code[c.file].lines
<1>1. /\ DOMAIN contents.code = PathsOf(contents, ".m")
      /\ \A path \in DOMAIN contents.code :
           /\ IsSequence(contents.code[path].lines)
           /\ contents.code[path].functions = FunctionsOf(contents.code[path].lines)
  BY Parsed
<1>2. PICK path, f : /\ path \in PathsOf(contents, ".m") /\ f \in ToSet(contents.code[path].functions)
                     /\ c = FunctionChunk(path, f)
  BY DEF OfFunction
<1>3. PICK there, g : /\ there \in PathsOf(contents, ".m") /\ g \in ToSet(contents.code[there].functions)
                      /\ d = FunctionChunk(there, g)
  BY DEF OfFunction
<1>4. /\ c.file = path /\ c.lines[1] = f.from /\ c.lines[2] = f.to
      /\ d.file = there /\ d.lines[1] = g.from /\ d.lines[2] = g.to
  BY <1>2, <1>3 DEF FunctionChunk, Chunk
<1>5. IsSequence(lines) /\ Len(lines) \in Nat /\ contents.code[path].functions = FunctionsOf(lines)
  BY <1>1, <1>2, <1>4, LengthOf
<1>6. /\ \A h \in ToSet(FunctionsOf(lines)) : h.from \in 1 .. Len(lines) /\ h.to \in h.from .. Len(lines)
      /\ \A h, e \in ToSet(FunctionsOf(lines)) : h # e => Clear(h, e)
  <2> HIDE DEF lines
  <2> QED
    BY <1>5, FunctionsInOrder
<1> HIDE DEF lines, contents
<1>7. f.from \in 1 .. Len(lines) /\ f.to \in f.from .. Len(lines)
  BY <1>2, <1>5, <1>6
<1>8. 1 <= c.lines[1] /\ c.lines[1] <= c.lines[2] /\ c.lines[2] <= Len(lines)
  BY <1>4, <1>5, <1>7
<1>9. ASSUME c # d, c.file = d.file PROVE Disjoint(c, d)
  <2>1. there = path /\ f # g
    BY <1>2, <1>3, <1>4, <1>9
  <2>2. Clear(f, g)
    BY <1>2, <1>3, <1>5, <1>6, <2>1
  <2> QED
    BY <1>4, <2>2 DEF Clear, Disjoint
<1> QED
  BY <1>8, <1>9 DEF lines, contents

\* A path has one type.
LEMMA OneType ==
  ASSUME NEW a \in Readable, NEW s, NEW t, NEW path,
         path \in PathsOf(ContentsOf[a], s), path \in PathsOf(ContentsOf[a], t)
  PROVE  s = t
<1> DEFINE files == ContentsOf[a].files
<1>1. PICK i \in DOMAIN files : files[i].path = path /\ files[i].type = s
  BY DEF PathsOf
<1>2. PICK k \in DOMAIN files : files[k].path = path /\ files[k].type = t
  BY DEF PathsOf
<1> QED
  BY <1>1, <1>2, ListedFiles

Matched(p, C) ==
  LET ranged == {c \in C : c.lines # <<>>}
  IN  /\ \A c \in C \ {OverviewChunk} :
           /\ \E i \in DOMAIN Contents(p).files : Contents(p).files[i].path = c.file
           /\ c.kind = "slx_block" =>
                \E b \in BlocksOf(Contents(p).models[c.file]) :
                  b.id = c.id[3] /\ b.name = c.block.name /\ b.parent = c.block.parent
      /\ \A c \in ranged :
           /\ WithinFile(p, c)
           /\ \A d \in ranged : c # d /\ c.file = d.file => Disjoint(c, d)
      /\ \A file \in {c.file : c \in {d \in ranged : d.kind = "c_file"}} :
           \A k \in DOMAIN Contents(p).sources[file] :
             OpensSection(Contents(p).sources[file][k]) =>
               \E c \in ranged : c.file = file /\ k \in c.lines[1]..c.lines[2]

\* So the chunks of a project match its files.
LEMMA ChunksMatch ==
  ASSUME NEW p, archive[p] \in Readable, NEW C,
         \A c \in C \ {OverviewChunk} : OfContents(Contents(p), c), Whole(Contents(p), C)
  PROVE  Matched(p, C)
<1> DEFINE a == archive[p]
           contents == ContentsOf[a]
           ranged == {c \in C : c.lines # <<>>}
<1>1. Contents(p) = contents
  BY DEF Contents
<1>2. OverviewChunk.kind = "project_overview" /\ OverviewChunk.lines = <<>>
  BY DEF OverviewChunk, Chunk
<1>3. \A c \in ranged : OfContents(contents, c)
  BY <1>1, <1>2
<1>a. \A c \in C \ {OverviewChunk} : OfContents(contents, c)
  BY <1>1
<1> HIDE DEF contents
<1>4. ASSUME NEW c, OfFunction(contents, c)
      PROVE  c.file \in PathsOf(contents, ".m") /\ c.kind = "m_function" /\ c.lines # <<>>
  BY <1>4 DEF OfFunction, FunctionChunk, Chunk
<1>5. ASSUME NEW c, OfSource(contents, c)
      PROVE  c.file \in PathsOf(contents, ".c") /\ c.kind = "c_file" /\ c.lines # <<>>
  BY <1>5 DEF OfSource, SectionChunk, Chunk
<1>6. ASSUME NEW c, OfHeader(contents, c)
      PROVE  c.file \in PathsOf(contents, ".h") /\ c.kind = "h_file" /\ c.lines # <<>>
  BY <1>6 DEF OfHeader, SectionChunk, Chunk
<1>7. \A c \in ranged : OfFunction(contents, c) \/ OfSource(contents, c) \/ OfHeader(contents, c)
  BY <1>3 DEF OfContents, PlainChunk, BlockChunk
<1>8. ASSUME NEW c \in C \ {OverviewChunk}
      PROVE  /\ \E i \in DOMAIN contents.files : contents.files[i].path = c.file
             /\ c.kind = "slx_block" =>
                  \E b \in BlocksOf(contents.models[c.file]) :
                    b.id = c.id[3] /\ b.name = c.block.name /\ b.parent = c.block.parent
  <2>1. OfContents(contents, c)
    BY <1>a
  <2>2. \A type : PathsOf(contents, type) \subseteq Listed(contents)
    BY DEF PathsOf, Listed
  <2>3. c.file \in Listed(contents)
    BY <1>4, <1>5, <1>6, <2>1, <2>2 DEF OfContents, PlainChunk, BlockChunk
  <2>4. c.kind = "slx_block" => BlockChunk(contents, c)
    BY <2>1, KindsOfChunks
  <2>5. \A b : Placed(b).name = b.name /\ Placed(b).parent = b.parent
    BY DEF Placed
  <2> QED
    BY <2>3, <2>4, <2>5 DEF Listed, BlockChunk
<1>9. ASSUME NEW c \in ranged
      PROVE  /\ WithinFile(p, c)
             /\ \A d \in ranged : c # d /\ c.file = d.file => Disjoint(c, d)
  <2>1. CASE OfFunction(contents, c)
    <3>1. c.kind = "m_function" /\ c.file \in PathsOf(contents, ".m")
      BY <1>4, <2>1
    <3>2. WithinFile(p, c)
      <4>1. /\ 1 <= c.lines[1] /\ c.lines[1] <= c.lines[2]
            /\ c.lines[2] <= Len(contents.code[c.file].lines)
        BY <2>1, FunctionsMatch DEF contents
      <4> QED
        BY <1>1, <3>1, <4>1 DEF WithinFile
    <3>3. ASSUME NEW d \in ranged, c # d, c.file = d.file PROVE Disjoint(c, d)
      <4>1. OfFunction(contents, d)
        <5>1. d.file \notin PathsOf(contents, ".c") /\ d.file \notin PathsOf(contents, ".h")
          BY <3>1, <3>3, OneType DEF contents
        <5> QED
          BY <1>5, <1>6, <1>7, <5>1
      <4> QED
        BY <2>1, <3>3, <4>1, FunctionsMatch DEF contents
    <3> QED
      BY <3>2, <3>3
  <2>2. CASE OfSource(contents, c)
    <3>1. c.kind = "c_file" /\ c.file \in PathsOf(contents, ".c")
      BY <1>5, <2>2
    <3>2. WithinFile(p, c)
      <4>1. /\ 1 <= c.lines[1] /\ c.lines[1] <= c.lines[2]
            /\ c.lines[2] <= Max({1, Len(contents.sources[c.file])})
        BY <2>2, SourcesMatch DEF contents
      <4> QED
        BY <1>1, <3>1, <4>1 DEF WithinFile
    <3>3. ASSUME NEW d \in ranged, c # d, c.file = d.file PROVE Disjoint(c, d)
      <4>1. OfSource(contents, d)
        <5>1. d.file \notin PathsOf(contents, ".m") /\ d.file \notin PathsOf(contents, ".h")
          BY <3>1, <3>3, OneType DEF contents
        <5> QED
          BY <1>4, <1>6, <1>7, <5>1
      <4> QED
        BY <2>2, <3>3, <4>1, SourcesMatch DEF contents
    <3> QED
      BY <3>2, <3>3
  <2>3. CASE OfHeader(contents, c)
    <3>1. c.kind = "h_file" /\ c.file \in PathsOf(contents, ".h")
      BY <1>6, <2>3
    <3>2. WithinFile(p, c)
      <4>1. /\ 1 <= c.lines[1] /\ c.lines[1] <= c.lines[2]
            /\ c.lines[2] <= Max({1, Len(contents.sources[c.file])})
        BY <2>3, SourcesMatch DEF contents
      <4> QED
        BY <1>1, <3>1, <4>1 DEF WithinFile
    <3>3. ASSUME NEW d \in ranged, c # d, c.file = d.file PROVE Disjoint(c, d)
      <4>1. OfHeader(contents, d)
        <5>1. d.file \notin PathsOf(contents, ".m") /\ d.file \notin PathsOf(contents, ".c")
          BY <3>1, <3>3, OneType DEF contents
        <5> QED
          BY <1>4, <1>5, <1>7, <5>1
      <4> QED
        BY <2>3, <3>3, <4>1, SourcesMatch DEF contents
    <3> QED
      BY <3>2, <3>3
  <2> QED
    BY <1>7, <2>1, <2>2, <2>3
<1>10. ASSUME NEW e \in ranged, e.kind = "c_file", NEW k \in DOMAIN contents.sources[e.file],
              OpensSection(contents.sources[e.file][k])
       PROVE  \E c \in ranged : c.file = e.file /\ k \in c.lines[1] .. c.lines[2]
  <2> DEFINE lines == contents.sources[e.file]
             sections == SplitC(lines)
  <2>1. OfSource(contents, e)
    BY <1>3, <1>10, KindsOfChunks
  <2>2. e.file \in PathsOf(contents, ".c")
    BY <1>5, <2>1
  <2>3. IsSequence(lines)
    BY <2>2, Parsed DEF contents
  <2>4. DOMAIN lines = 1 .. Len(lines)
    BY <2>3, LengthOf
  <2>5. CutsUp(sections, lines)
    <3> HIDE DEF lines
    <3> QED
      BY <2>3, SplitCutsUp
  <2>6. PICK i \in DOMAIN sections : k \in sections[i].from .. sections[i].to
    BY <1>10, <2>4, <2>5 DEF CutsUp
  <2> DEFINE c == SectionChunk("c_file", e.file, sections, i)
  <2>7. c \in C
    BY <1>1, <1>10 DEF Whole
  <2>8. c.file = e.file /\ c.lines # <<>> /\ c.lines[1] = sections[i].from /\ c.lines[2] = sections[i].to
    BY DEF SectionChunk, Chunk
  <2> HIDE DEF c, sections
  <2> QED
    BY <2>6, <2>7, <2>8
<1> HIDE DEF ranged
<1>11. \A file \in {c.file : c \in {d \in ranged : d.kind = "c_file"}} :
         \A k \in DOMAIN contents.sources[file] :
           OpensSection(contents.sources[file][k]) =>
             \E c \in ranged : c.file = file /\ k \in c.lines[1] .. c.lines[2]
  BY <1>10
<1> QED
  BY <1>1, <1>8, <1>9, <1>11 DEF Matched, ranged

----------------------------------------------------------------------------
(* The index of a project that is there. *)

\* The project could be parsed and is ready, or it has been deleted since.
Past(p) == rows[p].state = "ready" \/ RowGone(p)

PastReady ==
  /\ \A p \in Projects : tasks[p].pc \in {"draft", "add"} => Past(p)
  /\ \A r \in Readers : readers[r].pc \in {"generate", "index"} => Past(readers[r].project)

IndexInv ==
  /\ chunks = [p \in Projects |-> chunks[p]]
  /\ \A p \in Projects :
       /\ chunks[p] # {} => rows[p].state = "ready"
       /\ \A c \in chunks[p] \ {OverviewChunk} : OfContents(Contents(p), c)
       /\ Whole(Contents(p), chunks[p])

LEMMA IndexInit == Init => PastReady /\ IndexInv
<1> SUFFICES ASSUME Init PROVE PastReady /\ IndexInv
  OBVIOUS
<1>1. chunks = [p \in Projects |-> {}]
  BY DEF Init
<1>2. \A p \in Projects : tasks[p].pc \in {"none", "done"}
  BY DEF Init, NoTask, DoneTask
<1>3. \A r \in Readers : readers[r].pc \in {"new", "answered"}
  BY DEF Init, NewReader, ReaderDone
<1> QED
  BY <1>1, <1>2, <1>3 DEF PastReady, IndexInv, Whole

LEMMA IndexesMatch ==
  ASSUME IngestTyped, TaskInv, IndexInv
  PROVE  IndexMatchesTheFiles
<1> SUFFICES ASSUME NEW p \in Projects
             PROVE  (chunks[p] # {} => rows[p].state = "ready") /\ Matched(p, chunks[p])
  BY DEF IndexMatchesTheFiles, Matched
<1>1. CASE chunks[p] = {}
  BY <1>1 DEF Matched
<1>2. CASE chunks[p] # {}
  <2>1. rows[p].state = "ready" /\ archive[p] \in Readable
    BY <1>2 DEF IndexInv, TaskInv
  <2> QED
    BY <2>1, ChunksMatch DEF IndexInv
<1> QED
  BY <1>1, <1>2

\* Whatever happens, it is one of the two.
LEMMA PastStays ==
  ASSUME IngestTyped, TaskInv, [Next]_vars, NEW p \in Projects, Past(p)
  PROVE  Past(p)'
<1>1. rows[p].state = "ready" => tasks[p].pc # "none"
  BY DEF TaskInv, NoRow
<1>2. tasks[p].pc # "none"
  BY <1>1 DEF Past, RowGone
<1>3. CASE IngestStep
  <2>1. CASE \E q \in Projects : Deletes(q)
    BY <1>1, <1>2, <2>1 DEF Deletes, DeleteRow, Past, RowGone, IngestTyped
  <2>2. CASE Lives(p)
    BY <1>1, <1>2, <2>2 DEF Lives, Past, RowGone
  <2> QED
    BY <1>3, <2>1, <2>2, RowsMove
<1>4. CASE Apart
  BY <1>4 DEF Apart, Past, RowGone
<1>5. CASE Restart
  <2>1. rows' = rows /\ tasks'[p].pc # "none"
    BY <1>2, <1>5 DEF Restart, tables, NoTask, DoneTask
  <2> QED
    BY <2>1 DEF Past, RowGone
<1> QED
  BY <1>3, <1>4, <1>5, Kinds

\* A task drafts when its project has just become ready.
LEMMA DraftsBegin ==
  ASSUME IngestTyped, TaskInv, IngestStep, NEW q \in Projects, tasks'[q].pc \in {"draft", "add"}
  PROVE  tasks[q].pc \in {"draft", "add"} \/ rows'[q].state = "ready"
<1> DEFINE Claim == tasks[q].pc \in {"draft", "add"} \/ rows'[q].state = "ready"
<1>0. ASSUME NEW p \in Projects, NEW pc \in TaskSteps, Goto(p, pc), pc \notin {"draft", "add"} PROVE Claim
  BY <1>0 DEF Goto, IngestTyped, Tasks
<1>1. ASSUME NEW p \in Projects, NEW code, FailWith(p, code) PROVE Claim
  BY <1>1 DEF FailWith, IngestTyped, Tasks
<1>2. ASSUME tasks' = tasks PROVE Claim
  BY <1>2
<1>3. ASSUME NEW p \in Projects, Upload(p) \/ MakeDirectory(p) \/ Extract(p) \/ Parse(p) \/ GiveUpExtraction(p)
      PROVE  Claim
  BY <1>0, <1>1, <1>3 DEF Upload, MakeDirectory, Extract, Parse, GiveUpExtraction, TaskSteps
<1>4. ASSUME NEW p \in Projects, MarkReady(p) PROVE Claim
  <2>1. CASE MarkRow(p, "ready", Fine) /\ Goto(p, "draft")
    <3>1. CASE q = p
      BY <2>1, <3>1 DEF MarkRow, IngestTyped
    <3>2. CASE q # p
      BY <2>1, <3>2 DEF Goto, IngestTyped
    <3> QED
      BY <3>1, <3>2
  <2> QED
    BY <1>1, <1>4, <2>1 DEF MarkReady
<1>5. ASSUME NEW p \in Projects, MarkFailed(p) \/ RemoveDirectory(p) \/ Index(p) PROVE Claim
  BY <1>0, <1>5 DEF MarkFailed, RemoveDirectory, Index, TaskSteps
<1>6. ASSUME NEW p \in Projects, Draft(p) PROVE Claim
  BY <1>6 DEF Draft, IngestTyped, Tasks
<1>7. ASSUME NEW p \in Projects,
             WriteLate(p) \/ StopWriting(p) \/ SweepDirectory(p) \/ Age(p) \/ SweepRow(p)
      PROVE  Claim
  BY <1>2, <1>7 DEF WriteLate, StopWriting, SweepDirectory, Age, SweepRow
<1>8. ASSUME ListExpired PROVE Claim
  BY <1>2, <1>8 DEF ListExpired
<1> QED
  BY <1>3, <1>4, <1>5, <1>6, <1>7, <1>8 DEF IngestStep, WorkerStep, ProcessStep

LEMMA PastReadyNext ==
  ASSUME IngestTyped, TaskInv, OverviewInv, PastReady, [Next]_vars
  PROVE  PastReady'
<1>1. ASSUME NEW q \in Projects, tasks'[q].pc \in {"draft", "add"} PROVE Past(q)'
  <2>1. tasks[q].pc \in {"draft", "add"} \/ rows'[q].state = "ready"
    BY <1>1, DraftsBegin, Kinds DEF Apart, Restart, NoTask, DoneTask
  <2>2. CASE tasks[q].pc \in {"draft", "add"}
    BY <2>2, PastStays DEF PastReady
  <2> QED
    BY <2>1, <2>2 DEF Past
<1>2. ASSUME NEW r \in Readers, readers'[r].pc \in {"generate", "index"}
      PROVE  Past(readers[r].project)'
  <2>0. PICK p : p = readers[r].project
    OBVIOUS
  <2> DEFINE Continues == /\ readers'[r].project = p
                          /\ readers[r].pc # "answered"
                          /\ (readers[r].pc \in {"generate", "index"} \/ rows[p].state = "ready")
  <2>1. Continues
    <3>1. CASE UNCHANGED overviewVars
      BY <1>2, <2>0, <3>1 DEF overviewVars
    <3>2. ReaderDone.pc = "answered"
      BY DEF NewReader, ReaderDone
    <3>3. CASE ForgetReaders
      BY <1>2, <3>2, <3>3 DEF ForgetReaders
    <3>4. ASSUME NEW x \in Readers, Open(x) PROVE Continues
      BY <1>2, <2>0, <3>2, <3>4
      DEF Open, ReaderTo, AnswerReader, IsReady, OverviewInv, OverviewTyped, ReaderRecords
    <3>5. ASSUME NEW x \in Readers, Generate(x) PROVE Continues
      BY <1>2, <2>0, <3>2, <3>5
      DEF Generate, ReaderTo, AnswerReader, OverviewInv, OverviewTyped, ReaderRecords
    <3>6. ASSUME NEW x \in Readers, IndexOverview(x) \/ LoseIndexing(x) PROVE Continues
      BY <1>2, <2>0, <3>2, <3>6
      DEF IndexOverview, LoseIndexing, AnswerReader, OverviewInv, OverviewTyped, ReaderRecords
    <3> QED
      BY <3>1, <3>3, <3>4, <3>5, <3>6, Kinds DEF OverviewStep, ReaderStep
  <2>2. p \in Projects
    BY <2>0, <2>1 DEF OverviewInv, ReaderInv
  <2>3. Past(p)
    BY <2>0, <2>1 DEF Past, PastReady
  <2>4. Past(p)'
    BY <2>2, <2>3, PastStays
  <2> QED
    BY <2>1, <2>4 DEF Past, RowGone
<1> QED
  BY <1>1, <1>2 DEF PastReady

\* The chunks of one project change, or none do.
LEMMA IndexMoves ==
  ASSUME IngestTyped, TaskInv, IndexInv, [Next]_vars, NEW p \in Projects, NEW C,
         chunks' = [chunks EXCEPT ![p] = C], C # {} => rows'[p].state = "ready",
         \A c \in C \ {OverviewChunk} : OfContents(Contents(p), c), Whole(Contents(p), C),
         \A q \in Projects : rows[q].state = "ready" => q = p \/ rows'[q].state = "ready"
  PROVE  IndexInv'
<1>1. archive' = archive /\ \A q : Contents(q)' = Contents(q)
  BY Kinds DEF Contents
<1>2. \A q \in Projects : chunks'[q] = IF q = p THEN C ELSE chunks[q]
  BY DEF IndexInv
<1>3. chunks' = [q \in Projects |-> chunks'[q]]
  BY DEF IndexInv
<1>4. ASSUME NEW q \in Projects
      PROVE  /\ chunks'[q] # {} => rows'[q].state = "ready"
             /\ \A c \in chunks'[q] \ {OverviewChunk} : OfContents(Contents(q)', c)
             /\ Whole(Contents(q)', chunks'[q])
  BY <1>1, <1>2 DEF IndexInv
<1> QED
  BY <1>3, <1>4 DEF IndexInv

LEMMA IndexNext ==
  ASSUME IngestTyped, TaskInv, OverviewInv, PastReady, IndexInv, [Next]_vars
  PROVE  IndexInv'
<1>1. archive' = archive /\ \A q : Contents(q)' = Contents(q)
  BY Kinds DEF Contents

\* No chunk changes and no project ceases to be ready.
<1>2. ASSUME chunks' = chunks, \A q \in Projects : rows[q].state = "ready" => rows'[q].state = "ready"
      PROVE  IndexInv'
  <2>1. chunks' = [q \in Projects |-> chunks'[q]]
    BY <1>2 DEF IndexInv
  <2>2. ASSUME NEW q \in Projects
        PROVE  /\ chunks'[q] # {} => rows'[q].state = "ready"
               /\ \A c \in chunks'[q] \ {OverviewChunk} : OfContents(Contents(q)', c)
               /\ Whole(Contents(q)', chunks'[q])
    BY <1>1, <1>2 DEF IndexInv
  <2> QED
    BY <2>1, <2>2 DEF IndexInv
<1>3. ASSUME NEW p \in Projects, Deletes(p) PROVE IndexInv'
  <2>1. chunks' = [chunks EXCEPT ![p] = {}] /\ rows' = [rows EXCEPT ![p] = NoRow]
    BY <1>3 DEF Deletes, DeleteRow
  <2>2. Whole(Contents(p), {})
    BY DEF Whole
  <2>3. \A q \in Projects : rows[q].state = "ready" => q = p \/ rows'[q].state = "ready"
    BY <2>1 DEF IngestTyped
  <2> QED
    BY <2>1, <2>2, <2>3, IndexMoves
<1>4. ASSUME NEW p \in Projects, Indexes(p), \A q \in Projects : Lives(q) PROVE IndexInv'
  <2> DEFINE drafts == DraftsOf[p][archive[p]][tasks[p].onDisk]
             C == chunks[p] \cup ToSet(drafts)
  <2>1. /\ tasks[p].pc = "add" /\ rows[p] # NoRow
        /\ chunks' = [chunks EXCEPT ![p] = C]
    BY <1>4, SMTT(60) DEF Indexes, CanAddChunks, AddChunks
  <2>2. archive[p] \in Readable /\ rows[p].state = "ready" /\ tasks[p].onDisk \in BOOLEAN
    BY <2>1 DEF PastReady, Past, RowGone, TaskInv, IngestTyped, Tasks
  <2>3. (\A c \in ToSet(drafts) : OfContents(Contents(p), c)) /\ Whole(Contents(p), ToSet(drafts))
    BY <2>2, DraftsAre DEF Contents
  <2> HIDE DEF drafts
  <2>4. /\ \A c \in C \ {OverviewChunk} : OfContents(Contents(p), c)
        /\ Whole(Contents(p), C)
    BY <2>3 DEF IndexInv, Whole
  <2>5. /\ rows'[p].state = "ready"
        /\ \A q \in Projects : rows[q].state = "ready" => rows'[q].state = "ready"
    BY <1>4, <2>2 DEF Lives
  <2> HIDE DEF C
  <2> QED
    BY <2>1, <2>4, <2>5, IndexMoves
<1>5. CASE IngestStep
  <2>1. (\A q \in Projects : Lives(q)) =>
           \A q \in Projects : rows[q].state = "ready" => rows'[q].state = "ready"
    BY DEF Lives
  <2> QED
    BY <1>2, <1>3, <1>4, <1>5, <2>1, RowsMove
<1>6. ASSUME NEW r \in Readers, IndexOverview(r), Apart PROVE IndexInv'
  <2>0. PICK p : p = readers[r].project
    OBVIOUS
  <2>1. CASE CanAddChunks(p, <<OverviewChunk>>)
    <3> DEFINE C == chunks[p] \cup {OverviewChunk}
    <3>1. /\ p \in Projects /\ rows[p].state = "ready"
          /\ chunks' = [chunks EXCEPT ![p] = C] /\ rows' = rows
      BY <1>6, <2>0, <2>1
      DEF IndexOverview, CanAddChunks, PastReady, Past, RowGone, OverviewInv, ReaderInv, Apart
    <3>2. OverviewChunk.kind # "c_file"
      BY DEF OverviewChunk, Chunk
    <3>3. /\ \A c \in C \ {OverviewChunk} : OfContents(Contents(p), c)
          /\ Whole(Contents(p), C)
      BY <3>1, <3>2 DEF IndexInv, Whole
    <3> HIDE DEF C
    <3> QED
      BY <3>1, <3>3, IndexMoves
  <2>2. CASE ~CanAddChunks(p, <<OverviewChunk>>)
    BY <1>2, <1>6, <2>0, <2>2 DEF IndexOverview, Apart
  <2> QED
    BY <2>1, <2>2
<1>7. CASE Apart /\ chunks' = chunks
  BY <1>2, <1>7 DEF Apart
<1>8. CASE Restart
  BY <1>2, <1>8 DEF Restart, tables
<1>9. ASSUME OverviewStep, Apart PROVE IndexInv'
  BY <1>6, <1>7, <1>9 DEF OverviewStep, ReaderStep, Open, Generate, LoseIndexing
<1> QED
  BY <1>5, <1>7, <1>8, <1>9, Kinds DEF tables

(* Deletions, restarts and overviews that come late included, the index     *)
(* says of a project that is there what its files hold: no chunk names what *)
(* is not in them, no two cut into each other, and no construct of a source *)
(* that is indexed is left out.                                             *)
THEOREM IndexesMatchTheFiles == Spec => []IndexMatchesTheFiles
<1>1. Init => OverviewInv /\ PastReady /\ IndexInv
  BY OverviewInit, IndexInit
<1>2. ServiceInv /\ (OverviewInv /\ PastReady /\ IndexInv) /\ [Next]_vars
        => (OverviewInv /\ PastReady /\ IndexInv)'
  BY OverviewNext, PastReadyNext, IndexNext DEF ServiceInv
<1>3. ServiceInv /\ IndexInv => IndexMatchesTheFiles
  BY IndexesMatch DEF ServiceInv
<1> QED
  BY <1>1, <1>2, <1>3, ServiceInductive, PTL DEF Spec

----------------------------------------------------------------------------
(* The nodes of a project are its files and what belongs to them.           *)

(* What is inside grows until nothing that belongs there is left outside.   *)
Taken(belongs, inside) == inside \cup {e.from : e \in {k \in belongs : k.to \in inside}}
ClosedUnder(belongs, inside) == \A e \in belongs : e.to \in inside => e.from \in inside
InsideAll(nodes, belongs, files) ==
  LET up(inside, n) == inside \cup {e.from : e \in {k \in belongs : k.to \in inside}}
  IN  FoldLeft(up, files, [n \in 1 .. Cardinality(nodes) |-> n])

\* What has been taken in after as many rounds as there are nodes is all.
LEMMA TakenIn ==
  ASSUME NEW nodes, IsFiniteSet(nodes), NEW belongs, NEW files \in SUBSET nodes,
         \A e \in belongs : e.from \in nodes
  PROVE  /\ InsideAll(nodes, belongs, files) \in SUBSET nodes
         /\ files \subseteq InsideAll(nodes, belongs, files)
         /\ ClosedUnder(belongs, InsideAll(nodes, belongs, files))
<1> DEFINE N == Cardinality(nodes)
           A == SUBSET nodes
           c == [s \in SUBSET (1 .. N) |-> Max(s)]
           on == [inside \in A |-> Taken(belongs, inside)]
           h == [s \in SUBSET (1 .. N) |-> on]
           Z == {{}}
           up(inside, n) == inside \cup {e.from : e \in {k \in belongs : k.to \in inside}}
           all == FoldLeft(up, files, [n \in 1 .. N |-> n])
           iter == CHOOSE g : g = [s \in SUBSET (1 .. N) |->
                     IF s = {} THEN files ELSE Taken(belongs, g[s \ {Max(s)}])]
<1>1. N \in Nat
  BY FS_CardinalityType
<1> HIDE DEF N
<1>2. all = iter[1 .. N]
  BY DEF FoldLeft, MapThenFoldSet, Taken
<1> HIDE DEF all
<1>3. \A s \in SUBSET (1 .. N) : s \notin Z => s # {}
  OBVIOUS
<1>4. Shrinks(1 .. N, Z, c)
  <2>1. \A s \in SUBSET (1 .. N) : s # {} => Max(s) \in s
    BY <1>1, GreatestElement
  <2> QED
    BY <1>3, <2>1 DEF Shrinks
<1>5. \A inside \in A : Taken(belongs, inside) \in A /\ inside \subseteq Taken(belongs, inside)
  BY DEF Taken
<1>6. StepsDown(1 .. N, Z, h, A)
  <2>1. \A inside \in A : on[inside] \in A
    BY <1>5
  <2> HIDE DEF on, A
  <2> QED
    BY <2>1 DEF StepsDown
<1>7. IsFiniteSet(1 .. N) /\ files \in A
  <2>1. 1 \in Int /\ N \in Int
    BY <1>1
  <2> QED
    BY <2>1, FS_Interval
<1>8. PICK f \in [SUBSET (1 .. N) -> A] : Solved(f, 1 .. N, Z, files, c, h)
  <2> HIDE DEF A, Z, c, h
  <2>1. Solvable(1 .. N, A, Z, files, c, h)
    BY <1>4, <1>6, <1>7, SubsetRecursion
  <2> QED
    BY <2>1 DEF Solvable
<1>9. f = [s \in SUBSET (1 .. N) |-> IF s = {} THEN files ELSE Taken(belongs, f[s \ {Max(s)}])]
  <2>1. ASSUME NEW s \in SUBSET (1 .. N)
        PROVE  f[s] = IF s = {} THEN files ELSE Taken(belongs, f[s \ {Max(s)}])
    <3>1. f[s] = IF s \in Z THEN files ELSE h[s][f[s \ {c[s]}]]
      BY <1>8 DEF Solved
    <3>2. f[s \ {Max(s)}] \in A
      BY <1>8
    <3>3. h[s][f[s \ {Max(s)}]] = Taken(belongs, f[s \ {Max(s)}]) /\ c[s] = Max(s)
      BY <3>2
    <3> HIDE DEF h, c
    <3> QED
      BY <3>1, <3>3
  <2> QED
    BY <1>8, <2>1
<1>10. iter = [s \in SUBSET (1 .. N) |-> IF s = {} THEN files ELSE Taken(belongs, iter[s \ {Max(s)}])]
  BY <1>9
<1> HIDE DEF iter
<1>11. iter[1 .. 0] = files
  BY <1>10
<1>12. ASSUME NEW m \in 1 .. N PROVE iter[1 .. m] = Taken(belongs, iter[1 .. m - 1])
  <2>1. 1 .. m \in SUBSET (1 .. N) /\ 1 .. m # {} /\ m \in 1 .. m /\ m \in Nat
    BY <1>1
  <2>2. Max(1 .. m) \in 1 .. m /\ m <= Max(1 .. m)
    BY <2>1, GreatestElement
  <2>3. Max(1 .. m) = m
    BY <2>1, <2>2
  <2>4. (1 .. m) \ {m} = 1 .. m - 1
    BY <2>1
  <2> QED
    BY <1>10, <2>1, <2>3, <2>4
<1> DEFINE S == {m \in 0 .. N :
                   /\ iter[1 .. m] \in A /\ files \subseteq iter[1 .. m]
                   /\ ClosedUnder(belongs, iter[1 .. m]) \/ m <= Cardinality(iter[1 .. m])}
<1>13. 0 \in S
  <2>1. IsFiniteSet(files)
    BY FS_Subset
  <2>2. 0 <= Cardinality(files)
    BY <2>1, FS_CardinalityType
  <2> QED
    BY <1>1, <1>7, <1>11, <2>2
<1>14. \A m \in 1 .. N : m - 1 \in S => m \in S
  <2> SUFFICES ASSUME NEW m \in 1 .. N, m - 1 \in S PROVE m \in S
    OBVIOUS
  <2> DEFINE inside == iter[1 .. m - 1]
             next == iter[1 .. m]
  <2>1. /\ inside \in A /\ files \subseteq inside
        /\ ClosedUnder(belongs, inside) \/ m - 1 <= Cardinality(inside)
    OBVIOUS
  <2>2. next = Taken(belongs, inside)
    BY <1>12
  <2>a. m \in 0 .. N /\ m \in Nat
    BY <1>1
  <2> HIDE DEF inside, next
  <2>3. next \in A /\ files \subseteq next /\ inside \subseteq next
    BY <1>5, <2>1, <2>2
  <2>4. ClosedUnder(belongs, next) \/ m <= Cardinality(next)
    <3>1. CASE ClosedUnder(belongs, inside)
      <4>1. next = inside
        BY <2>2, <3>1 DEF Taken, ClosedUnder
      <4> QED
        BY <3>1, <4>1
    <3>2. CASE ~ClosedUnder(belongs, inside)
      <4>1. PICK e \in belongs : e.to \in inside /\ e.from \notin inside
        BY <3>2 DEF ClosedUnder
      <4>2. e.from \in next
        BY <2>2, <4>1 DEF Taken
      <4>3. IsFiniteSet(next) /\ inside \subseteq next /\ inside # next
        BY <2>3, <4>1, <4>2, FS_Subset
      <4>4. IsFiniteSet(inside) /\ Cardinality(inside) <= Cardinality(next)
              /\ Cardinality(inside) # Cardinality(next)
        BY <4>3, FS_Subset
      <4>5. Cardinality(inside) \in Nat /\ Cardinality(next) \in Nat
        BY <4>3, <4>4, FS_CardinalityType
      <4>6. m - 1 <= Cardinality(inside)
        BY <2>1, <3>2
      <4> QED
        BY <2>a, <4>4, <4>5, <4>6
    <3> QED
      BY <3>1, <3>2
  <2> HIDE DEF A
  <2> QED
    BY <2>3, <2>4, <2>a DEF next
<1> HIDE DEF S
<1>15. N \in S
  <2>1. 0 .. N \subseteq S
    BY <1>1, <1>13, <1>14, UpToInduction
  <2> QED
    BY <1>1, <2>1
<1>16. all \in A /\ files \subseteq all /\ (ClosedUnder(belongs, all) \/ N <= Cardinality(all))
  BY <1>2, <1>15 DEF S
<1>17. ClosedUnder(belongs, all)
  <2> SUFFICES ASSUME N <= Cardinality(all) PROVE ClosedUnder(belongs, all)
    BY <1>16
  <2>1. IsFiniteSet(all) /\ Cardinality(all) <= N /\ Cardinality(all) \in Nat
    BY <1>16, FS_Subset, FS_CardinalityType DEF N
  <2>2. Cardinality(all) = Cardinality(nodes)
    BY <1>1, <2>1 DEF N
  <2>3. all = nodes
    BY <1>16, <2>2, FS_Subset
  <2> QED
    BY <2>3 DEF ClosedUnder
<1>18. all = InsideAll(nodes, belongs, files)
  BY DEF all, N, InsideAll
<1> QED
  BY <1>16, <1>17, <1>18

SubsystemsIn(model) ==
  {model.blocks[i].name : i \in {k \in DOMAIN model.blocks : model.blocks[k].type = "SubSystem"}}

(* A block is at the top or below something that was noted; if SubSystem    *)
(* blocks go by that name, one of them comes before it.                     *)
Rooted(model) ==
  \A i \in DOMAIN model.blocks :
    LET b == model.blocks[i]
    IN  HasParent(b) =>
          /\ b.parent \in DOMAIN model.subsystems
          /\ b.parent \in SubsystemsIn(model) =>
               \E j \in 1 .. i - 1 : model.blocks[j].type = "SubSystem" /\ model.blocks[j].name = b.parent

LEMMA ModelRooted ==
  ASSUME NEW systems, IsSimulinkFile(systems), SubsystemsStandOut(systems)
  PROVE  Rooted(Model(systems))
<1> DEFINE model == Model(systems)
<1>1. WalkHeld(systems, model) /\ model.todo = <<>>
  BY WalksEnd, ModelHeld
<1> HIDE DEF model
<1>2. \A i \in DOMAIN model.blocks : BlockHeld(systems, model, i)
  BY <1>1 DEF WalkHeld
<1>3. \A key : Noted(model, key) => key \in DOMAIN model.subsystems
  <2>1. ToSet(<<>>) = {}
    BY DEF ToSet
  <2> QED
    BY <1>1, <2>1 DEF Noted
<1>4. SubsystemsIn(model) \subseteq SubsystemNames(systems)
  BY <1>2 DEF BlockHeld, SubsystemsIn
<1>5. ASSUME NEW i \in DOMAIN model.blocks, HasParent(model.blocks[i])
      PROVE  /\ model.blocks[i].parent \in DOMAIN model.subsystems
             /\ model.blocks[i].parent \in SubsystemsIn(model) =>
                  \E j \in 1 .. i - 1 : /\ model.blocks[j].type = "SubSystem"
                                        /\ model.blocks[j].name = model.blocks[i].parent
  <2>1. /\ KeyHeld(systems, model.blocks, i - 1, model.blocks[i].parent)
        /\ Noted(model, model.blocks[i].parent)
    BY <1>2, <1>5 DEF BlockHeld
  <2> QED
    BY <1>3, <1>4, <2>1 DEF KeyHeld
<1> QED
  BY <1>5 DEF Rooted, model

Owned(p, contents) == {e \in Edges(p, contents) : e.type = "BELONGS_TO"}
FilesOf(p, contents) == {n \in Nodes(p, contents) : n.type \in {"FILE_M", "FILE_SLX"}}

\* What a file is to its graph.
LEMMA FileNodes ==
  ASSUME NEW kind, NEW path
  PROVE  FileNode(kind, path).type = kind
BY Zenon DEF FileNode

LEMMA NodesOfModel ==
  ASSUME NEW p, NEW contents, NEW path \in DOMAIN contents.models
  PROVE  LET at == Extracted(p, path)
             model == contents.models[path]
         IN  /\ FileNode("FILE_SLX", at) \in Nodes(p, contents)
             /\ \A i \in DOMAIN model.blocks : NodeOfBlock(at, model.blocks[i]) \in Nodes(p, contents)
             /\ \A key \in DOMAIN model.subsystems : SubsystemNode(at, key) \in Nodes(p, contents)
<1> DEFINE at == Extracted(p, path)
           model == contents.models[path]
           here == {FileNode("FILE_SLX", at)} \cup {NodeOfBlock(at, b) : b \in BlocksOf(model)}
                     \cup {SubsystemNode(at, key) : key \in DOMAIN model.subsystems}
<1>1. here \subseteq Nodes(p, contents)
  <2>1. here \subseteq ModelNodes(p, contents)
    BY DEF ModelNodes
  <2> QED
    BY <2>1 DEF Nodes
<1>2. \A i \in DOMAIN model.blocks : model.blocks[i] \in BlocksOf(model)
  BY DEF BlocksOf
<1> QED
  BY <1>1, <1>2

LEMMA EdgesOfModel ==
  ASSUME NEW p, NEW contents, NEW path \in DOMAIN contents.models
  PROVE  LET at == Extracted(p, path)
             model == contents.models[path]
         IN  BlockEdges(at, model, Nodes(p, contents)) \cup SubsystemEdges(at, model)
               \subseteq Edges(p, contents)
<1> DEFINE at == Extracted(p, path)
           model == contents.models[path]
           here == SignalEdges(at, model) \cup BlockEdges(at, model, Nodes(p, contents))
                     \cup SubsystemEdges(at, model)
<1>1. here \subseteq ModelEdges(p, contents)
  BY DEF ModelEdges
<1> QED
  BY <1>1 DEF Edges

\* To what a block belongs.
LEMMA BlockBelongs ==
  ASSUME NEW path, NEW model, NEW nodes, NEW i \in DOMAIN model.blocks
  PROVE  LET b == model.blocks[i]
         IN  /\ ~HasParent(b) /\ FileNode("FILE_SLX", path) \in nodes =>
                  Edge(NodeOfBlock(path, b), FileNode("FILE_SLX", path), "BELONGS_TO")
                    \in BlockEdges(path, model, nodes)
             /\ HasParent(b) /\ SubsystemNode(path, b.parent) \in nodes =>
                  Edge(NodeOfBlock(path, b), SubsystemNode(path, b.parent), "BELONGS_TO")
                    \in BlockEdges(path, model, nodes)
<1> DEFINE b == model.blocks[i]
           parent(k) == IF model.blocks[k].parent = "" THEN FileNode("FILE_SLX", path)
                        ELSE SubsystemNode(path, model.blocks[k].parent)
           here(k) == {Edge(NodeOfBlock(path, model.blocks[k]), n, "BELONGS_TO") :
                         n \in nodes \cap {parent(k)}}
<1>1. BlockEdges(path, model, nodes) = UNION {here(k) : k \in DOMAIN model.blocks}
  BY Zenon DEF BlockEdges
<1>2. /\ ~HasParent(b) => parent(i) = FileNode("FILE_SLX", path)
      /\ HasParent(b) => parent(i) = SubsystemNode(path, b.parent)
  BY Zenon DEF HasParent
<1> HIDE DEF parent
<1>3. parent(i) \in nodes =>
        Edge(NodeOfBlock(path, b), parent(i), "BELONGS_TO") \in BlockEdges(path, model, nodes)
  BY <1>1
<1> QED
  BY <1>2, <1>3, Zenon

\* To what a subsystem belongs that no SubSystem block stands for.
LEMMA SubsystemBelongs ==
  ASSUME NEW path, NEW model, NEW key \in DOMAIN model.subsystems, key \notin SubsystemsIn(model)
  PROVE  Edge(SubsystemNode(path, key), FileNode("FILE_SLX", path), "BELONGS_TO")
           \in SubsystemEdges(path, model)
<1> DEFINE named == SubsystemsIn(model)
           top(name) == {Edge(SubsystemNode(path, name), FileNode("FILE_SLX", path), "BELONGS_TO") :
                           n \in {name} \ named}
           members(name) == {Edge(child, SubsystemNode(path, name), "BELONGS_TO") :
                               child \in UNION {Referenced(path, model.blocks, ref) :
                                                  ref \in model.subsystems[name]}}
<1>1. SubsystemEdges(path, model) = UNION {top(name) \cup members(name) : name \in DOMAIN model.subsystems}
  BY DEF SubsystemEdges, SubsystemsIn
<1>2. Edge(SubsystemNode(path, key), FileNode("FILE_SLX", path), "BELONGS_TO") \in top(key)
  OBVIOUS
<1> HIDE DEF top, members
<1> QED
  BY <1>1, <1>2

(* All that was read of a model is inside.                                  *)
ModelInside(p, contents, path, inside) ==
  LET at == Extracted(p, path)
      model == contents.models[path]
  IN  /\ \A i \in DOMAIN model.blocks : NodeOfBlock(at, model.blocks[i]) \in inside
      /\ \A key \in DOMAIN model.subsystems : SubsystemNode(at, key) \in inside

\* What a closed set with the files holds, it holds of a model block by block.
LEMMA ModelContained ==
  ASSUME NEW p, NEW contents, NEW path \in DOMAIN contents.models,
         IsSequence(contents.models[path].blocks), Rooted(contents.models[path]),
         NEW inside, FilesOf(p, contents) \subseteq inside, ClosedUnder(Owned(p, contents), inside)
  PROVE  ModelInside(p, contents, path, inside)
<1> DEFINE at == Extracted(p, path)
           model == contents.models[path]
           file == FileNode("FILE_SLX", at)
           node(i) == NodeOfBlock(at, model.blocks[i])
           nodes == Nodes(p, contents)
<1>1. /\ file \in nodes
      /\ \A i \in DOMAIN model.blocks : node(i) \in nodes
      /\ \A key \in DOMAIN model.subsystems : SubsystemNode(at, key) \in nodes
  BY NodesOfModel
<1>2. file \in inside
  <2>1. file.type = "FILE_SLX"
    BY FileNodes
  <2> QED
    BY <1>1, <2>1 DEF FilesOf
<1>3. BlockEdges(at, model, nodes) \cup SubsystemEdges(at, model) \subseteq Edges(p, contents)
  BY EdgesOfModel
<1>4. PICK n \in Nat : DOMAIN model.blocks = 1 .. n
  BY LengthOf
<1>a. \A i \in DOMAIN model.blocks :
        /\ ~HasParent(model.blocks[i]) /\ file \in nodes =>
             Edge(node(i), file, "BELONGS_TO") \in BlockEdges(at, model, nodes)
        /\ HasParent(model.blocks[i]) /\ SubsystemNode(at, model.blocks[i].parent) \in nodes =>
             Edge(node(i), SubsystemNode(at, model.blocks[i].parent), "BELONGS_TO")
               \in BlockEdges(at, model, nodes)
  BY BlockBelongs
<1>b. \A key \in DOMAIN model.subsystems : key \notin SubsystemsIn(model) =>
        Edge(SubsystemNode(at, key), file, "BELONGS_TO") \in SubsystemEdges(at, model)
  BY SubsystemBelongs
<1>c. \A i \in DOMAIN model.blocks :
        HasParent(model.blocks[i]) =>
          /\ model.blocks[i].parent \in DOMAIN model.subsystems
          /\ model.blocks[i].parent \in SubsystemsIn(model) =>
               \E j \in 1 .. i - 1 : /\ model.blocks[j].type = "SubSystem"
                                     /\ model.blocks[j].name = model.blocks[i].parent
  BY DEF Rooted
<1>d. \A j \in DOMAIN model.blocks :
        model.blocks[j].type = "SubSystem" => node(j) = SubsystemNode(at, model.blocks[j].name)
  BY DEF NodeOfBlock
<1> HIDE DEF at, model, file, node, nodes
<1>5. ASSUME NEW from, NEW to \in inside, Edge(from, to, "BELONGS_TO") \in Edges(p, contents)
      PROVE  from \in inside
  <2> DEFINE e == Edge(from, to, "BELONGS_TO")
  <2>1. e.from = from /\ e.to = to /\ e.type = "BELONGS_TO"
    BY DEF Edge
  <2> HIDE DEF e
  <2>2. e \in Owned(p, contents)
    BY <1>5, <2>1 DEF Owned, e
  <2> QED
    BY <2>1, <2>2 DEF ClosedUnder
<1>6. ASSUME NEW key \in DOMAIN model.subsystems, key \notin SubsystemsIn(model)
      PROVE  SubsystemNode(at, key) \in inside
  BY <1>2, <1>3, <1>5, <1>6, <1>b
<1> DEFINE S == {k \in 0 .. n : \A i \in 1 .. k : node(i) \in inside}
<1>7. 0 \in S
  BY <1>4
<1>8. ASSUME NEW k \in 1 .. n, k - 1 \in S PROVE k \in S
  <2>1. \A i \in 1 .. k - 1 : node(i) \in inside /\ i \in DOMAIN model.blocks
    BY <1>4, <1>8
  <2>2. k \in DOMAIN model.blocks
    BY <1>4
  <2>3. node(k) \in inside
    <3>1. CASE ~HasParent(model.blocks[k])
      BY <1>1, <1>2, <1>3, <1>5, <1>a, <2>2, <3>1
    <3>2. CASE HasParent(model.blocks[k])
      <4> DEFINE key == model.blocks[k].parent
      <4>1. key \in DOMAIN model.subsystems
        BY <1>c, <2>2, <3>2
      <4>2. SubsystemNode(at, key) \in inside
        <5>1. CASE key \notin SubsystemsIn(model)
          BY <1>6, <4>1, <5>1
        <5>2. CASE key \in SubsystemsIn(model)
          <6>1. PICK j \in 1 .. k - 1 : model.blocks[j].type = "SubSystem" /\ model.blocks[j].name = key
            BY <1>c, <2>2, <3>2, <5>2
          <6> QED
            BY <1>d, <2>1, <6>1
        <5> QED
          BY <5>1, <5>2
      <4>3. Edge(node(k), SubsystemNode(at, key), "BELONGS_TO") \in Edges(p, contents)
        BY <1>1, <1>3, <1>a, <2>2, <3>2, <4>1
      <4> QED
        BY <1>5, <4>2, <4>3
    <3> QED
      BY <3>1, <3>2
  <2>4. \A i \in 1 .. k : i = k \/ i \in 1 .. k - 1
    BY <1>4
  <2> QED
    BY <1>4, <2>1, <2>3, <2>4
<1> HIDE DEF S
<1>9. n \in S
  <2>1. 0 .. n \subseteq S
    BY <1>4, <1>7, <1>8, UpToInduction
  <2> QED
    BY <1>4, <2>1
<1>10. \A i \in DOMAIN model.blocks : node(i) \in inside
  BY <1>4, <1>9 DEF S
<1>11. ASSUME NEW key \in DOMAIN model.subsystems PROVE SubsystemNode(at, key) \in inside
  <2>1. CASE key \notin SubsystemsIn(model)
    BY <1>6, <2>1
  <2>2. CASE key \in SubsystemsIn(model)
    <3>1. PICK j \in DOMAIN model.blocks :
            model.blocks[j].type = "SubSystem" /\ model.blocks[j].name = key
      BY <2>2 DEF SubsystemsIn
    <3> QED
      BY <1>d, <1>10, <3>1
  <2> QED
    BY <2>1, <2>2
<1> QED
  BY <1>10, <1>11 DEF ModelInside, at, model, node

\* So are the functions of its MATLAB files.
LEMMA CodeContained ==
  ASSUME NEW p, NEW contents, NEW inside,
         FilesOf(p, contents) \subseteq inside, ClosedUnder(Owned(p, contents), inside)
  PROVE  CodeNodes(p, contents) \subseteq inside
<1> DEFINE here(path) == {FileNode("FILE_M", Extracted(p, path))}
                           \cup {FunctionNode(Extracted(p, path), f.name) :
                                   f \in ToSet(contents.code[path].functions)}
<1>1. CodeNodes(p, contents) = UNION {here(path) : path \in DOMAIN contents.code}
  BY DEF CodeNodes
<1>2. CodeNodes(p, contents) \subseteq Nodes(p, contents)
  BY DEF Nodes
<1> SUFFICES ASSUME NEW n \in CodeNodes(p, contents) PROVE n \in inside
  OBVIOUS
<1>3. PICK path \in DOMAIN contents.code : n \in here(path)
  BY <1>1
<1> DEFINE at == Extracted(p, path)
           file == FileNode("FILE_M", at)
<1>4. file \in inside
  <2>1. file \in CodeNodes(p, contents) /\ file.type = "FILE_M"
    BY <1>1, FileNodes
  <2> QED
    BY <1>2, <2>1 DEF FilesOf
<1>5. CASE n = file
  BY <1>4, <1>5
<1>6. CASE n # file
  <2>1. PICK name : n = FunctionNode(at, name)
    BY <1>3, <1>6
  <2>2. n.type = "FUNCTION" /\ n.path = at
    BY <2>1 DEF FunctionNode
  <2> DEFINE e == Edge(n, FileNode("FILE_M", n.path), "BELONGS_TO")
  <2>3. e \in CodeEdges(p, contents)
    BY <2>2 DEF CodeEdges
  <2>4. e.from = n /\ e.to = file /\ e.type = "BELONGS_TO"
    BY <2>2 DEF Edge
  <2> HIDE DEF e, file
  <2>5. e \in Owned(p, contents)
    BY <2>3, <2>4 DEF Owned, Edges
  <2> QED
    BY <1>4, <2>4, <2>5 DEF ClosedUnder
<1> QED
  BY <1>5, <1>6

\* An edge starts at a node.
LEMMA EdgesStart ==
  ASSUME NEW p, NEW contents, NEW e \in Edges(p, contents)
  PROVE  e.from \in Nodes(p, contents)
<1> DEFINE nodes == Nodes(p, contents)
<1>1. CASE e \in CodeEdges(p, contents)
  <2>1. PICK n \in CodeNodes(p, contents) : e = Edge(n, FileNode("FILE_M", n.path), "BELONGS_TO")
    BY <1>1 DEF CodeEdges
  <2>2. e.from = n
    BY <2>1 DEF Edge
  <2> QED
    BY <2>2 DEF Nodes
<1>2. CASE e \in DependencyEdges(p, contents)
  BY <1>2 DEF DependencyEdges
<1>3. CASE e \in ModelEdges(p, contents)
  <2> DEFINE at(path) == Extracted(p, path)
             model(path) == contents.models[path]
             here(path) == SignalEdges(at(path), model(path))
                             \cup BlockEdges(at(path), model(path), nodes)
                             \cup SubsystemEdges(at(path), model(path))
  <2>1. ModelEdges(p, contents) = UNION {here(path) : path \in DOMAIN contents.models}
    BY DEF ModelEdges
  <2>2. PICK path \in DOMAIN contents.models : e \in here(path)
    BY <1>3, <2>1
  <2>3. /\ \A i \in DOMAIN model(path).blocks : NodeOfBlock(at(path), model(path).blocks[i]) \in nodes
        /\ \A key \in DOMAIN model(path).subsystems : SubsystemNode(at(path), key) \in nodes
    BY NodesOfModel
  <2> DEFINE A == at(path)
             M == model(path)
  <2>4. \A ref : Referenced(A, M.blocks, ref) \subseteq nodes
    <3>1. \A ref : \A x \in Referenced(A, M.blocks, ref) :
            \E i \in DOMAIN M.blocks : x = NodeOfBlock(A, M.blocks[i])
      <4> DEFINE blocks == M.blocks
      <4> HIDE DEF A, blocks
      <4> SUFFICES ASSUME NEW ref, NEW x \in Referenced(A, blocks, ref)
                   PROVE  \E i \in DOMAIN blocks : x = NodeOfBlock(A, blocks[i])
        BY DEF blocks
      <4> DEFINE byId == {i \in DOMAIN blocks : blocks[i].id = ref}
                 byName == {i \in DOMAIN blocks : blocks[i].name = ref}
                 meant == IF byId # {} THEN byId ELSE {i \in byName : \A n \in byName : i <= n}
      <4>1. Referenced(A, blocks, ref) = {NodeOfBlock(A, blocks[i]) : i \in meant}
        BY DEF Referenced
      <4>2. meant \subseteq DOMAIN blocks
        OBVIOUS
      <4> HIDE DEF meant
      <4> QED
        BY <4>1, <4>2
    <3> QED
      BY <2>3, <3>1
  <2>5. e \in SignalEdges(A, M) \/ e \in BlockEdges(A, M, nodes) \/ e \in SubsystemEdges(A, M)
    BY <2>2
  <2> HIDE DEF A, M
  <2>6. CASE e \in SignalEdges(A, M)
    <3>1. PICK line \in M.lines :
            e \in {Edge(from, to, "SIGNAL_FLOWS") : from \in Referenced(A, M.blocks, line[1]),
                                                    to \in Referenced(A, M.blocks, line[2])}
      BY <2>6 DEF SignalEdges
    <3>2. PICK from \in Referenced(A, M.blocks, line[1]), to \in Referenced(A, M.blocks, line[2]) :
            e = Edge(from, to, "SIGNAL_FLOWS")
      BY <3>1
    <3>3. e.from = from
      BY <3>2 DEF Edge
    <3> QED
      BY <2>4, <3>3
  <2>7. CASE e \in BlockEdges(A, M, nodes)
    <3>1. PICK i \in DOMAIN M.blocks : \E n : e = Edge(NodeOfBlock(A, M.blocks[i]), n, "BELONGS_TO")
      BY <2>7, Zenon DEF BlockEdges
    <3>2. PICK n : e = Edge(NodeOfBlock(A, M.blocks[i]), n, "BELONGS_TO")
      BY <3>1
    <3>3. e.from = NodeOfBlock(A, M.blocks[i])
      BY <3>2 DEF Edge
    <3> QED
      BY <2>3, <3>3 DEF A, M
  <2>8. CASE e \in SubsystemEdges(A, M)
    <3> DEFINE top(name) == {Edge(SubsystemNode(A, name), FileNode("FILE_SLX", A), "BELONGS_TO") :
                               n \in {name} \ SubsystemsIn(M)}
               members(name) == {Edge(child, SubsystemNode(A, name), "BELONGS_TO") :
                                   child \in UNION {Referenced(A, M.blocks, ref) :
                                                      ref \in M.subsystems[name]}}
    <3>1. SubsystemEdges(A, M) = UNION {top(name) \cup members(name) : name \in DOMAIN M.subsystems}
      BY DEF SubsystemEdges, SubsystemsIn
    <3>2. PICK name \in DOMAIN M.subsystems : e \in top(name) \/ e \in members(name)
      BY <2>8, <3>1
    <3>3. CASE e \in top(name)
      <4>1. e = Edge(SubsystemNode(A, name), FileNode("FILE_SLX", A), "BELONGS_TO")
        BY <3>3
      <4>2. e.from = SubsystemNode(A, name)
        BY <4>1 DEF Edge
      <4> QED
        BY <2>3, <4>2 DEF A, M
    <3>4. CASE e \in members(name)
      <4>1. PICK ref \in M.subsystems[name] : \E child \in Referenced(A, M.blocks, ref) :
              e = Edge(child, SubsystemNode(A, name), "BELONGS_TO")
        BY <3>4
      <4>2. PICK child \in Referenced(A, M.blocks, ref) :
              e = Edge(child, SubsystemNode(A, name), "BELONGS_TO")
        BY <4>1
      <4>3. e.from = child
        BY <4>2 DEF Edge
      <4> QED
        BY <2>4, <4>3
    <3> QED
      BY <3>2, <3>3, <3>4
  <2> QED
    BY <2>5, <2>6, <2>7, <2>8
<1> QED
  BY <1>1, <1>2, <1>3 DEF Edges

\* A graph has finitely many nodes.
LEMMA NodesFinite ==
  ASSUME NEW a \in Readable, NEW p
  PROVE  IsFiniteSet(Nodes(p, ContentsOf[a]))
<1> DEFINE contents == ContentsOf[a]
<1>1. /\ DOMAIN contents.code = PathsOf(contents, ".m")
      /\ DOMAIN contents.models = PathsOf(contents, ".slx")
      /\ \A path \in DOMAIN contents.code : IsSequence(contents.code[path].functions)
      /\ \A path \in DOMAIN contents.models :
           /\ IsSequence(contents.models[path].blocks)
           /\ IsFiniteSet(DOMAIN contents.models[path].subsystems)
  BY Parsed
<1>2. IsSequence(contents.files)
  <2>1. contents.files = FilesIn(Archives[a].entries) /\ IsSequence(Archives[a].entries)
    BY EntriesAssumption DEF ContentsOf, Readable
  <2> DEFINE entries == Archives[a].entries
             kept == Picked(entries, Consumed(entries))
             typeOf(e) == IF Policy(e.type) = "allow" THEN e.type ELSE "other"
             files == [i \in DOMAIN kept |-> [path |-> kept[i].path, type |-> typeOf(kept[i])]]
  <2>2. contents.files = files
    BY <2>1 DEF FilesIn
  <2> HIDE DEF entries
  <2>3. IsSequence(kept)
    BY <2>1, PickedSequence DEF entries
  <2>4. files = [i \in DOMAIN kept |-> files[i]]
    OBVIOUS
  <2> HIDE DEF kept, files, contents
  <2>5. IsSequence(files)
    BY <2>3, <2>4, OverSequence
  <2> QED
    BY <2>2, <2>5
<1> HIDE DEF contents
<1>3. IsFiniteSet(DOMAIN contents.code) /\ IsFiniteSet(DOMAIN contents.models)
  <2> DEFINE paths == [i \in DOMAIN contents.files |-> contents.files[i].path]
  <2>1. IsFiniteSet(DOMAIN contents.files) /\ paths = [i \in DOMAIN contents.files |-> paths[i]]
    BY <1>2, FiniteElements
  <2>2. \A type : PathsOf(contents, type) \subseteq {paths[i] : i \in DOMAIN contents.files}
    BY DEF PathsOf
  <2> HIDE DEF paths
  <2>3. IsFiniteSet({paths[i] : i \in DOMAIN contents.files})
    BY <2>1, FiniteImage
  <2>4. \A type : IsFiniteSet(PathsOf(contents, type))
    BY <2>2, <2>3, FS_Subset
  <2> QED
    BY <1>1, <2>4
<1>4. IsFiniteSet(CodeNodes(p, contents))
  <2> DEFINE node(path) == [f \in ToSet(contents.code[path].functions) |->
                              FunctionNode(Extracted(p, path), f.name)]
             file(path) == FileNode("FILE_M", Extracted(p, path))
             own(path) == {FunctionNode(Extracted(p, path), f.name) :
                             f \in ToSet(contents.code[path].functions)}
             here == [path \in DOMAIN contents.code |-> {file(path)} \cup own(path)]
  <2>1. \A path \in DOMAIN contents.code : IsFiniteSet(here[path])
    <3> SUFFICES ASSUME NEW path \in DOMAIN contents.code PROVE IsFiniteSet({file(path)} \cup own(path))
      OBVIOUS
    <3>1. IsFiniteSet(ToSet(contents.code[path].functions))
      BY <1>1, FiniteElements
    <3>2. own(path) = {node(path)[f] : f \in ToSet(contents.code[path].functions)}
      OBVIOUS
    <3>3. node(path) = [f \in ToSet(contents.code[path].functions) |-> node(path)[f]]
      OBVIOUS
    <3> HIDE DEF own, node, file
    <3>4. IsFiniteSet(own(path))
      BY <3>1, <3>2, <3>3, FiniteImage
    <3>5. IsFiniteSet({file(path)})
      BY FS_Singleton
    <3> QED
      BY <3>4, <3>5, FS_Union
  <2>2. CodeNodes(p, contents) = UNION {here[path] : path \in DOMAIN contents.code}
    BY DEF CodeNodes
  <2>3. here = [path \in DOMAIN contents.code |-> here[path]]
    OBVIOUS
  <2> HIDE DEF here
  <2> QED
    BY <1>3, <2>1, <2>2, <2>3, FiniteUnion
<1>5. IsFiniteSet(ModelNodes(p, contents))
  <2> DEFINE at(path) == Extracted(p, path)
             model(path) == contents.models[path]
             file(path) == FileNode("FILE_SLX", at(path))
             node(path) == [i \in DOMAIN model(path).blocks |-> NodeOfBlock(at(path), model(path).blocks[i])]
             sub(path) == [key \in DOMAIN model(path).subsystems |-> SubsystemNode(at(path), key)]
             own(path) == {NodeOfBlock(at(path), b) : b \in BlocksOf(model(path))}
             subs(path) == {SubsystemNode(at(path), key) : key \in DOMAIN model(path).subsystems}
             here == [path \in DOMAIN contents.models |-> {file(path)} \cup own(path) \cup subs(path)]
  <2>1. \A path \in DOMAIN contents.models : IsFiniteSet(here[path])
    <3> SUFFICES ASSUME NEW path \in DOMAIN contents.models
                 PROVE  IsFiniteSet({file(path)} \cup own(path) \cup subs(path))
      OBVIOUS
    <3>1. IsFiniteSet(DOMAIN model(path).blocks) /\ IsFiniteSet(DOMAIN model(path).subsystems)
      BY <1>1, FiniteElements
    <3>2. /\ own(path) = {node(path)[i] : i \in DOMAIN model(path).blocks}
          /\ node(path) = [i \in DOMAIN model(path).blocks |-> node(path)[i]]
      BY DEF BlocksOf
    <3>3. /\ subs(path) = {sub(path)[key] : key \in DOMAIN model(path).subsystems}
          /\ sub(path) = [key \in DOMAIN model(path).subsystems |-> sub(path)[key]]
      OBVIOUS
    <3> HIDE DEF own, node, file, sub, subs, model
    <3>4. IsFiniteSet(own(path))
      BY <3>1, <3>2, FiniteImage
    <3>5. IsFiniteSet(subs(path))
      BY <3>1, <3>3, FiniteImage
    <3>6. IsFiniteSet({file(path)})
      BY FS_Singleton
    <3>7. IsFiniteSet({file(path)} \cup own(path))
      BY <3>4, <3>6, FS_Union
    <3> QED
      BY <3>5, <3>7, FS_Union
  <2>2. ModelNodes(p, contents) = UNION {here[path] : path \in DOMAIN contents.models}
    BY ZenonT(40) DEF ModelNodes
  <2>3. here = [path \in DOMAIN contents.models |-> here[path]]
    OBVIOUS
  <2> HIDE DEF here
  <2> QED
    BY <1>3, <2>1, <2>2, <2>3, FiniteUnion
<1> QED
  BY <1>4, <1>5, FS_Union DEF Nodes, contents

\* Whatever holds the files and what belongs to what it holds, holds all nodes.
LEMMA NodesContained ==
  ASSUME FilesStandOut, NEW a \in Readable, NEW p, NEW inside,
         FilesOf(p, ContentsOf[a]) \subseteq inside, ClosedUnder(Owned(p, ContentsOf[a]), inside)
  PROVE  Nodes(p, ContentsOf[a]) \subseteq inside
<1> DEFINE contents == ContentsOf[a]
           given == Archives[a].models
<1>1. /\ DOMAIN contents.models = DOMAIN given
      /\ \A path \in DOMAIN given : /\ contents.models[path] = Model(given[path])
                                    /\ IsSimulinkFile(given[path]) /\ SubsystemsStandOut(given[path])
  <2>1. contents.models = [path \in DOMAIN given |-> Model(given[path])]
    BY DEF ContentsOf
  <2>2. \A path \in DOMAIN given : IsSimulinkFile(given[path])
    BY FilesAssumption
  <2>3. \A path \in DOMAIN given : SubsystemsStandOut(given[path])
    BY DEF FilesStandOut
  <2> HIDE DEF given, contents
  <2> QED
    BY <2>1, <2>2, <2>3
<1> HIDE DEF given, contents
<1>2. ASSUME NEW path \in DOMAIN contents.models PROVE ModelInside(p, contents, path, inside)
  <2>1. Rooted(contents.models[path]) /\ IsSequence(contents.models[path].blocks)
    BY <1>1, ModelRooted, ModelFinite
  <2> QED
    BY <2>1, ModelContained DEF contents
<1>3. CodeNodes(p, contents) \subseteq inside
  BY CodeContained DEF contents
<1>4. ModelNodes(p, contents) \subseteq inside
  <2> SUFFICES ASSUME NEW n \in ModelNodes(p, contents) PROVE n \in inside
    OBVIOUS
  <2>1. PICK path \in DOMAIN contents.models :
          \/ n = FileNode("FILE_SLX", Extracted(p, path))
          \/ \E i \in DOMAIN contents.models[path].blocks :
               n = NodeOfBlock(Extracted(p, path), contents.models[path].blocks[i])
          \/ \E key \in DOMAIN contents.models[path].subsystems :
               n = SubsystemNode(Extracted(p, path), key)
    BY DEF ModelNodes, BlocksOf
  <2>2. CASE n = FileNode("FILE_SLX", Extracted(p, path))
    <3>1. n.type = "FILE_SLX" /\ n \in Nodes(p, contents)
      BY <2>2, FileNodes, NodesOfModel
    <3> QED
      BY <3>1 DEF FilesOf, contents
  <2> QED
    BY <1>2, <2>1, <2>2 DEF ModelInside
<1> QED
  BY <1>3, <1>4 DEF Nodes, contents

\* In every state, then, the graph a task drafts is one of files and what is in them.
LEMMA GraphsContained ==
  ASSUME FilesStandOut, TaskInv
  PROVE  EveryNodeIsContained
<1> SUFFICES ASSUME NEW p \in {q \in Projects : tasks[q].pc = "draft"}
             PROVE  InsideAll(Graph(p).nodes, {e \in Graph(p).edges : e.type = "BELONGS_TO"},
                              {n \in Graph(p).nodes : n.type \in {"FILE_M", "FILE_SLX"}}) = Graph(p).nodes
  BY DEF EveryNodeIsContained, InsideAll
<1>1. archive[p] \in Readable
  BY DEF TaskInv
<1>2. PICK a \in Readable : archive[p] = a
  BY <1>1
<1> DEFINE contents == ContentsOf[a]
           nodes == Nodes(p, contents)
           belongs == Owned(p, contents)
           files == FilesOf(p, contents)
           all == InsideAll(nodes, belongs, files)
<1>3. Graph(p).nodes = nodes /\ Graph(p).edges = Edges(p, contents)
  BY <1>2 DEF Graph, GraphOf
<1>4. all \in SUBSET nodes /\ files \subseteq all /\ ClosedUnder(belongs, all)
  <2>1. IsFiniteSet(nodes)
    BY NodesFinite
  <2>2. \A e \in belongs : e.from \in nodes
    BY EdgesStart DEF Owned
  <2>3. files \in SUBSET nodes
    BY DEF FilesOf
  <2> HIDE DEF nodes, belongs, files
  <2> QED
    BY <2>1, <2>2, <2>3, TakenIn
<1>5. all = nodes
  <2> HIDE DEF all
  <2>1. nodes \subseteq all
    BY <1>4, NodesContained
  <2> QED
    BY <1>4, <2>1
<1>6. /\ belongs = {e \in Graph(p).edges : e.type = "BELONGS_TO"}
      /\ files = {n \in Graph(p).nodes : n.type \in {"FILE_M", "FILE_SLX"}}
  BY <1>3 DEF Owned, FilesOf
<1> HIDE DEF nodes, belongs, files
<1> QED
  BY <1>3, <1>5, <1>6 DEF all

(* Every node of a graph that is drafted lies in a file of the project: a   *)
(* reader who goes up from a block, a subsystem or a function comes to one. *)
(* It takes that only SubSystem blocks have systems under them, or that     *)
(* none goes by the name of another block that has.                         *)
THEOREM NodesAlwaysContained ==
  ASSUME FilesStandOut
  PROVE  Spec => []EveryNodeIsContained
<1>1. ServiceInv => EveryNodeIsContained
  BY GraphsContained DEF ServiceInv
<1> QED
  BY <1>1, ServiceInductive, PTL

----------------------------------------------------------------------------
(* What was said in a conversation. *)

Count(said, role, n) == Cardinality({k \in 1 .. n : said[k].role = role})

(* Each of those who wait has asked, and nothing was answered that was not  *)
(* asked before.                                                            *)
Talk(said, waiting) ==
  /\ IsSequence(said) /\ IsFiniteSet(waiting)
  /\ Cardinality(waiting) + Count(said, "assistant", Len(said)) <= Count(said, "user", Len(said))
  /\ \A n \in DOMAIN said : Count(said, "assistant", n) <= Count(said, "user", n)

LEMMA Counts ==
  ASSUME NEW said, NEW role, NEW n \in Nat
  PROVE  IsFiniteSet({k \in 1 .. n : said[k].role = role}) /\ Count(said, role, n) \in Nat
<1>1. 1 \in Int /\ n \in Int
  OBVIOUS
<1>2. IsFiniteSet(1 .. n)
  BY <1>1, FS_Interval
<1>3. {k \in 1 .. n : said[k].role = role} \subseteq 1 .. n
  OBVIOUS
<1>4. IsFiniteSet({k \in 1 .. n : said[k].role = role})
  BY <1>2, <1>3, FS_Subset
<1> QED
  BY <1>4, FS_CardinalityType DEF Count

\* What the numbers are with one message more.
CountedOn(said, message, role) ==
  LET more == Append(said, message)
  IN  /\ IsSequence(more) /\ DOMAIN more = 1 .. Len(said) + 1 /\ Len(more) = Len(said) + 1
      /\ \A n \in 1 .. Len(said) : more[n] = said[n]
      /\ more[Len(said) + 1] = message
      /\ \A n \in 0 .. Len(said) : Count(more, role, n) = Count(said, role, n)
      /\ Count(more, role, Len(said) + 1) =
           Count(said, role, Len(said)) + (IF message.role = role THEN 1 ELSE 0)

LEMMA CountsOn ==
  ASSUME NEW said, IsSequence(said), NEW message, NEW role
  PROVE  CountedOn(said, message, role)
<1> DEFINE L == Len(said)
           more == Append(said, message)
           E == ToSet(said) \cup {message}
<1>1. said \in Seq(E)
  BY DEF IsSequence
<1>2. /\ L \in Nat /\ DOMAIN more = 1 .. L + 1 /\ Len(more) = L + 1 /\ more \in Seq(E)
      /\ \A n \in 1 .. L : more[n] = said[n]
      /\ more[L + 1] = message
  <2> HIDE DEF E
  <2>1. L \in Nat /\ DOMAIN said = 1 .. L /\ message \in E
    BY <1>1 DEF E
  <2>2. more \in Seq(E) /\ Len(more) = L + 1 /\ DOMAIN more = 1 .. L + 1
    BY <1>1, <2>1
  <2>3. \A n \in 1 .. L : more[n] = said[n]
    BY <1>1, <2>1
  <2>4. more[L + 1] = message
    BY <1>1, <2>1
  <2> QED
    BY <2>1, <2>2, <2>3, <2>4
<1>3. IsSequence(more)
  <2> HIDE DEF more
  <2> QED
    BY <1>2, AnySequence
<1> HIDE DEF more, L
<1>4. ASSUME NEW n \in 0 .. L PROVE Count(more, role, n) = Count(said, role, n)
  <2>1. \A k \in 1 .. n : more[k] = said[k]
    BY <1>2
  <2>2. {k \in 1 .. n : more[k].role = role} = {k \in 1 .. n : said[k].role = role}
    BY <2>1
  <2> QED
    BY <2>2 DEF Count
<1>5. Count(more, role, L + 1) = Count(said, role, L) + (IF message.role = role THEN 1 ELSE 0)
  <2> DEFINE before == {k \in 1 .. L : more[k].role = role}
             after == {k \in 1 .. L + 1 : more[k].role = role}
  <2>1. IsFiniteSet(before) /\ Cardinality(before) \in Nat /\ Cardinality(before) = Count(said, role, L)
    <3>1. IsFiniteSet(before) /\ Count(more, role, L) \in Nat
      BY <1>2, Counts
    <3>2. L \in 0 .. L
      BY <1>2
    <3> QED
      BY <1>4, <3>1, <3>2 DEF Count
  <2>2. L + 1 \notin before
    BY <1>2
  <2>3. CASE message.role = role
    <3>1. after = before \cup {L + 1}
      BY <1>2, <2>3
    <3> HIDE DEF after, before
    <3>2. Cardinality(before \cup {L + 1}) = Cardinality(before) + 1
      BY <2>1, <2>2, FS_AddElement
    <3> QED
      BY <2>1, <2>3, <3>1, <3>2 DEF Count, after
  <2>4. CASE message.role # role
    <3>1. after = before
      BY <1>2, <2>4
    <3>2. Count(more, role, L + 1) = Cardinality(after)
      BY DEF Count
    <3> HIDE DEF after, before
    <3> QED
      BY <2>1, <2>4, <3>1, <3>2
  <2> QED
    BY <2>3, <2>4
<1> QED
  BY <1>2, <1>3, <1>4, <1>5 DEF CountedOn, more, L

LEMMA TalkGoesOn ==
  ASSUME NEW said, NEW waiting, Talk(said, waiting)
  PROVE  /\ \A few \in SUBSET waiting : Talk(said, few)
         /\ \A a : a \notin waiting => Talk(Append(said, Message("user", {})), waiting \cup {a})
         /\ \A a \in waiting : \A citations :
              Talk(Append(said, Message("assistant", citations)), waiting \ {a})
<1> DEFINE L == Len(said)
           asks == Count(said, "user", L)
           answers == Count(said, "assistant", L)
<1>1. /\ IsSequence(said) /\ L \in Nat /\ DOMAIN said = 1 .. L
      /\ IsFiniteSet(waiting) /\ Cardinality(waiting) \in Nat
      /\ Cardinality(waiting) + answers <= asks
      /\ \A n \in 1 .. L : Count(said, "assistant", n) <= Count(said, "user", n)
  BY LengthOf, FS_CardinalityType DEF Talk
<1>2. asks \in Nat /\ answers \in Nat
  BY <1>1, Counts
<1>3. ASSUME NEW few \in SUBSET waiting PROVE Talk(said, few)
  <2>1. IsFiniteSet(few) /\ Cardinality(few) \in Nat /\ Cardinality(few) <= Cardinality(waiting)
    BY <1>1, FS_Subset, FS_CardinalityType
  <2>2. Cardinality(few) + answers <= asks
    <3> HIDE DEF asks, answers
    <3> QED
      BY <1>1, <1>2, <2>1
  <2> QED
    BY <1>1, <2>1, <2>2 DEF Talk

\* A message, and who waits after it.
<1>4. ASSUME NEW message, NEW then, IsFiniteSet(then), Cardinality(then) \in Nat,
             Cardinality(then) + answers + (IF message.role = "assistant" THEN 1 ELSE 0)
               <= asks + (IF message.role = "user" THEN 1 ELSE 0)
      PROVE  Talk(Append(said, message), then)
  <2> DEFINE more == Append(said, message)
  <2>1. /\ IsSequence(more) /\ DOMAIN more = 1 .. L + 1 /\ Len(more) = L + 1
        /\ \A role : \A n \in 0 .. L : Count(more, role, n) = Count(said, role, n)
        /\ \A role : Count(more, role, L + 1) =
             Count(said, role, L) + (IF message.role = role THEN 1 ELSE 0)
    <3>1. \A role : CountedOn(said, message, role)
      BY <1>1, CountsOn
    <3>2. CountedOn(said, message, "user")
      BY <3>1
    <3> QED
      BY <3>1, <3>2 DEF CountedOn
  <2> HIDE DEF more, L
  <2>2. Cardinality(then) + Count(more, "assistant", L + 1) <= Count(more, "user", L + 1)
    <3>1. /\ Count(more, "assistant", L + 1) = answers + (IF message.role = "assistant" THEN 1 ELSE 0)
          /\ Count(more, "user", L + 1) = asks + (IF message.role = "user" THEN 1 ELSE 0)
      BY <2>1
    <3> HIDE DEF asks, answers
    <3> QED
      BY <1>2, <1>4, <3>1
  <2>3. ASSUME NEW n \in 1 .. L + 1 PROVE Count(more, "assistant", n) <= Count(more, "user", n)
    <3>1. CASE n \in 1 .. L
      <4>1. n \in 0 .. L
        BY <1>1, <3>1
      <4> QED
        BY <1>1, <2>1, <3>1, <4>1
    <3>2. CASE n = L + 1
      <4>1. L + 1 \in Nat
        BY <1>1
      <4>2. Count(more, "assistant", L + 1) \in Nat /\ Count(more, "user", L + 1) \in Nat
        BY <4>1, Counts
      <4> QED
        BY <1>4, <2>2, <3>2, <4>2
    <3> QED
      BY <1>1, <3>1, <3>2
  <2> QED
    BY <1>4, <2>1, <2>2, <2>3 DEF Talk, more
<1> HIDE DEF asks, answers, L
<1>5. ASSUME NEW a, a \notin waiting
      PROVE  Talk(Append(said, Message("user", {})), waiting \cup {a})
  <2> DEFINE message == Message("user", {})
             then == waiting \cup {a}
  <2>1. IsFiniteSet(then) /\ Cardinality(then) = Cardinality(waiting) + 1
    BY <1>1, <1>5, FS_AddElement
  <2>2. message.role = "user"
    BY DEF Message
  <2> HIDE DEF message, then
  <2>3. Cardinality(then) + answers + (IF message.role = "assistant" THEN 1 ELSE 0)
               <= asks + (IF message.role = "user" THEN 1 ELSE 0)
    BY <1>1, <1>2, <2>1, <2>2
  <2>4. Cardinality(then) \in Nat
    BY <1>1, <2>1
  <2>5. Talk(Append(said, message), then)
    BY <1>4, <2>1, <2>3, <2>4
  <2> QED
    BY <2>5 DEF message, then
<1>6. ASSUME NEW a \in waiting, NEW citations
      PROVE  Talk(Append(said, Message("assistant", citations)), waiting \ {a})
  <2> DEFINE message == Message("assistant", citations)
             then == waiting \ {a}
  <2>1. /\ IsFiniteSet(then) /\ Cardinality(then) = Cardinality(waiting) - 1
        /\ Cardinality(then) \in Nat
    BY <1>1, FS_RemoveElement, FS_CardinalityType
  <2>2. message.role = "assistant"
    BY DEF Message
  <2> HIDE DEF message, then
  <2>3. Cardinality(then) + answers + (IF message.role = "assistant" THEN 1 ELSE 0)
               <= asks + (IF message.role = "user" THEN 1 ELSE 0)
    BY <1>1, <1>2, <2>1, <2>2
  <2>5. Talk(Append(said, message), then)
    BY <1>4, <2>1, <2>3
  <2> QED
    BY <2>5 DEF message, then
<1> QED
  BY <1>3, <1>5, <1>6
----------------------------------------------------------------------------
(* What is found stands in the project it was found for. *)

LEMMA ChunksStand ==
  ASSUME NEW p \in Projects, archive[p] \in Readable, NEW c \in chunks[p],
         c # OverviewChunk => OfContents(Contents(p), c)
  PROVE  StandsIn(p, Source(KindOfHit(c.kind), c.file, c.lines, c.block))
<1> DEFINE a == archive[p]
           contents == ContentsOf[a]
           source == Source(KindOfHit(c.kind), c.file, c.lines, c.block)
           of(path) == source.file \in {path, Extracted(p, path)}
           Lined == \E path \in DOMAIN contents.code \cup DOMAIN contents.sources :
                      of(path) /\ source.lines[2] <=
                        (IF path \in DOMAIN contents.code THEN Len(contents.code[path].lines)
                         ELSE Max({1, Len(contents.sources[path])}))
           Blocked == \E path \in DOMAIN contents.models :
                        of(path) /\ \E b \in BlocksOf(contents.models[path]) :
                                      Placed(b) = source.block
<1>1. Contents(p) = contents
  BY DEF Contents
<1>2. /\ DOMAIN contents.code = PathsOf(contents, ".m")
      /\ DOMAIN contents.models = PathsOf(contents, ".slx")
      /\ DOMAIN contents.sources = PathsOf(contents, ".c") \cup PathsOf(contents, ".h")
  BY Parsed
<1>3. \A type : PathsOf(contents, type) \subseteq Listed(contents)
  BY DEF PathsOf, Listed
<1> HIDE DEF contents
<1>4. /\ source.kind = KindOfHit(c.kind) /\ source.file = c.file
      /\ source.lines = c.lines /\ source.block = c.block
  BY DEF Source
<1> SUFFICES StandsIn(p, source)
  OBVIOUS
<1> HIDE DEF source
<1>5. ASSUME source.kind # "overview", c.file \in Listed(contents),
             source.kind = "block" => Blocked, c.lines # <<>> => Lined
      PROVE  StandsIn(p, source)
  <2>1. \E i \in DOMAIN contents.files : of(contents.files[i].path)
    BY <1>4, <1>5 DEF Listed
  <2> QED
    BY <1>1, <1>4, <1>5, <2>1 DEF StandsIn
<1>6. CASE c = OverviewChunk
  <2>1. c.kind = "project_overview"
    BY <1>6 DEF OverviewChunk, Chunk
  <2>2. source.kind = "overview"
    BY <1>4, <2>1 DEF KindOfHit
  <2> QED
    BY <1>6, <2>2 DEF StandsIn
<1>7. CASE PlainChunk(contents, c)
  <2>1. source.kind \in {"file", "subsystem"} /\ c.lines = <<>> /\ c.file \in Listed(contents)
    BY <1>4, <1>7 DEF PlainChunk, KindOfHit
  <2> QED
    BY <1>5, <2>1
<1>8. CASE BlockChunk(contents, c)
  <2>1. source.kind = "block" /\ c.lines = <<>> /\ c.file \in PathsOf(contents, ".slx")
    BY <1>4, <1>8 DEF BlockChunk, KindOfHit
  <2>2. Blocked
    BY <1>2, <1>4, <1>8, <2>1 DEF BlockChunk
  <2> QED
    BY <1>3, <1>5, <2>1, <2>2
<1>9. CASE OfFunction(contents, c)
  <2>1. c.kind = "m_function" /\ c.file \in PathsOf(contents, ".m")
    BY <1>9 DEF OfFunction, FunctionChunk, Chunk
  <2>2. source.kind = "function"
    BY <1>4, <2>1 DEF KindOfHit
  <2>3. c.lines[2] <= Len(contents.code[c.file].lines)
    BY <1>9, FunctionsMatch DEF contents
  <2>4. Lined
    BY <1>2, <1>4, <2>1, <2>3
  <2> QED
    BY <1>3, <1>5, <2>1, <2>2, <2>4
<1>10. CASE OfSource(contents, c) \/ OfHeader(contents, c)
  <2>1. /\ c.kind \in {"c_file", "h_file"}
        /\ c.file \in PathsOf(contents, ".c") \cup PathsOf(contents, ".h")
    BY <1>10 DEF OfSource, OfHeader, SectionChunk, Chunk
  <2>2. source.kind = "function"
    BY <1>4, <2>1 DEF KindOfHit
  <2>3. c.lines[2] <= Max({1, Len(contents.sources[c.file])})
    BY <1>10, SourcesMatch DEF contents
  <2>4. c.file \notin PathsOf(contents, ".m")
    BY <2>1, OneType DEF contents
  <2>5. Lined
    BY <1>2, <1>4, <2>1, <2>3, <2>4
  <2> QED
    BY <1>3, <1>5, <2>1, <2>2, <2>5
<1>11. c = OverviewChunk \/ OfContents(contents, c)
  BY <1>1
<1> QED
  BY <1>6, <1>7, <1>8, <1>9, <1>10, <1>11 DEF OfContents

LEMMA KeywordsStand ==
  ASSUME NEW p \in Projects, archive[p] \in Readable, NEW source \in KeywordSources(p, Contents(p))
  PROVE  StandsIn(p, source)
<1> DEFINE a == archive[p]
           contents == ContentsOf[a]
           of(path) == source.file \in {path, Extracted(p, path)}
<1>1. Contents(p) = contents
  BY DEF Contents
<1>2. /\ DOMAIN contents.code = PathsOf(contents, ".m")
      /\ DOMAIN contents.models = PathsOf(contents, ".slx")
      /\ \A path \in DOMAIN contents.code :
           /\ IsSequence(contents.code[path].lines)
           /\ contents.code[path].functions = FunctionsOf(contents.code[path].lines)
  BY Parsed
<1>3. \A type : PathsOf(contents, type) \subseteq Listed(contents)
  BY DEF PathsOf, Listed
<1> HIDE DEF contents
<1>4. ASSUME NEW path \in Listed(contents), of(path)
      PROVE  \E i \in DOMAIN contents.files : of(contents.files[i].path)
  BY <1>4 DEF Listed
<1>5. CASE \E i \in DOMAIN contents.files :
             source = Source("file", contents.files[i].path, <<>>, NoBlock)
  <2>1. /\ source.kind = "file" /\ source.lines = <<>>
        /\ \E i \in DOMAIN contents.files : of(contents.files[i].path)
    BY <1>5 DEF Source
  <2> QED
    BY <1>1, <2>1 DEF StandsIn
<1>6. ASSUME NEW path \in DOMAIN contents.code, NEW f \in ToSet(contents.code[path].functions),
             source = Source("function", Extracted(p, path), <<f.from, f.to>>, NoBlock)
      PROVE  StandsIn(p, source)
  <2>1. /\ source.kind = "function" /\ of(path) /\ source.lines[2] = f.to
    BY <1>6 DEF Source
  <2>2. \E i \in DOMAIN contents.files : of(contents.files[i].path)
    BY <1>2, <1>3, <1>4, <2>1
  <2>3. f.to <= Len(contents.code[path].lines)
    <3> DEFINE lines == contents.code[path].lines
    <3>1. IsSequence(lines) /\ f \in ToSet(FunctionsOf(lines))
      BY <1>2
    <3> HIDE DEF lines
    <3>2. f.from \in 1 .. Len(lines) /\ f.to \in f.from .. Len(lines)
      BY <3>1, FunctionsInOrder
    <3>3. Len(lines) \in Nat
      BY <3>1, LengthOf
    <3>4. f.to <= Len(lines)
      BY <3>2, <3>3
    <3> QED
      BY <3>4 DEF lines
  <2> QED
    BY <1>1, <2>1, <2>2, <2>3 DEF StandsIn
<1>7. ASSUME NEW path \in DOMAIN contents.models, NEW b \in BlocksOf(contents.models[path]),
             source = Source("block", Extracted(p, path), <<>>, Placed(b))
      PROVE  StandsIn(p, source)
  <2>1. /\ source.kind = "block" /\ of(path) /\ source.lines = <<>> /\ source.block = Placed(b)
    BY <1>7 DEF Source
  <2>2. \E i \in DOMAIN contents.files : of(contents.files[i].path)
    BY <1>2, <1>3, <1>4, <2>1
  <2> QED
    BY <1>1, <2>1, <2>2 DEF StandsIn
<1>8. \/ \E i \in DOMAIN contents.files :
           source = Source("file", contents.files[i].path, <<>>, NoBlock)
      \/ \E path \in DOMAIN contents.code : \E f \in ToSet(contents.code[path].functions) :
           source = Source("function", Extracted(p, path), <<f.from, f.to>>, NoBlock)
      \/ \E path \in DOMAIN contents.models : \E b \in BlocksOf(contents.models[path]) :
           source = Source("block", Extracted(p, path), <<>>, Placed(b))
  BY <1>1 DEF KeywordSources
<1> QED
  BY <1>5, <1>6, <1>7, <1>8
----------------------------------------------------------------------------
(* Who asks, and what the sessions hold. *)

\* Askers whose question is in the session, and whose answer is not.
Pending(s) == {a \in Askers : askers[a].session = s /\ askers[a].pc \in {"retrieve", "answer"}}

Cites(p, said) == \A n \in DOMAIN said : \A source \in said[n].citations : StandsIn(p, source)

AskerSteps == {"new", "open", "record", "retrieve", "answer", "answered"}

(* What asker k relies on: its project was ready, its session is one of the *)
(* project or gone with it, and what was found stands while the project     *)
(* does.                                                                    *)
AskerHolds(k) ==
  /\ k = [pc |-> k.pc, project |-> k.project, session |-> k.session, hits |-> k.hits]
  /\ k.pc \in AskerSteps
  /\ k.pc # "answered" => k.project \in Projects
  /\ k.pc \in {"new", "open"} => k.session \in Sessions \cup {NoSessionName}
  /\ k.pc \in {"open", "record", "retrieve", "answer"} =>
       Past(k.project) /\ archive[k.project] \in Readable
  /\ k.pc \in {"record", "retrieve", "answer"} =>
       k.session \in Sessions /\ sessions[k.session].project \in {k.project, "gone"}
  /\ k.pc = "answer" => RowGone(k.project) \/ \A h \in k.hits : StandsIn(k.project, h)

AskerInv ==
  /\ askers = [a \in Askers |-> askers[a]]
  /\ \A a \in Askers : AskerHolds(askers[a])

SessionHolds(s) ==
  LET p == sessions[s].project
      said == sessions[s].messages
  IN  \/ sessions[s] = NoSession
      \/ sessions[s] = GoneSession
      \/ /\ sessions[s] = [project |-> p, messages |-> said] /\ p \in Projects
         /\ rows[p].state = "ready" /\ Talk(said, Pending(s)) /\ Cites(p, said)

SessionInv ==
  /\ sessions = [s \in Sessions |-> sessions[s]]
  /\ \A s \in Sessions : SessionHolds(s)

LEMMA DoneHolds ==
  /\ AskerDone = [pc |-> "answered", project |-> "none", session |-> NoSessionName, hits |-> {}]
  /\ AskerHolds(AskerDone)
<1> DEFINE done == [pc |-> "answered", project |-> "none", session |-> NoSessionName, hits |-> {}]
<1>1. AskerDone = done
  BY DEF NewAsker, AskerDone
<1>2. done = [pc |-> done.pc, project |-> done.project, session |-> done.session, hits |-> done.hits]
  OBVIOUS
<1>3. done.pc = "answered"
  OBVIOUS
<1> HIDE DEF done
<1>4. AskerHolds(done)
  BY <1>2, <1>3 DEF AskerHolds, AskerSteps
<1> QED
  BY <1>1, <1>4 DEF done

LEMMA ChatInit == Init => AskerInv /\ SessionInv
<1> SUFFICES ASSUME NEW w \in Workloads,
                    sessions = [s \in Sessions |-> NoSession],
                    askers = [a \in Askers |-> IF a \in DOMAIN w.askers
                                THEN NewAsker(w.askers[a].project, w.askers[a].session)
                                ELSE AskerDone]
             PROVE  AskerInv /\ SessionInv
  BY DEF Init
<1>1. \A a \in DOMAIN w.askers :
        /\ w.askers[a].project \in Projects
        /\ w.askers[a].session \in Sessions \cup {NoSessionName}
  BY WorkloadsAssumption
<1>2. \A p \in Projects, s \in Sessions \cup {NoSessionName} : AskerHolds(NewAsker(p, s))
  BY DEF NewAsker, AskerHolds, AskerSteps
<1>3. AskerHolds(AskerDone)
  BY DoneHolds
<1>4. AskerInv
  BY <1>1, <1>2, <1>3 DEF AskerInv
<1>5. SessionInv
  BY DEF SessionInv, SessionHolds
<1> QED
  BY <1>4, <1>5

LEMMA AnswersHold == SessionInv => AnswersAreGrounded
<1> SUFFICES ASSUME SessionInv, NEW s \in Sessions, Exists(sessions[s])
             PROVE  LET p == sessions[s].project
                        said == sessions[s].messages
                        count(role, n) == Cardinality({k \in 1..n : said[k].role = role})
                    IN  /\ rows[p].state = "ready"
                        /\ \A n \in DOMAIN said :
                             /\ count("assistant", n) <= count("user", n)
                             /\ \A source \in said[n].citations : StandsIn(p, source)
  BY DEF AnswersAreGrounded
<1>1. SessionHolds(s)
  BY DEF SessionInv
<1>2. sessions[s] \notin {NoSession, GoneSession}
  BY DEF Exists
<1> DEFINE p == sessions[s].project
           said == sessions[s].messages
<1>3. rows[p].state = "ready" /\ Talk(said, Pending(s)) /\ Cites(p, said)
  BY <1>1, <1>2 DEF SessionHolds
<1> HIDE DEF p, said
<1>4. \A n \in DOMAIN said : /\ Count(said, "assistant", n) <= Count(said, "user", n)
                             /\ \A source \in said[n].citations : StandsIn(p, source)
  BY <1>3 DEF Talk, Cites
<1> QED
  BY <1>3, <1>4 DEF Count, p, said

\* Nobody writes to a session that was never made.
LEMMA NobodyWaits ==
  ASSUME AskerInv, NEW s \in Sessions, sessions[s] = NoSession
  PROVE  Pending(s) = {}
<1> SUFFICES ASSUME NEW a \in Pending(s) PROVE FALSE
  OBVIOUS
<1>1. a \in Askers /\ askers[a].session = s /\ askers[a].pc \in {"retrieve", "answer"}
  BY DEF Pending
<1>2. askers[a].project \in Projects /\ sessions[s].project \in {askers[a].project, "gone"}
  BY <1>1 DEF AskerInv, AskerHolds
<1>3. sessions[s].project = "none"
  BY DEF NoSession
<1> QED
  BY <1>2, <1>3, ProjectNames

----------------------------------------------------------------------------
(* What stays as it is when projects are deleted or indexed. *)

LEMMA GoneStays ==
  ASSUME IngestTyped, TaskInv, [Next]_vars, NEW p \in Projects, RowGone(p)
  PROVE  RowGone(p)'
<1>1. CASE IngestStep
  <2>1. CASE \E q \in Projects : Deletes(q)
    BY <2>1 DEF Deletes, DeleteRow, RowGone, IngestTyped
  <2>2. CASE Lives(p)
    BY <2>2 DEF Lives, RowGone
  <2> QED
    BY <1>1, <2>1, <2>2, RowsMove
<1>2. CASE Apart
  BY <1>2 DEF Apart, RowGone
<1>3. CASE Restart
  <2>1. rows' = rows /\ tasks'[p].pc # "none"
    BY <1>3 DEF RowGone, Restart, tables, NoTask, DoneTask
  <2> QED
    BY <2>1 DEF RowGone
<1> QED
  BY <1>1, <1>2, <1>3, Kinds

LEMMA ChunksStay ==
  ASSUME IngestTyped, TaskInv, IndexInv, [Next]_vars, NEW p \in Projects
  PROVE  chunks[p] \subseteq chunks'[p] \/ Deletes(p)
<1>1. CASE IngestStep
  <2>1. ASSUME NEW q \in Projects, Deletes(q) PROVE chunks[p] \subseteq chunks'[p] \/ Deletes(p)
    BY <2>1 DEF Deletes, DeleteRow, IndexInv
  <2>2. ASSUME NEW q \in Projects, Indexes(q) PROVE chunks[p] \subseteq chunks'[p]
    BY <2>2 DEF Indexes, AddChunks, IndexInv
  <2> QED
    BY <1>1, <2>1, <2>2, RowsMove
<1>2. CASE OverviewStep
  BY <1>2 DEF OverviewStep, ReaderStep, Open, Generate, IndexOverview, LoseIndexing, IndexInv
<1> QED
  BY <1>1, <1>2, Kinds DEF Restart, tables

LEMMA SourcesStay ==
  ASSUME IngestTyped, TaskInv, IndexInv, [Next]_vars, NEW p \in Projects
  PROVE  RowGone(p)' \/ \A source : StandsIn(p, source) => StandsIn(p, source)'
<1>1. Contents(p)' = Contents(p)
  BY Kinds DEF Contents
<1>2. CASE Deletes(p)
  BY <1>2 DEF Deletes, DeleteRow, RowGone, IngestTyped
<1>3. CASE chunks[p] \subseteq chunks'[p]
  BY <1>1, <1>3 DEF StandsIn
<1> QED
  BY <1>2, <1>3, ChunksStay

\* A session keeps its project until it goes with it.
SessionsKeep ==
  \A s \in Sessions :
    sessions[s] = NoSession \/ sessions'[s].project \in {sessions[s].project, "gone"}

LEMMA AskerStays ==
  ASSUME IngestTyped, TaskInv, IndexInv, [Next]_vars, SessionsKeep, NEW k, AskerHolds(k)
  PROVE  AskerHolds(k)'
<1>1. archive' = archive
  BY Kinds
<1>2. k.pc \in {"open", "record", "retrieve", "answer"} => Past(k.project)'
  BY PastStays DEF AskerHolds
<1>3. k.pc \in {"record", "retrieve", "answer"} => sessions'[k.session].project \in {k.project, "gone"}
  BY ProjectNames DEF AskerHolds, SessionsKeep, NoSession
<1>4. k.pc = "answer" => RowGone(k.project)' \/ \A h \in k.hits : StandsIn(k.project, h)'
  <2> SUFFICES ASSUME k.pc = "answer"
               PROVE  RowGone(k.project)' \/ \A h \in k.hits : StandsIn(k.project, h)'
    OBVIOUS
  <2>1. /\ k.project \in Projects
        /\ RowGone(k.project) \/ \A h \in k.hits : StandsIn(k.project, h)
    BY DEF AskerHolds
  <2>2. RowGone(k.project) => RowGone(k.project)'
    BY <2>1, GoneStays
  <2>3. RowGone(k.project)' \/ \A h : StandsIn(k.project, h) => StandsIn(k.project, h)'
    BY <2>1, SourcesStay
  <2> QED
    BY <2>1, <2>2, <2>3
<1> QED
  BY <1>1, <1>2, <1>3, <1>4 DEF AskerHolds
----------------------------------------------------------------------------
(* The steps of a request. *)

Moved(a, new) == askers' = [x \in Askers |-> IF x = a THEN new ELSE askers[x]]

To(k, pc) == [pc |-> pc, project |-> k.project, session |-> k.session, hits |-> k.hits]

Waits(k, s) == k.session = s /\ k.pc \in {"retrieve", "answer"}

LEMMA AskerMoves ==
  ASSUME AskerInv, NEW a \in Askers, NEW k, k = askers[a]
  PROVE  /\ AskerHolds(k)
         /\ \A pc : AskerTo(a, pc) => Moved(a, To(k, pc))
         /\ GiveUp(a) => Moved(a, AskerDone)
<1>1. AskerHolds(k) /\ askers = [x \in Askers |-> askers[x]]
  BY DEF AskerInv
<1>2. k = [pc |-> k.pc, project |-> k.project, session |-> k.session, hits |-> k.hits]
  BY <1>1 DEF AskerHolds
<1>3. ASSUME NEW pc, AskerTo(a, pc) PROVE Moved(a, To(k, pc))
  <2>1. askers' = [askers EXCEPT ![a] = [k EXCEPT !.pc = pc]]
    BY <1>3 DEF AskerTo
  <2>2. [k EXCEPT !.pc = pc] = To(k, pc)
    BY <1>2 DEF To
  <2> QED
    BY <1>1, <2>1, <2>2 DEF Moved
<1>4. GiveUp(a) => Moved(a, AskerDone)
  BY <1>1 DEF GiveUp, Moved
<1> QED
  BY <1>1, <1>3, <1>4

LEMMA PendingMoves ==
  ASSUME NEW a \in Askers, NEW new, Moved(a, new), NEW s
  PROVE  Pending(s)' = (Pending(s) \ {a}) \cup (IF Waits(new, s) THEN {a} ELSE {})
<1>1. \A x \in Askers : askers'[x] = IF x = a THEN new ELSE askers[x]
  BY DEF Moved
<1> QED
  BY <1>1 DEF Pending, Waits

\* What holds of a next asker by name holds of it in its place.
LEMMA HeldNext ==
  ASSUME NEW a, NEW k, k = askers'[a], AskerHolds(k)'
  PROVE  AskerHolds(askers[a])'
<1>1. /\ askers'[a] = [pc |-> askers'[a].pc, project |-> askers'[a].project,
                      session |-> askers'[a].session, hits |-> askers'[a].hits]
      /\ askers'[a].pc \in AskerSteps
      /\ askers'[a].pc # "answered" => askers'[a].project \in Projects
  BY DEF AskerHolds
<1>2. /\ askers'[a].pc \in {"new", "open"} => askers'[a].session \in Sessions \cup {NoSessionName}
      /\ askers'[a].pc \in {"record", "retrieve", "answer"} => askers'[a].session \in Sessions
  BY DEF AskerHolds
<1>3. askers'[a].pc \in {"record", "retrieve", "answer"} =>
        sessions'[askers'[a].session].project \in {askers'[a].project, "gone"}
  BY DEF AskerHolds
<1>4. askers'[a].pc \in {"open", "record", "retrieve", "answer"} =>
        Past(askers[a].project)' /\ archive'[askers'[a].project] \in Readable
  BY DEF AskerHolds, Past
<1>5. askers'[a].pc = "answer" =>
        RowGone(askers[a].project)' \/ \A h \in askers'[a].hits : StandsIn(askers[a].project, h)'
  <2>1. k.pc = "answer" => RowGone(k.project)' \/ \A h \in k.hits : StandsIn(k.project, h)'
    BY Zenon DEF AskerHolds
  <2>2. RowGone(k.project)' => RowGone(askers[a].project)'
    BY DEF RowGone
  <2>3. \A h : StandsIn(k.project, h)' => StandsIn(askers[a].project, h)'
    BY Zenon DEF StandsIn, Contents
  <2> QED
    BY <2>1, <2>2, <2>3
<1> QED
  BY <1>1, <1>2, <1>3, <1>4, <1>5 DEF AskerHolds

LEMMA AskersStay ==
  ASSUME IngestTyped, TaskInv, IndexInv, [Next]_vars, SessionsKeep, AskerInv,
         NEW a \in Askers, NEW new, Moved(a, new), AskerHolds(new)'
  PROVE  AskerInv'
<1>1. \A x \in Askers : AskerHolds(askers[x])
  BY DEF AskerInv
<1>2. ASSUME NEW x \in Askers PROVE AskerHolds(askers[x])'
  <2>1. PICK k : k = askers[x]
    OBVIOUS
  <2>2. AskerHolds(k)'
    BY <1>1, <2>1, AskerStays
  <2>3. PICK other : other = askers'[x]
    OBVIOUS
  <2>4. other = new \/ other = k
    BY <2>1, <2>3 DEF Moved
  <2>5. AskerHolds(other)'
    BY <2>2, <2>4
  <2> QED
    BY <2>3, <2>5, HeldNext
<1>3. askers' = [x \in Askers |-> askers'[x]]
  BY DEF Moved
<1> QED
  BY <1>2, <1>3 DEF AskerInv

LEMMA SessionStays ==
  ASSUME IngestTyped, TaskInv, IndexInv, [Next]_vars, NEW s \in Sessions, SessionHolds(s),
         sessions'[s] = sessions[s], Pending(s)' \subseteq Pending(s),
         NEW p, p = sessions[s].project,
         p \in Projects /\ rows[p].state = "ready" => rows'[p].state = "ready"
  PROVE  SessionHolds(s)'
<1>1. CASE sessions[s] = NoSession \/ sessions[s] = GoneSession
  BY <1>1 DEF SessionHolds
<1>2. CASE ~(sessions[s] = NoSession \/ sessions[s] = GoneSession)
  <2>1. PICK said : said = sessions[s].messages
    OBVIOUS
  <2>2. /\ sessions[s] = [project |-> p, messages |-> said] /\ p \in Projects
        /\ rows[p].state = "ready" /\ Talk(said, Pending(s)) /\ Cites(p, said)
    BY <1>2, <2>1 DEF SessionHolds
  <2>3. PICK few : few = Pending(s)'
    OBVIOUS
  <2>4. Talk(said, few)
    <3>1. few \in SUBSET Pending(s)
      BY <2>3
    <3> QED
      BY <2>2, <3>1, TalkGoesOn
  <2>5. Cites(p, said)'
    <3>1. ~RowGone(p)'
      BY <2>2 DEF RowGone, NoRow
    <3>2. \A source : StandsIn(p, source) => StandsIn(p, source)'
      BY <2>2, <3>1, SourcesStay
    <3> QED
      BY <2>2, <3>2 DEF Cites
  <2>6. (Talk(said, Pending(s)) /\ Cites(p, said))'
    BY <2>3, <2>4, <2>5
  <2> QED
    BY <2>1, <2>2, <2>6 DEF SessionHolds
<1> QED
  BY <1>1, <1>2

LEMMA SessionSpeaks ==
  ASSUME IngestTyped, TaskInv, IndexInv, [Next]_vars, Apart, chunks' = chunks,
         NEW s \in Sessions, SessionInv, NEW p, NEW said, NEW message, NEW then,
         sessions[s] = [project |-> p, messages |-> said], p \in Projects,
         rows[p].state = "ready", Cites(p, said),
         sessions' = [sessions EXCEPT ![s].messages = Append(@, message)],
         \A source \in message.citations : StandsIn(p, source),
         Pending(s)' = then, IsSequence(said), Talk(Append(said, message), then)
  PROVE  SessionHolds(s)'
<1> DEFINE more == Append(said, message)
<1>1. sessions'[s] = [project |-> p, messages |-> more]
  <2>1. PICK old : old = sessions[s]
    OBVIOUS
  <2>2. sessions'[s] = [old EXCEPT !.messages = Append(old.messages, message)]
    BY <2>1 DEF SessionInv
  <2>3. old = [project |-> p, messages |-> said]
    BY <2>1
  <2> QED
    BY <2>2, <2>3
<1>2. Contents(p)' = Contents(p) /\ rows' = rows
  BY DEF Apart, Contents
<1>3. \A source : StandsIn(p, source) => StandsIn(p, source)'
  BY <1>2 DEF StandsIn
<1>4. Cites(p, more)'
  <2>1. CountedOn(said, message, "user")
    BY CountsOn
  <2>2. /\ DOMAIN more = 1 .. Len(said) + 1
        /\ \A n \in 1 .. Len(said) : more[n] = said[n]
        /\ more[Len(said) + 1] = message
    BY <2>1 DEF CountedOn
  <2>3. DOMAIN said = 1 .. Len(said) /\ Len(said) \in Nat
    BY LengthOf
  <2> HIDE DEF more
  <2>4. ASSUME NEW n \in DOMAIN more, NEW source \in more[n].citations
        PROVE  StandsIn(p, source)
    <3>1. n \in 1 .. Len(said) \/ n = Len(said) + 1
      BY <2>2, <2>3
    <3> QED
      BY <2>2, <2>3, <2>4, <3>1 DEF Cites
  <2> QED
    BY <1>3, <2>4 DEF Cites
<1> HIDE DEF more
<1>5. (Talk(more, Pending(s)) /\ Cites(p, more))'
  BY <1>4 DEF more
<1>6. sessions'[s].project = p /\ sessions'[s].messages = more /\ rows'[p].state = "ready"
  BY <1>1, <1>2
<1> QED
  BY <1>1, <1>5, <1>6 DEF SessionHolds

\* What the invariants say together.
ChatSafe == IngestTyped /\ TaskInv /\ IndexInv /\ AskerInv /\ SessionInv

LEMMA Quietly ==
  ASSUME ChatSafe, [Next]_vars, Apart, chunks' = chunks, sessions' = sessions,
         NEW a \in Askers, NEW k, k = askers[a], NEW new, Moved(a, new), AskerHolds(new),
         \A s : Waits(new, s) => Waits(k, s)
  PROVE  AskerInv' /\ SessionInv'
<1> USE DEF ChatSafe
<1>1. SessionsKeep
  BY DEF SessionsKeep
<1>2. AskerHolds(new)'
  BY <1>1, AskerStays
<1>3. AskerInv'
  BY <1>1, <1>2, AskersStay
<1>4. ASSUME NEW s \in Sessions PROVE SessionHolds(s)'
  <2>1. Pending(s)' = (Pending(s) \ {a}) \cup (IF Waits(new, s) THEN {a} ELSE {})
    BY PendingMoves
  <2>2. Waits(k, s) => a \in Pending(s)
    BY DEF Waits, Pending
  <2>3. Pending(s)' \subseteq Pending(s)
    BY <2>1, <2>2
  <2>4. PICK p : p = sessions[s].project
    OBVIOUS
  <2>5. SessionHolds(s) /\ sessions'[s] = sessions[s] /\ rows' = rows
    BY DEF SessionInv, Apart
  <2> QED
    BY <2>3, <2>4, <2>5, SessionStays
<1>5. SessionInv'
  BY <1>4 DEF SessionInv
<1> QED
  BY <1>3, <1>5

\* Only session s changes, and it holds again.
LEMMA OneSession ==
  ASSUME ChatSafe, [Next]_vars, Apart, NEW s \in Sessions, SessionHolds(s)',
         sessions' = [t \in Sessions |-> sessions'[t]],
         \A t \in Sessions : t # s => sessions'[t] = sessions[t] /\ Pending(t)' \subseteq Pending(t)
  PROVE  SessionInv'
<1> USE DEF ChatSafe
<1>1. ASSUME NEW t \in Sessions, t # s PROVE SessionHolds(t)'
  <2>1. PICK p : p = sessions[t].project
    OBVIOUS
  <2>2. SessionHolds(t) /\ sessions'[t] = sessions[t] /\ rows' = rows /\ Pending(t)' \subseteq Pending(t)
    BY <1>1 DEF SessionInv, Apart
  <2> QED
    BY <2>1, <2>2, SessionStays
<1> QED
  BY <1>1 DEF SessionInv

\* A session that is there, and whose it is.
LEMMA ExistingSession ==
  ASSUME ChatSafe, NEW s \in Sessions, Exists(sessions[s]), NEW p, p = sessions[s].project,
         NEW said, said = sessions[s].messages
  PROVE  /\ sessions[s] = [project |-> p, messages |-> said] /\ p \in Projects
         /\ rows[p].state = "ready" /\ Talk(said, Pending(s)) /\ Cites(p, said)
         /\ p # "gone" /\ ~RowGone(p)
<1>1. SessionHolds(s)
  BY DEF ChatSafe, SessionInv
<1>2. /\ sessions[s] = [project |-> p, messages |-> said] /\ p \in Projects
      /\ rows[p].state = "ready" /\ Talk(said, Pending(s)) /\ Cites(p, said)
  BY <1>1 DEF SessionHolds, Exists
<1> QED
  BY <1>2, ProjectNames DEF RowGone, NoRow

\* A message of asker a is the last of session s.
LEMMA Speaks ==
  ASSUME ChatSafe, [Next]_vars, Apart, chunks' = chunks,
         NEW s \in Sessions, Exists(sessions[s]), NEW p, p = sessions[s].project, NEW said,
         said = sessions[s].messages, NEW message, NEW a \in Askers, NEW new, Moved(a, new),
         AskerHolds(new), \A t : t # s => ~Waits(new, t),
         sessions' = [sessions EXCEPT ![s].messages = Append(@, message)],
         \A source \in message.citations : StandsIn(p, source),
         Talk(Append(said, message), (Pending(s) \ {a}) \cup (IF Waits(new, s) THEN {a} ELSE {}))
  PROVE  AskerInv' /\ SessionInv'
<1>1. /\ sessions[s] = [project |-> p, messages |-> said] /\ p \in Projects
      /\ rows[p].state = "ready" /\ Talk(said, Pending(s)) /\ Cites(p, said)
  BY ExistingSession
<1>2. PICK then : then = (Pending(s) \ {a}) \cup (IF Waits(new, s) THEN {a} ELSE {})
  OBVIOUS
<1>3. Pending(s)' = then /\ Talk(Append(said, message), then)
  BY <1>2, PendingMoves
<1>4. IsSequence(said)
  BY <1>1 DEF Talk
<1>a. sessions = [t \in Sessions |-> sessions[t]]
  BY DEF ChatSafe, SessionInv
<1>5. SessionHolds(s)'
  BY <1>1, <1>3, <1>4, SessionSpeaks DEF ChatSafe
<1>6. /\ sessions' = [t \in Sessions |-> sessions'[t]]
      /\ \A t \in Sessions : t # s => sessions'[t] = sessions[t]
      /\ sessions'[s].project = p
  <2>1. PICK old : old = sessions[s]
    OBVIOUS
  <2>2. sessions'[s] = [old EXCEPT !.messages = Append(old.messages, message)]
    BY <1>a, <2>1
  <2>3. old = [project |-> p, messages |-> said]
    BY <1>1, <2>1
  <2>4. sessions'[s].project = p
    BY <2>2, <2>3
  <2> QED
    BY <1>a, <2>4
<1>7. SessionsKeep
  BY <1>1, <1>6 DEF SessionsKeep
<1>8. AskerInv'
  <2>1. AskerHolds(new)'
    BY <1>7, AskerStays DEF ChatSafe
  <2> QED
    BY <1>7, <2>1, AskersStay DEF ChatSafe
<1>9. ASSUME NEW t \in Sessions, t # s PROVE Pending(t)' \subseteq Pending(t)
  <2>1. Pending(t)' = (Pending(t) \ {a}) \cup (IF Waits(new, t) THEN {a} ELSE {})
    BY PendingMoves
  <2> QED
    BY <1>9, <2>1
<1>10. SessionInv'
  BY <1>5, <1>6, <1>9, OneSession
<1> QED
  BY <1>8, <1>10
----------------------------------------------------------------------------
(* Every step of the service keeps what askers and sessions hold. *)

LEMMA AskKeeps ==
  ASSUME ChatSafe, [Next]_vars, Apart, chunks' = chunks, sessions' = sessions,
         NEW a \in Askers, Ask(a) \/ LoseQuestion(a)
  PROVE  AskerInv' /\ SessionInv'
<1>1. PICK k : k = askers[a]
  OBVIOUS
<1>2. /\ AskerHolds(k)
      /\ \A pc : AskerTo(a, pc) => Moved(a, To(k, pc))
      /\ GiveUp(a) => Moved(a, AskerDone)
  BY <1>1, AskerMoves DEF ChatSafe
<1>3. CASE GiveUp(a)
  <2>1. AskerHolds(AskerDone) /\ \A s : ~Waits(AskerDone, s)
    BY DoneHolds DEF Waits
  <2> QED
    BY <1>1, <1>2, <1>3, <2>1, Quietly
<1>4. CASE Ask(a) /\ IsReady(askers[a].project)
  <2>1. PICK new : new = To(k, "open")
    OBVIOUS
  <2>2. Moved(a, new)
    BY <1>2, <1>4, <2>1 DEF Ask
  <2>3. /\ new = [pc |-> new.pc, project |-> new.project, session |-> new.session, hits |-> new.hits]
        /\ new.pc = "open" /\ new.project = k.project /\ new.session = k.session
    BY <2>1 DEF To
  <2>4. k.project \in Projects /\ k.session \in Sessions \cup {NoSessionName}
    BY <1>1, <1>2, <1>4 DEF Ask, AskerHolds
  <2>5. Past(k.project) /\ archive[k.project] \in Readable
    BY <1>1, <1>4, <2>4 DEF IsReady, Past, ChatSafe, TaskInv
  <2>6. AskerHolds(new)
    BY <2>3, <2>4, <2>5 DEF AskerHolds, AskerSteps
  <2>7. \A s : ~Waits(new, s)
    BY <2>3 DEF Waits
  <2> QED
    BY <1>1, <2>2, <2>6, <2>7, Quietly
<1> QED
  BY <1>3, <1>4 DEF Ask, LoseQuestion

\* Two fields of a request change.
LEMMA TwoFields ==
  ASSUME NEW k, NEW new,
         k = [pc |-> k.pc, project |-> k.project, session |-> k.session, hits |-> k.hits]
  PROVE  /\ [k EXCEPT !.pc = "answer", !.hits = new]
               = [pc |-> "answer", project |-> k.project, session |-> k.session, hits |-> new]
         /\ [k EXCEPT !.pc = "record", !.session = new]
               = [pc |-> "record", project |-> k.project, session |-> new, hits |-> k.hits]
<1>a. PICK c, p, s, h : c = k.pc /\ p = k.project /\ s = k.session /\ h = k.hits
  OBVIOUS
<1>b. k = [pc |-> c, project |-> p, session |-> s, hits |-> h]
  BY <1>a
<1>1. [k EXCEPT !.pc = "answer", !.hits = new] = [pc |-> "answer", project |-> p, session |-> s, hits |-> new]
  <2>1. PICK m : m = [k EXCEPT !.pc = "answer"]
    OBVIOUS
  <2>2. m = [pc |-> "answer", project |-> p, session |-> s, hits |-> h]
    BY <1>b, <2>1
  <2>3. [m EXCEPT !.hits = new] = [pc |-> "answer", project |-> p, session |-> s, hits |-> new]
    BY <2>2
  <2>4. [k EXCEPT !.pc = "answer", !.hits = new] = [m EXCEPT !.hits = new]
    BY <2>1
  <2> QED
    BY <2>3, <2>4
<1>2. [k EXCEPT !.pc = "record", !.session = new] = [pc |-> "record", project |-> p, session |-> new, hits |-> h]
  <2>1. PICK m : m = [k EXCEPT !.pc = "record"]
    OBVIOUS
  <2>2. m = [pc |-> "record", project |-> p, session |-> s, hits |-> h]
    BY <1>b, <2>1
  <2>3. [m EXCEPT !.session = new] = [pc |-> "record", project |-> p, session |-> new, hits |-> h]
    BY <2>2
  <2>4. [k EXCEPT !.pc = "record", !.session = new] = [m EXCEPT !.session = new]
    BY <2>1
  <2> QED
    BY <2>3, <2>4
<1> QED
  BY <1>1, <1>2, <1>a

LEMMA RetrieveKeeps ==
  ASSUME ChatSafe, [Next]_vars, Apart, chunks' = chunks, NEW a \in Askers, Retrieve(a)
  PROVE  AskerInv' /\ SessionInv'
<1>0. sessions' = sessions
  BY DEF Retrieve
<1>1. PICK k : k = askers[a]
  OBVIOUS
<1>2. AskerHolds(k) /\ (GiveUp(a) => Moved(a, AskerDone)) /\ askers = [x \in Askers |-> askers[x]]
  BY <1>1, AskerMoves DEF ChatSafe, AskerInv
<1>3. CASE GiveUp(a)
  <2>1. AskerHolds(AskerDone) /\ \A s : ~Waits(AskerDone, s)
    BY DoneHolds DEF Waits
  <2> QED
    BY <1>0, <1>1, <1>2, <1>3, <2>1, Quietly
<1>4. PICK p : p = k.project
  OBVIOUS
<1>5. /\ k.pc = "retrieve" /\ p \in Projects /\ Past(p) /\ archive[p] \in Readable
      /\ k.session \in Sessions /\ sessions[k.session].project \in {p, "gone"}
  BY <1>1, <1>2, <1>4 DEF Retrieve, AskerHolds
<1>6. ASSUME NEW hits, askers' = [askers EXCEPT ![a].pc = "answer", ![a].hits = hits],
             \A h \in hits : StandsIn(p, h)
      PROVE  AskerInv' /\ SessionInv'
  <2>1. PICK new : new = [pc |-> "answer", project |-> p, session |-> k.session, hits |-> hits]
    OBVIOUS
  <2>2. askers' = [askers EXCEPT ![a] = [k EXCEPT !.pc = "answer", !.hits = hits]]
    BY <1>1, <1>6
  <2>3. [k EXCEPT !.pc = "answer", !.hits = hits] = new
    <3>1. k = [pc |-> k.pc, project |-> k.project, session |-> k.session, hits |-> k.hits]
      BY <1>2 DEF AskerHolds
    <3>2. [k EXCEPT !.pc = "answer", !.hits = hits]
            = [pc |-> "answer", project |-> k.project, session |-> k.session, hits |-> hits]
      BY <3>1, TwoFields
    <3> QED
      BY <1>4, <2>1, <3>2
  <2>4. Moved(a, new)
    BY <1>2, <2>2, <2>3 DEF Moved
  <2>5. AskerHolds(new)
    BY <1>5, <1>6, <2>1 DEF AskerHolds, AskerSteps
  <2>6. \A s : Waits(new, s) => Waits(k, s)
    BY <1>5, <2>1 DEF Waits
  <2> QED
    BY <1>0, <1>1, <2>4, <2>5, <2>6, Quietly
<1>7. ASSUME NEW h \in VectorSources(p) PROVE StandsIn(p, h)
  <2>1. PICK c \in chunks[p] : h = Source(KindOfHit(c.kind), c.file, c.lines, c.block)
    BY DEF VectorSources
  <2>2. c # OverviewChunk => OfContents(Contents(p), c)
    BY <1>5 DEF ChatSafe, IndexInv
  <2> QED
    BY <1>5, <2>1, <2>2, ChunksStand
<1>8. ASSUME NEW h \in KeywordSourcesOf[p][archive[p]] PROVE StandsIn(p, h)
  <2>1. KeywordSourcesOf[p][archive[p]] = KeywordSources(p, Contents(p))
    BY <1>5 DEF KeywordSourcesOf, Contents
  <2> QED
    BY <1>5, <2>1, KeywordsStand
<1>9. CASE \E hits \in Nearest(p) : askers' = [askers EXCEPT ![a].pc = "answer", ![a].hits = hits]
  BY <1>6, <1>7, <1>9 DEF Nearest, Hits
<1>10. CASE \E hits \in Hits(KeywordSourcesOf[p][archive[p]]) :
              askers' = [askers EXCEPT ![a].pc = "answer", ![a].hits = hits]
  BY <1>6, <1>8, <1>10 DEF Hits
<1> QED
  BY <1>1, <1>3, <1>4, <1>9, <1>10 DEF Retrieve

LEMMA RecordKeeps ==
  ASSUME ChatSafe, [Next]_vars, Apart, chunks' = chunks, NEW a \in Askers, Record(a)
  PROVE  AskerInv' /\ SessionInv'
<1>1. PICK k : k = askers[a]
  OBVIOUS
<1>2. /\ AskerHolds(k)
      /\ \A pc : AskerTo(a, pc) => Moved(a, To(k, pc))
      /\ GiveUp(a) => Moved(a, AskerDone)
  BY <1>1, AskerMoves DEF ChatSafe
<1>3. CASE GiveUp(a) /\ sessions' = sessions
  <2>1. AskerHolds(AskerDone) /\ \A s : ~Waits(AskerDone, s)
    BY DoneHolds DEF Waits
  <2> QED
    BY <1>1, <1>2, <1>3, <2>1, Quietly
<1>4. PICK s : s = k.session
  OBVIOUS
<1>5. /\ k.pc = "record" /\ k.project \in Projects /\ Past(k.project)
      /\ archive[k.project] \in Readable
      /\ s \in Sessions /\ sessions[s].project \in {k.project, "gone"}
  BY <1>1, <1>2, <1>4 DEF Record, AskerHolds
<1>6. CASE Exists(sessions[s])
  <2>1. PICK p : p = sessions[s].project
    OBVIOUS
  <2>2. PICK said : said = sessions[s].messages
    OBVIOUS
  <2>3. PICK new : new = To(k, "retrieve")
    OBVIOUS
  <2>4. PICK message : message = Message("user", {})
    OBVIOUS
  <2>5. /\ sessions' = [sessions EXCEPT ![s].messages = Append(@, message)]
        /\ Moved(a, new)
    BY <1>1, <1>2, <1>4, <1>6, <2>3, <2>4 DEF Record
  <2>6. /\ new = [pc |-> new.pc, project |-> new.project, session |-> new.session, hits |-> new.hits]
        /\ new.pc = "retrieve" /\ new.project = k.project /\ new.session = s
    BY <1>4, <2>3 DEF To
  <2>7. AskerHolds(new)
    BY <1>5, <2>6 DEF AskerHolds, AskerSteps
  <2>8. Waits(new, s) /\ \A t : t # s => ~Waits(new, t)
    BY <2>6 DEF Waits
  <2>9. Talk(said, Pending(s)) /\ a \notin Pending(s)
    <3>1. Talk(said, Pending(s))
      BY <1>5, <1>6, <2>1, <2>2, ExistingSession
    <3>2. a \notin Pending(s)
      BY <1>1, <1>5 DEF Pending
    <3> QED
      BY <3>1, <3>2
  <2>10. Talk(Append(said, message), Pending(s) \cup {a})
    BY <2>4, <2>9, TalkGoesOn
  <2>11. (Pending(s) \ {a}) \cup (IF Waits(new, s) THEN {a} ELSE {}) = Pending(s) \cup {a}
    BY <2>8
  <2>12. message.citations = {}
    BY <2>4 DEF Message
  <2>13. Talk(Append(said, message), (Pending(s) \ {a}) \cup (IF Waits(new, s) THEN {a} ELSE {}))
    BY <2>10, <2>11
  <2> QED
    BY <1>5, <1>6, <2>1, <2>2, <2>5, <2>7, <2>8, <2>12, <2>13, Speaks
<1> QED
  BY <1>1, <1>3, <1>4, <1>6 DEF Record

LEMMA AnswerKeeps ==
  ASSUME ChatSafe, [Next]_vars, Apart, chunks' = chunks, NEW a \in Askers, Answer(a)
  PROVE  AskerInv' /\ SessionInv'
<1>1. PICK k : k = askers[a]
  OBVIOUS
<1>2. AskerHolds(k) /\ (GiveUp(a) => Moved(a, AskerDone))
  BY <1>1, AskerMoves DEF ChatSafe
<1>3. AskerHolds(AskerDone) /\ \A s : ~Waits(AskerDone, s)
  BY DoneHolds DEF Waits
<1>4. CASE GiveUp(a) /\ sessions' = sessions
  BY <1>1, <1>2, <1>3, <1>4, Quietly
<1>5. PICK s : s = k.session
  OBVIOUS
<1>6. /\ k.pc = "answer" /\ s \in Sessions /\ sessions[s].project \in {k.project, "gone"}
      /\ RowGone(k.project) \/ \A h \in k.hits : StandsIn(k.project, h)
  BY <1>1, <1>2, <1>5 DEF Answer, AskerHolds
<1>7. ASSUME Exists(sessions[s]), NEW cited \in SUBSET k.hits, AppendAnswer(a, cited)
      PROVE  AskerInv' /\ SessionInv'
  <2>1. PICK p : p = sessions[s].project
    OBVIOUS
  <2>2. PICK said : said = sessions[s].messages
    OBVIOUS
  <2>3. PICK message : message = Message("assistant", cited)
    OBVIOUS
  <2>4. /\ sessions' = [sessions EXCEPT ![s].messages = Append(@, message)]
        /\ Moved(a, AskerDone)
    BY <1>1, <1>2, <1>5, <1>7, <2>3 DEF AppendAnswer
  <2>5. Talk(said, Pending(s)) /\ p # "gone" /\ ~RowGone(p)
    BY <1>6, <1>7, <2>1, <2>2, ExistingSession
  <2>6. a \in Pending(s)
    BY <1>1, <1>5, <1>6 DEF Pending
  <2>7. Talk(Append(said, message), Pending(s) \ {a})
    BY <2>3, <2>5, <2>6, TalkGoesOn
  <2>8. Talk(Append(said, message), (Pending(s) \ {a}) \cup (IF Waits(AskerDone, s) THEN {a} ELSE {}))
    <3>1. (Pending(s) \ {a}) \cup (IF Waits(AskerDone, s) THEN {a} ELSE {}) = Pending(s) \ {a}
      BY <1>3
    <3> QED
      BY <2>7, <3>1
  <2>9. \A source \in message.citations : StandsIn(p, source)
    <3>1. message.citations = cited
      BY <2>3 DEF Message
    <3>2. p = k.project
      BY <1>6, <2>1, <2>5
    <3> QED
      BY <1>6, <1>7, <2>5, <3>1, <3>2
  <2> QED
    BY <1>3, <1>6, <1>7, <2>1, <2>2, <2>4, <2>8, <2>9, Speaks
<1>8. ASSUME NEW cited \in SUBSET k.hits, AppendAnswer(a, cited) PROVE AskerInv' /\ SessionInv'
  <2>1. CASE ~Exists(sessions[s])
    BY <1>1, <1>4, <1>5, <1>8, <2>1 DEF AppendAnswer
  <2> QED
    BY <1>7, <1>8, <2>1
<1> QED
  BY <1>1, <1>4, <1>8 DEF Answer

\* A session that is made is empty, and its first message is the one that comes.
LEMMA NewSession ==
  ASSUME ChatSafe, [Next]_vars, Apart, chunks' = chunks, NEW a \in Askers, askers[a].pc = "open",
         NEW p, p = askers[a].project, rows[p] # NoRow, NEW s \in Sessions, sessions[s] = NoSession,
         sessions' = [sessions EXCEPT ![s].project = p],
         askers' = [askers EXCEPT ![a].pc = "record", ![a].session = s]
  PROVE  AskerInv' /\ SessionInv'
<1>1. PICK k : k = askers[a]
  OBVIOUS
<1>2. AskerHolds(k) /\ askers = [x \in Askers |-> askers[x]]
  BY <1>1, AskerMoves DEF ChatSafe, AskerInv
<1>3. p \in Projects /\ Past(p) /\ archive[p] \in Readable /\ rows[p].state = "ready"
  BY <1>1, <1>2 DEF AskerHolds, Past, RowGone
<1>4. PICK new : new = [pc |-> "record", project |-> p, session |-> s, hits |-> k.hits]
  OBVIOUS
<1>5. Moved(a, new)
  <2>1. askers' = [askers EXCEPT ![a] = [k EXCEPT !.pc = "record", !.session = s]]
    BY <1>1
  <2>2. k = [pc |-> k.pc, project |-> k.project, session |-> k.session, hits |-> k.hits]
    BY <1>2 DEF AskerHolds
  <2>3. [k EXCEPT !.pc = "record", !.session = s]
          = [pc |-> "record", project |-> k.project, session |-> s, hits |-> k.hits]
    BY <2>2, TwoFields
  <2>4. [k EXCEPT !.pc = "record", !.session = s] = new
    BY <1>1, <1>4, <2>3
  <2> QED
    BY <1>2, <2>1, <2>4 DEF Moved
<1>6. /\ sessions = [t \in Sessions |-> sessions[t]]
      /\ sessions'[s] = [project |-> p, messages |-> <<>>]
      /\ \A t \in Sessions : t # s => sessions'[t] = sessions[t]
      /\ sessions' = [t \in Sessions |-> sessions'[t]]
  <2>1. sessions = [t \in Sessions |-> sessions[t]]
    BY DEF ChatSafe, SessionInv
  <2>2. PICK old : old = sessions[s]
    OBVIOUS
  <2>3. sessions' = [sessions EXCEPT ![s] = [old EXCEPT !.project = p]]
    BY <2>2
  <2>4. old = [project |-> "none", messages |-> <<>>]
    BY <2>2 DEF NoSession
  <2>5. [old EXCEPT !.project = p] = [project |-> p, messages |-> <<>>]
    BY <2>4
  <2> QED
    BY <2>1, <2>3, <2>5
<1>7. SessionsKeep
  BY <1>6 DEF SessionsKeep
<1>8. archive' = archive /\ Past(p)' /\ rows' = rows
  BY <1>3, PastStays, Kinds DEF ChatSafe, Apart
<1>9. AskerHolds(new)'
  <2>1. /\ new = [pc |-> new.pc, project |-> new.project, session |-> new.session, hits |-> new.hits]
        /\ new.pc = "record" /\ new.project = p /\ new.session = s
    BY <1>4
  <2>2. sessions'[s].project = p
    BY <1>6
  <2> QED
    BY <1>3, <1>8, <2>1, <2>2 DEF AskerHolds, AskerSteps, Past, RowGone
<1>10. AskerInv'
  BY <1>5, <1>7, <1>9, AskersStay DEF ChatSafe
<1>11. ASSUME NEW t PROVE Pending(t)' \subseteq Pending(t)
  <2>1. Pending(t)' = (Pending(t) \ {a}) \cup (IF Waits(new, t) THEN {a} ELSE {})
    BY <1>5, PendingMoves
  <2>2. ~Waits(new, t)
    BY <1>4 DEF Waits
  <2> QED
    BY <2>1, <2>2
<1>12. SessionHolds(s)'
  <2>1. Pending(s)' = {}
    BY <1>11, NobodyWaits DEF ChatSafe
  <2>2. Talk(<<>>, {})
    <3>1. IsFiniteSet({}) /\ Cardinality({}) = 0
      BY FS_EmptySet
    <3>2. <<>> \in Seq({}) /\ Len(<<>>) = 0 /\ DOMAIN <<>> = {}
      OBVIOUS
    <3>3. IsSequence(<<>>)
      BY <3>2, AnySequence
    <3>4. Count(<<>>, "assistant", 0) = 0 /\ Count(<<>>, "user", 0) = 0
      <4>1. \A role : {n \in 1 .. 0 : <<>>[n].role = role} = {}
        OBVIOUS
      <4> QED
        BY <3>1, <4>1 DEF Count
    <3> QED
      BY <3>1, <3>2, <3>3, <3>4 DEF Talk
  <2>3. Cites(p, <<>>)'
    BY DEF Cites
  <2>4. (Talk(<<>>, Pending(s)) /\ Cites(p, <<>>))'
    BY <2>1, <2>2, <2>3
  <2>5. sessions'[s].project = p /\ sessions'[s].messages = <<>> /\ rows'[p].state = "ready"
    BY <1>3, <1>6, <1>8
  <2> QED
    BY <1>3, <1>6, <2>4, <2>5 DEF SessionHolds
<1>13. SessionInv'
  BY <1>6, <1>11, <1>12, OneSession
<1> QED
  BY <1>10, <1>13

LEMMA OpenKeeps ==
  ASSUME ChatSafe, [Next]_vars, Apart, chunks' = chunks, NEW a \in Askers, OpenSession(a)
  PROVE  AskerInv' /\ SessionInv'
<1>1. PICK k : k = askers[a]
  OBVIOUS
<1>2. /\ AskerHolds(k)
      /\ \A pc : AskerTo(a, pc) => Moved(a, To(k, pc))
      /\ GiveUp(a) => Moved(a, AskerDone)
  BY <1>1, AskerMoves DEF ChatSafe
<1>3. CASE GiveUp(a) /\ sessions' = sessions
  <2>1. AskerHolds(AskerDone) /\ \A s : ~Waits(AskerDone, s)
    BY DoneHolds DEF Waits
  <2> QED
    BY <1>1, <1>2, <1>3, <2>1, Quietly
<1>4. CASE /\ k.session # NoSessionName /\ sessions[k.session].project = k.project
           /\ AskerTo(a, "record") /\ sessions' = sessions
  <2>1. PICK new : new = To(k, "record")
    OBVIOUS
  <2>2. Moved(a, new)
    BY <1>2, <1>4, <2>1
  <2>3. /\ new = [pc |-> new.pc, project |-> new.project, session |-> new.session, hits |-> new.hits]
        /\ new.pc = "record" /\ new.project = k.project /\ new.session = k.session
    BY <2>1 DEF To
  <2>4. /\ k.project \in Projects /\ k.session \in Sessions
        /\ Past(k.project) /\ archive[k.project] \in Readable
    BY <1>1, <1>2, <1>4 DEF OpenSession, AskerHolds
  <2>5. AskerHolds(new)
    BY <1>4, <2>3, <2>4 DEF AskerHolds, AskerSteps
  <2>6. \A s : ~Waits(new, s)
    BY <2>3 DEF Waits
  <2> QED
    BY <1>1, <1>4, <2>2, <2>5, <2>6, Quietly
<1> QED
  BY <1>1, <1>3, <1>4, NewSession DEF OpenSession

\* Askers stay as they are or are done.
LEMMA AllAskersStay ==
  ASSUME ChatSafe, [Next]_vars, SessionsKeep, askers' = [x \in Askers |-> askers'[x]],
         \A x \in Askers : askers'[x] = askers[x] \/ askers'[x] = AskerDone
  PROVE  AskerInv'
<1>1. ASSUME NEW x \in Askers PROVE AskerHolds(askers[x])'
  <2>1. PICK k : k = askers'[x]
    OBVIOUS
  <2>2. AskerHolds(k)
    <3>1. k = askers[x] \/ k = AskerDone
      BY <2>1
    <3> QED
      BY <3>1, DoneHolds DEF ChatSafe, AskerInv
  <2>3. AskerHolds(k)'
    BY <2>2, AskerStays DEF ChatSafe
  <2> QED
    BY <2>1, <2>3, HeldNext
<1> QED
  BY <1>1 DEF AskerInv

\* The askers stay as they are, and no project that is ready changes.
LEMMA OthersKeep ==
  ASSUME ChatSafe, [Next]_vars, askers' = askers, sessions' = sessions,
         \A p \in Projects : rows[p].state = "ready" => rows'[p].state = "ready"
  PROVE  AskerInv' /\ SessionInv'
<1> USE DEF ChatSafe
<1>1. SessionsKeep
  BY DEF SessionsKeep
<1>2. AskerInv'
  BY <1>1, AllAskersStay DEF AskerInv
<1>3. ASSUME NEW s \in Sessions PROVE SessionHolds(s)'
  <2>1. PICK p : p = sessions[s].project
    OBVIOUS
  <2>2. SessionHolds(s) /\ sessions'[s] = sessions[s] /\ Pending(s)' \subseteq Pending(s)
    BY DEF SessionInv, Pending
  <2> QED
    BY <2>1, <2>2, SessionStays
<1> QED
  BY <1>2, <1>3 DEF SessionInv

LEMMA DeletionKeeps ==
  ASSUME ChatSafe, [Next]_vars, askers' = askers, NEW q \in Projects, Deletes(q)
  PROVE  AskerInv' /\ SessionInv'
<1> USE DEF ChatSafe
<1>0. /\ rows' = [rows EXCEPT ![q] = NoRow]
      /\ sessions' = [s \in Sessions |-> IF sessions[s].project = q THEN GoneSession ELSE sessions[s]]
  BY DEF Deletes, DeleteRow
<1>1. SessionsKeep
  BY <1>0 DEF SessionsKeep, GoneSession
<1>2. AskerInv'
  BY <1>1, AllAskersStay DEF AskerInv
<1>3. ASSUME NEW s \in Sessions PROVE SessionHolds(s)'
  <2>1. PICK p : p = sessions[s].project
    OBVIOUS
  <2>2. CASE p = q
    <3>1. sessions'[s] = GoneSession
      BY <1>0, <2>1, <2>2
    <3> QED
      BY <3>1 DEF SessionHolds
  <2>3. CASE p # q
    <3>1. SessionHolds(s) /\ sessions'[s] = sessions[s] /\ Pending(s)' \subseteq Pending(s)
      BY <1>0, <2>1, <2>3 DEF SessionInv, Pending
    <3>2. p \in Projects /\ rows[p].state = "ready" => rows'[p].state = "ready"
      BY <1>0, <2>3 DEF IngestTyped
    <3> QED
      BY <2>1, <3>1, <3>2, SessionStays
  <2> QED
    BY <2>2, <2>3
<1> QED
  BY <1>0, <1>2, <1>3 DEF SessionInv

LEMMA RestartEndsQuestions ==
  ASSUME ChatSafe, [Next]_vars, Restart, ForgetAskers
  PROVE  AskerInv' /\ SessionInv'
<1> USE DEF ChatSafe
<1>0. sessions' = sessions /\ rows' = rows /\ askers' = [a \in Askers |-> AskerDone]
  BY DEF Restart, tables, ForgetAskers
<1>1. SessionsKeep
  BY <1>0 DEF SessionsKeep
<1>2. AskerInv'
  BY <1>0, <1>1, AllAskersStay
<1>3. ASSUME NEW s \in Sessions PROVE SessionHolds(s)'
  <2>1. PICK p : p = sessions[s].project
    OBVIOUS
  <2>2. Pending(s)' \subseteq Pending(s)
    BY <1>0, DoneHolds DEF Pending
  <2> QED
    BY <1>0, <2>1, <2>2, SessionStays DEF SessionInv
<1> QED
  BY <1>0, <1>2, <1>3 DEF SessionInv

LEMMA ChatNext ==
  ASSUME ChatSafe, [Next]_vars
  PROVE  AskerInv' /\ SessionInv'
<1>1. CASE IngestStep /\ UNCHANGED askers
  <2>1. CASE \E q \in Projects : Deletes(q)
    BY <1>1, <2>1, DeletionKeeps
  <2>2. CASE sessions' = sessions /\ \A q \in Projects : Lives(q)
    <3>1. \A q \in Projects : rows[q].state = "ready" => rows'[q].state = "ready"
      BY <2>2 DEF Lives
    <3> QED
      BY <1>1, <2>2, <3>1, OthersKeep
  <2> QED
    BY <1>1, <2>1, <2>2, RowsMove DEF ChatSafe
<1>2. CASE Apart /\ UNCHANGED <<sessions, askers>>
  BY <1>2, OthersKeep DEF Apart
<1>3. CASE Apart /\ ChatStep /\ UNCHANGED chunks
  <2>1. ASSUME NEW a \in Askers, Ask(a) \/ LoseQuestion(a) PROVE AskerInv' /\ SessionInv'
    BY <1>3, <2>1, AskKeeps DEF Ask, LoseQuestion
  <2> QED
    BY <1>3, <2>1, OpenKeeps, RecordKeeps, RetrieveKeeps, AnswerKeeps DEF ChatStep, AskerStep
<1>4. CASE Restart /\ ForgetAskers
  BY <1>4, RestartEndsQuestions
<1> QED
  BY <1>1, <1>2, <1>3, <1>4, Kinds DEF tables

(* Deletions that cut into a conversation and questions of one session side *)
(* by side included, a conversation is about one project that is still      *)
(* there and ready, what an answer cites is in that project, and there are  *)
(* never more answers than questions.                                       *)
THEOREM AnswersAlwaysGrounded == Spec => []AnswersAreGrounded
<1> DEFINE Inv == OverviewInv /\ PastReady /\ IndexInv /\ AskerInv /\ SessionInv
<1>1. Init => Inv
  BY OverviewInit, IndexInit, ChatInit
<1>2. ServiceInv /\ Inv /\ [Next]_vars => Inv'
  BY OverviewNext, PastReadyNext, IndexNext, ChatNext DEF ServiceInv, ChatSafe
<1>3. Inv => AnswersAreGrounded
  BY AnswersHold
<1> QED
  BY <1>1, <1>2, <1>3, ServiceInductive, PTL DEF Spec
=============================================================================
