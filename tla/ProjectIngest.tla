---------------------------- MODULE ProjectIngest ----------------------------
(* The upload of a project: a row is made and a background task extracts    *)
(* the archive into a directory, parses it, marks the row and indexes the   *)
(* chunks; a worker deletes what is past its time to live.                  *)
(*                                                                          *)
(* A statement of the database may find it busy and a directory may resist  *)
(* being deleted: each of these, and a crash, is a fault, of which there is *)
(* a bounded number left.                                                   *)
EXTENDS ProjectStore

VARIABLES
  dirs,       \* projects whose directory exists
  tasks,      \* background task of each project: [pc, code, onDisk]
  writers,    \* projects whose extraction was given up and may still write
  sweep,      \* the worker: [pc, todo, project]
  faults      \* [left, met]: faults that may come, whether one has come

ingestVars == <<dirs, tasks, writers, sweep, faults>>

NoTask == [pc |-> "none", code |-> Fine, onDisk |-> FALSE]
DoneTask == [pc |-> "done", code |-> Fine, onDisk |-> FALSE]
IdleSweep == [pc |-> "idle", todo |-> {}, project |-> "none"]

Fault == faults.left > 0 /\ faults' = [left |-> faults.left - 1, met |-> TRUE]
NoFault == UNCHANGED faults

Goto(p, pc) == tasks' = [tasks EXCEPT ![p].pc = pc]
FailWith(p, code) == tasks' = [tasks EXCEPT ![p].pc = "fail", ![p].code = code]

----------------------------------------------------------------------------
(* The upload is answered as soon as the row is there.                      *)
Upload(p) ==
  /\ tasks[p] = NoTask
  /\ CreatePending(p)
  /\ Goto(p, "mkdir")
  /\ UNCHANGED <<dirs, writers, sweep, faults>>

MakeDirectory(p) ==
  /\ tasks[p].pc = "mkdir"
  /\ \/ Goto(p, "extract") /\ dirs' = dirs \cup {p} /\ NoFault
     \/ FailWith(p, "internal_error") /\ UNCHANGED dirs /\ Fault
  /\ UNCHANGED <<tables, writers, sweep>>

Extract(p) ==
  /\ tasks[p].pc = "extract"
  /\ LET fault == ArchiveFault(Archives[archive[p]].entries, Limits)
     IN  IF fault = Fine THEN Goto(p, "parse") ELSE FailWith(p, fault)
  /\ UNCHANGED <<tables, dirs, writers, sweep, faults>>

(* An extraction that takes too long is given up; its thread goes on until  *)
(* it next looks at the clock.                                              *)
GiveUpExtraction(p) ==
  /\ tasks[p].pc = "extract"
  /\ FailWith(p, "project_too_large")
  /\ writers' = writers \cup {p}
  /\ UNCHANGED <<tables, dirs, sweep, faults>>

WriteLate(p) ==
  /\ p \in writers
  /\ dirs' = dirs \cup {p}
  /\ UNCHANGED <<tables, tasks, writers, sweep, faults>>

StopWriting(p) ==
  /\ p \in writers
  /\ writers' = writers \ {p}
  /\ UNCHANGED <<tables, dirs, tasks, sweep, faults>>

(* Every Simulink and MATLAB file must parse.                               *)
Parse(p) ==
  /\ tasks[p].pc = "parse"
  /\ IF Archives[archive[p]].broken THEN FailWith(p, "parse_error") ELSE Goto(p, "mark")
  /\ UNCHANGED <<tables, dirs, writers, sweep, faults>>

MarkReady(p) ==
  /\ tasks[p].pc = "mark"
  /\ \/ MarkRow(p, "ready", Fine) /\ Goto(p, "draft") /\ NoFault
     \/ /\ rows[p].state # "parsing"
        /\ FailWith(p, "internal_error") /\ NoFault /\ UNCHANGED tables
     \/ FailWith(p, "internal_error") /\ Fault /\ UNCHANGED tables
  /\ UNCHANGED <<dirs, writers, sweep>>

(* If the failure cannot be recorded, the directory is left as well.        *)
MarkFailed(p) ==
  /\ tasks[p].pc = "fail"
  /\ \/ MarkRow(p, "failed", tasks[p].code) /\ Goto(p, "rmdir") /\ NoFault
     \/ /\ rows[p].state # "parsing"
        /\ Goto(p, "done") /\ NoFault /\ UNCHANGED tables
     \/ Goto(p, "done") /\ Fault /\ UNCHANGED tables
  /\ UNCHANGED <<dirs, writers, sweep>>

RemoveDirectory(p) ==
  /\ tasks[p].pc = "rmdir"
  /\ \/ dirs' = dirs \ {p} /\ NoFault
     \/ UNCHANGED dirs /\ Fault
  /\ Goto(p, "done")
  /\ UNCHANGED <<tables, writers, sweep>>

(* C files are read again when the chunks are drafted.                      *)
Draft(p) ==
  /\ tasks[p].pc = "draft"
  /\ tasks' = [tasks EXCEPT
                 ![p].pc = IF HasChunkInputs(Contents(p)) /\ HasGraph(Contents(p))
                           THEN "add" ELSE "done",
                 ![p].onDisk = p \in dirs]
  /\ UNCHANGED <<tables, dirs, writers, sweep, faults>>

(* Whatever goes wrong with the index leaves the project ready.             *)
Index(p) ==
  /\ tasks[p].pc = "add"
  /\ LET drafts == DraftsOf[p][archive[p]][tasks[p].onDisk]
     IN  \/ CanAddChunks(p, drafts) /\ AddChunks(p, drafts) /\ NoFault
         \/ ~CanAddChunks(p, drafts) /\ UNCHANGED tables /\ NoFault
         \/ UNCHANGED tables /\ Fault
  /\ Goto(p, "done")
  /\ UNCHANGED <<dirs, writers, sweep>>

----------------------------------------------------------------------------
(* The time to live, and the worker that goes round.  Extraction and        *)
(* parsing take seconds, the time to live is hours; indexing may take long. *)

Age(p) ==
  /\ rows[p] # NoRow /\ Archives[archive[p]].lasts /\ p \notin aged
  /\ tasks[p].pc \notin {"mkdir", "extract", "parse"}
  /\ aged' = aged \cup {p}
  /\ UNCHANGED <<rows, chunks, sessions, units, dirs, tasks, writers, sweep, faults>>

ListExpired ==
  /\ sweep = IdleSweep
  /\ aged # {}
  /\ \/ sweep' = [IdleSweep EXCEPT !.pc = "next", !.todo = aged] /\ NoFault
     \/ UNCHANGED sweep /\ Fault
  /\ UNCHANGED <<tables, dirs, tasks, writers>>

SweepDirectory(p) ==
  /\ sweep.pc = "next" /\ p \in sweep.todo
  /\ sweep' = [pc |-> "delete", todo |-> sweep.todo \ {p}, project |-> p]
  /\ \/ dirs' = dirs \ {p} /\ NoFault
     \/ p \in dirs /\ UNCHANGED dirs /\ Fault
  /\ UNCHANGED <<tables, tasks, writers>>

SweepRow(p) ==
  /\ sweep.pc = "delete" /\ sweep.project = p
  /\ \/ DeleteRow(p) /\ NoFault
     \/ UNCHANGED tables /\ Fault
  /\ sweep' = IF sweep.todo = {} THEN IdleSweep
              ELSE [sweep EXCEPT !.pc = "next", !.project = "none"]
  /\ UNCHANGED <<dirs, tasks, writers>>

(* A restart forgets the tasks and the worker's round.                      *)
Restart ==
  /\ Fault
  /\ tasks' = [p \in Projects |-> IF tasks[p] = NoTask THEN NoTask ELSE DoneTask]
  /\ writers' = {}
  /\ sweep' = IdleSweep
  /\ UNCHANGED <<tables, dirs>>

ProcessStep(p) ==
  \/ MakeDirectory(p) \/ Extract(p) \/ Parse(p) \/ MarkReady(p)
  \/ MarkFailed(p) \/ RemoveDirectory(p) \/ Draft(p) \/ Index(p)

WorkerStep == ListExpired \/ \E p \in Projects : SweepDirectory(p) \/ SweepRow(p)

IngestStep ==
  \/ WorkerStep
  \/ \E p \in Projects :
       \/ Upload(p) \/ ProcessStep(p) \/ GiveUpExtraction(p)
       \/ WriteLate(p) \/ StopWriting(p) \/ Age(p)

----------------------------------------------------------------------------
(* What the index says of a project is true of its files: it belongs to a   *)
(* project that is still there, every chunk names a file of it, a range of  *)
(* lines inside that file, which no other chunk of that file cuts into, or  *)
(* a block of that model, and every construct of an indexed source is in    *)
(* some chunk.                                                              *)
WithinFile(p, chunk) ==
  LET contents == Contents(p)
      length == IF chunk.kind = "m_function"
                THEN Len(contents.code[chunk.file].lines)
                ELSE Max({1, Len(contents.sources[chunk.file])})
  IN  1 <= chunk.lines[1] /\ chunk.lines[1] <= chunk.lines[2] /\ chunk.lines[2] <= length

Disjoint(c, d) == c.lines[2] < d.lines[1] \/ d.lines[2] < c.lines[1]

OpensSection(shape) ==
  shape \in {"#include", "#define", "typedef {", "typedef ;", "function", "function {"}

IndexMatchesTheFiles ==
  \A p \in Projects :
    LET ranged == {c \in chunks[p] : c.lines # <<>>}
    IN  /\ chunks[p] # {} => rows[p].state = "ready"
        /\ \A c \in chunks[p] \ {OverviewChunk} :
             /\ \E i \in DOMAIN Contents(p).files : Contents(p).files[i].path = c.file
             /\ c.kind = "slx_block" =>
                  \E b \in BlocksOf(Contents(p).models[c.file]) :
                    b.id = c.id[3] /\ b.name = c.block.name /\ b.parent = c.block.parent
        /\ \A c \in ranged :
             /\ WithinFile(p, c)
             /\ \A d \in ranged : c # d /\ c.file = d.file => Disjoint(c, d)
        /\ \A file \in {c.file : c \in {d \in ranged : d.kind = "c_file"}} :
             \A k \in DOMAIN Contents(p).sources[file] :
               OpensSection(Contents(p).sources[file][k]) =>
                 \E c \in ranged : c.file = file /\ k \in c.lines[1]..c.lines[2]

(* Every node of the graph is in a file: what it belongs to leads there.    *)
EveryNodeIsContained ==
  \A p \in {q \in Projects : tasks[q].pc = "draft"} :
    LET nodes == Graph(p).nodes
        belongs == {e \in Graph(p).edges : e.type = "BELONGS_TO"}
        files == {n \in nodes : n.type \in {"FILE_M", "FILE_SLX"}}
        up(inside, n) == inside \cup {e.from : e \in {k \in belongs : k.to \in inside}}
    IN  FoldLeft(up, files, [n \in 1..Cardinality(nodes) |-> n]) = nodes
=============================================================================
