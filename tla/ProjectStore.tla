---------------------------- MODULE ProjectStore ----------------------------
(* The tables a project owns: its status row, its chunks, its chat sessions *)
(* with their messages and its teaching units.  Deleting the row deletes    *)
(* the rest with it.                                                        *)
EXTENDS ProjectChunks, ZipArchives

CONSTANTS Projects,       \* the projects that are uploaded
          Sessions,       \* names of chat sessions
          UnitKeys,       \* <<project, target, level>> of teaching units
          Archives,       \* of each name, an archive: [entries, code, models, sources,
                          \* broken, lasts], what is listed in it and what is in
                          \* that, whether a file does not parse, and whether the
                          \* project stays until its time to live is over
          Limits,         \* what the archives may be
          MaxSections,    \* sections kept of one script
          ShortHeader     \* lines of a header that is not cut up

VARIABLES
  archive,    \* of each project, the name of the archive that is uploaded
  rows,       \* its row: [state, code]
  aged,       \* projects uploaded longer ago than the time to live
  chunks,     \* of each project, its chunks
  sessions,   \* of each session, [project, messages]
  units       \* of each key, its teaching unit

tables == <<rows, aged, chunks, sessions, units>>

ASSUME ProjectsAssumption == {"none", "gone"} \cap Projects = {}

NoRow == [state |-> "none", code |-> Fine]
NoSession == [project |-> "none", messages |-> <<>>]
\* A name is given once: nobody gets the name of a session that was deleted.
GoneSession == [project |-> "gone", messages |-> <<>>]
Exists(session) == session \notin {NoSession, GoneSession}
NoUnit == [state |-> "none"]

(* The archives that can be extracted and parsed; their contents, and the   *)
(* chunks and the graph made of them for a project.                         *)
Readable ==
  {a \in DOMAIN Archives :
     ArchiveFault(Archives[a].entries, Limits) = Fine /\ ~Archives[a].broken}

ContentsOf ==
  [a \in Readable |->
     [files |-> FilesIn(Archives[a].entries),
      code |-> [path \in DOMAIN Archives[a].code |-> ParsedCode(Archives[a].code[path])],
      models |-> [path \in DOMAIN Archives[a].models |-> Model(Archives[a].models[path])],
      sources |-> Archives[a].sources]]

(* An archive is what can be uploaded: its entries come one after another,  *)
(* an extension belongs to a path, and no path holds the id the project is  *)
(* given when the archive has arrived.                                      *)
ASSUME EntriesAssumption ==
  \A a \in DOMAIN Archives :
    LET entries == Archives[a].entries
    IN  /\ IsSequence(entries)
        /\ \A i \in DOMAIN entries : IsSequence(entries[i].path)
        /\ \A i, k \in DOMAIN entries :
             /\ entries[i].path = entries[k].path => entries[i].type = entries[k].type
             /\ \A p \in Projects : entries[i].path # Extracted(p, entries[k].path)

(* What is parsed of a readable archive are the files it lists, and a file  *)
(* is read from its first line to its last; a part of a script has a number *)
(* of blocks of code.                                                       *)
ASSUME FilesAssumption ==
  \A a \in Readable :
    LET contents == ContentsOf[a]
        given == Archives[a]
    IN  /\ DOMAIN given.code = PathsOf(contents, ".m")
        /\ DOMAIN given.models = PathsOf(contents, ".slx")
        /\ DOMAIN given.sources = PathsOf(contents, ".c") \cup PathsOf(contents, ".h")
        /\ \A path \in DOMAIN given.code :
             /\ IsSequence(given.code[path].lines) /\ IsSequence(given.code[path].parts)
             /\ \A i \in DOMAIN given.code[path].parts :
                  given.code[path].parts[i].blocks \in Nat
        /\ \A path \in DOMAIN given.models : IsSimulinkFile(given.models[path])
        /\ \A path \in DOMAIN given.sources : IsSequence(given.sources[path])

(* What the systems of a file have to be for all its blocks to be found.    *)
FilesStandOut ==
  \A a \in Readable : \A path \in DOMAIN Archives[a].models :
    SubsystemsStandOut(Archives[a].models[path])

ASSUME SectionsAssumption == MaxSections \in Nat \ {0}
ASSUME LimitsAssumption ==
  /\ Limits.entries \in Nat /\ Limits.files \in Nat
  /\ Limits.single \in Nat /\ Limits.total \in Nat

DraftsOf ==
  [p \in Projects |-> [a \in Readable |-> [onDisk \in BOOLEAN |->
     Drafts(p, ContentsOf[a], onDisk, MaxSections, ShortHeader)]]]

GraphOf ==
  [p \in Projects |-> [a \in Readable |->
     [nodes |-> Nodes(p, ContentsOf[a]), edges |-> Edges(p, ContentsOf[a])]]]

Contents(p) == ContentsOf[archive[p]]
Graph(p) == GraphOf[p][archive[p]]

IsReady(p) == rows[p].state = "ready"

CreatePending(p) ==
  /\ rows[p] = NoRow
  /\ rows' = [rows EXCEPT ![p] = [state |-> "parsing", code |-> Fine]]
  /\ UNCHANGED <<aged, chunks, sessions, units>>

(* A row leaves "parsing" once.                                             *)
MarkRow(p, state, code) ==
  /\ rows[p].state = "parsing"
  /\ rows' = [rows EXCEPT ![p] = [state |-> state, code |-> code]]
  /\ UNCHANGED <<aged, chunks, sessions, units>>

DeleteRow(p) ==
  /\ rows' = [rows EXCEPT ![p] = NoRow]
  /\ aged' = aged \ {p}
  /\ chunks' = [chunks EXCEPT ![p] = {}]
  /\ sessions' = [s \in Sessions |->
                    IF sessions[s].project = p THEN GoneSession ELSE sessions[s]]
  /\ units' = [k \in UnitKeys |-> IF k[1] = p THEN NoUnit ELSE units[k]]

(* All of the chunks are added or none: the project must have a row and no  *)
(* id may occur twice.                                                      *)
CanAddChunks(p, drafts) ==
  /\ rows[p] # NoRow
  /\ UniqueIds(drafts)
  /\ \A i \in DOMAIN drafts : \A c \in chunks[p] : c.id # drafts[i].id

AddChunks(p, drafts) ==
  /\ chunks' = [chunks EXCEPT ![p] = @ \cup ToSet(drafts)]
  /\ UNCHANGED <<rows, aged, sessions, units>>
=============================================================================
