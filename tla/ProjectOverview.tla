--------------------------- MODULE ProjectOverview ---------------------------
(* The overview of a project: generated by the language model, validated    *)
(* against the project, kept in memory and indexed as one more chunk.       *)
(*                                                                          *)
(* What the model answers is a record [files, models, blocks, evidence] of  *)
(* sequences, or Malformed.  Files and models are paths; a block is         *)
(* [model, name, type, parent]; evidence is [path, id, lines], id "" and    *)
(* lines <<>> where it names none.                                          *)
EXTENDS TeachingUnits

CONSTANTS Readers,       \* requests for overviews
          Replies,       \* what the language model may answer
          MaxAttempts,   \* answers that are asked for, for one request
          MaxListed      \* [files, models, blocks] kept of a longer list

VARIABLES
  readers,     \* each request: [pc, project, attempts]
  overviews    \* overviews in memory, by project

overviewVars == <<readers, overviews>>

Malformed == [files |-> <<>>, models |-> <<>>, blocks |-> <<>>, evidence |-> <<>>]
NoOverview == Malformed
NewReader(p) == [pc |-> "new", project |-> p, attempts |-> 0]
ReaderDone == [NewReader("none") EXCEPT !.pc = "answered"]
ReaderTo(r, pc) == readers' = [readers EXCEPT ![r].pc = pc]
AnswerReader(r) == readers' = [readers EXCEPT ![r] = ReaderDone]

Kept(list, most) == SubSeq(list, 1, IF Len(list) < most THEN Len(list) ELSE most)

(* A list that is too long is cut; files and evidence must be there.        *)
Truncated(reply) ==
  [reply EXCEPT !.files = Kept(@, MaxListed.files),
                !.models = Kept(@, MaxListed.models),
                !.blocks = Kept(@, MaxListed.blocks)]

WellFormed(reply) == reply.files # <<>> /\ reply.evidence # <<>>

(* The blocks of a model are known under the listed file of the same name,  *)
(* under any one of them if there are several.                              *)
Aliases(contents) ==
  LET models == PathsOf(contents, ".slx")
  IN  {alias \in [{Last(path) : path \in models} -> models] :
         \A name \in DOMAIN alias : Last(alias[name]) = name}

KnownBlocks(contents, alias) ==
  UNION {{[model |-> alias[Last(path)], name |-> b.name, type |-> b.type,
           parent |-> b.parent] : b \in BlocksOf(contents.models[path])} :
         path \in DOMAIN contents.models}

Validated(contents, alias, overview) ==
  LET listed == {contents.files[i].path : i \in DOMAIN contents.files}
      ids == UNION {{b.id : b \in BlocksOf(contents.models[path])} :
                    path \in DOMAIN contents.models}
  IN  /\ ToSet(overview.files) \subseteq listed
      /\ ToSet(overview.models) \subseteq PathsOf(contents, ".slx")
      /\ ToSet(overview.blocks) \subseteq KnownBlocks(contents, alias)
      /\ \A ref \in ToSet(overview.evidence) :
           /\ ref.path \in listed
           /\ ref.id = "" \/ ref.id \in ids
           /\ ref.lines # <<>> => 1 <= ref.lines[1] /\ ref.lines[1] <= ref.lines[2]

----------------------------------------------------------------------------
(* An overview in memory is returned as it is.                              *)
Open(r) ==
  /\ readers[r].pc = "new"
  /\ LET p == readers[r].project
     IN  IF ~IsReady(p) THEN AnswerReader(r)
         ELSE IF overviews[p] # NoOverview THEN ReaderTo(r, "index")
         ELSE IF HasGraph(Contents(p)) THEN ReaderTo(r, "generate")
         ELSE AnswerReader(r)
  /\ UNCHANGED <<overviews, chunks>>

(* A mutant: the last answer is taken for want of a better one.             *)
Generate_TakesTheLast(r) ==
  /\ readers[r].pc = "generate"
  /\ LET p == readers[r].project
         try == readers[r].attempts + 1
     IN  \E reply \in Replies, alias \in Aliases(Contents(p)) :
           IF \/ try >= MaxAttempts
              \/ WellFormed(reply) /\ Validated(Contents(p), alias, Truncated(reply))
           THEN /\ overviews' = [overviews EXCEPT ![p] = Truncated(reply)]
                /\ ReaderTo(r, "index")
           ELSE /\ readers' = [readers EXCEPT ![r].attempts = try]
                /\ UNCHANGED overviews
  /\ UNCHANGED chunks

(* Only an answer that does not hold is asked for again.  An overview that  *)
(* holds replaces the one in memory.                                        *)
Generate(r) ==
  /\ readers[r].pc = "generate"
  /\ LET p == readers[r].project
         try == readers[r].attempts + 1
     IN  \/ AnswerReader(r) /\ UNCHANGED overviews
         \/ \E reply \in Replies, alias \in Aliases(Contents(p)) :
              IF WellFormed(reply) /\ Validated(Contents(p), alias, Truncated(reply))
              THEN /\ overviews' = [overviews EXCEPT ![p] = Truncated(reply)]
                   /\ ReaderTo(r, "index")
              ELSE /\ IF try >= MaxAttempts THEN AnswerReader(r)
                      ELSE readers' = [readers EXCEPT ![r].attempts = try]
                   /\ UNCHANGED overviews
  /\ UNCHANGED chunks

(* The overview is answered whether or not its chunk could be added.        *)
IndexOverview(r) ==
  /\ readers[r].pc = "index"
  /\ AnswerReader(r)
  /\ LET p == readers[r].project
     IN  chunks' = IF CanAddChunks(p, <<OverviewChunk>>)
                   THEN [chunks EXCEPT ![p] = @ \cup {OverviewChunk}] ELSE chunks
  /\ UNCHANGED overviews

(* A statement finds the database busy.                                     *)
LoseIndexing(r) ==
  /\ readers[r].pc = "index"
  /\ AnswerReader(r)
  /\ UNCHANGED <<overviews, chunks>>

ReaderStep(r) == Generate(r) \/ IndexOverview(r)

restOfOverview == <<rows, aged, sessions, units, dirs, tasks, writers, sweep, teachingVars>>

OverviewStep ==
  \/ /\ \E r \in Readers : Open(r) \/ ReaderStep(r)
     /\ UNCHANGED <<faults, restOfOverview>>
  \/ /\ \E r \in Readers : LoseIndexing(r)
     /\ Fault /\ UNCHANGED restOfOverview

ForgetReaders ==
  /\ readers' = [r \in Readers |-> ReaderDone]
  /\ overviews' = [p \in Projects |-> NoOverview]

----------------------------------------------------------------------------
(* Everything an overview names is in its own project, whatever the model   *)
(* answered and whichever attempt it took: the files, the models, a block   *)
(* of a model with the file name that is given, and the evidence.           *)
OverviewIsGrounded ==
  \A p \in {q \in Projects : overviews[q] # NoOverview} :
    LET contents == Contents(p)
        listed == {contents.files[i].path : i \in DOMAIN contents.files}
        o == overviews[p]
    IN  /\ ToSet(o.files) \subseteq listed
        /\ ToSet(o.models) \subseteq DOMAIN contents.models
        /\ \A entry \in ToSet(o.blocks) :
             \E path \in DOMAIN contents.models :
               /\ Last(path) = Last(entry.model)
               /\ \E b \in BlocksOf(contents.models[path]) :
                    <<b.name, b.type, b.parent>> = <<entry.name, entry.type, entry.parent>>
        /\ \A ref \in ToSet(o.evidence) :
             /\ ref.path \in listed
             /\ ref.id # "" => \E path \in DOMAIN contents.models :
                                 \E b \in BlocksOf(contents.models[path]) : b.id = ref.id
=============================================================================
