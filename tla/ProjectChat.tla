----------------------------- MODULE ProjectChat -----------------------------
(* Questions about a project: a session is opened or made, the question is  *)
(* recorded, sources are retrieved by vector or by keyword, the language    *)
(* model answers and cites some of them, and the answer is recorded.        *)
(*                                                                          *)
(* A source is [kind, file, lines, block], the block [name |-> ""] or       *)
(* [name, type, parent].  Sources found by vector carry public paths, those *)
(* found by keyword the extracted ones, but for files.                      *)
EXTENDS ProjectOverview

CONSTANTS Askers,      \* requests with a question
          MaxHits      \* sources retrieved for one question

VARIABLE askers        \* each request: [pc, project, session, hits]

NoSessionName == "none"
ASSUME SessionsAssumption == NoSessionName \notin Sessions

NewAsker(p, s) == [pc |-> "new", project |-> p, session |-> s, hits |-> {}]
AskerDone == [NewAsker("none", NoSessionName) EXCEPT !.pc = "answered"]

AskerTo(a, pc) == askers' = [askers EXCEPT ![a].pc = pc]
GiveUp(a) == askers' = [askers EXCEPT ![a] = AskerDone]

Source(kind, file, lines, block) ==
  [kind |-> kind, file |-> file, lines |-> lines, block |-> block]

Placed(block) == [name |-> block.name, type |-> block.type, parent |-> block.parent]

----------------------------------------------------------------------------
(* Retrieval. *)

KindOfHit(kind) ==
  CASE kind = "m_file" -> "file"
    [] kind \in {"m_function", "c_file", "h_file"} -> "function"
    [] kind = "slx_block" -> "block"
    [] kind = "slx_subsystem" -> "subsystem"
    [] kind = "project_overview" -> "overview"

(* A mutant: the index is searched without regard to the project.           *)
VectorSources_AnyProject(p) ==
  {Source(KindOfHit(c.kind), c.file, c.lines, c.block) :
     c \in UNION {chunks[q] : q \in Projects}}

VectorSources(p) ==
  {Source(KindOfHit(c.kind), c.file, c.lines, c.block) : c \in chunks[p]}

(* Entry points and unresolved symbols are put down to a file.              *)
KeywordSources(p, contents) ==
  {Source("file", contents.files[i].path, <<>>, NoBlock) : i \in DOMAIN contents.files}
    \cup (UNION {{Source("function", Extracted(p, path), <<f.from, f.to>>, NoBlock) :
                    f \in ToSet(contents.code[path].functions)} :
                 path \in DOMAIN contents.code})
    \cup (UNION {{Source("block", Extracted(p, path), <<>>, Placed(b)) :
                    b \in BlocksOf(contents.models[path])} :
                 path \in DOMAIN contents.models})

KeywordSourcesOf ==
  [p \in Projects |-> [a \in Readable |-> KeywordSources(p, ContentsOf[a])]]

(* Without chunks, without a hit among them or when the index fails, the    *)
(* keywords are used, for which there must be a graph.                      *)
Hits(sources) == {hits \in SUBSET sources : Cardinality(hits) <= MaxHits}

\* The chunks of this project nearest to the question.
Nearest(p) == Hits(VectorSources(p))

----------------------------------------------------------------------------
Ask(a) ==
  /\ askers[a].pc = "new"
  /\ IF IsReady(askers[a].project) THEN AskerTo(a, "open") ELSE GiveUp(a)
  /\ UNCHANGED sessions

(* A new session needs the project's row, a session that is named must be   *)
(* one of this project.                                                     *)
OpenSession(a) ==
  /\ askers[a].pc = "open"
  /\ LET p == askers[a].project
     IN  \/ /\ askers[a].session = NoSessionName /\ rows[p] # NoRow
            /\ \E s \in Sessions :
                 /\ sessions[s] = NoSession
                 /\ sessions' = [sessions EXCEPT ![s].project = p]
                 /\ askers' = [askers EXCEPT ![a].pc = "record", ![a].session = s]
         \/ /\ askers[a].session = NoSessionName /\ rows[p] = NoRow
            /\ GiveUp(a) /\ UNCHANGED sessions
         \/ /\ askers[a].session # NoSessionName
            /\ IF sessions[askers[a].session].project = p
               THEN AskerTo(a, "record") ELSE GiveUp(a)
            /\ UNCHANGED sessions

Message(role, citations) == [role |-> role, citations |-> citations]

(* A message goes to a session that is still there.                         *)
Record(a) ==
  /\ askers[a].pc = "record"
  /\ LET s == askers[a].session
     IN  IF Exists(sessions[s])
         THEN /\ sessions' = [sessions EXCEPT
                   ![s].messages = Append(@, Message("user", {}))]
              /\ AskerTo(a, "retrieve")
         ELSE GiveUp(a) /\ UNCHANGED sessions

Retrieve(a) ==
  /\ askers[a].pc = "retrieve"
  /\ LET p == askers[a].project
         found(hits) == askers' = [askers EXCEPT ![a].pc = "answer", ![a].hits = hits]
     IN  \/ \E hits \in Nearest(p) : hits # {} /\ found(hits)
         \/ HasGraph(Contents(p)) /\ \E hits \in Hits(KeywordSourcesOf[p][archive[p]]) : found(hits)
         \/ ~HasGraph(Contents(p)) /\ GiveUp(a)
  /\ UNCHANGED sessions

(* A block must be one of the parsed model with that path.                  *)
PassesValidation(contents, p, source) ==
  /\ source.kind = "block" =>
       \E path \in DOMAIN contents.models :
         /\ Extracted(p, path) = source.file
         /\ source.block \in {Placed(b) : b \in BlocksOf(contents.models[path])}
  /\ source.lines # <<>> => 1 <= source.lines[1] /\ source.lines[1] <= source.lines[2]

AppendAnswer(a, citations) ==
  LET s == askers[a].session
  IN  /\ sessions' = IF Exists(sessions[s])
                     THEN [sessions EXCEPT
                             ![s].messages = Append(@, Message("assistant", citations))]
                     ELSE sessions
      /\ GiveUp(a)

(* The model fails or cites a source it was not given: the question stays   *)
(* without an answer.  Without hits, or when no citation stands, an answer  *)
(* without citations is recorded.                                           *)
Answer(a) ==
  /\ askers[a].pc = "answer"
  /\ LET p == askers[a].project
     IN  \/ askers[a].hits # {} /\ GiveUp(a) /\ UNCHANGED sessions
         \/ \E cited \in SUBSET askers[a].hits :
              AppendAnswer(a, {source \in cited :
                                 PassesValidation(Contents(p), p, source)})

AskerStep(a) == OpenSession(a) \/ Record(a) \/ Retrieve(a) \/ Answer(a)

(* A statement finds the database busy; during the retrieval by vector that *)
(* only means that the keywords are used.                                   *)
LoseQuestion(a) ==
  /\ askers[a].pc \in {"open", "record", "answer"}
  /\ GiveUp(a)
  /\ UNCHANGED sessions

restOfChat == <<rows, aged, chunks, units, dirs, tasks, writers, sweep, teachingVars,
                overviewVars>>

ChatStep ==
  \/ /\ \E a \in Askers : Ask(a) \/ AskerStep(a)
     /\ UNCHANGED <<faults, restOfChat>>
  \/ /\ \E a \in Askers : LoseQuestion(a)
     /\ Fault /\ UNCHANGED restOfChat

ForgetAskers == askers' = [a \in Askers |-> AskerDone]

----------------------------------------------------------------------------
(* A conversation is about one project that is still there: what an answer  *)
(* cites is a file, lines of a file or a block of that project, or its      *)
(* overview, and no answer comes before its question, whatever questions    *)
(* of one session run side by side.                                         *)
StandsIn(p, source) ==
  LET contents == Contents(p)
      of(path) == source.file \in {path, Extracted(p, path)}
  IN  \/ source.kind = "overview" /\ OverviewChunk \in chunks[p]
      \/ /\ source.kind # "overview"
         /\ \E i \in DOMAIN contents.files : of(contents.files[i].path)
         /\ source.kind = "block" =>
              \E path \in DOMAIN contents.models :
                of(path) /\ \E b \in BlocksOf(contents.models[path]) :
                              Placed(b) = source.block
         /\ source.lines # <<>> =>
              \E path \in DOMAIN contents.code \cup DOMAIN contents.sources :
                of(path) /\ source.lines[2] <=
                  (IF path \in DOMAIN contents.code THEN Len(contents.code[path].lines)
                   ELSE Max({1, Len(contents.sources[path])}))

AnswersAreGrounded ==
  \A s \in {t \in Sessions : Exists(sessions[t])} :
    LET p == sessions[s].project
        said == sessions[s].messages
        count(role, n) == Cardinality({k \in 1..n : said[k].role = role})
    IN  /\ rows[p].state = "ready"
        /\ \A n \in DOMAIN said :
             /\ count("assistant", n) <= count("user", n)
             /\ \A source \in said[n].citations : StandsIn(p, source)
=============================================================================
