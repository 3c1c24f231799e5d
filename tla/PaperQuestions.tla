--------------------------- MODULE PaperQuestions ---------------------------
(* Questions about a stored paper and requests for tuning suggestions.      *)
(* Neither takes the paper's lock: each reads the record and then, in a     *)
(* statement of its own, the corrections, while edits, reparses and the     *)
(* cleanup worker go on; what the model answers is checked against the two  *)
(* copies.                                                                  *)
EXTENDS PaperRecord, SequenceParts

CONSTANTS
  Visitors,     \* requests that only read
  RowOrder,     \* the parameters in the order of the mapping's rows
  Offered,      \* what the documents of a bundle offer, by its extraction
  Unnamed,      \* the id of the document every payload is attributed to
  TableLimit,   \* source_table_limit
  Replies,      \* what the language model may say
  Workloads     \* bound: requests, their kinds, ids, values, extractions and visitors at once

(* Offered[e] is a record [abstract, equations, figures, evidence,          *)
(* recommended, stepped, contested]: whether there is an abstract, the      *)
(* places of equations and figures, the evidence of the spec, of the        *)
(* recommended blocks and of the build steps, and whether the documents     *)
(* contradict each other.  A place is a document and a locator in it;       *)
(* evidence is [source, kind, at, excerpt].                                 *)
ASSUME OffersEverything ==
  /\ DOMAIN Offered = Extractions
  /\ \A e \in Extractions :
       /\ IsSequence(Offered[e].equations) /\ IsSequence(Offered[e].evidence)
       /\ IsSequence(Offered[e].recommended) /\ IsSequence(Offered[e].stepped)
ASSUME SpecsOfferAlike ==
  \A e, f \in Extractions : SpecOf[e] = SpecOf[f] =>
     /\ Offered[e].abstract = Offered[f].abstract /\ Offered[e].contested = Offered[f].contested
     /\ Offered[e].equations = Offered[f].equations /\ Offered[e].figures = Offered[f].figures
     /\ Offered[e].evidence = Offered[f].evidence
ASSUME RowsAssumption == IsSequence(RowOrder) /\ ToSet(RowOrder) \subseteq Params
ASSUME TableAssumption == TableLimit \in Nat
ASSUME RepliesAssumption ==
  \A reply \in Replies : reply.kind \in {"malformed", "out_of_scope", "answer", "suggest"}

VARIABLES visits, load

qvars == <<vars, visits, load>>

NoVisit == [at |-> "idle"]

----------------------------------------------------------------------------
(* The sources a question may be answered from, in the order of the table.  *)

Source(kind, at) == [kind |-> kind, at |-> at]

\* The abstract counts as the first document's.
Summary == [document |-> Unnamed, locator |-> "summary"]

\* Document evidence counts with an excerpt, at a known equation or in a section.
Usable(offer, ev) ==
  /\ ev.source = "document_extracted" /\ ev.excerpt
  /\ \/ ev.kind = "equation" /\ ev.at \in ToSet(offer.equations)
     \/ ev.kind = "section"

Sourced(offer, list) ==
  LET usable == Picked(list, {i \in DOMAIN list : Usable(offer, list[i])})
  IN  [i \in DOMAIN usable |-> Source(usable[i].kind, usable[i].at)]

SpecSources(offer) ==
  (IF offer.abstract THEN <<Source("section", Summary)>> ELSE <<>>)
    \o [i \in DOMAIN offer.equations |-> Source("equation", offer.equations[i])]
    \o Sourced(offer, offer.evidence)

\* Without steps the blocks' references stand in for the steps' evidence.
PlanSources(rec, offer) ==
  Sourced(offer, offer.recommended)
    \o Sourced(offer, IF rec.steps = None THEN offer.recommended ELSE offer.stepped)

\* _mapping_has_resolved_user_evidence
StillTheUsers(rec, cs, p) ==
  \/ p \in Citable(rec, cs).fills
  \/ \E c \in cs : c.param = p /\ c.id \in Citable(rec, cs).marks

\* A source for each row of the mapping whose parameter is among these.
RowSources(kind, params) ==
  LET listed == Picked(RowOrder, {i \in DOMAIN RowOrder : RowOrder[i] \in params})
  IN  [i \in DOMAIN listed |-> Source(kind, listed[i])]

\* Mutant: whatever the plan calls the user's is taken for the user's.
UserSources_Unchecked(rec, cs) == RowSources("users", {p \in Params : UserGave(rec, p)})

UserSources(rec, cs) ==
  RowSources("users", {p \in Params : UserGave(rec, p) /\ StillTheUsers(rec, cs, p)})

OpenPrompts(rec) == rec.prompts \ Resolved(rec)

PromptSources(rec) == RowSources("open", OpenPrompts(rec))

SourceTable(rec, offer, cs) ==
  SpecSources(offer) \o PlanSources(rec, offer) \o UserSources(rec, cs) \o PromptSources(rec)

\* _source_entry_target_resolves
Resolves(source, rec, offer) ==
  CASE source.kind = "equation" -> source.at \in ToSet(offer.equations)
    [] source.kind = "open" -> source.at \in OpenPrompts(rec)
    [] OTHER -> TRUE

----------------------------------------------------------------------------
(* What becomes of a reply.  A fallback claims nothing.                     *)

Fallback(reason) == [reason |-> reason, claims |-> {}]

AnswerFrom(shown, reply, rec, offer) ==
  LET cited == ToSet(reply.cites)
  IN  CASE reply.kind = "malformed" -> Fallback("invalid_or_missing_citations")
        [] reply.kind = "out_of_scope" -> Fallback("out_of_scope")
        [] reply.kind = "answer" ->
             IF cited = {} \/ ~cited \subseteq DOMAIN shown
             THEN Fallback("invalid_or_missing_citations")
             ELSE IF \E i \in cited : ~Resolves(shown[i], rec, offer)
             THEN Fallback("citation_target_unresolved")
             ELSE [reason |-> "none", claims |-> {shown[i] : i \in cited}]

\* Every piece of document evidence is said to be of the first document.
Enriched(ev) ==
  IF ev.source = "document_extracted" THEN [ev EXCEPT !.at.document = Unnamed] ELSE ev

\* EvidenceTagger.validate_for_record
Stands(ev, rec, offer, cs) ==
  \/ /\ ev.source = "document_extracted" /\ ev.excerpt
     /\ \/ ev.kind = "equation" /\ ev.at \in ToSet(offer.equations)
        \/ ev.kind = "figure" /\ ev.at \in offer.figures
        \/ ev.kind = "section" /\ \E known \in ToSet(offer.evidence) :
                                     known.kind = "section" /\ known.at = ev.at
  \/ /\ ev.source = "user_supplied"
     /\ \/ ev.kind = "fill" /\ ev.at \in Citable(rec, cs).fills
        \/ ev.kind = "correct" /\ ev.at \in Citable(rec, cs).marks

SuggestionSound(reply, rec, offer, cs) ==
  /\ reply.directions # {} /\ reply.directions \subseteq Params
  /\ \A p \in reply.directions : rec.mapping[p].value # Marker
  /\ ~(offer.contested /\ reply.settles)
  /\ reply.evidence # {}
  /\ \A ev \in reply.evidence : Stands(Enriched(ev), rec, offer, cs)

\* A suggestion that is not sound is an error.
SuggestionFrom(reply, rec, offer, cs) ==
  IF reply.kind = "suggest" /\ SuggestionSound(reply, rec, offer, cs)
  THEN [reason |-> "none",
        claims |-> {Source("value", p) : p \in reply.directions}
                     \cup {Source(Enriched(ev).kind, Enriched(ev).at) : ev \in reply.evidence}]
  ELSE Fallback("tuning_failed")

----------------------------------------------------------------------------
(* Reading requests.                                                        *)

Visit(v, kind) ==
  /\ visits[v] = NoVisit
  /\ v \in load.visitors
  /\ record # Gone
  /\ visits' = [visits EXCEPT ![v] = [at |-> "read", kind |-> kind, record |-> record,
                                      offer |-> Offered[extracted]]]
  /\ UNCHANGED <<vars, load>>

(* "stood" notes what was the user's at both reads, or given in answer to a *)
(* prompt at the first, or corrected at the first and then dropped by a     *)
(* rerun of the plan that left the correction's row.                        *)
ReadCorrections(v) ==
  /\ visits[v].at = "read"
  /\ LET mine == visits[v].record
         stood == {p \in Params : UserGave(mine, p)
                     /\ \/ p \in mine.fills
                        \/ record # Gone /\ UserGave(record, p)
                        \/ \E c \in rows : c.param = p /\ c.id \in leftBehind \cap mine.marks}
     IN  visits' = [visits EXCEPT ![v] = [at |-> "asking", kind |-> visits[v].kind,
                                          record |-> mine, offer |-> visits[v].offer,
                                          rows |-> rows, stood |-> stood]]
  /\ UNCHANGED <<vars, load>>

Said(v, said) ==
  /\ visits' = [visits EXCEPT ![v] = [at |-> "answered", said |-> said]]
  /\ UNCHANGED <<vars, load>>

Shown(v) ==
  LET table == SourceTable(visits[v].record, visits[v].offer, visits[v].rows)
  IN  SubSeq(table, 1, IF Len(table) < TableLimit THEN Len(table) ELSE TableLimit)

AnswerQuestion(v, reply) ==
  /\ visits[v].at = "asking" /\ visits[v].kind = "ask"
  /\ IF Shown(v) = <<>> THEN Said(v, Fallback("insufficient_evidence"))
     ELSE /\ reply.kind # "suggest"
          /\ Said(v, AnswerFrom(Shown(v), reply, visits[v].record, visits[v].offer))

Suggest(v, reply) ==
  /\ visits[v].at = "asking" /\ visits[v].kind = "tune"
  /\ Said(v, SuggestionFrom(reply, visits[v].record, visits[v].offer, visits[v].rows))

\* The answer is sent, the call fails, or the process ends: nothing is kept.
Leave(v) ==
  /\ visits[v] # NoVisit
  /\ visits' = [visits EXCEPT ![v] = NoVisit]
  /\ UNCHANGED <<vars, load>>

VisitorStep(v) ==
  \/ Visit(v, "ask") \/ Visit(v, "tune") \/ ReadCorrections(v) \/ Leave(v)
  \/ \E reply \in Replies : AnswerQuestion(v, reply) \/ Suggest(v, reply)

\* Bound: while visitors read, the record goes without what they do not read.
OnlyWhatIsRead(rec) ==
  load.visitors # {} /\ rec # Gone => rec.script = None /\ rec.guidance.of = None

(* Edits go on while visitors read, within the bounds of the workload.      *)
RecordStep ==
  /\ Next
  /\ UNCHANGED <<visits, load>>
  /\ \A a \in Requests :
       request'[a] # Idle => a \in load.requests /\ request'[a].kind \in load.kinds
  /\ nextId' <= load.ids + 1
  /\ OnlyWhatIsRead(record')
  /\ record' # Gone =>
       extracted' \in load.extractions /\ \A p \in Params : record'.mapping[p].value \in load.values

QInit ==
  /\ Init
  /\ visits = [v \in Visitors |-> NoVisit]
  /\ load \in Workloads
  /\ extracted \in load.extractions
  /\ "rerun" \notin load.kinds => job = "settled" /\ ~late
  /\ OnlyWhatIsRead(record)

QNext == RecordStep \/ \E v \in Visitors : VisitorStep(v)

QSpec == QInit /\ [][QNext]_qvars

----------------------------------------------------------------------------
InDocuments(offer, place) ==
  \/ place = Summary /\ offer.abstract
  \/ place \in ToSet(offer.equations) \cup offer.figures
  \/ \E list \in {offer.evidence, offer.recommended, offer.stepped} :
       \E ev \in ToSet(list) : ev.at = place

ClaimHolds(visit, claim) ==
  CASE claim.kind \in {"section", "equation", "figure"} -> InDocuments(visit.offer, claim.at)
    [] claim.kind = "users" -> claim.at \in visit.stood
    [] claim.kind = "open" ->
         claim.at \in visit.record.fills => visit.record.mapping[claim.at].value = Marker
    [] claim.kind = "value" -> visit.record.mapping[claim.at].value # Marker
    [] claim.kind = "fill" -> claim.at \in visit.stood
    [] claim.kind = "correct" -> \E c \in visit.rows : c.id = claim.at /\ c.param \in visit.stood

(* An answer rests on the record, although it was put together from two     *)
(* reads with edits between and during them: the places it cites are in the *)
(* documents of the bundle it is about; what it calls the user's was the    *)
(* user's when the record was read and, where a correction made it so, was  *)
(* still when the corrections were read, or had only been dropped by a      *)
(* rerun of the plan in between; no answered prompt is cited as open, and   *)
(* no direction is given for a value that is not known.                     *)
AnswersRestOnTheRecord ==
  [][\A v \in Visitors :
       visits[v].at = "asking" /\ visits'[v].at = "answered"
         => \A claim \in visits'[v].said.claims : ClaimHolds(visits[v], claim)]_qvars
=============================================================================
