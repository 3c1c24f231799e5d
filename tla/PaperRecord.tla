----------------------------- MODULE PaperRecord -----------------------------
(***************************************************************************)
(* One stored paper and the requests that edit its plan: corrections of    *)
(* extracted parameters and their undo, answers to the prompts for missing *)
(* ones, regeneration of what is derived from the parameters (build steps, *)
(* m-script, guidance), a reparse, and a rerun of the plan.  The overlay   *)
(* of a paper lives in two places that one transaction must keep together: *)
(* the mapping and the evidence in the plan's row, and the rows of         *)
(* paper_parameter_correction.  Every edit reads a copy of the whole       *)
(* record, works on it, and writes the whole record back.                  *)
(*                                                                         *)
(* A rerun is meant for a paper that has no plan, but what lets it start   *)
(* is the state of the upload job, and a stored plan may stand beside a    *)
(* job that says its plan failed.  It then replaces the plan and leaves    *)
(* the rows of corrections where they are.                                 *)
(*                                                                         *)
(* Left out of the record: the plan's subsystem_breakdown, the texts of    *)
(* the steps it was last generated with, which an edit that drops the      *)
(* steps keeps as they are.                                                *)
(***************************************************************************)
EXTENDS Naturals, FiniteSets

CONSTANTS
  Params,       \* the parameters of the plan's mapping
  Extracts,     \* values (with unit) a document gives
  Answers,      \* values (with unit) a user types; nothing keeps the marker out of them
  Marker,       \* MISSING_VALUE_SENTINEL
  Extractions,  \* the mappings a generation may come up with
  SpecOf,       \* the spec of the documents such a mapping was made from
  Requests,     \* requests that may be in flight at once
  NoOne,        \* holder of a free lock
  MaxId         \* bound: corrections created (their ids are fresh uuids)

ASSUME MarkerMissing == Marker \notin Extracts
ASSUME ExtractionsTyped == Extractions \subseteq [Params -> Extracts \cup {Marker}]
ASSUME SpecsAssumption == DOMAIN SpecOf = Extractions
ASSUME NoOneIsNoRequest == NoOne \notin Requests
ASSUME MaxIdNatural == MaxId \in Nat

VARIABLES
  record,     \* the paper's spec and plan rows, or Gone
  rows,       \* its rows of paper_parameter_correction
  lock,       \* PaperReparseLockRegistry: the request that holds the paper
  request,    \* what each request asks for, how far it is, and its copies
  nextId,     \* the id of the next correction
  job,        \* what the paper's upload job says of its plan
  late,       \* an upload was refused the lock and has yet to mark its plan failed
  extracted,  \* history: the mapping the present plan was generated with
  markerTyped,\* history: a user typed the marker itself into this plan
  leftBehind  \* history: the corrections a rerun of the plan left behind

upload == <<job, late>>
history == <<extracted, markerTyped, leftBehind>>
vars == <<record, rows, lock, request, nextId, upload, history>>

Values == Extracts \cup Answers \cup {Marker}
Ids == 1 .. MaxId
Correction == [id : Ids, param : Params, original : Values, value : Values]

Gone == [gone |-> TRUE]
None == [none |-> TRUE]

Sources == {"document_extracted", "user_supplied"}
Mapping == [Params -> [value : Values, source : Sources]]
Refs == [fills : SUBSET Params, marks : SUBSET Ids]
Steps == [values : [Params -> Values], cites : Refs]
Statuses == {"generated", "stale_pending_regeneration", "not_generated", "generation_failed"}
Guidance == [status : Statuses, of : {None} \cup [values : [Params -> Values], steps : Steps]]
Record == [mapping : Mapping, prompts : SUBSET Params, fills : SUBSET Params,
           marks : SUBSET Ids, steps : {None} \cup Steps,
           script : {None} \cup [Params -> Values], guidance : Guidance]

Kinds == {"correct", "undo", "supply", "regenerate", "reparse", "rerun"}

(* The job: "settled" stands for ready and for what failed for good,       *)
(* "retryable" for plan_failed_retryable and abandoned_plan_retryable; a   *)
(* reparse and the cleanup worker delete the job.                          *)
Jobs == {"settled", "retryable", "generating", "none"}
Idle == [kind |-> "none", at |-> "idle", record |-> Gone, rows |-> {}]

Artifacts == {"steps", "script", "guidance"}

UserGave(rec, p) == rec.mapping[p].source = "user_supplied"
CurrentValues(rec) == [p \in Params |-> rec.mapping[p].value]

\* resolved_prompt_ids: the prompts answered with something other than the marker.
Resolved(rec) ==
  {p \in rec.prompts \cap rec.fills : UserGave(rec, p) /\ rec.mapping[p].value # Marker}

\* resolved_user_evidence_refs: what build steps may cite as the user's word.
Citable(rec, cs) ==
  [fills |-> Resolved(rec),
   marks |-> {c.id : c \in {d \in cs : d.id \in rec.marks /\ UserGave(rec, d.param)}}]

StaleGuidance == [status |-> "stale_pending_regeneration", of |-> None]

(* A plan fresh from the generator: prompts ask for what is missing, and   *)
(* steps, script and guidance, where they were made, are of this mapping.  *)
Generated(e, made, status) ==
  LET steps == IF "steps" \in made THEN [values |-> e, cites |-> [fills |-> {}, marks |-> {}]]
                            ELSE None
  IN [mapping |-> [p \in Params |-> [value |-> e[p], source |-> "document_extracted"]],
      prompts |-> {p \in Params : e[p] = Marker},
      fills |-> {}, marks |-> {}, steps |-> steps,
      script |-> IF "script" \in made THEN e ELSE None,
      guidance |-> [status |-> status,
                    of |-> IF status = "generated" THEN [values |-> e, steps |-> steps]
                                                   ELSE None]]

(* What PaperPlanService.generate comes up with: guidance is never without *)
(* steps, and called failed where it was not made.                         *)
Planned(e, made) ==
  Generated(e, made, IF {"steps", "guidance"} \subseteq made THEN "generated"
                                                           ELSE "generation_failed")

TypeOK ==
  /\ record \in {Gone} \cup Record
  /\ rows \in SUBSET Correction
  /\ lock \in Requests \cup {NoOne}
  /\ request \in [Requests -> [kind : Kinds \cup {"none"},
                               at : {"idle", "found", "locked", "started", "saved", "read", "ready"},
                               record : {Gone} \cup Record, rows : SUBSET Correction]]
  /\ nextId \in 1 .. MaxId + 1
  /\ job \in Jobs
  /\ late \in BOOLEAN
  /\ extracted \in Extractions
  /\ markerTyped \in BOOLEAN
  /\ leftBehind \in SUBSET Ids

(* A plan is stored.  Its job is marked, or could not be marked ready, or  *)
(* not at all; and an upload that found the lock taken while a rerun of    *)
(* its spec stored the plan may still be about to say that it failed.      *)
Init ==
  /\ \E e \in Extractions, made \in SUBSET Artifacts :
       /\ record = Planned(e, made)
       /\ extracted = e
  /\ rows = {}
  /\ lock = NoOne
  /\ request = [a \in Requests |-> Idle]
  /\ nextId = 1
  /\ job \in Jobs \ {"none"}
  /\ late \in BOOLEAN
  /\ markerTyped = FALSE
  /\ leftBehind = {}

At(a, kinds, where) == request[a].kind \in kinds /\ request[a].at = where
HoldsLock(a) == lock = a

----------------------------------------------------------------------------
(* Requests up to their write.                                             *)

\* A reparse looks for the plan and its source before it asks for the lock.
Find(a) ==
  /\ request[a].at = "idle"
  /\ record # Gone
  /\ request' = [request EXCEPT ![a].kind = "reparse", ![a].at = "found"]
  /\ UNCHANGED <<record, rows, lock, nextId, upload, history>>

\* Mutant: a paper in use is no reason to refuse an answer.
MayEnter_SupplyUnlocked(a, kind) == lock = NoOne \/ kind = "supply"

\* Who finds the lock taken is refused (409) rather than made to wait.
MayEnter(a, kind) == lock = NoOne

Enter(a, kind) ==
  /\ IF kind = "reparse" THEN At(a, {"reparse"}, "found") ELSE request[a].at = "idle"
  /\ MayEnter(a, kind)
  /\ lock' = a
  /\ request' = [request EXCEPT ![a].kind = kind, ![a].at = "locked"]
  /\ UNCHANGED <<record, rows, nextId, upload, history>>

ReadRecord(a) ==
  /\ At(a, Kinds \ {"reparse", "rerun"}, "locked")
  /\ record # Gone
  /\ request' = [request EXCEPT ![a].at = IF request[a].kind = "supply" THEN "ready" ELSE "read",
                                ![a].record = record]
  /\ UNCHANGED <<record, rows, lock, nextId, upload, history>>

\* An undo reads the one row it is about, the others all rows of the paper.
ReadRows(a) ==
  /\ At(a, Kinds, "read")
  /\ request' = [request EXCEPT ![a].at = "ready", ![a].rows = rows]
  /\ UNCHANGED <<record, rows, lock, nextId, upload, history>>

\* The answer: whatever became of the request, it gives the lock back.
Answered(a) ==
  /\ request' = [request EXCEPT ![a] = Idle]
  /\ lock' = IF HoldsLock(a) THEN NoOne ELSE lock

\* An unknown or stale target, a wrong prompt, nothing to do, a failed call or store.
Refused(a) ==
  /\ request[a].at \notin {"idle", "started", "saved"}
  /\ Answered(a)
  /\ UNCHANGED <<record, rows, nextId, upload, history>>

----------------------------------------------------------------------------
(* The store's transactions.  Each demands that the paper's spec is there, *)
(* and one that finds no correction to change leaves no trace.             *)

SetPlan(rec) ==
  /\ record # Gone
  /\ record' = rec
  /\ UNCHANGED rows

InsertCorrection(rec, c) ==
  /\ record # Gone
  /\ record' = rec
  /\ rows' = rows \cup {c}

\* Mutant: a second correction takes the first one for the document's word.
Recorrected_ForgetsOriginal(c, v) == [c EXCEPT !.original = c.value, !.value = v]

Recorrected(c, v) == [c EXCEPT !.value = v]

UpdateCorrection(rec, id, v) ==
  /\ record # Gone
  /\ \E d \in rows : d.id = id
  /\ record' = rec
  /\ rows' = {IF d.id = id THEN Recorrected(d, v) ELSE d : d \in rows}

DeleteCorrection(rec, id) ==
  /\ record # Gone
  /\ \E d \in rows : d.id = id
  /\ record' = rec
  /\ rows' = {d \in rows : d.id # id}

----------------------------------------------------------------------------
(* Edits.  Each works on its request's copies.                             *)

\* Mutant: what was built from the old value stays.
Revalued_KeepsSteps(rec, p, v, source) ==
  [rec EXCEPT !.mapping[p] = [value |-> v, source |-> source], !.guidance = StaleGuidance]

Revalued(rec, p, v, source) ==
  [rec EXCEPT !.mapping[p] = [value |-> v, source |-> source],
              !.steps = None, !.script = None, !.guidance = StaleGuidance]

Matching(a, p) == {c \in request[a].rows : c.param = p}

\* _active_correction_for_mapping raises unless the row is unique and has its evidence.
Coherent(a, p) ==
  \A c, d \in Matching(a, p) : c = d /\ c.id \in request[a].record.marks

\* The first correction of a parameter keeps what the document said.
CorrectFirst(a, p, v) ==
  LET mine == request[a].record
  IN /\ At(a, {"correct"}, "ready")
     /\ Coherent(a, p) /\ ~UserGave(mine, p) /\ nextId <= MaxId
     /\ InsertCorrection([Revalued(mine, p, v, "user_supplied") EXCEPT !.marks = @ \cup {nextId}],
                         [id |-> nextId, param |-> p,
                          original |-> mine.mapping[p].value, value |-> v])
     /\ nextId' = nextId + 1
     /\ markerTyped' = (markerTyped \/ v = Marker)
     /\ Answered(a)
     /\ UNCHANGED <<upload, extracted, leftBehind>>

CorrectAgain(a, p, v) ==
  LET mine == request[a].record
  IN /\ At(a, {"correct"}, "ready")
     /\ Coherent(a, p) /\ UserGave(mine, p)
     /\ \E c \in Matching(a, p) : UpdateCorrection(Revalued(mine, p, v, "user_supplied"), c.id, v)
     /\ markerTyped' = (markerTyped \/ v = Marker)
     /\ Answered(a)
     /\ UNCHANGED <<nextId, upload, extracted, leftBehind>>

\* An undo needs the row, its parameter still the user's, and its evidence.
Undo(a) ==
  LET mine == request[a].record
  IN /\ At(a, {"undo"}, "ready")
     /\ \E c \in request[a].rows :
          /\ UserGave(mine, c.param) /\ c.id \in mine.marks
          /\ DeleteCorrection([Revalued(mine, c.param, c.original, "document_extracted")
                                 EXCEPT !.marks = @ \ {c.id}], c.id)
     /\ Answered(a)
     /\ UNCHANGED <<nextId, upload, history>>

(* UserSupplyService.merge: a batch of answers to prompts whose parameter  *)
(* still shows the marker.  Steps and script stay as they are.             *)
Supply(a, batch, answer) ==
  LET mine == request[a].record
  IN /\ At(a, {"supply"}, "ready")
     /\ batch # {} /\ batch \subseteq mine.prompts
     /\ \A p \in batch : mine.mapping[p].value = Marker
     /\ SetPlan([mine EXCEPT
                   !.mapping = [p \in Params |-> IF p \in batch
                                                 THEN [value |-> answer[p], source |-> "user_supplied"]
                                                 ELSE mine.mapping[p]],
                   !.fills = @ \cup batch,
                   !.guidance = StaleGuidance])
     /\ markerTyped' = (markerTyped \/ \E p \in batch : answer[p] = Marker)
     /\ Answered(a)
     /\ UNCHANGED <<nextId, upload, extracted, leftBehind>>

----------------------------------------------------------------------------
(* Regeneration, reparse and rerun.                                        *)

HasWork(rec, cs) ==
  \/ cs # {}
  \/ rec.steps = None
  \/ rec.guidance.status \in {"not_generated", "stale_pending_regeneration", "generation_failed"}

\* Guidance is generated from the plan at hand, and never without steps.
Guided(rec, made) ==
  [rec EXCEPT !.guidance =
     IF rec.steps # None /\ "guidance" \in made
     THEN [status |-> "generated", of |-> [values |-> CurrentValues(rec), steps |-> rec.steps]]
     ELSE [status |-> "generation_failed", of |-> None]]

\* Four attempts; where all fail, or one for good, the old artifact stays.
StepsAfter(rec, allowed, made) ==
  IF "steps" \in made THEN [values |-> CurrentValues(rec), cites |-> allowed] ELSE rec.steps

ScriptAfter(rec, made) == IF "script" \in made THEN CurrentValues(rec) ELSE rec.script

\* Steps that cite what no longer holds stop the write.
WithinAllowed(steps, allowed) ==
  steps # None => /\ steps.cites.fills \subseteq allowed.fills
                  /\ steps.cites.marks \subseteq allowed.marks

Regenerate(a, made) ==
  LET mine == request[a].record
      allowed == Citable(mine, request[a].rows)
      steps == StepsAfter(mine, allowed, made)
  IN /\ At(a, {"regenerate"}, "ready")
     /\ HasWork(mine, request[a].rows)
     /\ WithinAllowed(steps, allowed)
     /\ SetPlan(Guided([mine EXCEPT !.steps = steps, !.script = ScriptAfter(mine, made)], made))
     /\ Answered(a)
     /\ UNCHANGED <<nextId, upload, history>>

(* The new bundle replaces record and corrections at once and deletes the  *)
(* job; guidance waits for a regeneration.                                 *)
Reparse(a, e, made) ==
  /\ At(a, {"reparse"}, "locked") /\ record # Gone
  /\ record' = Generated(e, made, "not_generated")
  /\ rows' = {}
  /\ job' = "none"
  /\ extracted' = e
  /\ markerTyped' = FALSE
  /\ leftBehind' = {}
  /\ Answered(a)
  /\ UNCHANGED <<nextId, late>>

\* The compare-and-set of try_start_rerun_plan: the job decides, not the plan.
StartRerun(a) ==
  /\ At(a, {"rerun"}, "locked") /\ job = "retryable"
  /\ job' = "generating"
  /\ request' = [request EXCEPT ![a].at = "started"]
  /\ UNCHANGED <<record, rows, lock, nextId, late, history>>

\* A new plan from the stored spec takes the place of one that is there.
SaveRerun(a, e, made) ==
  /\ At(a, {"rerun"}, "started")
  /\ SpecOf[e] = SpecOf[extracted]
  /\ SetPlan(Planned(e, made))
  /\ request' = [request EXCEPT ![a].at = "saved"]
  /\ extracted' = e
  /\ markerTyped' = FALSE
  /\ leftBehind' = {c.id : c \in rows}
  /\ UNCHANGED <<lock, nextId, upload>>

(* Saved or not, the job is marked last: as ready, as failed for good or   *)
(* for now, or, where the store fails at that too, not at all.             *)
EndRerun(a) ==
  /\ At(a, {"rerun"}, "started") \/ At(a, {"rerun"}, "saved")
  /\ job' \in IF job = "none" THEN {"none"} ELSE {"settled", "retryable", job}
  /\ Answered(a)
  /\ UNCHANGED <<record, rows, nextId, late, history>>

----------------------------------------------------------------------------
(* What happens beside requests: an upload that was refused the lock says  *)
(* so without it; the cleanup worker asks for no lock either; and the end  *)
(* of the process keeps the tables and nothing else.                       *)

MarkRefusedUpload ==
  /\ late
  /\ late' = FALSE
  /\ job' = IF job = "none" THEN "none" ELSE "retryable"
  /\ UNCHANGED <<record, rows, lock, request, nextId, history>>

DeleteExpired ==
  /\ record # Gone
  /\ record' = Gone
  /\ rows' = {}
  /\ job' = "none"
  /\ leftBehind' = {}
  /\ UNCHANGED <<lock, request, nextId, late, extracted, markerTyped>>

(* The next start repairs a job left generating: to ready, for there is a  *)
(* plan, to retryable where that plan could not be read, or not at all.    *)
Crash ==
  /\ request' = [a \in Requests |-> Idle]
  /\ lock' = NoOne
  /\ late' = FALSE
  /\ job' \in IF job = "generating" THEN Jobs \ {"none"} ELSE {job}
  /\ UNCHANGED <<record, rows, nextId, history>>

Edit(a) ==
  \/ \E p \in Params, v \in Answers : CorrectFirst(a, p, v) \/ CorrectAgain(a, p, v)
  \/ Undo(a)
  \/ \E batch \in SUBSET Params : \E answer \in [batch -> Answers] : Supply(a, batch, answer)

Rebuild(a) ==
  \E made \in SUBSET Artifacts :
    Regenerate(a, made) \/ \E e \in Extractions : Reparse(a, e, made) \/ SaveRerun(a, e, made)

Next ==
  \/ \E a \in Requests :
       \/ Find(a) \/ ReadRecord(a) \/ ReadRows(a) \/ Refused(a)
       \/ \E kind \in Kinds : Enter(a, kind)
       \/ StartRerun(a) \/ EndRerun(a)
       \/ Edit(a) \/ Rebuild(a)
  \/ MarkRefusedUpload
  \/ DeleteExpired
  \/ Crash

Spec == Init /\ [][Next]_vars

----------------------------------------------------------------------------
(* Properties.                                                             *)

\* The corrections of the present plan: all but those a rerun left behind.
InForce == {c \in rows : c.id \notin leftBehind}

RowsHaveEvidence ==
  /\ record.marks = {c.id : c \in InForce}
  /\ leftBehind \subseteq {c.id : c \in rows}

OneRowEach == \A c, d \in rows : c.id = d.id \/ c.param = d.param => c = d

RowsKeepOriginals ==
  \A c \in InForce : UserGave(record, c.param) /\ c.original = extracted[c.param]

ValuesHaveSources ==
  \A p \in Params :
    /\ ~UserGave(record, p) => record.mapping[p].value = extracted[p]
    /\ UserGave(record, p) => p \in record.fills \/ \E c \in InForce : c.param = p

EitherAnswerOrRow ==
  /\ \A p \in record.fills : UserGave(record, p) /\ \A c \in InForce : c.param # p
  /\ \A c \in InForce : record.mapping[c.param].value = c.value

(* The overlay is one thing kept in two tables: every correction in force  *)
(* has its evidence in the plan and the parameter it changed, no parameter *)
(* has two rows, and its original is what the document said, so that       *)
(* taking the overlay away gives the generated plan back.  A value is the  *)
(* user's only through a correction or an answer; and unless somebody      *)
(* typed the marker for a value, through exactly one of them, a            *)
(* correction's row holding the value the plan shows.                      *)
(*                                                                         *)
(* Not so for the rows a rerun of the plan left behind, which is what the  *)
(* code does and no document says: they stay, until a reparse or the end   *)
(* of the paper, without evidence and whatever the new plan shows.  They   *)
(* are the only ones: no other step parts a row from its evidence.         *)
OverlayMatchesRows ==
  IF record = Gone THEN rows = {}
  ELSE /\ RowsHaveEvidence /\ OneRowEach /\ RowsKeepOriginals /\ ValuesHaveSources
       /\ ~markerTyped => EitherAnswerOrRow

(* What is derived is not served for values it was not made from: build    *)
(* steps and script agree with every parameter but those a user answered   *)
(* since, steps cite only corrections and answers still in force, and      *)
(* guidance that says it is generated belongs to these values and steps.   *)
(* Steps are all of this an edit drops: their texts stay in the outline,   *)
(* which is not part of the record here, until the next regeneration.      *)
NothingDerivedIsStale ==
  record # Gone =>
    /\ record.steps # None =>
         /\ \A p \in Params \ record.fills : record.steps.values[p] = record.mapping[p].value
         /\ record.steps.cites.fills \subseteq Resolved(record)
         /\ record.steps.cites.marks \subseteq {c.id : c \in InForce}
    /\ record.script # None =>
         \A p \in Params \ record.fills : record.script[p] = record.mapping[p].value
    /\ record.guidance.status = "generated" =>
         record.guidance.of = [values |-> CurrentValues(record), steps |-> record.steps]

(* No lost updates: although every request writes the whole record back, a *)
(* user's value changes only with the row of its own parameter (corrected  *)
(* again, or undone), or with the whole bundle, or when a rerun saves a    *)
(* plan over it, as long as nobody typed the marker for a value.  The      *)
(* rerun is a loss, and the one way there is: the user's values are gone   *)
(* from the plan, and each correction among them leaves its row behind.    *)
NoLostEdits ==
  [][ \A p \in Params :
        /\ record # Gone /\ record' # Gone /\ ~markerTyped'
        /\ UserGave(record, p) /\ record'.mapping[p] # record.mapping[p]
        => \/ \E c \in InForce \ rows' : c.param = p
           \/ \E a \in Requests : HoldsLock(a) /\ At(a, {"reparse"}, "locked")
           \/ /\ \E a \in Requests : HoldsLock(a) /\ At(a, {"rerun"}, "started")
              /\ \A c \in InForce : c \in rows' /\ c.id \in leftBehind' ]_vars
=============================================================================
