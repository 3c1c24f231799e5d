------------------------- MODULE PaperRecord_proofs -------------------------
(***************************************************************************)
(* What holds of a stored paper for any parameters, values and number of   *)
(* requests: its overlay and the rows behind it stay one thing, nothing    *)
(* derived outlives its values, and no edit is lost but to a rerun.        *)
(*                                                                         *)
(* A request writes back what it made of its copies.  The strengthening    *)
(* says why that is no older than the table: between the read and the      *)
(* write the request holds the paper's lock, and only the cleanup worker,  *)
(* which removes the paper for good, works without it.                     *)
(***************************************************************************)
EXTENDS PaperQuestions, SequenceFacts, TLAPS

(* A request past its lock holds it, and its copies are what is stored.    *)
Copies ==
  \A a \in Requests :
    /\ request[a].at \notin {"idle", "found"} => lock = a
    /\ request[a].at \in {"read", "ready"} =>
         /\ request[a].record \in Record
         /\ record # Gone => request[a].record = record
    /\ request[a].at = "ready" /\ request[a].kind # "supply" /\ record # Gone
         => request[a].rows = rows

FreshIds == \A c \in rows : c.id < nextId

(* Until somebody types it, the marker is never a user's value.            *)
UntypedMarker ==
  record # Gone /\ ~markerTyped =>
    \A p \in Params : UserGave(record, p) => record.mapping[p].value # Marker

Good == FreshIds /\ UntypedMarker /\ OverlayMatchesRows /\ NothingDerivedIsStale
IInv == TypeOK /\ Copies /\ Good

LEMMA GoneApart == Gone \notin Record
<1>1. \A r \in Record : "gone" \notin DOMAIN r
  BY DEF Record
<1>2. "gone" \in DOMAIN Gone
  BY DEF Gone
<1> QED BY <1>1, <1>2

(* What the four writers of a record make of its fields.                   *)
LEMMA RevaluedFields ==
  ASSUME NEW r \in Record, NEW p \in Params, NEW v \in Values, NEW b \in Sources
  PROVE  LET s == Revalued(r, p, v, b) IN
         /\ s \in Record
         /\ s.mapping = [r.mapping EXCEPT ![p] = [value |-> v, source |-> b]]
         /\ s.prompts = r.prompts /\ s.fills = r.fills /\ s.marks = r.marks
         /\ s.steps = None /\ s.script = None
         /\ s.guidance.status = "stale_pending_regeneration"
  BY DEF Revalued, Record, Mapping, Sources, StaleGuidance, Guidance, Statuses

LEMMA GeneratedFields ==
  ASSUME NEW e \in Extractions, NEW made \in SUBSET Artifacts, NEW st \in Statuses,
         st = "generated" => "steps" \in made
  PROVE  LET g == Generated(e, made, st) IN
         /\ g \in Record
         /\ g.mapping = [p \in Params |-> [value |-> e[p], source |-> "document_extracted"]]
         /\ g.fills = {} /\ g.marks = {}
         /\ g.steps # None => /\ g.steps.values = e
                              /\ g.steps.cites = [fills |-> {}, marks |-> {}]
         /\ g.script # None => g.script = e
         /\ g.guidance.status = st
         /\ st = "generated" => g.guidance.of = [values |-> e, steps |-> g.steps]
<1> DEFINE steps == IF "steps" \in made THEN [values |-> e, cites |-> [fills |-> {}, marks |-> {}]] ELSE None
<1>1. e \in [Params -> Values]
  BY ExtractionsTyped DEF Values
<1>2. steps \in {None} \cup Steps /\ ("steps" \in made => steps \in Steps)
  BY <1>1 DEF Steps, Refs
<1>3. [p \in Params |-> [value |-> e[p], source |-> "document_extracted"]] \in Mapping
  BY <1>1 DEF Mapping, Sources
<1> HIDE DEF steps
<1>4. Generated(e, made, st) =
        [mapping |-> [p \in Params |-> [value |-> e[p], source |-> "document_extracted"]],
         prompts |-> {p \in Params : e[p] = Marker},
         fills |-> {}, marks |-> {}, steps |-> steps,
         script |-> IF "script" \in made THEN e ELSE None,
         guidance |-> [status |-> st,
                       of |-> IF st = "generated" THEN [values |-> e, steps |-> steps] ELSE None]]
  BY DEF Generated, steps
<1>5. [status |-> st,
       of |-> IF st = "generated" THEN [values |-> e, steps |-> steps] ELSE None] \in Guidance
  BY <1>1, <1>2 DEF Guidance
<1>6. Generated(e, made, st) \in Record
  BY <1>1, <1>2, <1>3, <1>4, <1>5 DEF Record
<1>7. steps # None => steps.values = e /\ steps.cites = [fills |-> {}, marks |-> {}]
  BY DEF steps
<1> QED BY <1>4, <1>6, <1>7

LEMMA PlannedIs ==
  ASSUME NEW e \in Extractions, NEW made \in SUBSET Artifacts
  PROVE  /\ Planned(e, made) \in Record
         /\ \E st \in Statuses : /\ st = "generated" => "steps" \in made
                                /\ Planned(e, made) = Generated(e, made, st)
<1> DEFINE st == IF {"steps", "guidance"} \subseteq made THEN "generated" ELSE "generation_failed"
<1>1. st \in Statuses /\ (st = "generated" => "steps" \in made)
  BY DEF Statuses
<1>2. Planned(e, made) = Generated(e, made, st)
  BY DEF Planned
<1> HIDE DEF st
<1>3. Generated(e, made, st) \in Record
  BY ONLY <1>1, e \in Extractions, made \in SUBSET Artifacts, GeneratedFields
<1> QED BY <1>1, <1>2, <1>3

SuppliedOf(r, batch, answer) ==
  [r EXCEPT !.mapping = [p \in Params |-> IF p \in batch
                                          THEN [value |-> answer[p], source |-> "user_supplied"]
                                          ELSE r.mapping[p]],
            !.fills = @ \cup batch,
            !.guidance = StaleGuidance]

LEMMA SuppliedFields ==
  ASSUME NEW r \in Record, NEW batch \in SUBSET Params, NEW answer \in [batch -> Answers]
  PROVE  LET s == SuppliedOf(r, batch, answer) IN
         /\ s \in Record
         /\ s.mapping = [p \in Params |-> IF p \in batch
                                          THEN [value |-> answer[p], source |-> "user_supplied"]
                                          ELSE r.mapping[p]]
         /\ s.prompts = r.prompts /\ s.fills = r.fills \cup batch /\ s.marks = r.marks
         /\ s.steps = r.steps /\ s.script = r.script
         /\ s.guidance.status = "stale_pending_regeneration"
<1>1. [p \in Params |-> IF p \in batch THEN [value |-> answer[p], source |-> "user_supplied"]
                                       ELSE r.mapping[p]] \in Mapping
  BY DEF Mapping, Sources, Record, Values
<1>2. StaleGuidance \in Guidance /\ StaleGuidance.status = "stale_pending_regeneration"
  BY DEF StaleGuidance, Guidance, Statuses
<1> QED BY <1>1, <1>2 DEF SuppliedOf, Record

RegeneratedOf(r, cs, made) ==
  Guided([r EXCEPT !.steps = StepsAfter(r, Citable(r, cs), made),
                   !.script = ScriptAfter(r, made)], made)

LEMMA RegeneratedFields ==
  ASSUME NEW r \in Record, NEW cs \in SUBSET Correction,
         NEW made \in SUBSET Artifacts
  PROVE  LET s == RegeneratedOf(r, cs, made) IN
         /\ s \in Record
         /\ s.mapping = r.mapping /\ s.prompts = r.prompts
         /\ s.fills = r.fills /\ s.marks = r.marks
         /\ s.steps = StepsAfter(r, Citable(r, cs), made)
         /\ s.script = ScriptAfter(r, made)
         /\ s.guidance.status = "generated"
              => s.guidance.of = [values |-> CurrentValues(s), steps |-> s.steps]
<1> DEFINE steps == StepsAfter(r, Citable(r, cs), made)
           script == ScriptAfter(r, made)
           t == [r EXCEPT !.steps = steps, !.script = script]
<1>1. CurrentValues(r) \in [Params -> Values]
  BY DEF CurrentValues, Record, Mapping
<1>2. Citable(r, cs) \in Refs
  <2>1. Resolved(r) \in SUBSET Params
    BY DEF Resolved, Record
  <2>2. {c.id : c \in {d \in cs : d.id \in r.marks /\ UserGave(r, d.param)}} \in SUBSET Ids
    BY DEF Correction
  <2> QED BY <2>1, <2>2 DEF Citable, Refs
<1>3. steps \in {None} \cup Steps
  BY <1>1, <1>2 DEF StepsAfter, Steps, Record
<1>4. script \in {None} \cup [Params -> Values]
  BY <1>1 DEF ScriptAfter, Record
<1> HIDE DEF steps, script
<1>5. /\ t \in Record
      /\ t.mapping = r.mapping /\ t.prompts = r.prompts /\ t.fills = r.fills
      /\ t.marks = r.marks /\ t.steps = steps /\ t.script = script
  BY <1>3, <1>4 DEF Record
<1>6. CurrentValues(t) \in [Params -> Values]
  BY <1>5, <1>1 DEF CurrentValues
<1> DEFINE g == IF t.steps # None /\ "guidance" \in made
                THEN [status |-> "generated",
                      of |-> [values |-> CurrentValues(t), steps |-> t.steps]]
                ELSE [status |-> "generation_failed", of |-> None]
<1>7. g \in Guidance
  BY <1>3, <1>5, <1>6 DEF Guidance, Statuses
<1>8. g.status = "generated" => g.of = [values |-> CurrentValues(t), steps |-> t.steps]
  OBVIOUS
<1>9. Guided(t, made) = [t EXCEPT !.guidance = g]
  BY DEF Guided
<1> HIDE DEF g, t
<1>10. LET s == [t EXCEPT !.guidance = g] IN
       /\ s \in Record
       /\ s.mapping = r.mapping /\ s.prompts = r.prompts /\ s.fills = r.fills
       /\ s.marks = r.marks /\ s.steps = steps /\ s.script = script /\ s.guidance = g
       /\ CurrentValues(s) = CurrentValues(t)
  BY <1>5, <1>7 DEF Record, CurrentValues
<1>11. RegeneratedOf(r, cs, made) = [t EXCEPT !.guidance = g]
  BY <1>9 DEF RegeneratedOf, t, steps, script
<1> QED BY <1>5, <1>8, <1>10, <1>11 DEF steps, script

(* At its write a request's copies are the stored record and rows.         *)
LEMMA AtWrite ==
  ASSUME TypeOK, Copies, NEW a \in Requests, request[a].at = "ready", record # Gone
  PROVE  /\ lock = a
         /\ record \in Record /\ request[a].record = record
         /\ request[a].kind # "supply" => request[a].rows = rows
  BY DEF TypeOK, Copies

(* Each edit, said of the stored record alone.                             *)
LEMMA CorrectFirstWrites ==
  ASSUME TypeOK, Copies, NEW a \in Requests, NEW p \in Params, NEW v \in Answers,
         CorrectFirst(a, p, v)
  PROVE  LET s == Revalued(record, p, v, "user_supplied") IN
         /\ record \in Record /\ nextId \in Ids
         /\ ~UserGave(record, p)
         /\ \A d \in rows : d.param = p => d.id \in record.marks
         /\ record' = [s EXCEPT !.marks = record.marks \cup {nextId}]
         /\ rows' = rows \cup {[id |-> nextId, param |-> p,
                                original |-> record.mapping[p].value, value |-> v]}
<1> At(a, {"correct"}, "ready") /\ record # Gone
  BY DEF CorrectFirst, InsertCorrection
<1>1. record \in Record /\ request[a].record = record /\ request[a].rows = rows
  BY AtWrite DEF At
<1>2. nextId \in Ids
  BY MaxIdNatural DEF CorrectFirst, TypeOK, Ids
<1>3. Revalued(record, p, v, "user_supplied").marks = record.marks
  BY <1>1 DEF Revalued, Record
<1>4. \A d \in rows : d.param = p => d.id \in record.marks
  BY <1>1 DEF CorrectFirst, Coherent, Matching
<1> QED BY <1>1, <1>2, <1>3, <1>4 DEF CorrectFirst, InsertCorrection

LEMMA CorrectAgainWrites ==
  ASSUME TypeOK, Copies, NEW a \in Requests, NEW p \in Params, NEW v \in Answers,
         CorrectAgain(a, p, v)
  PROVE  /\ record \in Record
         /\ UserGave(record, p)
         /\ record' = Revalued(record, p, v, "user_supplied")
         /\ \E c \in rows :
              /\ c.param = p /\ c.id \in record.marks
              /\ rows' = {IF d.id = c.id THEN [d EXCEPT !.value = v] ELSE d : d \in rows}
<1> At(a, {"correct"}, "ready") /\ record # Gone
  BY DEF CorrectAgain, UpdateCorrection
<1>1. record \in Record /\ request[a].record = record /\ request[a].rows = rows
  BY AtWrite DEF At
<1> QED BY <1>1 DEF CorrectAgain, UpdateCorrection, Coherent, Matching, Recorrected

LEMMA UndoWrites ==
  ASSUME TypeOK, Copies, NEW a \in Requests, Undo(a)
  PROVE  /\ record \in Record
         /\ \E c \in rows :
              LET s == Revalued(record, c.param, c.original, "document_extracted") IN
              /\ c.id \in record.marks
              /\ record' = [s EXCEPT !.marks = record.marks \ {c.id}]
              /\ rows' = {d \in rows : d.id # c.id}
<1> At(a, {"undo"}, "ready") /\ record # Gone
  BY DEF Undo, DeleteCorrection
<1>1. record \in Record /\ request[a].record = record /\ request[a].rows = rows
  BY AtWrite DEF At
<1>2. \A c \in rows : Revalued(record, c.param, c.original, "document_extracted").marks = record.marks
  BY <1>1 DEF Revalued, Record
<1> QED BY <1>1, <1>2 DEF Undo, DeleteCorrection

LEMMA SupplyWrites ==
  ASSUME TypeOK, Copies, NEW a \in Requests, NEW batch \in SUBSET Params,
         NEW answer \in [batch -> Answers], Supply(a, batch, answer)
  PROVE  /\ record \in Record
         /\ \A p \in batch : record.mapping[p].value = Marker
         /\ record' = SuppliedOf(record, batch, answer)
         /\ rows' = rows
<1> At(a, {"supply"}, "ready") /\ record # Gone
  BY DEF Supply, SetPlan
<1>1. record \in Record /\ request[a].record = record
  BY AtWrite DEF At
<1>2. /\ \A p \in batch : record.mapping[p].value = Marker
      /\ rows' = rows
  BY <1>1 DEF Supply, SetPlan
<1>3. record' = SuppliedOf(record, batch, answer)
  BY <1>1 DEF Supply, SetPlan, SuppliedOf
<1> QED BY <1>1, <1>2, <1>3

LEMMA RegenerateWrites ==
  ASSUME TypeOK, Copies, NEW a \in Requests,
         NEW made \in SUBSET Artifacts,
         Regenerate(a, made)
  PROVE  /\ record \in Record
         /\ record' = RegeneratedOf(record, rows, made)
         /\ rows' = rows
<1> At(a, {"regenerate"}, "ready") /\ record # Gone
  BY DEF Regenerate, SetPlan
<1>1. record \in Record /\ request[a].record = record /\ request[a].rows = rows
  BY AtWrite DEF At
<1>2. rows' = rows
  BY DEF Regenerate, SetPlan
<1>3. record' = RegeneratedOf(record, rows, made)
  BY <1>1 DEF Regenerate, SetPlan, RegeneratedOf
<1> QED BY <1>1, <1>2, <1>3

(* The steps that leave record, rows and history alone.                    *)
Walk(a) ==
  \/ Find(a) \/ ReadRecord(a) \/ ReadRows(a) \/ Refused(a)
  \/ StartRerun(a) \/ EndRerun(a)
  \/ \E kind \in Kinds : Enter(a, kind)

LEMMA WalkKeeps ==
  ASSUME NEW a \in Requests, Walk(a)
  PROVE  UNCHANGED <<record, rows, nextId, late, extracted, markerTyped, leftBehind>>
  BY DEF Walk, Find, ReadRecord, ReadRows, Refused, StartRerun, EndRerun, Enter, history, upload

LEMMA WalkTypes ==
  ASSUME TypeOK, NEW a \in Requests, Walk(a)
  PROVE  /\ lock' \in Requests \cup {NoOne} /\ job' \in Jobs
         /\ request' \in [Requests -> [kind : Kinds \cup {"none"},
                               at : {"idle", "found", "locked", "started", "saved", "read", "ready"},
                               record : {Gone} \cup Record, rows : SUBSET Correction]]
<1> DEFINE R == [kind : Kinds \cup {"none"},
                 at : {"idle", "found", "locked", "started", "saved", "read", "ready"},
                 record : {Gone} \cup Record, rows : SUBSET Correction]
<1>1. request \in [Requests -> R] /\ record \in {Gone} \cup Record /\ rows \in SUBSET Correction
      /\ lock \in Requests \cup {NoOne} /\ job \in Jobs
  BY DEF TypeOK
<1>2. Idle \in R
  BY DEF Idle
<1>3. CASE Find(a)
  BY <1>1, <1>3 DEF Find, Kinds, upload
<1>4. CASE ReadRecord(a)
  <2> DEFINE x == IF request[a].kind = "supply" THEN "ready" ELSE "read"
  <2>1. x \in {"idle", "found", "locked", "started", "saved", "read", "ready"}
    OBVIOUS
  <2>2. request' = [request EXCEPT ![a].at = x, ![a].record = record] /\ UNCHANGED <<lock, job>>
    BY <1>4 DEF ReadRecord, upload
  <2> HIDE DEF x
  <2> QED BY <1>1, <2>1, <2>2, ZenonT(40)
<1>5. CASE ReadRows(a)
  BY <1>1, <1>5, ZenonT(40) DEF ReadRows, upload
<1>6. CASE Refused(a)
  BY <1>1, <1>2, <1>6 DEF Refused, Answered, upload
<1>7. ASSUME NEW kind \in Kinds, Enter(a, kind)
      PROVE lock' \in Requests \cup {NoOne} /\ job' \in Jobs /\ request' \in [Requests -> R]
  BY <1>1, <1>7, ZenonT(40) DEF Enter, upload
<1>8. CASE StartRerun(a)
  BY <1>1, <1>8 DEF StartRerun, Jobs
<1>9. CASE EndRerun(a)
  <2>1. job' \in Jobs
    BY <1>1, <1>9 DEF EndRerun, Jobs
  <2> QED BY <1>1, <1>2, <1>9, <2>1 DEF EndRerun, Answered
<1> QED BY <1>3, <1>4, <1>5, <1>6, <1>7, <1>8, <1>9 DEF Walk

(* What an answer does to lock and requests.                               *)
LEMMA AnsweredTypes ==
  ASSUME TypeOK, NEW a \in Requests, Answered(a)
  PROVE  /\ lock' \in Requests \cup {NoOne}
         /\ request' \in [Requests -> [kind : Kinds \cup {"none"},
                               at : {"idle", "found", "locked", "started", "saved", "read", "ready"},
                               record : {Gone} \cup Record, rows : SUBSET Correction]]
  BY DEF Answered, TypeOK, Idle

(* The record's type, kept by every write.                                 *)
LEMMA CorrectFirstTypes ==
  ASSUME TypeOK, Copies, NEW a \in Requests, NEW p \in Params, NEW v \in Answers,
         CorrectFirst(a, p, v)
  PROVE  record' \in Record /\ rows' \in SUBSET Correction
<1> DEFINE s == Revalued(record, p, v, "user_supplied")
<1>1. /\ record \in Record /\ nextId \in Ids
      /\ record' = [s EXCEPT !.marks = record.marks \cup {nextId}]
      /\ rows' = rows \cup {[id |-> nextId, param |-> p,
                             original |-> record.mapping[p].value, value |-> v]}
  BY CorrectFirstWrites
<1>2. s \in Record
  BY <1>1, RevaluedFields DEF Values, Sources
<1> HIDE DEF s
<1>3. record.marks \cup {nextId} \in SUBSET Ids
  BY <1>1 DEF Record
<1>4. record' \in Record
  BY <1>1, <1>2, <1>3 DEF Record
<1>5. [id |-> nextId, param |-> p, original |-> record.mapping[p].value, value |-> v] \in Correction
  BY <1>1 DEF Correction, Record, Mapping, Values
<1> QED BY <1>1, <1>4, <1>5 DEF TypeOK

LEMMA CorrectAgainTypes ==
  ASSUME TypeOK, Copies, NEW a \in Requests, NEW p \in Params, NEW v \in Answers,
         CorrectAgain(a, p, v)
  PROVE  record' \in Record /\ rows' \in SUBSET Correction
<1>1. record \in Record /\ record' = Revalued(record, p, v, "user_supplied")
  BY CorrectAgainWrites
<1>2. record' \in Record
  BY <1>1, RevaluedFields DEF Values, Sources
<1>3. PICK c \in rows : rows' = {IF d.id = c.id THEN [d EXCEPT !.value = v] ELSE d : d \in rows}
  BY CorrectAgainWrites
<1>4. \A d \in rows : [d EXCEPT !.value = v] \in Correction
  BY DEF TypeOK, Correction, Values
<1> QED BY <1>2, <1>3, <1>4 DEF TypeOK

LEMMA UndoTypes ==
  ASSUME TypeOK, Copies, NEW a \in Requests, Undo(a)
  PROVE  record' \in Record /\ rows' \in SUBSET Correction
<1>1. PICK c \in rows :
        /\ record' = [Revalued(record, c.param, c.original, "document_extracted")
                        EXCEPT !.marks = record.marks \ {c.id}]
        /\ rows' = {d \in rows : d.id # c.id}
  BY UndoWrites
<1>2. record \in Record
  BY UndoWrites
<1>3. c.param \in Params /\ c.original \in Values
  BY DEF TypeOK, Correction
<1>4. Revalued(record, c.param, c.original, "document_extracted") \in Record
  BY <1>2, <1>3, RevaluedFields DEF Sources
<1>5. record' \in Record
  BY <1>1, <1>2, <1>4 DEF Record
<1> QED BY <1>1, <1>5 DEF TypeOK

LEMMA RecordTypes ==
  ASSUME TypeOK, Copies, Next
  PROVE  record' \in {Gone} \cup Record /\ rows' \in SUBSET Correction
<1>1. ASSUME NEW a \in Requests, Walk(a)
      PROVE  record' \in {Gone} \cup Record /\ rows' \in SUBSET Correction
  BY <1>1, WalkKeeps DEF TypeOK
<1>2. ASSUME NEW a \in Requests, NEW batch \in SUBSET Params, NEW answer \in [batch -> Answers],
             Supply(a, batch, answer)
      PROVE  record' \in Record /\ rows' \in SUBSET Correction
  <2>1. record \in Record /\ record' = SuppliedOf(record, batch, answer) /\ rows' = rows
    BY <1>2, SupplyWrites
  <2>2. SuppliedOf(record, batch, answer) \in Record
    BY <2>1, SuppliedFields
  <2> QED BY <2>1, <2>2 DEF TypeOK
<1>3. ASSUME NEW a \in Requests, NEW made \in SUBSET Artifacts, Regenerate(a, made)
      PROVE  record' \in Record /\ rows' \in SUBSET Correction
  <2>1. record \in Record /\ record' = RegeneratedOf(record, rows, made) /\ rows' = rows
    BY <1>3, RegenerateWrites
  <2>2. rows \in SUBSET Correction
    BY DEF TypeOK
  <2>3. RegeneratedOf(record, rows, made) \in Record
    BY <2>1, <2>2, RegeneratedFields
  <2> QED BY <2>1, <2>2, <2>3
<1>4. ASSUME NEW a \in Requests, NEW e \in Extractions, NEW made \in SUBSET Artifacts,
             Reparse(a, e, made)
      PROVE  record' \in Record /\ rows' \in SUBSET Correction
  <2>1. Generated(e, made, "not_generated") \in Record
    BY GeneratedFields DEF Statuses
  <2> QED BY <1>4, <2>1 DEF Reparse
<1>5. ASSUME DeleteExpired \/ Crash \/ MarkRefusedUpload
      PROVE  record' \in {Gone} \cup Record /\ rows' \in SUBSET Correction
  BY <1>5 DEF DeleteExpired, Crash, MarkRefusedUpload, TypeOK
<1>6. ASSUME NEW a \in Requests, NEW e \in Extractions, NEW made \in SUBSET Artifacts,
             SaveRerun(a, e, made)
      PROVE  record' \in Record /\ rows' \in SUBSET Correction
  BY <1>6, PlannedIs DEF SaveRerun, SetPlan, TypeOK
<1> QED BY <1>1, <1>2, <1>3, <1>4, <1>5, <1>6, CorrectFirstTypes, CorrectAgainTypes, UndoTypes
        DEF Next, Edit, Rebuild, Walk

LEMMA FlagTypes ==
  ASSUME TypeOK, Next
  PROVE  late' \in BOOLEAN /\ markerTyped' \in BOOLEAN
<1>1. late \in BOOLEAN
  BY DEF TypeOK
<1>2. ASSUME NEW a \in Requests, Edit(a) PROVE late' \in BOOLEAN /\ markerTyped' \in BOOLEAN
  <2>1. late' = late
    BY <1>2 DEF Edit, CorrectFirst, CorrectAgain, Undo, Supply, upload
  <2>2. markerTyped' \in BOOLEAN
    BY <1>2 DEF Edit, CorrectFirst, CorrectAgain, Undo, Supply, history, TypeOK
  <2> QED BY <1>1, <2>1, <2>2
<1>3. ASSUME NEW a \in Requests, Rebuild(a) PROVE late' \in BOOLEAN /\ markerTyped' \in BOOLEAN
  <2>1. late' = late
    BY <1>3 DEF Rebuild, Regenerate, Reparse, SaveRerun, upload
  <2>2. markerTyped' \in BOOLEAN
    BY <1>3 DEF Rebuild, Regenerate, Reparse, SaveRerun, history, TypeOK
  <2> QED BY <1>1, <2>1, <2>2
<1>4. ASSUME NEW a \in Requests, Walk(a) PROVE late' \in BOOLEAN /\ markerTyped' \in BOOLEAN
  <2>1. late' = late
    BY <1>4 DEF Walk, Find, ReadRecord, ReadRows, Refused, Enter, StartRerun, EndRerun, upload
  <2> QED BY <1>1, <1>4, <2>1, WalkKeeps DEF TypeOK
<1>5. ASSUME MarkRefusedUpload \/ DeleteExpired \/ Crash
      PROVE  late' \in BOOLEAN /\ markerTyped' \in BOOLEAN
  BY <1>1, <1>5 DEF MarkRefusedUpload, DeleteExpired, Crash, history, TypeOK
<1> QED BY <1>2, <1>3, <1>4, <1>5 DEF Next, Walk

LEMMA TypeStep ==
  ASSUME TypeOK, Copies, Next
  PROVE  TypeOK'
<1> DEFINE R == [kind : Kinds \cup {"none"},
                 at : {"idle", "found", "locked", "started", "saved", "read", "ready"},
                 record : {Gone} \cup Record, rows : SUBSET Correction]
           Rest == /\ lock' \in Requests \cup {NoOne}
                   /\ request' \in [Requests -> R]
                   /\ nextId' \in 1 .. MaxId + 1
                   /\ job' \in Jobs
                   /\ extracted' \in Extractions
                   /\ leftBehind' \in SUBSET Ids
<1>1. /\ nextId \in 1 .. MaxId + 1 /\ extracted \in Extractions
      /\ job \in Jobs /\ leftBehind \in SUBSET Ids
      /\ request \in [Requests -> R] /\ lock \in Requests \cup {NoOne}
  BY DEF TypeOK
<1>2. ASSUME NEW a \in Requests, Answered(a)
      PROVE  lock' \in Requests \cup {NoOne} /\ request' \in [Requests -> R]
  BY <1>2, AnsweredTypes
<1> HIDE DEF R
<1>3. ASSUME NEW a \in Requests, Walk(a) PROVE Rest
  BY <1>1, <1>3, WalkKeeps, WalkTypes DEF R
<1>4. ASSUME NEW a \in Requests, NEW p \in Params, NEW v \in Answers, CorrectFirst(a, p, v)
      PROVE  Rest
  <2>1. nextId' \in 1 .. MaxId + 1
    BY <1>1, <1>4, MaxIdNatural DEF CorrectFirst
  <2> QED BY <1>1, <1>2, <1>4, <2>1 DEF CorrectFirst, upload
<1>5. ASSUME NEW a \in Requests, NEW p \in Params, NEW v \in Answers, CorrectAgain(a, p, v)
      PROVE  Rest
  BY <1>1, <1>2, <1>5 DEF CorrectAgain, upload
<1>6. ASSUME NEW a \in Requests, Undo(a) PROVE Rest
  BY <1>1, <1>2, <1>6 DEF Undo, upload, history
<1>7. ASSUME NEW a \in Requests, NEW batch \in SUBSET Params, NEW answer \in [batch -> Answers],
             Supply(a, batch, answer)
      PROVE  Rest
  BY <1>1, <1>2, <1>7 DEF Supply, upload
<1>8. ASSUME NEW a \in Requests, NEW made \in SUBSET Artifacts, Regenerate(a, made)
      PROVE  Rest
  BY <1>1, <1>2, <1>8 DEF Regenerate, upload, history
<1>9. ASSUME NEW a \in Requests, NEW e \in Extractions, NEW made \in SUBSET Artifacts,
             Reparse(a, e, made)
      PROVE  Rest
  BY <1>1, <1>2, <1>9 DEF Reparse, Jobs
<1>10. ASSUME DeleteExpired PROVE Rest
  BY <1>1, <1>10 DEF DeleteExpired, Jobs
<1>14. ASSUME Crash PROVE Rest
  <2>1. Idle \in R
    BY DEF R, Idle
  <2>2. /\ UNCHANGED <<nextId, extracted, leftBehind>>
        /\ lock' = NoOne /\ request' = [a \in Requests |-> Idle] /\ job' \in Jobs
    BY <1>1, <1>14 DEF Crash, history, Jobs
  <2> QED BY <1>1, <2>1, <2>2
<1>11. ASSUME MarkRefusedUpload PROVE Rest
  <2>1. job' \in Jobs
    BY <1>11 DEF MarkRefusedUpload, Jobs
  <2>2. UNCHANGED <<lock, request, nextId, extracted, leftBehind>>
    BY <1>11 DEF MarkRefusedUpload, history
  <2> QED BY <1>1, <2>1, <2>2
<1>12. ASSUME NEW a \in Requests, NEW e \in Extractions, NEW made \in SUBSET Artifacts,
              SaveRerun(a, e, made)
       PROVE  Rest
  <2>1. leftBehind' \in SUBSET Ids
    BY <1>12 DEF SaveRerun, TypeOK, Correction
  <2>2. request' = [request EXCEPT ![a].at = "saved"]
    BY <1>12 DEF SaveRerun
  <2>3. request' \in [Requests -> R]
    BY <1>1, <2>2 DEF R
  <2> QED BY <1>1, <1>12, <2>1, <2>3 DEF SaveRerun, upload
<1> HIDE DEF Rest
<1>13. Rest
  BY <1>3, <1>4, <1>5, <1>6, <1>7, <1>8, <1>9, <1>10, <1>11, <1>12, <1>14
     DEF Next, Edit, Rebuild, Walk
<1> QED BY <1>13, RecordTypes, FlagTypes DEF Rest, TypeOK, R, Record, Mapping, Steps, Refs, Guidance, Correction

(* Who writes holds the lock, so nobody else is past it: an answer leaves  *)
(* no copy behind that could be older than the write.                      *)
LEMMA AnsweredCopies ==
  ASSUME TypeOK, Copies, NEW a \in Requests, lock = a, Answered(a)
  PROVE  Copies'
<1>1. \A b \in Requests : request'[b].at \in {"idle", "found"}
  BY DEF Answered, Copies, TypeOK, Idle
<1> QED BY <1>1 DEF Copies

LEMMA WalkCopies ==
  ASSUME TypeOK, Copies, NEW a \in Requests, Walk(a)
  PROVE  Copies'
<1> USE DEF TypeOK, Copies
<1>0. UNCHANGED <<record, rows>>
  BY WalkKeeps
<1>1. CASE Find(a)
  BY <1>1, <1>0 DEF Find
<1>2. CASE ReadRecord(a)
  <2>1. record \in Record /\ lock = a /\ lock' = lock
    BY <1>2 DEF ReadRecord, At
  <2>2. /\ request'[a].record = record
        /\ request'[a].at = "ready" => request'[a].kind = "supply"
        /\ \A b \in Requests : b # a => request'[b] = request[b]
    BY <1>2 DEF ReadRecord
  <2> QED BY <1>0, <2>1, <2>2
<1>3. CASE ReadRows(a)
  <2>1. lock' = lock /\ lock = a
    BY <1>3 DEF ReadRows, At
  <2>2. /\ request'[a].record = request[a].record /\ request'[a].rows = rows
        /\ request[a].at = "read"
        /\ \A b \in Requests : b # a => request'[b] = request[b]
    BY <1>3 DEF ReadRows, At
  <2> QED BY <1>0, <2>1, <2>2
<1>4. CASE Refused(a)
  <2>1. \A b \in Requests : b # a => request'[b] = request[b]
    BY <1>4 DEF Refused, Answered
  <2>2. request'[a].at = "idle"
    BY <1>4 DEF Refused, Answered, Idle
  <2>3. \A b \in Requests : b # a /\ lock = b => lock' = b
    BY <1>4 DEF Refused, Answered, HoldsLock
  <2> QED BY <1>0, <2>1, <2>2, <2>3
<1>5. ASSUME NEW kind \in Kinds, Enter(a, kind) PROVE Copies'
  <2>1. \A b \in Requests : request[b].at \in {"idle", "found"}
    BY <1>5, NoOneIsNoRequest DEF Enter, MayEnter
  <2>2. lock' = a /\ request'[a].at = "locked"
    BY <1>5 DEF Enter
  <2>3. \A b \in Requests : b # a => request'[b] = request[b]
    BY <1>5 DEF Enter
  <2> QED BY <1>0, <2>1, <2>2, <2>3
<1>6. CASE StartRerun(a)
  <2>1. request' = [request EXCEPT ![a].at = "started"] /\ lock' = lock /\ lock = a
    BY <1>6 DEF StartRerun, At
  <2> QED BY <1>0, <2>1
<1>7. CASE EndRerun(a)
  <2>1. Answered(a) /\ lock = a
    BY <1>7 DEF EndRerun, At
  <2> QED BY <2>1, AnsweredCopies
<1> QED BY <1>1, <1>2, <1>3, <1>4, <1>5, <1>6, <1>7 DEF Walk

LEMMA CopiesStep ==
  ASSUME TypeOK, Copies, Next
  PROVE  Copies'
<1>1. ASSUME NEW a \in Requests, Edit(a) PROVE Copies'
  <2>1. Answered(a) /\ request[a].at = "ready"
    BY <1>1 DEF Edit, CorrectFirst, CorrectAgain, Undo, Supply, At
  <2> QED BY <2>1, AnsweredCopies DEF Copies
<1>2. ASSUME NEW a \in Requests, Rebuild(a) PROVE Copies'
  <2>1. CASE Answered(a) /\ request[a].at \in {"locked", "ready"}
    BY <2>1, AnsweredCopies DEF Copies
  <2>2. ASSUME NEW e \in Extractions, NEW made \in SUBSET Artifacts, SaveRerun(a, e, made)
        PROVE  Copies'
    <3>1. /\ request' = [request EXCEPT ![a].at = "saved"] /\ lock' = lock
          /\ request[a].at = "started"
      BY <2>2 DEF SaveRerun, At
    <3>2. lock = a /\ \A b \in Requests \ {a} : request[b].at \in {"idle", "found"}
      BY <3>1 DEF Copies
    <3>3. /\ request'[a].at = "saved"
          /\ \A b \in Requests \ {a} : request'[b].at \in {"idle", "found"}
      BY <3>1, <3>2 DEF TypeOK
    <3> QED BY <3>1, <3>2, <3>3 DEF Copies
  <2> QED BY <1>2, <2>1, <2>2 DEF Rebuild, Regenerate, Reparse, At
<1>3. CASE DeleteExpired
  BY <1>3, GoneApart DEF DeleteExpired, Copies
<1>4. CASE Crash
  BY <1>4 DEF Crash, Copies, Idle
<1>5. CASE MarkRefusedUpload
  BY <1>5 DEF MarkRefusedUpload, Copies
<1> QED BY <1>1, <1>2, <1>3, <1>4, <1>5, WalkCopies DEF Next, Walk

(* Who has evidence in the plan is in force.                               *)
LEMMA EvidenceInForce ==
  ASSUME Good, record # Gone, NEW c \in rows, c.id \in record.marks
  PROVE  c \in InForce
<1>1. PICK d \in InForce : d.id = c.id
  BY DEF Good, OverlayMatchesRows, RowsHaveEvidence
<1> QED BY <1>1 DEF Good, OverlayMatchesRows, OneRowEach, InForce

(* What was left behind is older than the next correction.                 *)
LEMMA NextIdInForce ==
  ASSUME TypeOK, Good, record # Gone
  PROVE  nextId \notin leftBehind
<1>1. \A c \in rows : c.id < nextId /\ c.id \in Ids
  BY DEF Good, FreshIds, TypeOK, Correction
<1> QED BY <1>1 DEF Good, OverlayMatchesRows, RowsHaveEvidence, TypeOK, Ids

(* Each edit keeps the overlay and what is derived in order.               *)
LEMMA CorrectFirstGood ==
  ASSUME TypeOK, Copies, Good, NEW a \in Requests, NEW p \in Params, NEW v \in Answers,
         CorrectFirst(a, p, v)
  PROVE  Good'
<1> DEFINE s == Revalued(record, p, v, "user_supplied")
           c == [id |-> nextId, param |-> p, original |-> record.mapping[p].value, value |-> v]
<1>1. /\ record \in Record /\ nextId \in Ids /\ ~UserGave(record, p)
      /\ \A d \in rows : d.param = p => d.id \in record.marks
      /\ record' = [s EXCEPT !.marks = record.marks \cup {nextId}]
      /\ rows' = rows \cup {c}
  BY CorrectFirstWrites
<1>2. v \in Values /\ "user_supplied" \in Sources
  BY DEF Values, Sources
<1>3. /\ s \in Record
      /\ s.mapping = [record.mapping EXCEPT ![p] = [value |-> v, source |-> "user_supplied"]]
      /\ s.fills = record.fills /\ s.steps = None /\ s.script = None
      /\ s.guidance.status = "stale_pending_regeneration"
  BY <1>1, <1>2, RevaluedFields
<1> HIDE DEF s
<1>4. /\ record'.mapping = [record.mapping EXCEPT ![p] = [value |-> v, source |-> "user_supplied"]]
      /\ record'.fills = record.fills /\ record'.marks = record.marks \cup {nextId}
      /\ record'.steps = None /\ record'.script = None
      /\ record'.guidance.status = "stale_pending_regeneration"
  BY <1>1, <1>3 DEF Record
<1>5. record # Gone /\ record' # Gone /\ record.mapping \in Mapping
  <2>1. record' \in Record
    BY CorrectFirstTypes
  <2> QED BY <1>1, <2>1, GoneApart DEF Record
<1>6. /\ UserGave(record, p)' /\ record'.mapping[p].value = v
      /\ \A q \in Params \ {p} : /\ record'.mapping[q] = record.mapping[q]
                                 /\ UserGave(record, q)' = UserGave(record, q)
  BY <1>4, <1>5 DEF UserGave, Mapping
<1>7. /\ nextId' = nextId + 1 /\ extracted' = extracted /\ leftBehind' = leftBehind
      /\ ~markerTyped' => ~markerTyped /\ v # Marker
  BY DEF CorrectFirst
<1>8. \A d \in rows : d.id < nextId /\ d.id \in Ids /\ d.param \in Params
  BY DEF Good, FreshIds, TypeOK, Correction
<1>9. /\ RowsHaveEvidence /\ OneRowEach /\ RowsKeepOriginals /\ ValuesHaveSources
      /\ ~markerTyped => EitherAnswerOrRow
  BY <1>5 DEF Good, OverlayMatchesRows
<1>10. \A d \in rows : d.param # p /\ d.id # nextId
  <2>1. \A d \in rows : d.id # nextId
    BY <1>1, <1>8 DEF Ids
  <2>2. ASSUME NEW d \in rows, d.param = p PROVE FALSE
    <3>1. d \in InForce
      BY <1>1, <1>5, <2>2, EvidenceInForce
    <3> QED BY <1>1, <1>9, <2>2, <3>1 DEF RowsKeepOriginals
  <2> QED BY <2>1, <2>2
<1>11. c.id = nextId /\ c.param = p /\ c.original = record.mapping[p].value /\ c.value = v
  OBVIOUS
<1> HIDE DEF c
<1>20. InForce' = InForce \cup {c} /\ InForce \subseteq rows
  BY <1>1, <1>5, <1>7, <1>11, NextIdInForce DEF InForce
<1>12. FreshIds'
  BY <1>1, <1>7, <1>8, <1>11 DEF FreshIds, Ids
<1>13. UntypedMarker'
  BY <1>5, <1>6, <1>7 DEF UntypedMarker, Good
<1>14. RowsHaveEvidence'
  BY <1>1, <1>4, <1>7, <1>9, <1>11, <1>20 DEF RowsHaveEvidence
<1>15. OneRowEach'
  BY <1>1, <1>9, <1>10, <1>11 DEF OneRowEach
<1>16. RowsKeepOriginals'
  <2>1. ~UserGave(record, p) => record.mapping[p].value = extracted[p]
    BY <1>9 DEF ValuesHaveSources
  <2>2. UserGave(record, p)' /\ c.original = extracted'[p]
    BY <1>1, <1>6, <1>7, <1>11, <2>1
  <2>3. \A d \in InForce : UserGave(record, d.param)' /\ d.original = extracted'[d.param]
    BY <1>6, <1>7, <1>8, <1>9, <1>10, <1>20 DEF RowsKeepOriginals, UserGave
  <2> QED BY <1>11, <1>20, <2>2, <2>3 DEF RowsKeepOriginals, UserGave
<1>17. ValuesHaveSources'
  <2>1. ASSUME NEW q \in Params \ {p}
        PROVE  /\ ~UserGave(record, q)' => record'.mapping[q].value = extracted'[q]
               /\ UserGave(record, q)' => q \in record'.fills \/ \E d \in InForce' : d.param = q
    BY <1>4, <1>6, <1>7, <1>9, <1>20 DEF ValuesHaveSources
  <2>2. UserGave(record, p)' /\ \E d \in InForce' : d.param = p
    BY <1>6, <1>11, <1>20
  <2> QED BY <2>1, <2>2 DEF ValuesHaveSources, UserGave
<1>18. ASSUME ~markerTyped' PROVE EitherAnswerOrRow'
  <2>1. p \notin record.fills /\ record.fills \subseteq Params /\ EitherAnswerOrRow
    BY <1>1, <1>7, <1>9, <1>18 DEF EitherAnswerOrRow, Record
  <2>2. ASSUME NEW q \in record'.fills
        PROVE  UserGave(record, q)' /\ \A d \in InForce' : d.param # q
    BY <1>1, <1>4, <1>6, <1>11, <1>20, <2>1, <2>2 DEF EitherAnswerOrRow
  <2>3. ASSUME NEW d \in InForce' PROVE record'.mapping[d.param].value = d.value
    BY <1>6, <1>8, <1>10, <1>11, <1>20, <2>1, <2>3 DEF EitherAnswerOrRow
  <2> QED BY <2>2, <2>3 DEF EitherAnswerOrRow, UserGave
<1>19. NothingDerivedIsStale'
  BY <1>4 DEF NothingDerivedIsStale
<1> QED BY <1>5, <1>12, <1>13, <1>14, <1>15, <1>16, <1>17, <1>18, <1>19
        DEF Good, OverlayMatchesRows

LEMMA CorrectAgainGood ==
  ASSUME TypeOK, Copies, Good, NEW a \in Requests, NEW p \in Params, NEW v \in Answers,
         CorrectAgain(a, p, v)
  PROVE  Good'
<1>1. record \in Record /\ UserGave(record, p) /\ record' = Revalued(record, p, v, "user_supplied")
  BY CorrectAgainWrites
<1>2. PICK c \in rows :
        /\ c.param = p /\ c.id \in record.marks
        /\ rows' = {IF d.id = c.id THEN [d EXCEPT !.value = v] ELSE d : d \in rows}
  BY CorrectAgainWrites
<1>3. v \in Values /\ "user_supplied" \in Sources
  BY DEF Values, Sources
<1>4. /\ record' \in Record
      /\ record'.mapping = [record.mapping EXCEPT ![p] = [value |-> v, source |-> "user_supplied"]]
      /\ record'.fills = record.fills /\ record'.marks = record.marks
      /\ record'.steps = None /\ record'.script = None
      /\ record'.guidance.status = "stale_pending_regeneration"
  BY <1>1, <1>3, RevaluedFields
<1>5. record # Gone /\ record' # Gone /\ record.mapping \in Mapping
  BY <1>1, <1>4, GoneApart DEF Record
<1>6. /\ UserGave(record, p)' /\ record'.mapping[p].value = v
      /\ \A q \in Params : UserGave(record, q)' = UserGave(record, q)
      /\ \A q \in Params \ {p} : record'.mapping[q] = record.mapping[q]
  BY <1>1, <1>4, <1>5 DEF UserGave, Mapping
<1>7. /\ nextId' = nextId /\ extracted' = extracted /\ leftBehind' = leftBehind
      /\ ~markerTyped' => ~markerTyped /\ v # Marker
  BY DEF CorrectAgain
<1>8. /\ RowsHaveEvidence /\ OneRowEach /\ RowsKeepOriginals /\ ValuesHaveSources
      /\ ~markerTyped => EitherAnswerOrRow
  BY <1>5 DEF Good, OverlayMatchesRows
<1>9. /\ \A d \in rows : d.id = c.id \/ d.param = p <=> d = c
      /\ \A d \in rows : d \in Correction /\ d.param \in Params
  BY <1>2, <1>8 DEF OneRowEach, TypeOK, Correction
<1> DEFINE e == [c EXCEPT !.value = v]
<1>10. e.id = c.id /\ e.param = p /\ e.original = c.original /\ e.value = v
  BY <1>2, <1>9 DEF Correction
<1>11. rows' = (rows \ {c}) \cup {e}
  BY <1>2, <1>9
<1>20. c \in InForce /\ InForce \subseteq rows
  BY <1>2, <1>5, EvidenceInForce DEF InForce
<1>21. InForce' = (InForce \ {c}) \cup {e}
  BY <1>7, <1>10, <1>11, <1>20 DEF InForce
<1> HIDE DEF e
<1>12. FreshIds'
  BY <1>7, <1>10, <1>11 DEF FreshIds, Good
<1>13. UntypedMarker'
  BY <1>5, <1>6, <1>7 DEF UntypedMarker, Good
<1>14. RowsHaveEvidence'
  <2>1. {d.id : d \in InForce'} = {d.id : d \in InForce}
    BY <1>10, <1>20, <1>21
  <2>2. {d.id : d \in rows'} = {d.id : d \in rows}
    BY <1>10, <1>11, <1>20
  <2> QED BY <1>4, <1>7, <1>8, <2>1, <2>2 DEF RowsHaveEvidence
<1>15. OneRowEach'
  BY <1>8, <1>9, <1>10, <1>11 DEF OneRowEach
<1>16. RowsKeepOriginals'
  <2>1. \A d \in InForce : UserGave(record, d.param)' /\ d.original = extracted'[d.param]
    BY <1>6, <1>7, <1>8, <1>9, <1>20 DEF RowsKeepOriginals, UserGave
  <2>2. UserGave(record, p)' /\ e.original = extracted'[p]
    BY <1>2, <1>6, <1>10, <1>20, <2>1
  <2> QED BY <1>10, <1>21, <2>1, <2>2 DEF RowsKeepOriginals, UserGave
<1>17. ValuesHaveSources'
  <2>1. ASSUME NEW q \in Params
        PROVE  /\ ~UserGave(record, q)' => record'.mapping[q].value = extracted'[q]
               /\ UserGave(record, q)' => q \in record'.fills \/ \E d \in InForce' : d.param = q
    BY <1>1, <1>2, <1>4, <1>6, <1>7, <1>8, <1>10, <1>21 DEF ValuesHaveSources
  <2> QED BY <2>1 DEF ValuesHaveSources, UserGave
<1>18. ASSUME ~markerTyped' PROVE EitherAnswerOrRow'
  <2>1. record.fills \subseteq Params /\ EitherAnswerOrRow
    BY <1>1, <1>7, <1>8, <1>18 DEF Record
  <2>2. ASSUME NEW q \in record'.fills
        PROVE  UserGave(record, q)' /\ \A d \in InForce' : d.param # q
    BY <1>2, <1>4, <1>6, <1>10, <1>20, <1>21, <2>1, <2>2 DEF EitherAnswerOrRow
  <2>3. ASSUME NEW d \in InForce' PROVE record'.mapping[d.param].value = d.value
    BY <1>2, <1>6, <1>9, <1>10, <1>20, <1>21, <2>1, <2>3 DEF EitherAnswerOrRow
  <2> QED BY <2>2, <2>3 DEF EitherAnswerOrRow, UserGave
<1>19. NothingDerivedIsStale'
  BY <1>4 DEF NothingDerivedIsStale
<1> QED BY <1>5, <1>12, <1>13, <1>14, <1>15, <1>16, <1>17, <1>18, <1>19
        DEF Good, OverlayMatchesRows

LEMMA UndoGood ==
  ASSUME TypeOK, Copies, Good, NEW a \in Requests, Undo(a)
  PROVE  Good'
<1>1. PICK c \in rows :
        /\ c.id \in record.marks
        /\ record' = [Revalued(record, c.param, c.original, "document_extracted")
                        EXCEPT !.marks = record.marks \ {c.id}]
        /\ rows' = {d \in rows : d.id # c.id}
  BY UndoWrites
<1>2. record \in Record
  BY UndoWrites
<1>3. c.param \in Params /\ c.original \in Values /\ "document_extracted" \in Sources
  BY DEF TypeOK, Correction, Sources
<1> DEFINE p == c.param
           s == Revalued(record, p, c.original, "document_extracted")
<1>4. /\ s \in Record
      /\ s.mapping = [record.mapping EXCEPT ![p] = [value |-> c.original, source |-> "document_extracted"]]
      /\ s.fills = record.fills /\ s.steps = None /\ s.script = None
      /\ s.guidance.status = "stale_pending_regeneration"
  BY <1>2, <1>3, RevaluedFields
<1>5. record' = [s EXCEPT !.marks = record.marks \ {c.id}]
  BY <1>1
<1> HIDE DEF s
<1>6. /\ record' \in Record
      /\ record'.mapping = [record.mapping EXCEPT ![p] = [value |-> c.original, source |-> "document_extracted"]]
      /\ record'.fills = record.fills /\ record'.marks = record.marks \ {c.id}
      /\ record'.steps = None /\ record'.script = None
      /\ record'.guidance.status = "stale_pending_regeneration"
  BY <1>2, <1>4, <1>5 DEF Record
<1>7. record # Gone /\ record' # Gone /\ record.mapping \in Mapping
  BY <1>2, <1>6, GoneApart DEF Record
<1>8. /\ ~UserGave(record, p)' /\ record'.mapping[p].value = c.original
      /\ \A q \in Params \ {p} : /\ record'.mapping[q] = record.mapping[q]
                                 /\ UserGave(record, q)' = UserGave(record, q)
  BY <1>3, <1>6, <1>7 DEF UserGave, Mapping
<1>9. nextId' = nextId /\ extracted' = extracted /\ markerTyped' = markerTyped
      /\ leftBehind' = leftBehind
  BY DEF Undo, history
<1>10. /\ RowsHaveEvidence /\ OneRowEach /\ RowsKeepOriginals /\ ValuesHaveSources
       /\ ~markerTyped => EitherAnswerOrRow
  BY <1>7 DEF Good, OverlayMatchesRows
<1>11. rows' = rows \ {c} /\ \A d \in rows' : d.param # p
  BY <1>1, <1>10 DEF OneRowEach
<1>21. c \in InForce /\ InForce' = InForce \ {c} /\ InForce \subseteq rows
  BY <1>1, <1>7, <1>9, <1>11, EvidenceInForce DEF InForce
<1>12. \A d \in rows : d.param \in Params
  BY DEF TypeOK, Correction
<1>13. FreshIds'
  BY <1>9, <1>11 DEF FreshIds, Good
<1>14. UntypedMarker'
  BY <1>7, <1>8, <1>9 DEF UntypedMarker, Good
<1>15. RowsHaveEvidence'
  <2>1. c.id \notin leftBehind
    BY <1>21 DEF InForce
  <2>2. \A d \in InForce : d.id = c.id => d = c
    BY <1>10, <1>21 DEF OneRowEach
  <2>3. record'.marks = {d.id : d \in InForce'}
    BY <1>6, <1>10, <1>21, <2>2 DEF RowsHaveEvidence
  <2>4. leftBehind' \subseteq {d.id : d \in rows'}
    BY <1>1, <1>9, <1>10, <2>1 DEF RowsHaveEvidence
  <2> QED BY <2>3, <2>4 DEF RowsHaveEvidence
<1>16. OneRowEach'
  BY <1>10, <1>11 DEF OneRowEach
<1>17. RowsKeepOriginals'
  BY <1>8, <1>9, <1>10, <1>11, <1>12, <1>21 DEF RowsKeepOriginals, UserGave
<1>18. ValuesHaveSources'
  <2>1. c.original = extracted[p]
    BY <1>10, <1>21 DEF RowsKeepOriginals
  <2>2. ASSUME NEW q \in Params
        PROVE  /\ ~UserGave(record, q)' => record'.mapping[q].value = extracted'[q]
               /\ UserGave(record, q)' => q \in record'.fills \/ \E d \in InForce' : d.param = q
    BY <1>6, <1>8, <1>9, <1>10, <1>21, <2>1 DEF ValuesHaveSources
  <2> QED BY <2>2 DEF ValuesHaveSources, UserGave
<1>19. ASSUME ~markerTyped' PROVE EitherAnswerOrRow'
  <2>1. p \notin record.fills /\ record.fills \subseteq Params /\ EitherAnswerOrRow
    BY <1>2, <1>9, <1>10, <1>19, <1>21 DEF EitherAnswerOrRow, Record
  <2>2. ASSUME NEW q \in record'.fills
        PROVE  UserGave(record, q)' /\ \A d \in InForce' : d.param # q
    BY <1>6, <1>8, <1>21, <2>1, <2>2 DEF EitherAnswerOrRow
  <2>3. ASSUME NEW d \in InForce' PROVE record'.mapping[d.param].value = d.value
    BY <1>8, <1>11, <1>12, <1>21, <2>1, <2>3 DEF EitherAnswerOrRow
  <2> QED BY <2>2, <2>3 DEF EitherAnswerOrRow, UserGave
<1>20. NothingDerivedIsStale'
  BY <1>6 DEF NothingDerivedIsStale
<1> QED BY <1>7, <1>13, <1>14, <1>15, <1>16, <1>17, <1>18, <1>19, <1>20
        DEF Good, OverlayMatchesRows

LEMMA SupplyGood ==
  ASSUME TypeOK, Copies, Good, NEW a \in Requests, NEW batch \in SUBSET Params,
         NEW answer \in [batch -> Answers], Supply(a, batch, answer)
  PROVE  Good'
<1>1. /\ record \in Record /\ \A p \in batch : record.mapping[p].value = Marker
      /\ record' = SuppliedOf(record, batch, answer) /\ rows' = rows
  BY SupplyWrites
<1>2. /\ record' \in Record
      /\ record'.mapping = [p \in Params |-> IF p \in batch
                                             THEN [value |-> answer[p], source |-> "user_supplied"]
                                             ELSE record.mapping[p]]
      /\ record'.prompts = record.prompts /\ record'.fills = record.fills \cup batch
      /\ record'.marks = record.marks
      /\ record'.steps = record.steps /\ record'.script = record.script
      /\ record'.guidance.status = "stale_pending_regeneration"
  <2> DEFINE r == record
  <2>1. r \in Record
    BY <1>1
  <2> HIDE DEF r
  <2>2. LET t == SuppliedOf(r, batch, answer) IN
        /\ t \in Record
        /\ t.mapping = [p \in Params |-> IF p \in batch
                                          THEN [value |-> answer[p], source |-> "user_supplied"]
                                          ELSE r.mapping[p]]
        /\ t.prompts = r.prompts /\ t.fills = r.fills \cup batch /\ t.marks = r.marks
        /\ t.steps = r.steps /\ t.script = r.script
        /\ t.guidance.status = "stale_pending_regeneration"
    BY <2>1, SuppliedFields
  <2> QED BY <1>1, <2>2 DEF r
<1>3. record # Gone /\ record' # Gone
  BY <1>1, <1>2, GoneApart
<1>4. /\ \A q \in batch : UserGave(record, q)' /\ record'.mapping[q].value = answer[q]
      /\ \A q \in Params \ batch : /\ record'.mapping[q] = record.mapping[q]
                                   /\ UserGave(record, q)' = UserGave(record, q)
  BY <1>2 DEF UserGave
<1>5. /\ nextId' = nextId /\ extracted' = extracted /\ leftBehind' = leftBehind
      /\ ~markerTyped' => ~markerTyped /\ \A q \in batch : answer[q] # Marker
  BY DEF Supply
<1>6. /\ RowsHaveEvidence /\ OneRowEach /\ RowsKeepOriginals /\ ValuesHaveSources
      /\ ~markerTyped => EitherAnswerOrRow
  BY <1>3 DEF Good, OverlayMatchesRows
<1>20. InForce' = InForce /\ InForce \subseteq rows
  BY <1>1, <1>5 DEF InForce
<1>7. \A d \in rows : d.param \in Params
  BY DEF TypeOK, Correction
<1>8. ~markerTyped => \A q \in batch : ~UserGave(record, q)
  BY <1>1, <1>3 DEF Good, UntypedMarker
<1>9. FreshIds'
  BY <1>1, <1>5 DEF FreshIds, Good
<1>10. UntypedMarker'
  <2>1. ASSUME ~markerTyped', NEW q \in Params, UserGave(record, q)'
        PROVE  record'.mapping[q].value # Marker
    BY <1>3, <1>4, <1>5, <2>1 DEF UntypedMarker, Good
  <2> QED BY <2>1 DEF UntypedMarker, UserGave
<1>11. RowsHaveEvidence' /\ OneRowEach'
  BY <1>1, <1>2, <1>5, <1>6, <1>20 DEF RowsHaveEvidence, OneRowEach
<1>12. RowsKeepOriginals'
  <2>1. ASSUME NEW d \in InForce'
        PROVE  UserGave(record, d.param)' /\ d.original = extracted'[d.param]
    BY <1>4, <1>5, <1>6, <1>7, <1>20, <2>1 DEF RowsKeepOriginals
  <2> QED BY <2>1 DEF RowsKeepOriginals, UserGave
<1>13. ValuesHaveSources'
  <2>1. ASSUME NEW q \in Params
        PROVE  /\ ~UserGave(record, q)' => record'.mapping[q].value = extracted'[q]
               /\ UserGave(record, q)' => q \in record'.fills \/ \E d \in InForce' : d.param = q
    BY <1>2, <1>4, <1>5, <1>6, <1>20 DEF ValuesHaveSources
  <2> QED BY <2>1 DEF ValuesHaveSources, UserGave
<1>14. ASSUME ~markerTyped' PROVE EitherAnswerOrRow'
  <2>1. EitherAnswerOrRow /\ \A d \in InForce : d.param \notin batch
    BY <1>5, <1>6, <1>8, <1>14 DEF RowsKeepOriginals
  <2>2. ASSUME NEW q \in record'.fills
        PROVE  UserGave(record, q)' /\ \A d \in InForce' : d.param # q
    <3>1. CASE q \in batch
      BY <1>4, <1>20, <2>1, <3>1
    <3>2. CASE q \notin batch
      <4>1. q \in record.fills /\ q \in Params
        BY <1>1, <1>2, <2>2, <3>2 DEF Record
      <4> QED BY <1>4, <1>20, <2>1, <3>2, <4>1 DEF EitherAnswerOrRow
    <3> QED BY <3>1, <3>2
  <2>3. ASSUME NEW d \in InForce' PROVE record'.mapping[d.param].value = d.value
    BY <1>4, <1>7, <1>20, <2>1, <2>3 DEF EitherAnswerOrRow
  <2> QED BY <2>2, <2>3 DEF EitherAnswerOrRow, UserGave
<1>15. NothingDerivedIsStale'
  <2>1. NothingDerivedIsStale
    BY DEF Good
  <2>2. Resolved(record) \subseteq Resolved(record)'
    <3> SUFFICES ASSUME NEW q \in Resolved(record) PROVE q \in Resolved(record')
      BY DEF Resolved, UserGave
    <3>1. q \in record.prompts \cap record.fills /\ UserGave(record, q)
          /\ record.mapping[q].value # Marker
      BY DEF Resolved
    <3>2. q \notin batch /\ q \in Params
      BY <1>1, <3>1 DEF Record
    <3> QED BY <1>2, <1>4, <3>1, <3>2 DEF Resolved, UserGave
  <2>3. record'.steps # None =>
          /\ \A q \in Params \ record'.fills : record'.steps.values[q] = record'.mapping[q].value
          /\ record'.steps.cites.fills \subseteq Resolved(record)'
          /\ record'.steps.cites.marks \subseteq {c.id : c \in InForce'}
    BY <1>2, <1>3, <1>4, <1>20, <2>1, <2>2 DEF NothingDerivedIsStale
  <2>4. record'.script # None =>
          \A q \in Params \ record'.fills : record'.script[q] = record'.mapping[q].value
    BY <1>2, <1>3, <1>4, <2>1 DEF NothingDerivedIsStale
  <2> QED BY <1>2, <2>3, <2>4 DEF NothingDerivedIsStale, Resolved, UserGave
<1> QED BY <1>3, <1>9, <1>10, <1>11, <1>12, <1>13, <1>14, <1>15 DEF Good, OverlayMatchesRows

LEMMA RegenerateGood ==
  ASSUME TypeOK, Copies, Good, NEW a \in Requests, NEW made \in SUBSET Artifacts,
         Regenerate(a, made)
  PROVE  Good'
<1>1. record \in Record /\ record' = RegeneratedOf(record, rows, made) /\ rows' = rows
  BY RegenerateWrites
<1>2. rows \in SUBSET Correction
  BY DEF TypeOK
<1>3. /\ record' \in Record
      /\ record'.mapping = record.mapping /\ record'.prompts = record.prompts
      /\ record'.fills = record.fills /\ record'.marks = record.marks
      /\ record'.steps = StepsAfter(record, Citable(record, rows), made)
      /\ record'.script = ScriptAfter(record, made)
      /\ record'.guidance.status = "generated"
           => record'.guidance.of = [values |-> CurrentValues(record'), steps |-> record'.steps]
  BY <1>1, <1>2, RegeneratedFields
<1>4. record # Gone /\ record' # Gone
  BY <1>1, <1>3, GoneApart
<1>5. nextId' = nextId /\ extracted' = extracted /\ markerTyped' = markerTyped
      /\ leftBehind' = leftBehind
  BY DEF Regenerate, history
<1>9. InForce' = InForce
  BY <1>1, <1>5 DEF InForce
<1>6. FreshIds' /\ UntypedMarker'
  BY <1>1, <1>3, <1>4, <1>5 DEF FreshIds, UntypedMarker, Good, UserGave
<1>7. OverlayMatchesRows'
  BY <1>1, <1>3, <1>4, <1>5, <1>9
     DEF Good, OverlayMatchesRows, RowsHaveEvidence, OneRowEach, RowsKeepOriginals,
         ValuesHaveSources, EitherAnswerOrRow, UserGave
<1>8. NothingDerivedIsStale'
  <2>1. NothingDerivedIsStale
    BY DEF Good
  <2>2. Resolved(record)' = Resolved(record)
    BY <1>3 DEF Resolved, UserGave
  <2>3. \A q \in Params : CurrentValues(record)[q] = record.mapping[q].value
    BY DEF CurrentValues
  <2>4. /\ Citable(record, rows).fills = Resolved(record)
        /\ Citable(record, rows).marks \subseteq {c.id : c \in InForce}
    BY <1>4 DEF Citable, Good, OverlayMatchesRows, RowsHaveEvidence
  <2>5. CASE "steps" \in made
    <3>1. record'.steps = [values |-> CurrentValues(record), cites |-> Citable(record, rows)]
      BY <1>3, <2>5 DEF StepsAfter
    <3> QED BY <1>3, <1>9, <2>2, <2>3, <2>4, <3>1, <2>1, <1>4
            DEF NothingDerivedIsStale, ScriptAfter, Resolved, UserGave
  <2>6. CASE "steps" \notin made
    <3>1. record'.steps = record.steps
      BY <1>3, <2>6 DEF StepsAfter
    <3> QED BY <1>3, <1>9, <2>2, <2>3, <3>1, <2>1, <1>4
            DEF NothingDerivedIsStale, ScriptAfter, Resolved, UserGave
  <2> QED BY <2>5, <2>6
<1> QED BY <1>6, <1>7, <1>8 DEF Good

(* A plan fresh from the generator has no overlay: what rows there are,    *)
(* were left behind.                                                       *)
FreshIsGood ==
  \A e \in Extractions, made \in SUBSET Artifacts, st \in Statuses :
    /\ st = "generated" => "steps" \in made
    /\ record = Generated(e, made, st) /\ extracted = e
    /\ OneRowEach /\ FreshIds /\ leftBehind = {c.id : c \in rows}
    => Good /\ record \in Record

LEMMA FreshBundle == FreshIsGood
<1>0. ASSUME NEW e \in Extractions, NEW made \in SUBSET Artifacts, NEW st \in Statuses,
             st = "generated" => "steps" \in made,
             NEW g, g = Generated(e, made, st)
      PROVE  /\ g \in Record
             /\ g.mapping = [p \in Params |-> [value |-> e[p], source |-> "document_extracted"]]
             /\ g.fills = {} /\ g.marks = {}
             /\ g.steps # None => /\ g.steps.values = e
                                  /\ g.steps.cites = [fills |-> {}, marks |-> {}]
             /\ g.script # None => g.script = e
             /\ g.guidance.status = st
             /\ st = "generated" => g.guidance.of = [values |-> e, steps |-> g.steps]
  <2>1. LET h == Generated(e, made, st) IN
        /\ h \in Record
        /\ h.mapping = [p \in Params |-> [value |-> e[p], source |-> "document_extracted"]]
        /\ h.fills = {} /\ h.marks = {}
        /\ h.steps # None => /\ h.steps.values = e
                             /\ h.steps.cites = [fills |-> {}, marks |-> {}]
        /\ h.script # None => h.script = e
        /\ h.guidance.status = st
        /\ st = "generated" => h.guidance.of = [values |-> e, steps |-> h.steps]
    BY ONLY st = "generated" => "steps" \in made, e \in Extractions, made \in SUBSET Artifacts,
       st \in Statuses, GeneratedFields
  <2> QED BY <1>0, <2>1
<1> SUFFICES ASSUME NEW e \in Extractions, NEW made \in SUBSET Artifacts, NEW st \in Statuses,
                    st = "generated" => "steps" \in made,
                    record = Generated(e, made, st), extracted = e,
                    OneRowEach, FreshIds, leftBehind = {c.id : c \in rows}
             PROVE  Good /\ record \in Record
  BY DEF FreshIsGood
<1>1. /\ record \in Record
      /\ record.mapping = [p \in Params |-> [value |-> e[p], source |-> "document_extracted"]]
      /\ record.fills = {} /\ record.marks = {}
      /\ record.steps # None => /\ record.steps.values = e
                                /\ record.steps.cites = [fills |-> {}, marks |-> {}]
      /\ record.script # None => record.script = e
      /\ record.guidance.status = st
      /\ st = "generated" => record.guidance.of = [values |-> e, steps |-> record.steps]
  BY <1>0
<1>2. \A p \in Params : ~UserGave(record, p) /\ record.mapping[p].value = e[p]
  BY <1>1 DEF UserGave
<1>3. e = [p \in Params |-> e[p]]
  BY ExtractionsTyped
<1>4. CurrentValues(record) = e
  BY <1>2, <1>3 DEF CurrentValues
<1>7. InForce = {}
  BY DEF InForce
<1>5. OverlayMatchesRows
  <2>1. RowsHaveEvidence
    BY <1>1, <1>7 DEF RowsHaveEvidence
  <2>2. RowsKeepOriginals /\ EitherAnswerOrRow
    BY <1>1, <1>7 DEF RowsKeepOriginals, EitherAnswerOrRow
  <2>3. ValuesHaveSources
    BY <1>2 DEF ValuesHaveSources
  <2> QED BY <1>1, <2>1, <2>2, <2>3, GoneApart DEF OverlayMatchesRows
<1>6. NothingDerivedIsStale
  BY <1>1, <1>2, <1>4 DEF NothingDerivedIsStale
<1> QED BY <1>1, <1>2, <1>5, <1>6 DEF Good, UntypedMarker

LEMMA GoodStep ==
  ASSUME TypeOK, Copies, Good, Next
  PROVE  Good'
<1>1. ASSUME UNCHANGED <<record, rows, nextId, extracted, markerTyped, leftBehind>>
      PROVE  Good'
  BY <1>1 DEF Good, FreshIds, UntypedMarker, OverlayMatchesRows, NothingDerivedIsStale,
              RowsHaveEvidence, OneRowEach, RowsKeepOriginals, ValuesHaveSources,
              EitherAnswerOrRow, InForce, UserGave, Resolved, CurrentValues
<1>2. ASSUME NEW a \in Requests, Walk(a) PROVE Good'
  BY <1>1, <1>2, WalkKeeps
<1>3. ASSUME Crash \/ MarkRefusedUpload PROVE Good'
  BY <1>1, <1>3 DEF Crash, MarkRefusedUpload, history
<1>4. CASE DeleteExpired
  BY <1>4 DEF DeleteExpired, Good, FreshIds, UntypedMarker, OverlayMatchesRows, NothingDerivedIsStale
<1>5. ASSUME NEW a \in Requests, NEW e \in Extractions, NEW made \in SUBSET Artifacts,
             Reparse(a, e, made)
      PROVE  Good'
  <2>1. record' = Generated(e, made, "not_generated") /\ rows' = {} /\ extracted' = e /\ leftBehind' = {}
    BY <1>5 DEF Reparse
  <2>2. "not_generated" \in Statuses
    BY DEF Statuses
  <2>3. FreshIsGood'
    BY FreshBundle, PTL
  <2>4. OneRowEach' /\ FreshIds'
    BY <2>1 DEF OneRowEach, FreshIds
  <2> QED BY <2>1, <2>2, <2>3, <2>4 DEF FreshIsGood
<1>6. ASSUME NEW a \in Requests, NEW e \in Extractions, NEW made \in SUBSET Artifacts,
             SaveRerun(a, e, made)
      PROVE  Good'
  <2>1. /\ record' = Planned(e, made) /\ extracted' = e /\ leftBehind' = {c.id : c \in rows}
        /\ rows' = rows /\ nextId' = nextId /\ record # Gone
    BY <1>6 DEF SaveRerun, SetPlan
  <2>2. PICK st \in Statuses : /\ st = "generated" => "steps" \in made
                               /\ Planned(e, made) = Generated(e, made, st)
    BY PlannedIs
  <2>3. FreshIsGood'
    BY FreshBundle, PTL
  <2>4. OneRowEach' /\ FreshIds'
    BY <2>1 DEF OneRowEach, FreshIds, Good, OverlayMatchesRows
  <2> QED BY <2>1, <2>2, <2>3, <2>4 DEF FreshIsGood
<1> QED BY <1>2, <1>3, <1>4, <1>5, <1>6, CorrectFirstGood, CorrectAgainGood, UndoGood, SupplyGood,
           RegenerateGood
        DEF Next, Edit, Rebuild, Walk

LEMMA InitGood == Init => IInv
<1> SUFFICES ASSUME Init PROVE IInv
  OBVIOUS
<1>1. PICK e \in Extractions, made \in SUBSET Artifacts, st \in Statuses :
        /\ st = "generated" => "steps" \in made
        /\ record = Generated(e, made, st) /\ extracted = e
  BY PlannedIs DEF Init
<1>2. Good /\ record \in Record
  BY <1>1, FreshBundle DEF FreshIsGood, Init, OneRowEach, FreshIds
<1>3. TypeOK
  <2>1. request \in [Requests -> [kind : Kinds \cup {"none"},
                               at : {"idle", "found", "locked", "started", "saved", "read", "ready"},
                               record : {Gone} \cup Record, rows : SUBSET Correction]]
    BY DEF Init, Idle
  <2>2. extracted \in Extractions /\ job \in Jobs
    BY <1>1 DEF Init
  <2>3. /\ rows = {} /\ lock = NoOne /\ nextId = 1 /\ markerTyped = FALSE /\ late \in BOOLEAN
        /\ leftBehind = {}
    BY DEF Init
  <2>4. nextId \in 1 .. MaxId + 1
    BY <2>3, MaxIdNatural
  <2> QED BY <1>2, <2>1, <2>2, <2>3, <2>4 DEF TypeOK
<1>4. Copies
  BY DEF Init, Copies, Idle
<1> QED BY <1>2, <1>3, <1>4 DEF IInv

LEMMA StutterGood ==
  ASSUME IInv, UNCHANGED vars
  PROVE  IInv'
<1>1. TypeOK' /\ Copies'
  BY DEF IInv, TypeOK, Copies, vars, history, upload
<1>2. Good'
  BY DEF IInv, vars, history, Good, FreshIds, UntypedMarker, OverlayMatchesRows,
         NothingDerivedIsStale, RowsHaveEvidence, OneRowEach, RowsKeepOriginals,
         ValuesHaveSources, EitherAnswerOrRow, InForce, UserGave, Resolved, CurrentValues
<1> QED BY <1>1, <1>2 DEF IInv

LEMMA Inductive == Spec => []IInv
<1>1. IInv /\ [Next]_vars => IInv'
  BY TypeStep, CopiesStep, GoodStep, StutterGood DEF IInv
<1> QED BY InitGood, <1>1, PTL DEF Spec

(* The types hold for any parameters, values and number of requests.       *)
THEOREM RecordTyped == Spec => []TypeOK
BY Inductive, PTL DEF IInv

(* Overlay and rows are one thing after any run of edits, crashes,         *)
(* expirations, reparses and reruns, but for the rows a rerun left behind. *)
THEOREM OverlayAlwaysMatches == Spec => []OverlayMatchesRows
<1>1. IInv => OverlayMatchesRows
  BY DEF IInv, Good
<1> QED BY <1>1, Inductive, PTL

(* Nothing derived is ever served for values it was not made from.         *)
THEOREM DerivedNeverStale == Spec => []NothingDerivedIsStale
<1>1. IInv => NothingDerivedIsStale
  BY DEF IInv, Good
<1> QED BY <1>1, Inductive, PTL

(* A step that changes a user's value does so with that value's own row,   *)
(* with the bundle, or with a plan saved over it.                          *)
Kept ==
  \A p \in Params :
    /\ record # Gone /\ record' # Gone /\ ~markerTyped'
    /\ UserGave(record, p) /\ record'.mapping[p] # record.mapping[p]
    => \/ \E c \in InForce \ rows' : c.param = p
       \/ \E a \in Requests : HoldsLock(a) /\ At(a, {"reparse"}, "locked")
       \/ /\ \E a \in Requests : HoldsLock(a) /\ At(a, {"rerun"}, "started")
          /\ \A c \in InForce : c \in rows' /\ c.id \in leftBehind'

LEMMA KeptStep ==
  ASSUME IInv, Next
  PROVE  Kept
<1> USE DEF IInv
<1>1. ASSUME record' = Gone \/ record' = record PROVE Kept
  BY <1>1 DEF Kept
<1>2. ASSUME NEW a \in Requests, NEW p \in Params, NEW v \in Answers, CorrectFirst(a, p, v)
      PROVE  Kept
  <2>1. /\ record \in Record /\ ~UserGave(record, p)
        /\ record' = [Revalued(record, p, v, "user_supplied") EXCEPT !.marks = record.marks \cup {nextId}]
    BY <1>2, CorrectFirstWrites
  <2>2. \A q \in Params \ {p} : record'.mapping[q] = record.mapping[q]
    BY <2>1 DEF Revalued, Record, Mapping
  <2> QED BY <2>1, <2>2 DEF Kept
<1>3. ASSUME NEW a \in Requests, NEW p \in Params, NEW v \in Answers, CorrectAgain(a, p, v)
      PROVE  Kept
  <2>1. record \in Record /\ record' = Revalued(record, p, v, "user_supplied") /\ UserGave(record, p)
    BY <1>3, CorrectAgainWrites
  <2>2. PICK c \in rows :
          /\ c.param = p /\ c.id \in record.marks
          /\ rows' = {IF d.id = c.id THEN [d EXCEPT !.value = v] ELSE d : d \in rows}
    BY <1>3, CorrectAgainWrites
  <2>3. /\ \A q \in Params \ {p} : record'.mapping[q] = record.mapping[q]
        /\ record'.mapping[p] = [value |-> v, source |-> "user_supplied"]
    BY <2>1 DEF Revalued, Record, Mapping
  <2>4. SUFFICES ASSUME ~markerTyped', record'.mapping[p] # record.mapping[p], record # Gone
                 PROVE  c \in InForce /\ c \notin rows'
    BY <2>2, <2>3 DEF Kept
  <2>11. c \in InForce
    BY <2>2, <2>4, EvidenceInForce
  <2>5. EitherAnswerOrRow
    BY <1>3, <2>4 DEF CorrectAgain, Good, OverlayMatchesRows
  <2>6. record.mapping[p] \in [value : Values, source : Sources]
    BY <2>1 DEF Record, Mapping
  <2>7. record.mapping[p].value = c.value /\ record.mapping[p].source = "user_supplied"
    BY <2>1, <2>2, <2>5, <2>11 DEF EitherAnswerOrRow, UserGave
  <2>8. c.value # v
    BY <2>3, <2>4, <2>6, <2>7
  <2>9. c \in Correction
    BY DEF TypeOK
  <2>10. ASSUME NEW d \in rows, c = IF d.id = c.id THEN [d EXCEPT !.value = v] ELSE d PROVE FALSE
    <3>1. d \in Correction
      BY DEF TypeOK
    <3> QED BY <2>8, <2>9, <2>10, <3>1 DEF Correction
  <2> QED BY <2>2, <2>10, <2>11
<1>4. ASSUME NEW a \in Requests, Undo(a) PROVE Kept
  <2>1. PICK c \in rows :
          /\ c.id \in record.marks
          /\ record' = [Revalued(record, c.param, c.original, "document_extracted")
                          EXCEPT !.marks = record.marks \ {c.id}]
          /\ rows' = {d \in rows : d.id # c.id}
    BY <1>4, UndoWrites
  <2>2. record \in Record
    BY <1>4, UndoWrites
  <2>3. \A q \in Params \ {c.param} : record'.mapping[q] = record.mapping[q]
    BY <2>1, <2>2 DEF Revalued, Record, Mapping
  <2>4. record # Gone => c \in InForce
    BY <2>1, EvidenceInForce
  <2> QED BY <2>1, <2>3, <2>4 DEF Kept
<1>5. ASSUME NEW a \in Requests, NEW batch \in SUBSET Params, NEW answer \in [batch -> Answers],
             Supply(a, batch, answer)
      PROVE  Kept
  <2>1. /\ record \in Record /\ \A p \in batch : record.mapping[p].value = Marker
        /\ record' = SuppliedOf(record, batch, answer)
    BY <1>5, SupplyWrites
  <2>2. \A q \in Params \ batch : record'.mapping[q] = record.mapping[q]
    BY <2>1 DEF SuppliedOf, Record, Mapping
  <2>3. ~markerTyped' => ~markerTyped
    BY <1>5 DEF Supply
  <2> QED BY <2>1, <2>2, <2>3 DEF Kept, Good, UntypedMarker
<1>6. ASSUME NEW a \in Requests, NEW made \in SUBSET Artifacts, Regenerate(a, made)
      PROVE  Kept
  <2>1. record \in Record /\ record' = RegeneratedOf(record, rows, made)
    BY <1>6, RegenerateWrites
  <2>2. rows \in SUBSET Correction
    BY DEF TypeOK
  <2>3. record'.mapping = record.mapping
    BY <2>1, <2>2, RegeneratedFields
  <2> QED BY <2>3 DEF Kept
<1>7. ASSUME NEW a \in Requests, NEW e \in Extractions, NEW made \in SUBSET Artifacts,
             Reparse(a, e, made)
      PROVE  Kept
  BY <1>7 DEF Reparse, Copies, At, HoldsLock, Kept
<1>8. ASSUME NEW a \in Requests, Walk(a) PROVE Kept
  BY <1>1, <1>8, WalkKeeps
<1>9. ASSUME DeleteExpired \/ Crash \/ MarkRefusedUpload PROVE Kept
  BY <1>1, <1>9 DEF DeleteExpired, Crash, MarkRefusedUpload
<1>10. ASSUME NEW a \in Requests, NEW e \in Extractions, NEW made \in SUBSET Artifacts,
              SaveRerun(a, e, made)
       PROVE  Kept
  BY <1>10 DEF SaveRerun, SetPlan, InForce, Copies, At, HoldsLock, Kept
<1> QED BY <1>2, <1>3, <1>4, <1>5, <1>6, <1>7, <1>8, <1>9, <1>10 DEF Next, Edit, Rebuild, Walk

(* No edit is lost to another one, whatever was read before it, and none   *)
(* at all but to a rerun that saves its plan over the stored one.          *)
THEOREM EditsNeverLost == Spec => NoLostEdits
<1>1. IInv /\ [Next]_vars => [Kept]_vars
  BY KeptStep
<1> QED BY <1>1, Inductive, PTL DEF Spec, NoLostEdits, Kept

----------------------------------------------------------------------------
(* Questions.  They only read: a system with them is one without.          *)

LEMMA QuestionsStep == QNext => [Next]_vars
BY DEF QNext, RecordStep, VisitorStep, Visit, ReadCorrections, Said, AnswerQuestion, Suggest, Leave

(* Whatever is proved of the record holds while questions are asked.       *)
THEOREM QuestionsOnlyRead == QSpec => Spec
<1>1. QInit => Init
  BY DEF QInit
<1>2. [QNext]_qvars => [Next]_vars
  BY QuestionsStep DEF qvars, vars, history
<1> QED
  BY <1>1, <1>2, PTL DEF QSpec, Spec

(* A prompt asks for what the present bundle's documents do not give.      *)
Prompted ==
  /\ extracted \in Extractions
  /\ record # Gone => record.prompts = {p \in Params : extracted[p] = Marker}

LEMMA PromptedInit == Init => Prompted
BY DEF Init, Prompted, Planned, Generated

LEMMA PromptedStep ==
  ASSUME TypeOK, Copies, Prompted, Next
  PROVE  Prompted'
<1>1. ASSUME record' = record \/ record' = Gone, extracted' = extracted PROVE Prompted'
  BY <1>1 DEF Prompted
<1>2. ASSUME record # Gone, record' # Gone => record'.prompts = record.prompts, extracted' = extracted
      PROVE  Prompted'
  BY <1>2 DEF Prompted
<1>3. ASSUME NEW a \in Requests, NEW p \in Params, NEW v \in Answers, CorrectFirst(a, p, v)
      PROVE  Prompted'
  <2>1. v \in Values /\ "user_supplied" \in Sources
    BY DEF Values, Sources
  <2>2. /\ record \in Record
        /\ record' = [Revalued(record, p, v, "user_supplied") EXCEPT !.marks = record.marks \cup {nextId}]
    BY <1>3, CorrectFirstWrites
  <2>3. record'.prompts = record.prompts
    <3> DEFINE s == Revalued(record, p, v, "user_supplied")
    <3>0. s \in Record
      BY <2>1, <2>2, RevaluedFields
    <3>1. s.prompts = record.prompts
      BY <2>2 DEF Revalued, Record
    <3> HIDE DEF s
    <3>2. record' = [s EXCEPT !.marks = record.marks \cup {nextId}]
      BY <2>2 DEF s
    <3> QED
      BY <3>0, <3>1, <3>2 DEF Record
  <2> QED
    BY <1>2, <1>3, <2>2, <2>3, GoneApart DEF CorrectFirst
<1>4. ASSUME NEW a \in Requests, NEW p \in Params, NEW v \in Answers, CorrectAgain(a, p, v)
      PROVE  Prompted'
  <2>1. v \in Values /\ "user_supplied" \in Sources
    BY DEF Values, Sources
  <2>2. record \in Record /\ record' = Revalued(record, p, v, "user_supplied")
    BY <1>4, CorrectAgainWrites
  <2>3. Revalued(record, p, v, "user_supplied").prompts = record.prompts
    BY <2>2 DEF Revalued, Record
  <2> QED
    BY <1>2, <1>4, <2>2, <2>3, GoneApart DEF CorrectAgain
<1>5. ASSUME NEW a \in Requests, Undo(a) PROVE Prompted'
  <2>1. PICK c \in rows :
          record' = [Revalued(record, c.param, c.original, "document_extracted")
                       EXCEPT !.marks = record.marks \ {c.id}]
    BY <1>5, UndoWrites
  <2>2. record \in Record /\ c.param \in Params /\ c.original \in Values /\ "document_extracted" \in Sources
    BY <1>5, UndoWrites DEF TypeOK, Correction, Sources
  <2>3. record'.prompts = record.prompts
    <3> DEFINE s == Revalued(record, c.param, c.original, "document_extracted")
    <3>0. s \in Record
      BY <2>2, RevaluedFields
    <3>1. s.prompts = record.prompts
      BY <2>2 DEF Revalued, Record
    <3> HIDE DEF s
    <3>2. record' = [s EXCEPT !.marks = record.marks \ {c.id}]
      BY <2>1 DEF s
    <3> QED
      BY <3>0, <3>1, <3>2 DEF Record
  <2> QED
    BY <1>2, <1>5, <2>2, <2>3, GoneApart DEF Undo, history
<1>6. ASSUME NEW a \in Requests, NEW batch \in SUBSET Params, NEW answer \in [batch -> Answers],
             Supply(a, batch, answer)
      PROVE  Prompted'
  <2>1. record \in Record /\ record' = SuppliedOf(record, batch, answer)
    BY <1>6, SupplyWrites
  <2>2. SuppliedOf(record, batch, answer).prompts = record.prompts
    BY <2>1 DEF SuppliedOf, Record
  <2> QED
    BY <1>2, <1>6, <2>1, <2>2, GoneApart DEF Supply
<1>7. ASSUME NEW a \in Requests, NEW made \in SUBSET Artifacts, Regenerate(a, made)
      PROVE  Prompted'
  <2>1. record \in Record /\ record' = RegeneratedOf(record, rows, made) /\ rows \in SUBSET Correction
    BY <1>7, RegenerateWrites DEF TypeOK
  <2>2. record'.prompts = record.prompts
    BY <2>1, RegeneratedFields
  <2> QED
    BY <1>2, <1>7, <2>1, <2>2, GoneApart DEF Regenerate, history
<1>8. ASSUME NEW a \in Requests, NEW e \in Extractions, NEW made \in SUBSET Artifacts,
             Reparse(a, e, made)
      PROVE  Prompted'
  BY <1>8 DEF Reparse, Prompted, Generated
<1>9. ASSUME NEW a \in Requests, Walk(a) PROVE Prompted'
  BY <1>1, <1>9, WalkKeeps
<1>10. ASSUME DeleteExpired \/ Crash \/ MarkRefusedUpload PROVE Prompted'
  BY <1>1, <1>10 DEF DeleteExpired, Crash, MarkRefusedUpload, history
<1>11. ASSUME NEW a \in Requests, NEW e \in Extractions, NEW made \in SUBSET Artifacts,
              SaveRerun(a, e, made)
       PROVE  Prompted'
  BY <1>11 DEF SaveRerun, SetPlan, Prompted, Planned, Generated
<1> QED
  BY <1>3, <1>4, <1>5, <1>6, <1>7, <1>8, <1>9, <1>10, <1>11 DEF Next, Edit, Rebuild, Walk

(* An answered prompt is the user's, or shows the marker again.            *)
LEMMA PromptsAnswered ==
  ASSUME TypeOK, Good, Prompted, record # Gone, NEW p \in record.prompts
  PROVE  UserGave(record, p) \/ record.mapping[p].value = Marker
<1>1. p \in Params /\ extracted[p] = Marker
  BY DEF Prompted
<1> QED
  BY <1>1 DEF Good, OverlayMatchesRows, ValuesHaveSources

(* What a visitor has read: a bundle's offer, a record in which answered   *)
(* prompts are the user's, and corrections that stand where they may be    *)
(* cited.                                                                  *)
Offers == {Offered[e] : e \in Extractions}

VisitHolds(v) ==
  /\ visits[v].at \in {"read", "asking"} =>
       /\ visits[v].offer \in Offers /\ visits[v].record \in Record
       /\ \A p \in visits[v].record.prompts :
            UserGave(visits[v].record, p) \/ visits[v].record.mapping[p].value = Marker
  /\ visits[v].at = "asking" =>
       /\ \A p \in Params : UserGave(visits[v].record, p) /\ p \in visits[v].record.fills
                              => p \in visits[v].stood
       /\ \A c \in visits[v].rows :
            /\ c.param \in Params
            /\ c.id \in visits[v].record.marks /\ UserGave(visits[v].record, c.param)
                 => c.param \in visits[v].stood

VisitsHold ==
  /\ visits = [v \in Visitors |-> visits[v]]
  /\ \A v \in Visitors : VisitHolds(v)

QInv == IInv /\ Prompted /\ VisitsHold

LEMMA NewVisit ==
  ASSUME VisitsHold, NEW v \in Visitors, NEW new, visits' = [visits EXCEPT ![v] = new]
  PROVE  /\ visits' = [w \in Visitors |-> visits'[w]]
         /\ visits'[v] = new
         /\ \A w \in Visitors \ {v} : VisitHolds(w)'
BY DEF VisitsHold, VisitHolds

LEMMA VisitsStep ==
  ASSUME QInv, QNext
  PROVE  VisitsHold'
<1> USE DEF QInv, IInv
<1>1. ASSUME visits' = visits PROVE VisitsHold'
  BY <1>1 DEF VisitsHold, VisitHolds
<1>2. ASSUME NEW v \in Visitors, NEW kind, Visit(v, kind) PROVE VisitsHold'
  <2>1. /\ record # Gone
        /\ visits' = [visits EXCEPT ![v] = [at |-> "read", kind |-> kind, record |-> record,
                                            offer |-> Offered[extracted]]]
    BY <1>2 DEF Visit
  <2>2. Offered[extracted] \in Offers /\ record \in Record
    BY <2>1 DEF Offers, Prompted, TypeOK
  <2>3. VisitHolds(v)'
    BY <2>1, <2>2, NewVisit, PromptsAnswered DEF VisitHolds, UserGave
  <2> QED
    BY <2>1, <2>3, NewVisit DEF VisitsHold
<1>3. ASSUME NEW v \in Visitors, ReadCorrections(v) PROVE VisitsHold'
  <2> DEFINE mine == visits[v].record
             stood == {p \in Params : UserGave(mine, p)
                         /\ \/ p \in mine.fills
                            \/ record # Gone /\ UserGave(record, p)
                            \/ \E c \in rows : c.param = p /\ c.id \in leftBehind \cap mine.marks}
             new == [at |-> "asking", kind |-> visits[v].kind, record |-> mine,
                     offer |-> visits[v].offer, rows |-> rows, stood |-> stood]
  <2>1. visits[v].at = "read" /\ visits' = [visits EXCEPT ![v] = new]
    BY <1>3 DEF ReadCorrections
  <2>2. ASSUME NEW c \in rows
        PROVE  /\ c.param \in Params
               /\ c.id \in mine.marks /\ UserGave(mine, c.param) => c.param \in stood
    <3>1. c.param \in Params
      BY DEF TypeOK, Correction
    <3>2. c.id \notin leftBehind => record # Gone /\ UserGave(record, c.param)
      BY DEF Good, OverlayMatchesRows, RowsKeepOriginals, InForce
    <3> QED
      BY <3>1, <3>2
  <2>3. \A p \in Params : UserGave(mine, p) /\ p \in mine.fills => p \in stood
    OBVIOUS
  <2> HIDE DEF stood
  <2>4. /\ new.at = "asking" /\ new.record = mine /\ new.offer = visits[v].offer
        /\ new.rows = rows /\ new.stood = stood
    OBVIOUS
  <2>5. /\ visits[v].offer \in Offers /\ mine \in Record
        /\ \A p \in mine.prompts : UserGave(mine, p) \/ mine.mapping[p].value = Marker
    BY <2>1 DEF VisitsHold, VisitHolds
  <2> HIDE DEF new, mine
  <2>6. VisitHolds(v)'
    BY <2>1, <2>2, <2>3, <2>4, <2>5, NewVisit DEF VisitHolds, UserGave
  <2> QED
    BY <2>1, <2>6, NewVisit DEF VisitsHold
<1>4. ASSUME NEW v \in Visitors, NEW said, Said(v, said) PROVE VisitsHold'
  <2>1. visits' = [visits EXCEPT ![v] = [at |-> "answered", said |-> said]]
    BY <1>4 DEF Said
  <2>2. VisitHolds(v)'
    BY <2>1, NewVisit DEF VisitHolds
  <2> QED
    BY <2>1, <2>2, NewVisit DEF VisitsHold
<1>5. ASSUME NEW v \in Visitors, Leave(v) PROVE VisitsHold'
  <2>1. visits' = [visits EXCEPT ![v] = NoVisit]
    BY <1>5 DEF Leave
  <2>2. VisitHolds(v)'
    BY <2>1, NewVisit DEF VisitHolds, NoVisit
  <2> QED
    BY <2>1, <2>2, NewVisit DEF VisitsHold
<1> QED
  BY <1>1, <1>2, <1>3, <1>4, <1>5 DEF QNext, RecordStep, VisitorStep, AnswerQuestion, Suggest

LEMMA QuestionsInductive == QSpec => []QInv
<1>1. QInit => QInv
  BY InitGood, PromptedInit DEF QInit, QInv, VisitsHold, VisitHolds, NoVisit
<1>2. ASSUME QInv, [QNext]_qvars PROVE QInv'
  <2>1. CASE QNext
    <3>1. IInv' /\ Prompted'
      <4>1. CASE Next
        BY <4>1, TypeStep, CopiesStep, GoodStep, PromptedStep, <1>2 DEF QInv, IInv
      <4>2. CASE UNCHANGED vars
        BY <4>2, StutterGood, <1>2 DEF QInv, Prompted, vars, history
      <4> QED
        BY <2>1, <4>1, <4>2, QuestionsStep
    <3> QED
      BY <1>2, <2>1, <3>1, VisitsStep DEF QInv
  <2>2. CASE UNCHANGED qvars
    <3>1. UNCHANGED vars /\ UNCHANGED visits
      BY <2>2 DEF qvars
    <3> QED
      BY <1>2, <3>1, StutterGood DEF QInv, Prompted, VisitsHold, VisitHolds, vars, history
  <2> QED
    BY <1>2, <2>1, <2>2
<1> QED
  BY <1>1, <1>2, PTL DEF QSpec

----------------------------------------------------------------------------
(* What a visitor is told.                                                 *)

LEMMA SequenceDomains ==
  ASSUME NEW s, IsSequence(s)
  PROVE  \E n \in Nat : DOMAIN s = 1 .. n
BY DEF IsSequence

OfferOK(offer) ==
  /\ IsSequence(offer.equations) /\ IsSequence(offer.evidence)
  /\ IsSequence(offer.recommended) /\ IsSequence(offer.stepped)

LEMMA OffersOK == \A offer \in Offers : OfferOK(offer)
BY OffersEverything DEF Offers, OfferOK

(* Document evidence becomes sources that are in the documents.            *)
FromDocuments(offer, s) == s.kind \in {"section", "equation"} /\ InDocuments(offer, s.at)

LEMMA SourcedFacts ==
  ASSUME NEW offer, NEW list, IsSequence(list),
         \A ev \in ToSet(list) : InDocuments(offer, ev.at)
  PROVE  /\ IsSequence(Sourced(offer, list))
         /\ \A s \in ToSet(Sourced(offer, list)) : FromDocuments(offer, s)
<1> DEFINE usable == Picked(list, {i \in DOMAIN list : Usable(offer, list[i])})
           out == [i \in DOMAIN usable |-> Source(usable[i].kind, usable[i].at)]
<1>1. /\ IsSequence(usable)
      /\ ToSet(usable) = {list[i] : i \in DOMAIN list \cap {i \in DOMAIN list : Usable(offer, list[i])}}
  BY PickedSequence
<1>2. \A ev \in ToSet(usable) : ev \in ToSet(list) /\ Usable(offer, ev)
  BY <1>1 DEF ToSet
<1> HIDE DEF usable
<1>3. PICK n \in Nat : DOMAIN usable = 1 .. n
  BY <1>1, SequenceDomains
<1>4. IsSequence(out) /\ ToSet(out) = {out[i] : i \in DOMAIN usable}
  BY <1>3, BuiltSequence DEF ToSet
<1>5. ASSUME NEW i \in DOMAIN usable PROVE FromDocuments(offer, out[i])
  <2>1. usable[i] \in ToSet(usable)
    BY DEF ToSet
  <2>2. Usable(offer, usable[i]) /\ InDocuments(offer, usable[i].at)
    BY <1>2, <2>1
  <2>3. out[i] = Source(usable[i].kind, usable[i].at)
    OBVIOUS
  <2> QED
    BY <2>2, <2>3 DEF FromDocuments, Usable, Source
<1>6. Sourced(offer, list) = out
  BY DEF Sourced, usable
<1> QED
  BY <1>4, <1>5, <1>6

(* Rows of the mapping become sources of their parameters.                 *)
LEMMA RowFacts ==
  ASSUME NEW kind, NEW params
  PROVE  /\ IsSequence(RowSources(kind, params))
         /\ \A s \in ToSet(RowSources(kind, params)) : s.kind = kind /\ s.at \in params
<1> DEFINE listed == Picked(RowOrder, {i \in DOMAIN RowOrder : RowOrder[i] \in params})
           out == [i \in DOMAIN listed |-> Source(kind, listed[i])]
<1>1. /\ IsSequence(listed)
      /\ ToSet(listed) = {RowOrder[i] : i \in DOMAIN RowOrder \cap {i \in DOMAIN RowOrder : RowOrder[i] \in params}}
  BY RowsAssumption, PickedSequence
<1>2. ToSet(listed) \subseteq params
  BY <1>1
<1> HIDE DEF listed
<1>3. PICK n \in Nat : DOMAIN listed = 1 .. n
  BY <1>1, SequenceDomains
<1>4. IsSequence(out) /\ ToSet(out) = {out[i] : i \in DOMAIN listed}
  BY <1>3, BuiltSequence DEF ToSet
<1>5. ASSUME NEW i \in DOMAIN listed PROVE out[i].kind = kind /\ out[i].at \in params
  <2>1. listed[i] \in ToSet(listed)
    BY DEF ToSet
  <2> QED
    BY <1>2, <2>1 DEF Source
<1>6. RowSources(kind, params) = out
  BY DEF RowSources, listed
<1> QED
  BY <1>4, <1>5, <1>6

(* Every source of the table is in the documents, the user's by both       *)
(* copies, or an open prompt.                                              *)
Backed(s, rec, offer, cs) ==
  \/ FromDocuments(offer, s)
  \/ s.kind = "users" /\ s.at \in Params /\ UserGave(rec, s.at) /\ StillTheUsers(rec, cs, s.at)
  \/ s.kind = "open" /\ s.at \in OpenPrompts(rec)

LEMMA SpecSourcesFacts ==
  ASSUME NEW offer, OfferOK(offer)
  PROVE  /\ IsSequence(SpecSources(offer))
         /\ \A s \in ToSet(SpecSources(offer)) : FromDocuments(offer, s)
<1> DEFINE first == IF offer.abstract THEN <<Source("section", Summary)>> ELSE <<>>
           second == [i \in DOMAIN offer.equations |-> Source("equation", offer.equations[i])]
           third == Sourced(offer, offer.evidence)
<1>1. IsSequence(first) /\ \A s \in ToSet(first) : FromDocuments(offer, s)
  BY ShortSequences DEF FromDocuments, InDocuments, Source
<1>2. PICK n \in Nat : DOMAIN offer.equations = 1 .. n
  BY SequenceDomains DEF OfferOK
<1>3. IsSequence(second) /\ ToSet(second) = {second[i] : i \in DOMAIN offer.equations}
  BY <1>2, BuiltSequence DEF ToSet
<1>4. \A s \in ToSet(second) : FromDocuments(offer, s)
  <2> SUFFICES ASSUME NEW i \in DOMAIN offer.equations PROVE FromDocuments(offer, second[i])
    BY <1>3
  <2>1. offer.equations[i] \in ToSet(offer.equations)
    BY DEF ToSet
  <2> QED
    BY <2>1 DEF FromDocuments, InDocuments, Source
<1>5. IsSequence(third) /\ \A s \in ToSet(third) : FromDocuments(offer, s)
  <2>1. \A ev \in ToSet(offer.evidence) : InDocuments(offer, ev.at)
    BY DEF InDocuments
  <2> QED
    BY <2>1, SourcedFacts DEF OfferOK
<1>6. SpecSources(offer) = (first \o second) \o third
  BY DEF SpecSources
<1> HIDE DEF first, second, third
<1>7. IsSequence(first \o second) /\ ToSet(first \o second) = ToSet(first) \cup ToSet(second)
  BY <1>1, <1>3, ConcatSequence
<1>8. /\ IsSequence((first \o second) \o third)
      /\ ToSet((first \o second) \o third) = ToSet(first \o second) \cup ToSet(third)
  BY <1>5, <1>7, ConcatSequence
<1> QED
  BY <1>1, <1>4, <1>5, <1>6, <1>7, <1>8

LEMMA PlanSourcesFacts ==
  ASSUME NEW rec, NEW offer, OfferOK(offer)
  PROVE  /\ IsSequence(PlanSources(rec, offer))
         /\ \A s \in ToSet(PlanSources(rec, offer)) : FromDocuments(offer, s)
<1> DEFINE first == Sourced(offer, offer.recommended)
           list == IF rec.steps = None THEN offer.recommended ELSE offer.stepped
           second == Sourced(offer, list)
<1>1. IsSequence(offer.recommended) /\ \A ev \in ToSet(offer.recommended) : InDocuments(offer, ev.at)
  BY DEF InDocuments, OfferOK
<1>2. IsSequence(offer.stepped) /\ \A ev \in ToSet(offer.stepped) : InDocuments(offer, ev.at)
  BY DEF InDocuments, OfferOK
<1>3. IsSequence(list) /\ \A ev \in ToSet(list) : InDocuments(offer, ev.at)
  BY <1>1, <1>2
<1> HIDE DEF list
<1>4. IsSequence(first) /\ \A s \in ToSet(first) : FromDocuments(offer, s)
  BY <1>1, SourcedFacts
<1>5. IsSequence(second) /\ \A s \in ToSet(second) : FromDocuments(offer, s)
  BY <1>3, SourcedFacts
<1>6. PlanSources(rec, offer) = first \o second
  BY DEF PlanSources, list
<1> HIDE DEF first, second
<1>7. IsSequence(first \o second) /\ ToSet(first \o second) = ToSet(first) \cup ToSet(second)
  BY <1>4, <1>5, ConcatSequence
<1> QED
  BY <1>4, <1>5, <1>6, <1>7

LEMMA TableFacts ==
  ASSUME NEW rec, NEW offer, NEW cs, OfferOK(offer)
  PROVE  /\ IsSequence(SourceTable(rec, offer, cs))
         /\ \A s \in ToSet(SourceTable(rec, offer, cs)) : Backed(s, rec, offer, cs)
<1> DEFINE one == SpecSources(offer)
           two == PlanSources(rec, offer)
           three == UserSources(rec, cs)
           four == PromptSources(rec)
<1>1. IsSequence(one) /\ \A s \in ToSet(one) : Backed(s, rec, offer, cs)
  BY SpecSourcesFacts DEF Backed
<1>2. IsSequence(two) /\ \A s \in ToSet(two) : Backed(s, rec, offer, cs)
  BY PlanSourcesFacts DEF Backed
<1>3. IsSequence(three) /\ \A s \in ToSet(three) : Backed(s, rec, offer, cs)
  <2> DEFINE theirs == {p \in Params : UserGave(rec, p) /\ StillTheUsers(rec, cs, p)}
  <2>1. /\ IsSequence(RowSources("users", theirs))
        /\ \A s \in ToSet(RowSources("users", theirs)) : s.kind = "users" /\ s.at \in theirs
    BY RowFacts
  <2> QED
    BY <2>1 DEF UserSources, Backed
<1>4. IsSequence(four) /\ \A s \in ToSet(four) : Backed(s, rec, offer, cs)
  BY RowFacts DEF PromptSources, Backed
<1>5. SourceTable(rec, offer, cs) = ((one \o two) \o three) \o four
  BY DEF SourceTable
<1> HIDE DEF one, two, three, four
<1>6. IsSequence(one \o two) /\ ToSet(one \o two) = ToSet(one) \cup ToSet(two)
  BY <1>1, <1>2, ConcatSequence
<1>7. /\ IsSequence((one \o two) \o three)
      /\ ToSet((one \o two) \o three) = ToSet(one \o two) \cup ToSet(three)
  BY <1>3, <1>6, ConcatSequence
<1>8. /\ IsSequence(((one \o two) \o three) \o four)
      /\ ToSet(((one \o two) \o three) \o four) = ToSet((one \o two) \o three) \cup ToSet(four)
  BY <1>4, <1>7, ConcatSequence
<1> QED
  BY <1>1, <1>2, <1>3, <1>4, <1>5, <1>6, <1>7, <1>8

(* A source that is backed is a claim that holds.                          *)
LEMMA BackedHolds ==
  ASSUME NEW v \in Visitors, visits[v].at = "asking", VisitHolds(v), NEW s,
         Backed(s, visits[v].record, visits[v].offer, visits[v].rows)
  PROVE  ClaimHolds(visits[v], s)
<1> DEFINE mine == visits[v].record
<1>1. CASE FromDocuments(visits[v].offer, s)
  BY <1>1 DEF FromDocuments, ClaimHolds
<1>2. CASE s.kind = "users" /\ s.at \in Params /\ UserGave(mine, s.at)
             /\ StillTheUsers(mine, visits[v].rows, s.at)
  <2>1. s.at \in mine.fills \/ \E c \in visits[v].rows : c.param = s.at /\ c.id \in mine.marks
    BY <1>2 DEF StillTheUsers, Citable, Resolved
  <2>2. s.at \in visits[v].stood
    BY <1>2, <2>1 DEF VisitHolds
  <2> QED
    BY <1>2, <2>2 DEF ClaimHolds
<1>3. CASE s.kind = "open" /\ s.at \in OpenPrompts(mine)
  <2>1. s.at \in mine.fills => mine.mapping[s.at].value = Marker
    BY <1>3 DEF OpenPrompts, Resolved, VisitHolds
  <2> QED
    BY <1>3, <2>1 DEF ClaimHolds
<1> QED
  BY <1>1, <1>2, <1>3 DEF Backed

LEMMA AnswerHolds ==
  ASSUME NEW v \in Visitors, visits[v].at = "asking", VisitHolds(v), NEW reply \in Replies,
         reply.kind # "suggest"
  PROVE  LET answer == AnswerFrom(Shown(v), reply, visits[v].record, visits[v].offer)
         IN  \A claim \in answer.claims : ClaimHolds(visits[v], claim)
<1> DEFINE table == SourceTable(visits[v].record, visits[v].offer, visits[v].rows)
           shown == Shown(v)
           cited == ToSet(reply.cites)
           answer == AnswerFrom(shown, reply, visits[v].record, visits[v].offer)
<1>1. OfferOK(visits[v].offer)
  BY OffersOK DEF VisitHolds
<1>2. /\ IsSequence(table)
      /\ \A s \in ToSet(table) : Backed(s, visits[v].record, visits[v].offer, visits[v].rows)
  BY <1>1, TableFacts
<1>3. shown = SubSeq(table, 1, IF Len(table) < TableLimit THEN Len(table) ELSE TableLimit)
  BY DEF Shown
<1> HIDE DEF table, shown
<1>4. \A i \in DOMAIN shown : shown[i] \in ToSet(table)
  <2>1. table \in Seq(ToSet(table)) /\ Len(table) \in Nat /\ DOMAIN table = 1 .. Len(table)
    BY <1>2 DEF IsSequence
  <2> DEFINE most == IF Len(table) < TableLimit THEN Len(table) ELSE TableLimit
  <2>2. most \in 0 .. Len(table)
    BY <2>1, TableAssumption
  <2>3. shown = SubSeq(table, 1, most)
    BY <1>3
  <2> HIDE DEF most
  <2>4. DOMAIN shown = 1 .. most /\ \A i \in 1 .. most : shown[i] = table[i]
    BY <2>1, <2>2, <2>3
  <2> QED
    BY <2>1, <2>2, <2>4 DEF ToSet
<1>5. \A i \in DOMAIN shown : ClaimHolds(visits[v], shown[i])
  BY <1>2, <1>4, BackedHolds
<1>6. reply.kind \in {"malformed", "out_of_scope", "answer"}
  BY RepliesAssumption
<1>7. \/ answer.claims = {}
      \/ cited \subseteq DOMAIN shown /\ answer.claims = {shown[i] : i \in cited}
  BY <1>6 DEF AnswerFrom, Fallback
<1> HIDE DEF answer, cited
<1>8. \A claim \in answer.claims : ClaimHolds(visits[v], claim)
  BY <1>5, <1>7
<1> QED
  BY <1>8 DEF answer, shown

(* Evidence that stands is a claim that holds.                             *)
LEMMA StandsHolds ==
  ASSUME NEW v \in Visitors, visits[v].at = "asking", VisitHolds(v), NEW ev,
         Stands(ev, visits[v].record, visits[v].offer, visits[v].rows)
  PROVE  ClaimHolds(visits[v], Source(ev.kind, ev.at))
<1> DEFINE mine == visits[v].record
           s == Source(ev.kind, ev.at)
<1>0. s.kind = ev.kind /\ s.at = ev.at
  BY DEF Source
<1> HIDE DEF s
<1>1. CASE ev.kind \in {"equation", "figure", "section"} /\ InDocuments(visits[v].offer, ev.at)
  BY <1>0, <1>1 DEF ClaimHolds, s
<1>2. CASE ev.kind = "fill" /\ ev.at \in Citable(mine, visits[v].rows).fills
  <2>1. ev.at \in Params /\ ev.at \in mine.fills /\ UserGave(mine, ev.at)
    BY <1>2 DEF Citable, Resolved, VisitHolds, Record
  <2> QED
    BY <1>0, <1>2, <2>1 DEF ClaimHolds, s, VisitHolds
<1>3. CASE ev.kind = "correct" /\ ev.at \in Citable(mine, visits[v].rows).marks
  <2>1. PICK c \in visits[v].rows : c.id = ev.at /\ c.id \in mine.marks /\ UserGave(mine, c.param)
    BY <1>3 DEF Citable
  <2>2. c.param \in visits[v].stood
    BY <2>1 DEF VisitHolds
  <2> QED
    BY <1>0, <1>3, <2>1, <2>2 DEF ClaimHolds, s
<1> QED
  BY <1>1, <1>2, <1>3 DEF Stands, InDocuments

LEMMA SuggestionHolds ==
  ASSUME NEW v \in Visitors, visits[v].at = "asking", VisitHolds(v), NEW reply
  PROVE  LET said == SuggestionFrom(reply, visits[v].record, visits[v].offer, visits[v].rows)
         IN  \A claim \in said.claims : ClaimHolds(visits[v], claim)
<1> DEFINE said == SuggestionFrom(reply, visits[v].record, visits[v].offer, visits[v].rows)
<1>1. CASE said.claims = {}
  BY <1>1
<1>2. CASE /\ SuggestionSound(reply, visits[v].record, visits[v].offer, visits[v].rows)
           /\ said.claims = {Source("value", p) : p \in reply.directions}
                              \cup {Source(Enriched(ev).kind, Enriched(ev).at) : ev \in reply.evidence}
  <2>1. ASSUME NEW p \in reply.directions PROVE ClaimHolds(visits[v], Source("value", p))
    BY <1>2 DEF SuggestionSound, ClaimHolds, Source
  <2>2. ASSUME NEW ev \in reply.evidence
        PROVE  ClaimHolds(visits[v], Source(Enriched(ev).kind, Enriched(ev).at))
    <3> DEFINE e == Enriched(ev)
    <3>1. Stands(e, visits[v].record, visits[v].offer, visits[v].rows)
      BY <1>2 DEF SuggestionSound
    <3> HIDE DEF e
    <3>2. ClaimHolds(visits[v], Source(e.kind, e.at))
      BY <3>1, StandsHolds
    <3> QED
      BY <3>2 DEF e
  <2> QED
    BY <1>2, <2>1, <2>2
<1>3. \/ said.claims = {}
      \/ /\ SuggestionSound(reply, visits[v].record, visits[v].offer, visits[v].rows)
         /\ said.claims = {Source("value", p) : p \in reply.directions}
                            \cup {Source(Enriched(ev).kind, Enriched(ev).at) : ev \in reply.evidence}
  BY DEF SuggestionFrom, Fallback
<1> QED
  BY <1>1, <1>2, <1>3

(* Answers and suggestions rest on what was read, whatever happened between *)
(* and during the reads.                                                   *)
Rest(v) ==
  visits[v].at = "asking" /\ visits'[v].at = "answered"
    => \A claim \in visits'[v].said.claims : ClaimHolds(visits[v], claim)

LEMMA RestStep ==
  ASSUME QInv, [QNext]_qvars, NEW v \in Visitors
  PROVE  Rest(v)
<1> SUFFICES ASSUME visits[v].at = "asking", visits'[v].at = "answered"
             PROVE  \A claim \in visits'[v].said.claims : ClaimHolds(visits[v], claim)
  BY DEF Rest
<1>1. visits'[v] # visits[v] /\ VisitHolds(v)
  BY DEF QInv, VisitsHold
<1>2. PICK w \in Visitors : VisitorStep(w)
  BY <1>1 DEF QNext, RecordStep, qvars
<1>3. w = v
  BY <1>1, <1>2 DEF VisitorStep, Visit, ReadCorrections, Said, AnswerQuestion, Suggest, Leave,
                    QInv, VisitsHold
<1>4. ASSUME NEW said, Said(v, said), \A claim \in said.claims : ClaimHolds(visits[v], claim)
      PROVE  \A claim \in visits'[v].said.claims : ClaimHolds(visits[v], claim)
  BY <1>4, NewVisit DEF Said, QInv
<1>5. ~ (Visit(v, "ask") \/ Visit(v, "tune") \/ ReadCorrections(v) \/ Leave(v))
  <2>1. ~ (Visit(v, "ask") \/ Visit(v, "tune"))
    BY DEF Visit, NoVisit
  <2>2. ~ ReadCorrections(v)
    BY DEF ReadCorrections
  <2>3. ~ Leave(v)
    BY NewVisit DEF Leave, NoVisit, QInv
  <2> QED
    BY <2>1, <2>2, <2>3
<1>6. PICK reply \in Replies : AnswerQuestion(v, reply) \/ Suggest(v, reply)
  BY <1>2, <1>3, <1>5 DEF VisitorStep
<1>7. CASE AnswerQuestion(v, reply)
  <2>1. CASE Said(v, Fallback("insufficient_evidence"))
    BY <2>1, <1>4 DEF Fallback
  <2>2. CASE /\ reply.kind # "suggest"
             /\ Said(v, AnswerFrom(Shown(v), reply, visits[v].record, visits[v].offer))
    BY <2>2, <1>1, <1>4, AnswerHolds
  <2> QED
    BY <1>7, <2>1, <2>2 DEF AnswerQuestion
<1>8. CASE Suggest(v, reply)
  BY <1>8, <1>1, <1>4, SuggestionHolds DEF Suggest
<1> QED
  BY <1>6, <1>7, <1>8

(* What a visitor is told holds of the copies it was made from, and calls  *)
(* the user's only what was at both reads.                                 *)
THEOREM AnswersAlwaysRest == QSpec => AnswersRestOnTheRecord
<1>1. QInv /\ [QNext]_qvars => [\A v \in Visitors : Rest(v)]_qvars
  BY RestStep
<1> QED
  BY <1>1, QuestionsInductive, PTL DEF QSpec, AnswersRestOnTheRecord, Rest
=============================================================================
