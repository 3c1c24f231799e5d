---------------------------- MODULE BuildGuidance ----------------------------
(***************************************************************************)
(* The guidance that goes with the build steps: which obligations the      *)
(* steps make, what a model says of them, how much of that is taken over,  *)
(* and the validation the result passes when it is generated and again on  *)
(* every read, with the repair of stored rows that comes before it.        *)
(*                                                                         *)
(* A draft speaks of one requirement, and its text may mention others.  It *)
(* has a basis, the evidence cards it names (places, or Nowhere for a      *)
(* handle that is not one), the requirements whose answers it builds on,   *)
(* whether its resolution is complete for its basis, whether the values it *)
(* claims occur in the paper ("paper") or in the very evidence it cites    *)
(* ("cited"), and whether it quotes a convention: one that fits the        *)
(* requirement or not, or one that is none.                                *)
(***************************************************************************)
EXTENDS BuildStepGraph

CONSTANTS DisplayOnly,  \* recommendations of blocks that only show signals
          Nowhere       \* a handle no evidence card has

DocumentBases == {"document_extracted", "document_derived"}
ClosedBases == DocumentBases \cup {"domain_default", "engineering_choice"}
Actionable == {"closed", "guided_choice", "guided_probe"}

----------------------------------------------------------------------------
(* What the steps oblige the reader to settle.                             *)

Real(block) == block.rec \notin DisplayOnly

\* A link is for display when the blocks it names in its own step all are.
ForDisplay(step, link) ==
  LET named == {b \in ToSet(step.blocks) : b.ref \in {link.from, link.to}}
  IN named # {} /\ \A b \in named : ~Real(b)

Requirements(steps) ==
  UNION {
    LET of(kind, things) == {[step |-> s.id, kind |-> kind, of |-> t] : t \in things}
    IN of("block", {b.ref : b \in {x \in ToSet(s.blocks) : Real(x)}})
       \cup of("parameter", s.params)
       \cup of("connection", {l \in ToSet(s.links) : ~ForDisplay(s, l)})
       \cup of("configuration", s.settings) : s \in ToSet(steps)}

----------------------------------------------------------------------------
(* From drafts to details.                                                 *)

Closure(draft) ==
  CASE draft.basis \in {"user_confirmation_required", "document_claim_unverified"} ->
         IF draft.complete /\ draft.inputs = <<>> THEN "open" ELSE "none"
    [] draft.basis \in ClosedBases -> IF draft.complete THEN "closed" ELSE "none"
    [] draft.basis = "user_decision" -> IF draft.complete THEN "guided_choice" ELSE "none"
    [] draft.basis = "user_environment" -> IF draft.complete THEN "guided_probe" ELSE "none"

Detail(id, draft, inputs) ==
  [id |-> id, req |-> draft.req, basis |-> draft.basis, closure |-> Closure(draft),
   cites |-> draft.cites, inputs |-> inputs, grounded |-> draft.grounded,
   fits |-> draft.convention # "unfit"]

Unverified(id, req) ==
  [id |-> id, req |-> req, basis |-> "document_claim_unverified", closure |-> "open",
   cites |-> {}, inputs |-> <<>>, grounded |-> "cited", fits |-> TRUE]

\* The answer a draft names by its requirement: the last one accepted for it.
Answers(details, req) ==
  LET of == {k \in DOMAIN details : details[k].req = req}
  IN IF of = {} THEN 0 ELSE CHOOSE k \in of : \A j \in of : j <= k

(* What one draft comes to, as a sequence of at most one detail.           *)

DocumentDetail(id, draft, inputs, cards) ==
  LET known == draft.cites \cap cards
      taken == Detail(id, [draft EXCEPT !.cites = known], inputs)
      doubted == known = {} \/ draft.grounded = "no"
  IN IF draft.basis = "document_derived"
     THEN IF draft.inputs = <<>> \/ ~(draft.cites \subseteq cards) THEN <<>>
          ELSE IF doubted THEN <<Unverified(id, draft.req)>>
          ELSE IF Closure(draft) = "none" THEN <<>> ELSE <<taken>>
     ELSE IF Closure(draft) = "none" THEN <<>>
          ELSE IF doubted THEN <<Unverified(id, draft.req)>> ELSE <<taken>>

\* A known convention speaks for itself, whatever evidence goes with it.
OtherDetail(id, draft, inputs) ==
  LET quotes == draft.basis = "engineering_choice" /\ draft.convention # "none"
  IN IF \/ Closure(draft) = "none"
        \/ IF quotes THEN draft.convention = "unknown" ELSE draft.cites # {}
     THEN <<>> ELSE <<[Detail(id, draft, inputs) EXCEPT !.cites = {}]>>

Accepted(details, draft, cards) ==
  LET id == Len(details) + 1
      inputs == [i \in DOMAIN draft.inputs |-> Answers(details, draft.inputs[i])]
  IN IF draft.basis \in DocumentBases
     THEN DocumentDetail(id, draft, inputs, cards)
     ELSE OtherDetail(id, draft, inputs)

\* A draft must not seem to settle two things of one step at once.
MentionsOther(draft, reqs) ==
  \E r \in draft.mentions \cap reqs : r # draft.req /\ r.step = draft.req.step

\* parse_and_ground_guidance_draft
Drafted(drafts, reqs, cards) ==
  LET taken(d) == d # Broken /\ d.req \in reqs /\ ~MentionsOther(d, reqs)
      details[n \in 0 .. Len(drafts)] ==
        IF n = 0 THEN <<>>
        ELSE details[n - 1] \o (IF taken(drafts[n])
                                THEN Accepted(details[n - 1], drafts[n], cards) ELSE <<>>)
  IN details[Len(drafts)]

----------------------------------------------------------------------------
(* Validation.  Whether an input may be built on is judged by the details  *)
(* as they came, not as they leave; a reference to a detail that was       *)
(* dropped is unknown to the next validation.                              *)

Of(details, id) == {k \in DOMAIN details : details[k].id = id}

Reaches(details, from, to) ==
  LET step(ids) == UNION {ToSet(details[k].inputs) : k \in UNION {Of(details, i) : i \in ids}}
      reach[n \in 0 .. Len(details)] ==
        IF n = 0 THEN step({from}) ELSE reach[n - 1] \cup step(reach[n - 1])
  IN to \in reach[Len(details)]

InputsHold(details, d) ==
  \A i \in ToSet(d.inputs) :
    /\ i # d.id
    /\ Of(details, i) # {}
    /\ ~Reaches(details, i, d.id)
    /\ d.basis = "document_derived" =>
         \A k \in Of(details, i) : details[k].basis \in DocumentBases /\ details[k].closure = "closed"

\* Mutant: a place that was offered is a place that may be cited.
Examined_TrustsCards(details, d, reqs, citable) ==
  IF d.req \notin reqs \/ ~d.fits \/ ~InputsHold(details, d) THEN <<>>
  ELSE IF d.basis \in DocumentBases
  THEN IF d.cites # {} /\ d.grounded = "cited" THEN <<d>> ELSE <<Unverified(d.id, d.req)>>
  ELSE IF d.cites = {} THEN <<d>> ELSE <<>>

\* What is left of one detail, as a sequence of at most one.
Examined(details, d, reqs, citable) ==
  IF d.req \notin reqs \/ ~d.fits \/ ~InputsHold(details, d) THEN <<>>
  ELSE IF d.basis \in DocumentBases
  THEN IF d.cites # {} /\ d.cites \subseteq citable /\ d.grounded = "cited"
       THEN <<d>> ELSE <<Unverified(d.id, d.req)>>
  ELSE IF d.cites = {} THEN <<d>> ELSE <<>>

\* _validated_details
Validated(details, reqs, citable) ==
  FlattenSeq([k \in DOMAIN details |-> Examined(details, details[k], reqs, citable)])

----------------------------------------------------------------------------
(* What remains open: every requirement not exactly one detail settles.    *)

Closers(details, req) ==
  {k \in DOMAIN details : details[k].req = req /\ details[k].closure \in Actionable}

Gaps(details, reqs) == {r \in reqs : Cardinality(Closers(details, r)) # 1}

----------------------------------------------------------------------------
(* A stored row is repaired, so far as to have a type, and validated on    *)
(* every read.  What earlier versions wrote may have no status, guidance   *)
(* of version v1, or parts that are damaged.                               *)

EmptyStatuses == {"not_generated", "generation_failed", "no_document_basis"}
Statuses == EmptyStatuses \cup {"generated", "stale_pending_regeneration"}

WithoutGuidance(row, status) ==
  [row EXCEPT !.status = status, !.version = "none", !.guidance = <<>>, !.gaps = {}]

\* What of a guidance can be typed is kept.
Repaired(row) == [row EXCEPT !.version = "v2", !.guidance = Intact(@)]

Scrubbed(row) ==
  LET present == row.version \notin {"none", "unreadable"}
      status == IF row.status # "absent" THEN row.status
                ELSE IF present THEN "generated" ELSE "not_generated"
  IN IF status \notin Statuses THEN WithoutGuidance(row, "generation_failed")
     ELSE IF row.version = "unreadable" /\ status = "generated"
     THEN WithoutGuidance(row, "generation_failed")
     ELSE IF ~present THEN WithoutGuidance(row, status)
     ELSE IF row.version = "v1" THEN WithoutGuidance(row, "stale_pending_regeneration")
     ELSE Repaired([row EXCEPT !.status = status])

\* validate_build_guidance_semantics; stale guidance is shown as it is.
Read(row, reqs, citable) ==
  LET details == Validated(row.guidance, reqs, citable)
  IN IF row.status \in EmptyStatuses THEN WithoutGuidance(row, row.status)
     ELSE IF row.status = "stale_pending_regeneration" THEN row
     ELSE IF details = <<>> THEN WithoutGuidance(row, "generation_failed")
     ELSE [row EXCEPT !.guidance = details, !.gaps = Gaps(details, reqs)]
=============================================================================
