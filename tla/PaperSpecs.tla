----------------------------- MODULE PaperSpecs ------------------------------
(***************************************************************************)
(* What the paper pipeline knows of its documents, and what it lets a      *)
(* language model say about them: the checks on one extracted spec, the    *)
(* fusion of several, the values on which documents disagree, the tags     *)
(* under which a model may cite a place, and the check of a finished plan  *)
(* against the disagreements whenever it is read.                          *)
(*                                                                         *)
(* A row gives one value of one parameter.  An item is a place with its    *)
(* text; an evidence entry with several locators is several items, in the  *)
(* order section, equation, figure.                                        *)
(***************************************************************************)
EXTENDS Naturals, Sequences, FiniteSets, SequencesExt

CONSTANT Blank  \* a text in which nothing is left once it is cleaned

Kinds == {"section", "equation", "figure"}
Place(item) == [doc |-> item.doc, kind |-> item.kind, id |-> item.id]
Places(items) == {Place(i) : i \in ToSet(items)}

----------------------------------------------------------------------------
(* Extraction.                                                             *)

\* The backend, not the model, says which document a spec speaks of.
Owned(d, things) ==
  [i \in DOMAIN things |-> [f \in DOMAIN things[i] \cup {"doc"} |->
                              IF f = "doc" THEN d ELSE things[i][f]]]

Enriched(d, draft) ==
  [doc |-> d, rows |-> Owned(d, draft.rows), evidence |-> Owned(d, draft.evidence),
   equations |-> Owned(d, draft.equations), figures |-> Owned(d, draft.figures)]

\* A spec may name only places the parser found, and no equation twice.
Grounded(spec, found) ==
  /\ Places(spec.evidence \o spec.equations \o spec.figures) \subseteq found
  /\ \A i, j \in DOMAIN spec.equations :
       Place(spec.equations[i]) = Place(spec.equations[j]) => i = j

----------------------------------------------------------------------------
(* Fusion and the disagreements of documents.                              *)

Contested(rows, p) ==
  LET of == {r \in ToSet(rows) : r.param = p}
  IN /\ Cardinality({r.doc : r \in of}) >= 2
     /\ Cardinality({r.value : r \in of}) >= 2

\* detect_parameter_conflicts: every value some document gives for a contested parameter.
Conflicts(rows) ==
  {[param |-> r.param, value |-> r.value] : r \in {s \in ToSet(rows) : Contested(rows, s.param)}}

Hits(p, conflicts) == \E c \in conflicts : c.param = p

\* Specs in upload order, those that failed left out.
Fuse(specs) ==
  LET joined(f) == FlattenSeq([i \in DOMAIN specs |-> specs[i][f]])
  IN [documents |-> [i \in DOMAIN specs |-> specs[i].doc],
      rows |-> joined("rows"), evidence |-> joined("evidence"),
      equations |-> joined("equations"), figures |-> joined("figures"),
      conflicts |-> Conflicts(joined("rows"))]

(* What a plan is generated from: the stored conflicts are those of the    *)
(* rows, and every equation the evidence names is listed, once, by one of  *)
(* the documents.                                                          *)
FitForPlan(spec) ==
  /\ spec.conflicts = Conflicts(spec.rows)
  /\ \A i, j \in DOMAIN spec.documents : spec.documents[i] = spec.documents[j] => i = j
  /\ \A e \in ToSet(spec.equations) : e.doc \in ToSet(spec.documents)
  /\ \A i, j \in DOMAIN spec.equations :
       Place(spec.equations[i]) = Place(spec.equations[j]) => i = j
  /\ \A e \in ToSet(spec.evidence) : e.kind = "equation" => Place(e) \in Places(spec.equations)

----------------------------------------------------------------------------
(* Citations.                                                              *)

Distinct(s) ==
  FoldLeft(LAMBDA acc, x : IF Contains(acc, x) THEN acc ELSE Append(acc, x), <<>>, s)

\* build_plan_evidence_source_refs: the n-th of these is offered as REF-n.
SourceRefs(spec) ==
  Distinct(SelectSeq(spec.evidence \o spec.equations \o spec.figures,
                     LAMBDA i : i.text # Blank))

\* A tag stands for its place; one that was not offered is dropped.
Bridged(tags, spec) ==
  LET refs == SourceRefs(spec)
      known == SelectSeq(tags, LAMBDA t : t \in DOMAIN refs)
  IN [i \in DOMAIN known |-> Place(refs[known[i]])]

\* A tag of a build step: the place it is of, or none.
Resolved(tag, spec) == {Place(SourceRefs(spec)[n]) : n \in DOMAIN SourceRefs(spec) \cap {tag}}

StepPlaces(tags, spec) == UNION {Resolved(t, spec) : t \in ToSet(tags)}

(* EvidenceTagger: sections as far as evidence names them, equations and   *)
(* figures as far as they are listed.  A figure that only evidence names   *)
(* is offered as a tag and refused here.                                   *)
Whitelisted(place, spec) ==
  /\ place.doc \in ToSet(spec.documents)
  /\ \/ place.kind = "section" /\ place \in Places(spec.evidence)
     \/ place.kind = "equation" /\ place \in Places(spec.equations)
     \/ place.kind = "figure" /\ place \in Places(spec.figures)

----------------------------------------------------------------------------
(* A stored plan against the conflicts, on every read.                     *)

Assigns(script, conflicts) == script \cap conflicts # {}

LeakOf(step, conflicts) ==
  IF conflicts = {} THEN "none"
  ELSE IF "text" \in step.leaks THEN "text"
  ELSE IF "hint" \in step.leaks \/ \E p \in step.params : Hits(p, conflicts) THEN "fatal"
  ELSE "none"

Unreadable == [unreadable |-> TRUE]

(* A text that gives a contested value away costs the plan its steps and   *)
(* their guidance, but not the outline that holds the same texts.          *)
WithoutSteps(plan) ==
  [plan EXCEPT !.steps = <<>>, !.guidance = <<>>, !.version = "none", !.gaps = {},
               !.status = "stale_pending_regeneration"]

(* validate_record_parameter_conflict_integrity: what a reader gets of a   *)
(* stored plan.  Any other leak makes the whole record unreadable; the     *)
(* first step that leaks decides.                                          *)
Served(plan, conflicts) ==
  LET leaking == {i \in DOMAIN plan.steps : LeakOf(plan.steps[i], conflicts) # "none"}
      first == CHOOSE i \in leaking : \A j \in leaking : i <= j
  IN IF \/ \E m \in ToSet(plan.mapping) : Hits(m.param, conflicts)
        \/ Assigns(plan.script, conflicts)
     THEN Unreadable
     ELSE IF leaking = {} THEN plan
     ELSE IF LeakOf(plan.steps[first], conflicts) = "text" THEN WithoutSteps(plan)
     ELSE Unreadable
=============================================================================
