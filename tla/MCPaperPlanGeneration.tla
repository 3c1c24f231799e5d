----------------------- MODULE MCPaperPlanGeneration ------------------------
(***************************************************************************)
(* The model-checked instance of PaperPlanGeneration: two documents that   *)
(* agree or disagree on a, of which the first names a figure it does not   *)
(* list; and drafts of every leaf that pass and that do not.  Before it    *)
(* runs, the gate of the build steps is checked against its audit over all *)
(* small drafts.                                                           *)
(***************************************************************************)
EXTENDS PaperPlanGeneration

Item(kind, id) == [kind |-> kind, id |-> id, text |-> <<kind, id>>]
Row(p, v) == [param |-> p, value |-> v]

MCFound ==
  [d \in 1 .. 2 |-> {Place(i @@ [doc |-> d]) : i \in {Item("section", 1), Item("equation", 1), Item("figure", 1)}}]

First == [rows |-> <<Row("a", 1)>>, equations |-> <<Item("equation", 1)>>, figures |-> <<>>,
          evidence |-> <<Item("section", 1), Item("equation", 1), Item("figure", 1)>>]
Second(v) == [rows |-> <<Row("a", v), Row("b", 3)>>, equations |-> <<>>,
              figures |-> <<Item("figure", 1)>>,
              evidence |-> <<[Item("section", 1) EXCEPT !.text = Blank]>>]
MCSpecDrafts ==
  <<{First, [First EXCEPT !.evidence[1].id = 2]},
    {Second(1), Second(2), [Second(1) EXCEPT !.evidence[1] = Item("equation", 1)]}>>

Maps(p, missing) == [param |-> p, missing |-> missing]
MCComposerDrafts ==
  {[mapping |-> m, recs |-> {"part", "scope"}, cites |-> <<1, 9>>] :
     m \in {<<Maps("a", FALSE), Maps("k", TRUE)>>, <<Maps("k", TRUE), Maps("b", FALSE)>>}}
  \cup {[mapping |-> <<Maps("b", FALSE)>>, recs |-> {"part"}, cites |-> <<3>>]}

MCScriptDrafts == {{}, {Row("a", 1)}, {Row("a", 2), Row("b", 3)}}

MCPromptDrafts == {<<>>, <<[param |-> "k", cite |-> 1]>>, <<[param |-> "k", cite |-> 9]>>}

----------------------------------------------------------------------------
Block(rec, ref) == [rec |-> rec, ref |-> ref]
Link(from, to) == [from |-> from, to |-> to]
Step(id, deps, blocks, links) ==
  [id |-> id, deps |-> deps, blocks |-> blocks, links |-> links, params |-> {},
   settings |-> {}, cites |-> <<>>, leaks |-> {}]

S1 == [Step("S1", <<>>, <<Block("part", "x"), Block("scope", "y")>>, <<Link("x", "y")>>)
         EXCEPT !.params = {"b", "k"}, !.cites = <<1, 3, 9>>]
S2 == [Step("S2", <<"S1">>, <<Block("part", "z"), Block("other", "o")>>, <<Link("x", "z"), Link("z", "o")>>)
         EXCEPT !.settings = {"gain"}]

MCStepDrafts ==
  {<<S1, S2>>, <<S2, S1>>,
   <<[S1 EXCEPT !.deps = <<"S2">>], S2>>,
   <<[S1 EXCEPT !.leaks = {"text"}], S2>>, <<S1, [S2 EXCEPT !.leaks = {"hint"}]>>,
   <<Broken, [S1 EXCEPT !.blocks = <<Broken>> \o @, !.links = @ \o <<Broken>>],
     [S2 EXCEPT !.deps = <<Broken>>]>>,
   <<[S1 EXCEPT !.params = {"a"}], [S2 EXCEPT !.blocks = <<Block("part", "x")>>]>>,
   <<[S1 EXCEPT !.id = "step one"]>>}

Req(step, kind, of) == [step |-> step, kind |-> kind, of |-> of]
Hint(req, basis, cites, inputs, grounded) ==
  [req |-> req, mentions |-> {}, basis |-> basis, cites |-> cites, inputs |-> inputs, complete |-> TRUE,
   grounded |-> grounded, convention |-> "none"]
Sec == [doc |-> 1, kind |-> "section", id |-> 1]
Fig == [doc |-> 1, kind |-> "figure", id |-> 1]
X == Req("S1", "block", "x")
B == Req("S1", "parameter", "b")
G == Req("S2", "configuration", "gain")

MCGuidanceDrafts ==
  {<<Hint(B, "document_extracted", {Sec}, <<>>, "cited"),
     Hint(G, "document_derived", {Sec}, <<B>>, "cited"),
     Hint(X, "engineering_choice", {}, <<B>>, "cited")>>,
   <<Broken, [Hint(B, "document_extracted", {Sec}, <<>>, "cited") EXCEPT !.mentions = {X}],
     [Hint(X, "engineering_choice", {Sec}, <<>>, "no") EXCEPT !.convention = "fitting"],
     [Hint(G, "engineering_choice", {}, <<>>, "no") EXCEPT !.convention = "unknown"]>>,
   <<Hint(B, "document_extracted", {Fig}, <<>>, "cited"),
     Hint(G, "document_derived", {Sec}, <<B>>, "cited")>>,
   <<Hint(B, "document_extracted", {Sec, Nowhere}, <<>>, "paper"),
     Hint(B, "user_decision", {}, <<>>, "no"),
     Hint(X, "domain_default", {Sec}, <<>>, "no")>>,
   <<Hint(Req("S3", "block", "x"), "user_environment", {}, <<>>, "no")>>}

----------------------------------------------------------------------------
(* The gate against the audit, over all drafts of up to three steps and    *)
(* all drafts of two steps with blocks and links.                          *)

Graphs3 ==
  {[i \in 1 .. 3 |-> Step(ids[i], deps[i], <<>>, <<>>)] :
     ids \in [1 .. 3 -> {"S1", "S2", "S3"}],
     deps \in [1 .. 3 -> {<<>>, <<"S1">>, <<"S2">>, <<"S3">>, <<"S1", "S3">>, <<"S2", "S2">>}]}

Graphs2 ==
  LET steps == {Step(id, deps, blocks, links) :
                  id \in {"S1", "S2", "one"}, deps \in {<<>>, <<"S1">>, <<"S2">>, <<"one">>},
                  blocks \in {<<>>, <<Block("part", "x")>>, <<Block("scope", "y"), Block("part", "x")>>,
                              <<Block("other", "y")>>},
                  links \in {<<>>, <<Link("x", "y")>>}}
  IN [1 .. 2 -> steps]

GateOf(drafts) == Gated(drafts, <<>>, {"part", "scope"})

UniqueRefs(steps) ==
  /\ \A b \in UNION {ToSet(t.blocks) : t \in ToSet(steps)} : b.rec \in {"part", "scope"}
  /\ \A i, j \in DOMAIN steps : \A k \in DOMAIN steps[i].blocks, n \in DOMAIN steps[j].blocks :
       steps[i].blocks[k].ref = steps[j].blocks[n].ref => i = j /\ k = n

\* A sequence that may be built as it stands, and that the gate leaves as it is.
ASSUME GateMakesPlans ==
  \A drafts \in Graphs3 \cup Graphs2 :
    LET steps == GateOf(drafts)
    IN /\ GateOf(steps) = steps
       /\ \A i \in DOMAIN steps :
            /\ \A j \in DOMAIN steps : steps[i].id = steps[j].id => i = j
            /\ \A d \in ToSet(steps[i].deps) : \E j \in 1 .. i - 1 : steps[j].id = d
            /\ \A l \in ToSet(steps[i].links) : \A ref \in {l.from, l.to} :
                 Cardinality({j \in 1 .. i : Brings(steps, j, ref) # {}}) = 1

\* The audit finds nothing exactly where the gate drops no step and no dependency.
ASSUME AuditAgreesWithGate ==
  \A drafts \in Graphs3 :
    AuditClean(drafts) <=> /\ IdsAndDeps(GateOf(drafts)) = IdsAndDeps(drafts)
                           /\ Len(GateOf(drafts)) = Len(drafts)

(* Nor does it find a link out of sight exactly where the gate keeps all   *)
(* links, as long as no two blocks share a name: of two that do the gate   *)
(* drops one, and the audit, which looks only at the steps in sight, may   *)
(* have been content with it.                                              *)
ASSUME AuditAgreesOnLinks ==
  \A drafts \in Graphs2 :
    LET kept(steps) == {<<s.id, s.links>> : s \in ToSet(steps)}
    IN AuditClean(drafts) /\ UniqueRefs(drafts) /\ Ids(drafts) \subseteq StepIds =>
         (LinksOutOfSight(drafts) = {} <=> kept(GateOf(drafts)) = kept(drafts))

----------------------------------------------------------------------------
(* Stored rows, old and damaged ones too, against the steps S1 and S2.     *)

Row2 == [id |-> 2, req |-> B, basis |-> "document_derived", closure |-> "closed",
         cites |-> {Sec}, inputs |-> <<1>>, grounded |-> "cited", fits |-> TRUE]
Row1 == [Row2 EXCEPT !.id = 1, !.req = G, !.basis = "document_extracted", !.inputs = <<>>]
StoredRows ==
  [status : Statuses \cup {"absent", "other"}, gaps : {{}},
   version : {"none", "unreadable", "v1", "v2", "other"},
   guidance : {<<>>, <<Broken>>, <<Row1, Row2>>, <<Row2>>, <<Row1, Broken>>,
               <<[Row1 EXCEPT !.cites = {Fig}], Row2>>}]

(* However a row looks, what a read makes of it is consistent, and stored  *)
(* again it needs no repair.                                               *)
ASSUME ReadsMakeSense ==
  \A row \in StoredRows :
    LET reqs == Requirements(<<S1, S2>>)
        read == Read(Scrubbed(row), reqs, {Sec})
    IN /\ Scrubbed(read) = read
       /\ read.status = "generated" =>
            /\ read.guidance # <<>>
            /\ read.gaps = Gaps(read.guidance, reqs)
            /\ \A d \in ToSet(read.guidance) : d.req \in reqs
       /\ read.guidance # <<>> => read.status \in {"generated", "stale_pending_regeneration"}
=============================================================================
