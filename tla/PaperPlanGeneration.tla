------------------------- MODULE PaperPlanGeneration -------------------------
(***************************************************************************)
(* How uploaded documents become a plan: one after the other they are      *)
(* parsed and extracted, the specs that come of it are fused, and from the *)
(* fused spec several calls of a language model make the parts of a plan.  *)
(* The calls of one upload share a context that counts them and watches    *)
(* the clock; a rerun of the plan starts from the stored spec with a       *)
(* context of its own.                                                     *)
(*                                                                         *)
(* A leaf is one kind of call: "spec" of the current document, "compose"   *)
(* and "script" side by side, then "detect" beside the build steps.  What  *)
(* the model answers is any member of the sets of drafts, or flawed.       *)
(* The calls for build steps and guidance are outside the context.         *)
(***************************************************************************)
EXTENDS PaperSpecs, BuildGuidance

CONSTANTS
  Found,           \* per document, in upload order: the places the parser finds
  SpecDrafts,      \* per document: the specs a model may extract
  Primaries,       \* the document an upload may name as primary, 0 for none
  ComposerDrafts, ScriptDrafts, PromptDrafts, StepDrafts, GuidanceDrafts,
  HardCap,         \* calls of one context
  SpecExtra,       \* further attempts at one document
  PlanExtra,       \* further attempts at composing and detecting together
  ScriptTries,     \* attempts at the script
  RepeatLimit,     \* a flaw that occurs so often is not retried
  None

Documents == DOMAIN Found
Leaves == {"spec", "compose", "script", "detect"}
Flaws == {"garbled", "malformed"}
Hows == Flaws \cup {"ok", "late", "cap", "error", "degraded"}

Contexts == [calls : Nat, late : BOOLEAN, repeats : [Flaws -> Nat], fresh : BOOLEAN]

\* A plan's leaf is out of retries before its repeats could stop it.
ASSUME CountsAssumption ==
  /\ HardCap \in Nat /\ SpecExtra \in Nat /\ PlanExtra \in Nat
  /\ ScriptTries \in Nat \ {0}
  /\ RepeatLimit \in Nat /\ PlanExtra < RepeatLimit
ASSUME PrimariesAssumption == Primaries \subseteq Documents \cup {0}
ASSUME DraftsAssumption ==
  /\ \A d \in Documents : \A s \in SpecDrafts[d] :
       \A f \in {"rows", "evidence", "equations", "figures"} : IsSequence(s[f])
  /\ \A d \in ComposerDrafts : IsSequence(d.mapping)
  /\ \A d \in GuidanceDrafts : IsSequence(d)
  /\ \A d \in StepDrafts :
       /\ IsSequence(d)
       /\ \A s \in ToSet(d) \ {Broken} :
            /\ StepFields \subseteq DOMAIN s
            /\ IsSequence(s.deps) /\ IsSequence(s.blocks) /\ IsSequence(s.links)
ASSUME NoneAssumption == None \notin Contexts /\ None \notin Hows

VARIABLES
  stage,    \* "documents", "fused", "compose", "detect", "assemble", "finished", "failed"
  why,      \* why the job failed
  primary, turn,  \* the primary document, and the one whose turn it is
  specs,    \* what was extracted, in upload order
  spec,     \* the fused and stored spec
  context,  \* the retry context, None when no job runs
  budget,   \* further attempts left to composing and detecting
  leaf,     \* per leaf: idle, flying or settled
  built,    \* the answer to the call for build steps
  plan      \* the finished plan

vars == <<stage, why, primary, turn, specs, spec, context, budget, leaf, built, plan>>
documents == <<primary, turn, specs>>

----------------------------------------------------------------------------
(* Calls.                                                                  *)

NoRepeats == [f \in Flaws |-> 0]
NewContext(fresh) == [calls |-> 0, late |-> FALSE, repeats |-> NoRepeats, fresh |-> fresh]

Idle == [at |-> "idle", tries |-> 0, again |-> FALSE, how |-> None, cut |-> FALSE, out |-> None]
AllIdle == [l \in Leaves |-> Idle]

Flying(tries, again) == [Idle EXCEPT !.at = "flying", !.tries = tries, !.again = again]

(* Only of a spec it matters which attempt it was; a script that cannot be *)
(* had is a degraded one, of whose reasons only the cap is told apart.     *)
Settled(l, tries, how, cut, out) ==
  IF l = "script" /\ how \notin {"ok", "cap"}
  THEN [Idle EXCEPT !.at = "settled", !.how = "degraded"]
  ELSE [Idle EXCEPT !.at = "settled", !.how = how, !.cut = cut, !.out = out,
                    !.tries = IF l = "spec" THEN tries ELSE 0]

(* before_llm_call and the call itself: a context out of time or calls     *)
(* refuses, and the leaf has failed.                                       *)
Called(now, l, tries, again) ==
  LET c == now.context
      refusal == IF c.late THEN "late" ELSE IF c.calls >= HardCap THEN "cap" ELSE None
  IN IF refusal = None
     THEN [context |-> [c EXCEPT !.calls = @ + 1],
           leaf |-> [now.leaf EXCEPT ![l] = Flying(tries, again)]]
     ELSE [context |-> c,
           leaf |-> [now.leaf EXCEPT ![l] = Settled(l, tries, refusal, FALSE, None)]]

Now == [context |-> context, leaf |-> leaf]
Becomes(now) == context' = now.context /\ leaf' = now.leaf
Settles(l, how, cut, out) ==
  Becomes([Now EXCEPT !.leaf[l] = Settled(l, leaf[l].tries, how, cut, out)])

Call(l, tries) == Becomes(Called(Now, l, tries, FALSE))

Quiet == context' = None /\ leaf' = AllIdle /\ built' = None

Fails(reason) ==
  /\ stage' = "failed" /\ why' = reason
  /\ Quiet
  /\ UNCHANGED <<spec, budget, plan>>

----------------------------------------------------------------------------
(* What each leaf takes for an answer.                                     *)

Cites(tags) == ToSet(Bridged(tags, spec))
AllWhitelisted(tags) == \A p \in Cites(tags) : Whitelisted(p, spec)

Sentinels(mapping) == Picked(mapping, {i \in DOMAIN mapping : mapping[i].missing})

SoundSpec(d) == Grounded(Enriched(turn, d), Found[turn])

\* Mutant: a mapping may settle what the documents disagree on.
SoundPlan_AnyParameter(d) ==
  /\ \A i, j \in DOMAIN d.mapping : d.mapping[i].param = d.mapping[j].param => i = j
  /\ Cites(d.cites) # {} /\ AllWhitelisted(d.cites)

SoundPlan(d) ==
  /\ \A i, j \in DOMAIN d.mapping : d.mapping[i].param = d.mapping[j].param => i = j
  /\ \A m \in ToSet(d.mapping) : ~Hits(m.param, spec.conflicts)
  /\ Cites(d.cites) # {} /\ AllWhitelisted(d.cites)

SoundScript(d) == ~Assigns(d, spec.conflicts)

\* Mutant: questions are not counted against the missing values.
SoundPrompts_Uncounted(d) ==
  \A i \in DOMAIN d : AllWhitelisted(<<d[i].cite>>) /\ Cites(<<d[i].cite>>) # {}

SoundPrompts(d) ==
  LET asked == Sentinels(leaf["compose"].out.mapping)
  IN /\ [i \in DOMAIN d |-> d[i].param] = [i \in DOMAIN asked |-> asked[i].param]
     /\ \A i \in DOMAIN d : AllWhitelisted(<<d[i].cite>>) /\ Cites(<<d[i].cite>>) # {}

\* The answers of a leaf that pass its checks.
Sound(l) ==
  CASE l = "spec" -> {d \in SpecDrafts[turn] : SoundSpec(d)}
    [] l = "compose" -> {d \in ComposerDrafts : SoundPlan(d)}
    [] l = "script" -> {d \in ScriptDrafts : SoundScript(d)}
    [] l = "detect" -> {d \in PromptDrafts : SoundPrompts(d)}

----------------------------------------------------------------------------
(* A call comes back.                                                      *)

\* Only the script is asked for again here, after an error that may pass.
ProviderFails(l) ==
  /\ leaf[l].at = "flying"
  /\ \/ Settles(l, "error", FALSE, None)
     \/ l = "script" /\ leaf[l].tries < ScriptTries /\ Call(l, leaf[l].tries + 1)
  /\ UNCHANGED <<stage, why, documents, spec, budget, built, plan>>

TooLate(l) ==
  /\ leaf[l].at = "flying" /\ context.late
  /\ Settles(l, "late", FALSE, None)
  /\ UNCHANGED <<stage, why, documents, spec, budget, built, plan>>

\* The plan's leaves ask once more for what is not JSON.
NotJson(l) ==
  /\ leaf[l].at = "flying" /\ ~context.late
  /\ IF l # "spec" /\ ~leaf[l].again
     THEN Becomes(Called(Now, l, leaf[l].tries, TRUE))
     ELSE \E cut \in BOOLEAN : Settles(l, "garbled", cut, None)
  /\ UNCHANGED <<stage, why, documents, spec, budget, built, plan>>

\* Wrong by shape or by what it says.
Malformed(l) ==
  /\ leaf[l].at = "flying" /\ ~context.late
  /\ \E cut \in BOOLEAN : Settles(l, "malformed", cut, None)
  /\ UNCHANGED <<stage, why, documents, spec, budget, built, plan>>

Answered(l) ==
  /\ leaf[l].at = "flying" /\ ~context.late
  /\ \E d \in Sound(l) : Settles(l, "ok", FALSE, d)
  /\ UNCHANGED <<stage, why, documents, spec, budget, built, plan>>

----------------------------------------------------------------------------
(* The documents.                                                          *)

\* A document that fails is left out, the primary one ends the job.
DocumentFails ==
  IF primary = turn
  THEN /\ stage' = "failed" /\ why' = "no usable spec"
       /\ Quiet
       /\ UNCHANGED <<documents, spec, budget, plan>>
  ELSE /\ turn' = turn + 1
       /\ leaf' = [leaf EXCEPT !["spec"] = Idle]
       /\ UNCHANGED <<stage, why, primary, specs, spec, budget, built, plan>>

AtDocument == stage = "documents" /\ turn \in Documents

ParseFails ==
  /\ AtDocument /\ leaf["spec"].at = "idle"
  /\ DocumentFails
  /\ context' = IF primary = turn THEN None ELSE context

Parsed ==
  /\ AtDocument /\ leaf["spec"].at = "idle"
  /\ Call("spec", 1)
  /\ UNCHANGED <<stage, why, documents, spec, budget, built, plan>>

Extracted ==
  /\ leaf["spec"].how = "ok"
  /\ specs' = Append(specs, Enriched(turn, leaf["spec"].out))
  /\ turn' = turn + 1
  /\ leaf' = [leaf EXCEPT !["spec"] = Idle]
  /\ UNCHANGED <<stage, why, primary, spec, context, budget, built, plan>>

\* Flaws are counted over all documents of the context.
Noted(c, flaw) == [c EXCEPT !.repeats[flaw] = IF @ < RepeatLimit THEN @ + 1 ELSE @]

MayRetrySpec(s, c) ==
  /\ s.how \in Flaws /\ ~s.cut
  /\ c.repeats[s.how] < RepeatLimit
  /\ s.tries <= SpecExtra

NotExtracted ==
  LET s == leaf["spec"]
      c == IF s.how \in Flaws THEN Noted(context, s.how) ELSE context
  IN /\ s.how \in Flaws \cup {"late", "cap"}
     /\ IF MayRetrySpec(s, c)
        THEN /\ Becomes(Called([Now EXCEPT !.context = c], "spec", s.tries + 1, FALSE))
             /\ UNCHANGED <<stage, why, documents, spec, budget, built, plan>>
        ELSE /\ DocumentFails
             /\ context' = IF primary = turn THEN None ELSE c

\* The provider's own errors are nobody's to skip.
ExtractionBreaks ==
  /\ leaf["spec"].how = "error"
  /\ Fails("provider")
  /\ UNCHANGED documents

\* No leaf of the plan fails so often that its repeats decide: they are counted no further.
FuseDocuments ==
  /\ stage = "documents" /\ turn \notin Documents
  /\ IF specs = <<>>
     THEN Fails("no usable spec")
     ELSE /\ spec' = Fuse(specs)
          /\ stage' = "fused"
          /\ context' = [context EXCEPT !.repeats = NoRepeats]
          /\ UNCHANGED <<why, budget, leaf, built, plan>>
  /\ UNCHANGED documents

----------------------------------------------------------------------------
(* The plan.                                                               *)

Generate ==
  /\ stage = "fused"
  /\ IF ~FitForPlan(spec)
     THEN Fails("unfit")
     ELSE /\ Becomes(Called(Called(Now, "compose", 1, FALSE), "script", 1, FALSE))
          /\ stage' = "compose"
          /\ budget' = PlanExtra
          /\ UNCHANGED <<why, spec, built, plan>>
  /\ UNCHANGED documents

MayRetry(l) == leaf[l].how \in Flaws /\ ~leaf[l].cut /\ budget > 0

\* Mutant: detecting has retries of its own.
RetryLeaf_Unshared(l) ==
  /\ MayRetry(l)
  /\ Call(l, 1)
  /\ budget' = IF l = "compose" THEN budget - 1 ELSE budget
  /\ UNCHANGED <<stage, why, spec, built, plan>>

RetryLeaf(l) ==
  /\ MayRetry(l)
  /\ Call(l, 1)
  /\ budget' = budget - 1
  /\ UNCHANGED <<stage, why, spec, built, plan>>

GivesUp(l) == leaf[l].how # "ok" /\ ~MayRetry(l) /\ Fails(leaf[l].how)

\* The step that follows waits for both leaves, whatever became of them.
Composed ==
  /\ stage = "compose"
  /\ leaf["compose"].at = "settled" /\ leaf["script"].at = "settled"
  /\ \/ RetryLeaf("compose")
     \/ GivesUp("compose")
     \/ /\ leaf["compose"].how = "ok"
        /\ stage' = "detect"
        /\ Call("detect", 1)
        /\ built' = "flying"
        /\ UNCHANGED <<why, spec, budget, plan>>
  /\ UNCHANGED documents

(* Timeouts and overload count as steps without structure; other errors of *)
(* the provider are raised.                                                *)
StepsAnswered ==
  /\ built = "flying"
  /\ built' \in {"drafts", "without structure", "raised"}
  /\ UNCHANGED <<stage, why, documents, spec, context, budget, leaf, plan>>

Detected ==
  /\ stage = "detect"
  /\ leaf["detect"].at = "settled" /\ built # "flying"
  /\ \/ RetryLeaf("detect")
     \/ GivesUp("detect")
     \/ /\ leaf["detect"].how = "ok"
        /\ IF built = "raised"
           THEN Fails("provider")
           ELSE /\ stage' = "assemble"
                /\ UNCHANGED <<why, spec, context, budget, leaf, built, plan>>
  /\ UNCHANGED documents

----------------------------------------------------------------------------
(* The parts become a plan.                                                *)

Draft == leaf["compose"].out

\* What a step cites, as far as the spec bears it out.
Degraded(steps) ==
  [i \in DOMAIN steps |->
     [steps[i] EXCEPT !.cites = {p \in StepPlaces(@, spec) : Whitelisted(p, spec)}]]

StepsOf(drafts) ==
  IF built = "drafts" THEN Degraded(Gated(Sanitized(drafts), Draft.mapping, Draft.recs)) ELSE <<>>

\* The first cards are the places offered for citation, whitelisted or not.
Cards == Places(SourceRefs(spec))

Citable == {p \in Cards : Whitelisted(p, spec)}

\* What one call for guidance comes to; <<>> where it fails or cannot be read.
GuidanceAnswers == GuidanceDrafts \cup {<<>>}

\* Two attempts are made, the first that yields a detail counts.
Attempts(reqs) == {Drafted(a, reqs, Cards) : a \in GuidanceAnswers}

\* The guidance the steps may get; <<>> where none can be made.
Guided(steps) ==
  LET reqs == Requirements(steps)
  IN IF steps = <<>> THEN {<<>>} ELSE {Validated(d, reqs, Citable) : d \in Attempts(reqs)}

\* The missing mappings a question may be about; merging needs exactly one.
Bindings(prompt) ==
  {k \in DOMAIN Draft.mapping : Draft.mapping[k].missing /\ Draft.mapping[k].param = prompt.param}

\* What the texts of steps give away of contested values.
Texts(steps) == UNION {s.leaks \cap {"text"} : s \in ToSet(steps)}

(* subsystem_breakdown: the texts of the steps, or those of the outline    *)
(* that takes their place, which nothing looks through for such values.    *)
Breakdowns(steps) == IF steps = <<>> THEN {{}, {"text"}} ELSE {Texts(steps)}

Merged(steps, breakdown, guidance) ==
  [mapping |-> Draft.mapping, cites |-> Cites(Draft.cites),
   script |-> IF leaf["script"].how = "ok" THEN leaf["script"].out ELSE {},
   prompts |-> [i \in DOMAIN leaf["detect"].out |->
                  [param |-> leaf["detect"].out[i].param,
                   binds |-> Bindings(leaf["detect"].out[i]),
                   cites |-> Cites(<<leaf["detect"].out[i].cite>>)]],
   steps |-> steps,
   breakdown |-> breakdown,
   outline |-> steps = <<>>,
   guidance |-> guidance,
   version |-> IF guidance = <<>> THEN "none" ELSE "v2",
   gaps |-> IF guidance = <<>> THEN {} ELSE Gaps(guidance, Requirements(steps)),
   status |-> IF guidance = <<>> THEN "generation_failed" ELSE "generated"]

Assemble ==
  /\ stage = "assemble"
  /\ \E drafts \in StepDrafts :
       LET steps == StepsOf(drafts)
       IN \E guidance \in Guided(steps), breakdown \in Breakdowns(steps) :
            /\ stage' = "finished"
            /\ plan' = Merged(steps, breakdown, guidance)
            /\ Quiet
            /\ UNCHANGED <<why, spec, budget>>
  /\ UNCHANGED documents

\* Where no step is left an outline takes their place; its call may fail.
OutlineFails ==
  /\ stage = "assemble"
  /\ \E drafts \in StepDrafts : StepsOf(drafts) = <<>>
  /\ Fails("provider")
  /\ UNCHANGED documents

\* The provider refuses the guidance for good, or it is not set up.
GuidanceRefused ==
  /\ stage = "assemble"
  /\ \E drafts \in StepDrafts : StepsOf(drafts) # <<>>
  /\ Fails("provider")
  /\ UNCHANGED documents

\* A plan that failed may be generated again from the stored spec.
Rerun ==
  /\ stage = "failed" /\ spec # None
  /\ stage' = "fused" /\ why' = None
  /\ context' = NewContext(TRUE)
  /\ UNCHANGED <<documents, spec, budget, leaf, built, plan>>

Tick ==
  /\ stage \in {"documents", "compose", "detect"} /\ ~context.late
  /\ context' = [context EXCEPT !.late = TRUE]
  /\ UNCHANGED <<stage, why, documents, spec, budget, leaf, built, plan>>

Init ==
  /\ stage = "documents" /\ why = None
  /\ primary \in Primaries /\ turn = 1 /\ specs = <<>> /\ spec = None
  /\ context = NewContext(FALSE) /\ budget = 0
  /\ leaf = AllIdle /\ built = None /\ plan = None

Next ==
  \/ \E l \in Leaves :
       ProviderFails(l) \/ TooLate(l) \/ NotJson(l) \/ Malformed(l) \/ Answered(l)
  \/ ParseFails \/ Parsed \/ Extracted \/ NotExtracted \/ ExtractionBreaks \/ FuseDocuments
  \/ Generate \/ Composed \/ StepsAnswered \/ Detected
  \/ Assemble \/ OutlineFails \/ GuidanceRefused
  \/ Rerun \/ Tick

Spec == Init /\ [][Next]_vars

----------------------------------------------------------------------------
(* Properties.                                                             *)

\* Type invariant: the control state, and the counters within their bounds.
TypeOK ==
  /\ stage \in {"documents", "fused", "compose", "detect", "assemble", "finished", "failed"}
  /\ primary \in Documents \cup {0} /\ turn \in Nat \ {0}
  /\ budget \in 0 .. PlanExtra
  /\ context # None => context \in Contexts /\ context.calls <= HardCap
  /\ \A l \in Leaves :
       /\ leaf[l].at \in {"idle", "flying", "settled"} /\ leaf[l].tries \in Nat
       /\ leaf[l].again \in BOOLEAN /\ leaf[l].cut \in BOOLEAN
  /\ context = None <=> stage \in {"finished", "failed"}
  /\ built \in {None, "flying", "drafts", "without structure", "raised"}

(* The call cap is for jobs whose documents used it up: a rerun of the     *)
(* plan, with a context of its own, is never refused a call by it, however *)
(* its leaves fail and are retried (structured_retry.py, hard_call_count,  *)
(* against the retries of _generate_with_retries and _call_llm_json).  The *)
(* default of 12 is exactly enough; config.py takes any from 1 to 50.      *)
RetriesFitTheCap ==
  context # None /\ context.fresh => \A l \in Leaves : leaf[l].how # "cap"

\* Every row of every document that made it into the plan.
AllRows == FlattenSeq([i \in DOMAIN specs |-> specs[i].rows])

(* What the documents disagree on is left open, by a plan as it is made    *)
(* and by what the store gives back of it: no mapping names a parameter to *)
(* which two documents give different values, and the script assigns none  *)
(* of those values.  A step can therefore give one away only in its text   *)
(* or in a hint, and only a hint makes a plan unreadable; of a plan that   *)
(* is read with steps, neither they nor the breakdown give a value away.   *)
(*                                                                         *)
(* The code promises no more: of a plan read without steps the breakdown   *)
(* may hold the very text that cost it its steps, or an outline in which   *)
(* nothing was looked for; and the answers to an upload, a rerun or an     *)
(* edit carry the plan itself (paper_plan_service.py,                      *)
(* paper_plan_integrity.py, paper_query.py).                               *)
ConflictsStayOpen ==
  plan # None =>
    LET open == Conflicts(AllRows)
        read == Served(plan, open)
    IN /\ \A m \in ToSet(plan.mapping) : ~Contested(AllRows, m.param)
       /\ plan.script \cap open = {}
       /\ read = Unreadable => \E s \in ToSet(plan.steps) : "hint" \in s.leaks
       /\ read # Unreadable /\ read.steps # <<>> /\ open # {} =>
            /\ \A s \in ToSet(read.steps) :
                 s.leaks \cap {"text", "hint"} = {} /\ ~\E p \in s.params : Contested(AllRows, p)
            /\ "text" \notin read.breakdown

\* The places the parser found in documents whose extraction succeeded.
Vouched == UNION {Found[specs[i].doc] : i \in DOMAIN specs}

\* The plan as it is returned, and as it is read from the store later.
Shown ==
  IF plan = None THEN {}
  ELSE {plan, Read(Scrubbed(plan), Requirements(plan.steps), Citable)}

(* The plan stands on the documents alone: whatever it, its questions, its *)
(* steps or the closed claims of its guidance cite is a place the parser   *)
(* found in a document that was extracted, and that the spec lists; tags   *)
(* of models pass four checks on the way (paper_plan_helpers.py,           *)
(* build_guidance_semantic_validator.py).                                  *)
PlanIsGrounded ==
  \A p \in Shown :
    LET cited == UNION ({p.cites} \cup {q.cites : q \in ToSet(p.prompts)}
                        \cup {s.cites : s \in ToSet(p.steps)}
                        \cup {d.cites : d \in ToSet(p.guidance)})
    IN /\ \A place \in cited : place \in Vouched /\ Whitelisted(place, spec)
       /\ \A d \in ToSet(p.guidance) :
            d.basis \in DocumentBases => d.cites # {} /\ d.grounded = "cited"

(* The parts of a finished plan fit each other although they come from     *)
(* calls that ran side by side and were repeated apart: one question for   *)
(* each missing value, in order, bound to it alone; an outline exactly     *)
(* where there are no steps, and guidance only for steps; a step rests on  *)
(* steps before it, each end of a link is one block it can see, what it    *)
(* sets is mapped; guidance speaks of requirements these steps make, and   *)
(* those it does not settle, or settles twice, are its gaps                *)
(* (paper_plan_service.py, _generate_with_retries; paper_plan_helpers.py). *)
PlanIsWhole ==
  \A p \in Shown :
    LET ids(n) == {p.steps[i].id : i \in 1 .. n}
    IN /\ [i \in DOMAIN p.prompts |-> p.prompts[i].param]
            = LET m == Sentinels(p.mapping) IN [i \in DOMAIN m |-> m[i].param]
       /\ \A q \in ToSet(p.prompts) : Cardinality(q.binds) = 1
       /\ p.outline <=> p.steps = <<>>
       /\ p.guidance # <<>> => ~p.outline /\ p.status = "generated"
       /\ \A i \in DOMAIN p.steps :
            /\ ToSet(p.steps[i].deps) \subseteq ids(i - 1)
            /\ p.steps[i].id \notin ids(i - 1)
            /\ \A l \in ToSet(p.steps[i].links) : \A ref \in {l.from, l.to} :
                 Cardinality({j \in 1 .. i : Brings(p.steps, j, ref) # {}}) = 1
            /\ p.steps[i].params \subseteq {m.param : m \in ToSet(p.mapping)}
       /\ \A d \in ToSet(p.guidance) : d.req \in Requirements(p.steps)
       /\ p.guidance # <<>> =>
            \A r \in Requirements(p.steps) \ p.gaps :
              \E k \in Closers(p.guidance, r) : Closers(p.guidance, r) = {k}
=============================================================================
