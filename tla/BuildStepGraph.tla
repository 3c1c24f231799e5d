--------------------------- MODULE BuildStepGraph ----------------------------
(***************************************************************************)
(* The build steps a model drafts, and the gate that makes a usable        *)
(* sequence of them: it never refuses a draft for what one step says, it   *)
(* drops the part that does not hold.  Beside it the dependency audit,     *)
(* which looks at the same draft and only counts.                          *)
(*                                                                         *)
(* A step has an id, the ids it depends on, the blocks it brings (each     *)
(* with the recommendation it is of, and the name other steps use for it), *)
(* the links it draws between named blocks, the parameters it sets, the    *)
(* places it cites, and the texts in which it gives contested values away. *)
(***************************************************************************)
EXTENDS SequenceParts, FiniteSets

CONSTANTS StepIds,  \* the ids of the form the gate asks for
          Broken    \* a step, or a part of one, that does not fit its schema

StepFields ==
  {"id", "deps", "blocks", "links", "params", "settings", "cites", "leaks"}

Intact(items) == Picked(items, {i \in DOMAIN items : items[i] # Broken})

(* What is read of an answer.  A block or a link that does not fit is left *)
(* out alone; a dependency is only a name, and one that is none costs the  *)
(* step.                                                                   *)
Sanitized(drafts) ==
  LET items == Intact(drafts)
      read == Picked(items, {i \in DOMAIN items : Broken \notin ToSet(items[i].deps)})
  IN [i \in DOMAIN read |-> [read[i] EXCEPT !.blocks = Intact(@), !.links = Intact(@)]]

Ids(steps) == {s.id : s \in ToSet(steps)}

\* The first step of an id keeps it.
Named(drafts) ==
  Picked(drafts, {i \in DOMAIN drafts : /\ drafts[i].id \in StepIds
                                        /\ \A j \in 1 .. i - 1 : drafts[j].id # drafts[i].id})

Known(steps) ==
  LET kept(s) == {k \in DOMAIN s.deps : s.deps[k] \in Ids(steps) \ {s.id}}
  IN [i \in DOMAIN steps |-> [steps[i] EXCEPT !.deps = Picked(@, kept(steps[i]))]]

(* Of the steps that wait for none of the rest, the first comes next; the  *)
(* sequence ends early where all the rest wait for each other.             *)
Ordered(steps) ==
  LET order[rest \in SUBSET DOMAIN steps] ==
        LET ready == {i \in rest : \A j \in rest : ~Contains(steps[i].deps, steps[j].id)}
            next == CHOOSE i \in ready : \A j \in ready : i <= j
        IN IF ready = {} THEN <<>> ELSE <<steps[next]>> \o order[rest \ {next}]
  IN order[DOMAIN steps]

\* One cycle anywhere costs all steps their dependencies.
Untangled(steps) ==
  LET known == Known(steps)
  IN IF Len(Ordered(known)) = Len(known) THEN Ordered(known)
     ELSE [i \in DOMAIN known |-> [known[i] EXCEPT !.deps = <<>>]]

Brings(steps, i, ref) == {k \in DOMAIN steps[i].blocks : steps[i].blocks[k].ref = ref}

Recommended(steps, recs) ==
  LET kept(s) == {k \in DOMAIN s.blocks : s.blocks[k].rec \in recs}
  IN [i \in DOMAIN steps |-> [steps[i] EXCEPT !.blocks = Picked(@, kept(steps[i]))]]

\* A name belongs to the first block that bears it.
Unambiguous(steps) ==
  LET borne(i, k) == \/ \E j \in 1 .. i - 1 : Brings(steps, j, steps[i].blocks[k].ref) # {}
                     \/ \E m \in 1 .. k - 1 : steps[i].blocks[m].ref = steps[i].blocks[k].ref
      fresh(i) == {k \in DOMAIN steps[i].blocks : ~borne(i, k)}
  IN [i \in DOMAIN steps |-> [steps[i] EXCEPT !.blocks = Picked(@, fresh(i))]]

----------------------------------------------------------------------------
(* What a step may link: blocks of its own and of the steps it rests on.   *)

RestsOn(steps, i) ==
  LET below(js) == {k \in DOMAIN steps : \E j \in js : Contains(steps[j].deps, steps[k].id)}
      rests[n \in 0 .. Len(steps)] ==
        IF n = 0 THEN below({i}) ELSE rests[n - 1] \cup below(rests[n - 1])
  IN rests[Len(steps)]

Visible(steps, i, ref) ==
  Cardinality(UNION {{j} \X Brings(steps, j, ref) : j \in {i} \cup RestsOn(steps, i)}) = 1

Linked(steps) ==
  LET kept(i) == {k \in DOMAIN steps[i].links :
                    \A ref \in {steps[i].links[k].from, steps[i].links[k].to} : Visible(steps, i, ref)}
  IN [i \in DOMAIN steps |-> [steps[i] EXCEPT !.links = Picked(@, kept(i))]]

\* Parameters that are not exactly one mapping's are dropped.
Mapped(steps, mapping) ==
  [i \in DOMAIN steps |->
     [steps[i] EXCEPT !.params =
        {p \in @ : Cardinality({k \in DOMAIN mapping : mapping[k].param = p}) = 1}]]

\* validate_and_derive_build_steps; <<>> where no step is left.
Gated(drafts, mapping, recs) ==
  Linked(Unambiguous(Recommended(Mapped(Untangled(Named(drafts)), mapping), recs)))

----------------------------------------------------------------------------
(* The audit.  It matches a dependency with all steps of that id, and      *)
(* looks for cycles in what matches once and not the step itself: for      *)
(* steps each of which waits for one of them.                              *)

Matches(drafts, d) == {j \in DOMAIN drafts : drafts[j].id = d}

DuplicateIds(drafts) == \E i, j \in DOMAIN drafts : i # j /\ drafts[i].id = drafts[j].id

EdgeViolations(drafts) ==
  {e \in UNION {{i} \X DOMAIN drafts[i].deps : i \in DOMAIN drafts} :
     LET hits == Matches(drafts, drafts[e[1]].deps[e[2]])
     IN Cardinality(hits) # 1 \/ hits = {e[1]}}

Waits(drafts, i, j) ==
  i # j /\ \E d \in ToSet(drafts[i].deps) : Matches(drafts, d) = {j}

Cyclic(drafts) ==
  \E steps \in SUBSET DOMAIN drafts :
    steps # {} /\ \A i \in steps : \E j \in steps : Waits(drafts, i, j)

AuditClean(drafts) ==
  ~DuplicateIds(drafts) /\ EdgeViolations(drafts) = {} /\ ~Cyclic(drafts)

\* What the audit and the gate are compared by.
IdsAndDeps(steps) == {<<s.id, ToSet(s.deps)>> : s \in ToSet(steps)}

\* The ends of links the audit finds to be of no block in sight.
LinksOutOfSight(drafts) ==
  {e \in UNION {{i} \X DOMAIN drafts[i].links : i \in DOMAIN drafts} :
     LET l == drafts[e[1]].links[e[2]]
     IN ~Visible(drafts, e[1], l.from) \/ ~Visible(drafts, e[1], l.to)}
=============================================================================
