--------------------- MODULE PaperPlanGeneration_proofs ---------------------
(***************************************************************************)
(* What holds of the generation of a plan for any documents, drafts and    *)
(* limits.                                                                 *)
(*                                                                         *)
(* The calls of a rerun fit a cap of two for each attempt, however its     *)
(* leaves share the retries.  The invariant counts what each leaf may have *)
(* cost so far: an attempt is at most two calls, every attempt but the     *)
(* first of composing and of detecting took one of the shared retries, and *)
(* the script has attempts of its own.                                     *)
(*                                                                         *)
(* The finished plan is grounded, leaves open what the documents disagree  *)
(* on, and its parts fit.  An answer passes its checks when it arrives; a  *)
(* plan is made of answers that arrived at different times.  The invariant *)
(* is that a settled answer would still pass (the spec and the composer's  *)
(* draft it was checked against are those of now), and that what each      *)
(* stage builds on has settled.  The rest is about the pure parts: what    *)
(* the gate leaves of the build steps, that it settles them at once and    *)
(* agrees with the audit of the same drafts, what validation leaves of     *)
(* guidance, and that a read of the plan takes nothing of this away.       *)
(***************************************************************************)
EXTENDS PaperPlanGeneration, SequenceFacts, TLAPS

----------------------------------------------------------------------------
(* The cap on the calls.                                                   *)

\* Two calls an attempt: composing, detecting and their retries, and the script's.
CapSuffices == HardCap >= 2 * (2 + PlanExtra) + 2 * ScriptTries

LeafOK(x) ==
  /\ x.at \in {"idle", "flying", "settled"} /\ x.tries \in Nat
  /\ x.again \in BOOLEAN /\ x.cut \in BOOLEAN /\ x.how \in Hows \cup {None}
  /\ x.at # "settled" => x.how = None

Shaped ==
  /\ leaf = [l \in Leaves |-> leaf[l]]
  /\ \A l \in Leaves : LeafOK(leaf[l])
  /\ stage \in {"finished", "failed"} => leaf = AllIdle

\* What one leaf has cost since its last retry.
Cost(x) == IF x.at = "idle" THEN 0 ELSE IF x.at = "settled" THEN 2 ELSE IF x.again THEN 2 ELSE 1

ScriptCost(x) ==
  IF x.at = "idle" THEN 0 ELSE IF x.at = "settled" THEN 2 * ScriptTries
  ELSE 2 * (x.tries - 1) + (IF x.again THEN 2 ELSE 1)

Fresh == context # None /\ context.fresh

Spent(b, leaves) ==
  2 * (PlanExtra - b) + Cost(leaves["compose"]) + ScriptCost(leaves["script"])
    + Cost(leaves["detect"])

Budgeted ==
  Fresh =>
    /\ stage \in {"fused", "compose", "detect", "assemble"}
    /\ leaf["spec"] = Idle
    /\ stage = "fused" => leaf = AllIdle /\ context.calls = 0
    /\ stage = "compose" => leaf["detect"] = Idle
    /\ stage = "detect" => leaf["compose"].at = "settled" /\ leaf["script"].at = "settled"
    /\ stage = "assemble" => \A l \in Leaves \ {"spec"} : leaf[l].at = "settled"
    /\ stage \in {"compose", "detect"} => context.calls <= Spent(budget, leaf)
    /\ leaf["script"].at = "flying" => leaf["script"].tries \in 1 .. ScriptTries

IInv == TypeOK /\ Shaped /\ Budgeted /\ RetriesFitTheCap

----------------------------------------------------------------------------
(* What a leaf is after it settled or was called.                          *)

LEMMA IdleOK == LeafOK(Idle)
BY DEF LeafOK, Idle

LEMMA FlyingOK ==
  ASSUME NEW t \in Nat, NEW again \in BOOLEAN
  PROVE  /\ LeafOK(Flying(t, again))
         /\ Flying(t, again).at = "flying"
         /\ Flying(t, again).tries = t /\ Flying(t, again).again = again
BY DEF LeafOK, Flying, Idle

LEMMA SettledOK ==
  ASSUME NEW l \in Leaves, NEW t \in Nat, NEW how \in Hows, NEW cut \in BOOLEAN, NEW out
  PROVE  /\ LeafOK(Settled(l, t, how, cut, out))
         /\ Settled(l, t, how, cut, out).at = "settled"
         /\ how # "cap" => Settled(l, t, how, cut, out).how # "cap"
BY DEF LeafOK, Settled, Idle, Hows, Leaves, Flaws

LEMMA SettlesEffect ==
  ASSUME Shaped, NEW l \in Leaves, NEW how \in Hows, NEW cut \in BOOLEAN, NEW out,
         Settles(l, how, cut, out)
  PROVE  /\ context' = context
         /\ leaf' = [x \in Leaves |-> leaf'[x]]
         /\ \A x \in Leaves : LeafOK(leaf'[x])
         /\ \A x \in Leaves \ {l} : leaf'[x] = leaf[x]
         /\ leaf'[l].at = "settled"
         /\ how # "cap" => leaf'[l].how # "cap"
<1> DEFINE s == Settled(l, leaf[l].tries, how, cut, out)
<1>1. leaf[l].tries \in Nat
  BY DEF Shaped, LeafOK
<1>2. LeafOK(s) /\ s.at = "settled" /\ (how # "cap" => s.how # "cap")
  BY <1>1, SettledOK
<1>3. context' = context /\ leaf' = [leaf EXCEPT ![l] = s]
  BY DEF Settles, Becomes, Now
<1> HIDE DEF s
<1> QED BY <1>2, <1>3 DEF Shaped

\* What came of calling leaf l of the leaves f in the context c.
Effect(r, c, f, l, t, again) ==
  /\ r.context \in Contexts /\ r.context.calls <= HardCap
  /\ r.context.fresh = c.fresh
  /\ r.leaf = [x \in Leaves |-> r.leaf[x]]
  /\ \A x \in Leaves : LeafOK(r.leaf[x])
  /\ \A x \in Leaves \ {l} : r.leaf[x] = f[x]
  /\ \/ r.context.calls = c.calls + 1 /\ r.leaf[l] = Flying(t, again)
     \/ /\ r.context = c /\ r.leaf[l].at = "settled"
        /\ c.calls < HardCap => r.leaf[l].how # "cap"

Callable(c, f) ==
  /\ c \in Contexts /\ c.calls <= HardCap
  /\ f = [x \in Leaves |-> f[x]] /\ \A x \in Leaves : LeafOK(f[x])

LEMMA CalledEffect ==
  ASSUME NEW now, NEW c, c = now.context, NEW f, f = now.leaf, Callable(c, f),
         NEW l \in Leaves, NEW t \in Nat, NEW again \in BOOLEAN,
         NEW r, r = Called(now, l, t, again)
  PROVE  Effect(r, c, f, l, t, again)
<1> USE DEF Effect, Callable
<1>a. c.calls \in Nat /\ HardCap \in Nat /\ c.late \in BOOLEAN
  BY CountsAssumption DEF Contexts
<1>b. "late" # None /\ "cap" # None
  BY NoneAssumption DEF Hows
<1> DEFINE more == [c EXCEPT !.calls = @ + 1]
           fly == [f EXCEPT ![l] = Flying(t, again)]
           late == Settled(l, t, "late", FALSE, None)
           cap == Settled(l, t, "cap", FALSE, None)
<1>c. /\ more \in Contexts /\ more.calls = c.calls + 1 /\ more.fresh = c.fresh
  BY DEF Contexts
<1>d. /\ LeafOK(late) /\ late.at = "settled" /\ late.how # "cap"
      /\ LeafOK(cap) /\ cap.at = "settled"
  <2>1. "late" \in Hows /\ "cap" \in Hows /\ FALSE \in BOOLEAN
    BY DEF Hows
  <2>2. LeafOK(late) /\ late.at = "settled" /\ ("late" # "cap" => late.how # "cap")
    BY <2>1, SettledOK
  <2>3. LeafOK(cap) /\ cap.at = "settled"
    BY <2>1, SettledOK
  <2> QED BY <2>2, <2>3
<1>e. /\ ~c.late /\ ~(c.calls >= HardCap) => r = [context |-> more, leaf |-> fly]
      /\ c.late => r = [context |-> c, leaf |-> [f EXCEPT ![l] = late]]
      /\ ~c.late /\ c.calls >= HardCap => r = [context |-> c, leaf |-> [f EXCEPT ![l] = cap]]
  <2>1. r = Called(now, l, t, again) /\ now.context = c /\ now.leaf = f
    OBVIOUS
  <2>2. CASE c.late
    BY <2>2, <1>b DEF Called
  <2>3. CASE ~c.late /\ c.calls >= HardCap
    BY <2>3, <1>b DEF Called
  <2>4. CASE ~c.late /\ ~(c.calls >= HardCap)
    BY <2>4, <1>b DEF Called
  <2> QED BY <2>2, <2>3, <2>4
<1> HIDE DEF more, late, cap
<1>1. CASE ~c.late /\ ~(c.calls >= HardCap)
  <2>1. r.context = more /\ r.leaf = fly
    BY <1>1, <1>e
  <2> QED BY <1>1, <1>a, <1>c, <2>1, FlyingOK
<1>2. CASE c.late
  <2>1. r.context = c /\ r.leaf = [f EXCEPT ![l] = late]
    BY <1>2, <1>e
  <2> QED BY <2>1, <1>d, <1>a
<1>3. CASE ~c.late /\ c.calls >= HardCap
  <2>1. r.context = c /\ r.leaf = [f EXCEPT ![l] = cap]
    BY <1>3, <1>e
  <2> QED BY <2>1, <1>3, <1>d, <1>a
<1> QED BY <1>1, <1>2, <1>3, <1>a

----------------------------------------------------------------------------
(* One leaf settles, or is called again while it flies.                    *)

Others == <<stage, why, primary, turn, specs, spec, budget, built, plan>>

LEMMA InvParts ==
  ASSUME IInv, context # None
  PROVE  /\ context \in Contexts /\ context.calls \in Nat /\ context.calls <= HardCap
         /\ context.fresh \in BOOLEAN
         /\ budget \in 0 .. PlanExtra
         /\ PlanExtra \in Nat /\ ScriptTries \in Nat \ {0} /\ HardCap \in Nat
         /\ stage \notin {"finished", "failed"}
         /\ leaf = [x \in Leaves |-> leaf[x]]
         /\ \A x \in Leaves : LeafOK(leaf[x])
BY CountsAssumption DEF IInv, TypeOK, Shaped, Contexts

LEMMA Busy ==
  ASSUME IInv, NEW l \in Leaves, leaf[l].at # "idle"
  PROVE  context # None /\ stage \notin {"finished", "failed"}
<1>1. leaf # AllIdle
  BY DEF AllIdle, Idle
<1> QED BY <1>1 DEF IInv, TypeOK, Shaped

LEMMA SettlesKeeps ==
  ASSUME IInv, NEW l \in Leaves, NEW how \in Hows \ {"cap"}, NEW cut \in BOOLEAN, NEW out,
         leaf[l].at = "flying", Settles(l, how, cut, out), UNCHANGED Others
  PROVE  IInv'
<1>1. context # None /\ stage \notin {"finished", "failed"}
  BY Busy
<1>2. /\ context' = context
      /\ leaf' = [x \in Leaves |-> leaf'[x]]
      /\ \A x \in Leaves : LeafOK(leaf'[x])
      /\ \A x \in Leaves \ {l} : leaf'[x] = leaf[x]
      /\ leaf'[l].at = "settled" /\ leaf'[l].how # "cap"
  <2>1. Shaped
    BY DEF IInv
  <2> QED BY <2>1, SettlesEffect
<1>3. TypeOK'
  BY <1>1, <1>2 DEF IInv, TypeOK, LeafOK, Others
<1>4. Shaped'
  BY <1>1, <1>2 DEF Shaped, Others
<1>5. RetriesFitTheCap'
  BY <1>2 DEF IInv, RetriesFitTheCap
<1>6. Budgeted'
  <2> SUFFICES ASSUME Fresh' PROVE Budgeted'
    BY DEF Budgeted
  <2>1. Fresh /\ Budgeted
    BY <1>2 DEF Fresh, IInv
  <2>2. /\ l # "spec" /\ leaf'["spec"] = Idle
        /\ stage' \in {"compose", "detect"} /\ stage' = stage
        /\ stage = "compose" => l # "detect" /\ leaf'["detect"] = Idle
        /\ stage = "detect" => l = "detect"
    BY <2>1, <1>2 DEF Budgeted, Others, Idle, AllIdle, Leaves
  <2>3. Spent(budget', leaf') >= Spent(budget, leaf)
    BY <1>2, <2>1, <2>2, InvParts, <1>1 DEF Spent, Cost, ScriptCost, Leaves, LeafOK, Budgeted, Others
  <2>4. context'.calls <= Spent(budget', leaf')
    BY <1>1, <1>2, <2>1, <2>2, <2>3, InvParts DEF Budgeted, Spent, Cost, ScriptCost, Leaves, LeafOK, Others
  <2> QED BY <1>2, <2>1, <2>2, <2>4 DEF Budgeted, Leaves, Others, Idle
<1> QED BY <1>3, <1>4, <1>5, <1>6 DEF IInv

\* The first call of a leaf, a retry and a call in its flight alike.
LEMMA CallsEffect ==
  ASSUME IInv, context # None, NEW l \in Leaves, NEW t \in Nat, NEW again \in BOOLEAN,
         Becomes(Called(Now, l, t, again))
  PROVE  Effect(Now', context, leaf, l, t, again)
<1> DEFINE r == Called(Now, l, t, again)
<1>1. Now.context = context /\ Now.leaf = leaf
  BY DEF Now
<1>2. Callable(context, leaf)
  BY InvParts DEF Callable
<1>3. r.context = context' /\ r.leaf = leaf'
  BY DEF Becomes
<1> HIDE DEF r
<1>4. Effect(r, context, leaf, l, t, again)
  BY <1>1, <1>2, CalledEffect DEF r
<1>5. Now'.context = context' /\ Now'.leaf = leaf'
  BY DEF Now
<1> HIDE DEF Now
<1> QED BY <1>3, <1>4, <1>5 DEF Effect

LEMMA CallKeeps ==
  ASSUME IInv, CapSuffices, NEW l \in Leaves, NEW t \in Nat, NEW again \in BOOLEAN,
         leaf[l].at = "flying", Becomes(Called(Now, l, t, again)), UNCHANGED Others,
         \/ again /\ ~leaf[l].again /\ t = leaf[l].tries
         \/ l = "script" /\ ~again /\ t = leaf[l].tries + 1 /\ leaf[l].tries < ScriptTries
  PROVE  IInv'
<1>1. context # None /\ stage \notin {"finished", "failed"}
  BY Busy
<1>2. /\ context' \in Contexts /\ context'.calls <= HardCap
      /\ context'.fresh = context.fresh
      /\ leaf' = [x \in Leaves |-> leaf'[x]]
      /\ \A x \in Leaves : LeafOK(leaf'[x])
      /\ \A x \in Leaves \ {l} : leaf'[x] = leaf[x]
      /\ \/ context'.calls = context.calls + 1 /\ leaf'[l] = Flying(t, again)
         \/ /\ context' = context /\ leaf'[l].at = "settled"
            /\ context.calls < HardCap => leaf'[l].how # "cap"
  BY <1>1, CallsEffect DEF Effect, Now
<1>3. context' # None
  BY <1>2, NoneAssumption
<1>4. TypeOK'
  BY <1>1, <1>2, <1>3 DEF IInv, TypeOK, LeafOK, Others
<1>5. Shaped'
  BY <1>1, <1>2 DEF Shaped, Others
<1>6. CASE ~context.fresh
  BY <1>2, <1>4, <1>5, <1>6 DEF IInv, Budgeted, RetriesFitTheCap, Fresh
<1>7. CASE context.fresh
  <2>1. Budgeted /\ Fresh
    BY <1>1, <1>7 DEF IInv, Fresh
  <2>2. /\ l # "spec" /\ leaf'["spec"] = Idle
        /\ stage' \in {"compose", "detect"} /\ stage' = stage
        /\ stage = "compose" => l # "detect" /\ leaf'["detect"] = Idle
        /\ stage = "detect" => l = "detect"
    BY <2>1, <1>2 DEF Budgeted, Others, Idle, AllIdle, Leaves
  <2>3. Spent(budget, leaf) < HardCap /\ context.calls < HardCap
    BY <2>1, <2>2, <1>1, InvParts
       DEF Spent, Cost, ScriptCost, Leaves, LeafOK, Budgeted, Others, CapSuffices
  <2>4. Flying(t, again).at = "flying" /\ Flying(t, again).tries = t /\ Flying(t, again).again = again
        /\ Flying(t, again).how # "cap"
    BY FlyingOK, NoneAssumption DEF Flying, Idle, Hows
  <2>5. leaf'[l].how # "cap" /\ RetriesFitTheCap'
    BY <1>2, <2>3, <2>4, <2>1 DEF IInv, RetriesFitTheCap, Fresh
  <2>6. context'.calls <= Spent(budget', leaf')
    <3>1. CASE context'.calls = context.calls + 1 /\ leaf'[l] = Flying(t, again)
      <4>1. /\ leaf'[l].at = "flying" /\ leaf'[l].tries = t /\ leaf'[l].again = again
            /\ leaf[l].at = "flying" /\ leaf[l].tries \in Nat
            /\ context.calls <= Spent(budget, leaf) /\ budget' = budget
            /\ \A x \in Leaves \ {l} : leaf'[x] = leaf[x]
        BY <3>1, <1>1, <1>2, <2>1, <2>2, <2>4, InvParts DEF LeafOK, Budgeted, Others
      <4>2. CASE l = "script"
        <5> DEFINE before == leaf["script"].tries
        <5>a. before \in Nat /\ ScriptCost(leaf["script"]) = 2 * (before - 1) + (IF leaf["script"].again THEN 2 ELSE 1)
          BY <4>1, <4>2 DEF ScriptCost
        <5>b. ScriptCost(leaf'["script"]) = 2 * (t - 1) + (IF again THEN 2 ELSE 1)
          BY <4>1, <4>2 DEF ScriptCost
        <5>c. \/ again /\ ~leaf["script"].again /\ t = before
              \/ ~again /\ t = before + 1
          BY <4>2, Zenon
        <5> HIDE DEF before
        <5>1. ScriptCost(leaf'["script"]) >= ScriptCost(leaf["script"]) + 1
          BY <5>a, <5>b, <5>c
        <5>2. leaf'["compose"] = leaf["compose"] /\ leaf'["detect"] = leaf["detect"]
          BY <4>1, <4>2 DEF Leaves
        <5>3. /\ ScriptCost(leaf["script"]) \in Int /\ ScriptCost(leaf'["script"]) \in Int
              /\ Cost(leaf["compose"]) \in Int /\ Cost(leaf["detect"]) \in Int
          BY <5>a, <5>b DEF Cost
        <5> QED BY <3>1, <4>1, <5>1, <5>2, <5>3, <1>1, InvParts DEF Spent
      <4>3. CASE l # "script"
        <5>1. Cost(leaf'[l]) = 2 /\ Cost(leaf[l]) = 1
          BY <4>1, <4>3 DEF Cost
        <5>2. l = "compose" \/ l = "detect"
          BY <4>3, <2>2 DEF Leaves
        <5> QED BY <3>1, <4>1, <5>1, <5>2, <1>1, InvParts DEF Spent, Cost, ScriptCost, Leaves, LeafOK
      <4> QED BY <4>2, <4>3
    <3>2. CASE context' = context /\ leaf'[l].at = "settled"
      BY <3>2, <1>1, <1>2, <2>1, <2>2, InvParts
         DEF Spent, Cost, ScriptCost, Leaves, LeafOK, Budgeted, Others
    <3> QED BY <3>1, <3>2, <1>2
  <2>7. leaf'["script"].at = "flying" => leaf'["script"].tries \in 1 .. ScriptTries
    BY <1>1, <1>2, <2>1, <2>4, InvParts DEF Budgeted, LeafOK, Leaves
  <2>8. Budgeted'
    BY <1>2, <2>1, <2>2, <2>6, <2>7 DEF Budgeted, Leaves, Others, Idle
  <2> QED BY <1>4, <1>5, <2>5, <2>8 DEF IInv
<1>8. context.fresh \in BOOLEAN
  BY <1>1, InvParts
<1> QED BY <1>6, <1>7, <1>8

----------------------------------------------------------------------------
(* One lemma for each action.                                              *)

LEMMA AnyIdle ==
  /\ AllIdle = [l \in Leaves |-> AllIdle[l]]
  /\ \A l \in Leaves : AllIdle[l] = Idle /\ LeafOK(AllIdle[l])
BY IdleOK DEF AllIdle

\* Where no rerun is under way, the types are all there is to show.
LEMMA NotFresh ==
  ASSUME TypeOK', Shaped', ~Fresh'
  PROVE  IInv'
BY DEF IInv, Budgeted, RetriesFitTheCap, Fresh

LEMMA FailsKeeps ==
  ASSUME IInv, NEW reason, Fails(reason), UNCHANGED documents
  PROVE  IInv'
<1>1. TypeOK'
  BY AnyIdle DEF IInv, TypeOK, Fails, Quiet, documents, LeafOK
<1>2. Shaped'
  BY AnyIdle, IdleOK DEF Shaped, Fails, Quiet
<1>3. ~Fresh'
  BY DEF Fails, Quiet, Fresh
<1> QED BY <1>1, <1>2, <1>3, NotFresh

LEMMA LeafStep ==
  ASSUME IInv, CapSuffices, NEW l \in Leaves,
         ProviderFails(l) \/ TooLate(l) \/ NotJson(l) \/ Malformed(l) \/ Answered(l)
  PROVE  IInv'
<1>1. ASSUME leaf[l].at = "flying", NEW how \in Hows \ {"cap"}, NEW cut \in BOOLEAN, NEW out,
             Settles(l, how, cut, out),
             UNCHANGED <<stage, why, documents, spec, budget, built, plan>>
      PROVE  IInv'
  BY <1>1, SettlesKeeps DEF Others, documents
<1>2. /\ "error" \in Hows \ {"cap"} /\ "late" \in Hows \ {"cap"} /\ "garbled" \in Hows \ {"cap"}
      /\ "malformed" \in Hows \ {"cap"} /\ "ok" \in Hows \ {"cap"} /\ FALSE \in BOOLEAN
  BY DEF Hows, Flaws
<1>3. ASSUME leaf[l].at = "flying", NEW t \in Nat, NEW again \in BOOLEAN,
             Becomes(Called(Now, l, t, again)),
             UNCHANGED <<stage, why, documents, spec, budget, built, plan>>,
             \/ again /\ ~leaf[l].again /\ t = leaf[l].tries
             \/ l = "script" /\ ~again /\ t = leaf[l].tries + 1 /\ leaf[l].tries < ScriptTries
      PROVE  IInv'
  BY <1>3, CallKeeps DEF Others, documents
<1>4. leaf[l].tries \in Nat /\ leaf[l].tries + 1 \in Nat
  BY DEF IInv, Shaped, LeafOK
<1>5. CASE ProviderFails(l)
  <2>1. CASE Settles(l, "error", FALSE, None)
    BY <1>1, <1>2, <1>5, <2>1 DEF ProviderFails
  <2>2. CASE l = "script" /\ leaf[l].tries < ScriptTries /\ Call(l, leaf[l].tries + 1)
    <3>1. Becomes(Called(Now, l, leaf[l].tries + 1, FALSE))
      BY <2>2 DEF Call
    <3> QED BY <1>2, <1>3, <1>4, <1>5, <2>2, <3>1 DEF ProviderFails
  <2> QED BY <1>5, <2>1, <2>2 DEF ProviderFails
<1>6. CASE TooLate(l)
  BY <1>1, <1>2, <1>6 DEF TooLate
<1>7. CASE NotJson(l)
  <2>1. CASE l # "spec" /\ ~leaf[l].again
    <3>1. Becomes(Called(Now, l, leaf[l].tries, TRUE))
      BY <1>7, <2>1 DEF NotJson
    <3> QED BY <1>3, <1>4, <1>7, <2>1, <3>1 DEF NotJson
  <2>2. CASE ~(l # "spec" /\ ~leaf[l].again)
    <3>1. PICK cut \in BOOLEAN : Settles(l, "garbled", cut, None)
      BY <1>7, <2>2 DEF NotJson
    <3> QED BY <1>1, <1>2, <1>7, <3>1 DEF NotJson
  <2> QED BY <2>1, <2>2
<1>8. CASE Malformed(l)
  <2>1. PICK cut \in BOOLEAN : Settles(l, "malformed", cut, None)
    BY <1>8 DEF Malformed
  <2> QED BY <1>1, <1>2, <1>8, <2>1 DEF Malformed
<1>9. CASE Answered(l)
  <2>1. PICK d \in Sound(l) : Settles(l, "ok", FALSE, d)
    BY <1>9 DEF Answered
  <2> QED BY <1>1, <1>2, <1>9, <2>1 DEF Answered
<1> QED BY <1>5, <1>6, <1>7, <1>8, <1>9

LEMMA DocumentFailsKeeps ==
  ASSUME IInv, DocumentFails, stage \notin {"finished", "failed"},
         primary # turn => context' \in Contexts /\ context'.calls <= HardCap /\ ~context'.fresh
  PROVE  IInv'
<1>1. CASE primary = turn
  <2>1. /\ stage' = "failed" /\ context' = None /\ leaf' = AllIdle /\ built' = None
        /\ UNCHANGED <<documents, budget>>
    BY <1>1 DEF DocumentFails, Quiet
  <2>2. TypeOK'
    BY <2>1, AnyIdle DEF IInv, TypeOK, documents, LeafOK
  <2>3. Shaped'
    BY <2>1, AnyIdle, IdleOK DEF Shaped
  <2> QED BY <2>1, <2>2, <2>3, NotFresh DEF Fresh
<1>2. CASE primary # turn
  <2>1. /\ turn' = turn + 1 /\ leaf' = [leaf EXCEPT !["spec"] = Idle]
        /\ UNCHANGED <<stage, primary, budget, built>>
    BY <1>2 DEF DocumentFails
  <2>2. TypeOK'
    <3>1. \A l \in Leaves : LeafOK(leaf'[l])
      BY <2>1, IdleOK DEF IInv, Shaped
    <3>2. context' # None /\ context # None
      BY <1>2, NoneAssumption DEF IInv, TypeOK
    <3>3. turn' \in Nat \ {0}
      <4>1. turn \in Nat \ {0} /\ turn' = turn + 1
        BY <2>1 DEF IInv, TypeOK
      <4> QED BY <4>1
    <3>4. TypeOK
      BY DEF IInv
    <3>5. UNCHANGED <<stage, primary, budget, built>>
      BY <2>1
    <3>6. context' \in Contexts /\ context'.calls <= HardCap
      BY <1>2
    <3>7. stage \notin {"finished", "failed"}
      OBVIOUS
    <3> QED BY <3>1, <3>2, <3>3, <3>4, <3>5, <3>6, <3>7 DEF TypeOK, LeafOK
  <2>3. Shaped'
    BY <2>1, IdleOK DEF Shaped, IInv
  <2> QED BY <1>2, <2>1, <2>2, <2>3, NotFresh DEF Fresh
<1> QED BY <1>1, <1>2

LEMMA DocumentStep ==
  ASSUME IInv, ParseFails \/ Parsed \/ Extracted \/ NotExtracted \/ ExtractionBreaks
  PROVE  IInv'
<1>1. CASE ExtractionBreaks
  BY <1>1, FailsKeeps DEF ExtractionBreaks
<1>2. CASE ParseFails
  <2>1. stage = "documents" /\ DocumentFails /\ (primary # turn => context' = context)
    BY <1>2 DEF ParseFails, AtDocument
  <2>2. context \in Contexts /\ context.calls <= HardCap /\ ~context.fresh
    BY <2>1 DEF IInv, TypeOK, Budgeted, Fresh
  <2> QED BY <2>1, <2>2, DocumentFailsKeeps
<1>3. CASE Parsed
  <2>1. /\ stage = "documents" /\ Becomes(Called(Now, "spec", 1, FALSE))
        /\ UNCHANGED <<stage, primary, turn, budget, built>>
    BY <1>3 DEF Parsed, AtDocument, Call, documents
  <2>2. context # None /\ ~context.fresh
    BY <2>1 DEF IInv, TypeOK, Budgeted, Fresh
  <2>3. "spec" \in Leaves /\ 1 \in Nat /\ FALSE \in BOOLEAN
    BY DEF Leaves
  <2>4. /\ context' \in Contexts /\ context'.calls <= HardCap
        /\ context'.fresh = context.fresh
        /\ leaf' = [x \in Leaves |-> leaf'[x]]
        /\ \A x \in Leaves : LeafOK(leaf'[x])
    BY <2>1, <2>2, <2>3, CallsEffect DEF Effect, Now
  <2>5. Shaped'
    BY <2>1, <2>4 DEF Shaped
  <2>6. TypeOK'
    BY <2>1, <2>2, <2>4, NoneAssumption DEF IInv, TypeOK, LeafOK
  <2> QED BY <2>2, <2>4, <2>5, <2>6, NotFresh DEF Fresh
<1>4. CASE Extracted
  <2>1. /\ turn' = turn + 1 /\ leaf' = [leaf EXCEPT !["spec"] = Idle]
        /\ UNCHANGED <<stage, primary, context, budget, built>>
    BY <1>4 DEF Extracted
  <2>2. leaf["spec"] # Idle
    BY <1>4, NoneAssumption DEF Extracted, Idle, Hows
  <2>3. "spec" \in Leaves /\ leaf # AllIdle
    BY <2>2, AnyIdle DEF Leaves
  <2>4. ~Fresh /\ ~Fresh'
    BY <2>1, <2>2 DEF IInv, Budgeted, Fresh
  <2>5. \A l \in Leaves : LeafOK(leaf'[l])
    BY <2>1, IdleOK DEF IInv, Shaped
  <2>6. turn' \in Nat \ {0}
    <3>1. turn \in Nat \ {0} /\ turn' = turn + 1
      BY <2>1 DEF IInv, TypeOK
    <3> QED BY <3>1
  <2>7. TypeOK'
    <3>1. TypeOK /\ UNCHANGED <<stage, primary, context, budget, built>>
      BY <2>1 DEF IInv
    <3> QED BY <3>1, <2>5, <2>6 DEF TypeOK, LeafOK
  <2>8. Shaped'
    BY <2>1, <2>3, <2>5 DEF IInv, Shaped
  <2> QED BY <2>4, <2>7, <2>8, NotFresh
<1>5. CASE NotExtracted
  <2> DEFINE s == leaf["spec"]
             c == IF s.how \in Flaws THEN Noted(context, s.how) ELSE context
  <2>1. s.how # None
    BY <1>5, NoneAssumption DEF NotExtracted, Hows
  <2>2. "spec" \in Leaves /\ s.at = "settled" /\ leaf["spec"] # Idle
    BY <2>1 DEF IInv, Shaped, LeafOK, Idle, Leaves
  <2>3. context # None /\ stage \notin {"finished", "failed"} /\ ~context.fresh
    BY <2>2, Busy DEF IInv, Budgeted, Fresh
  <2>4. context \in Contexts /\ context.calls <= HardCap
    BY <2>3, InvParts
  <2>5. c \in Contexts /\ c.calls = context.calls /\ ~c.fresh
    <3>1. CASE s.how \in Flaws
      BY <2>3, <2>4, <3>1, CountsAssumption DEF Noted, Contexts
    <3>2. CASE s.how \notin Flaws
      BY <2>3, <2>4, <3>2
    <3> QED BY <3>1, <3>2
  <2> HIDE DEF c
  <2>6. CASE MayRetrySpec(s, c)
    <3> DEFINE now == [Now EXCEPT !.context = c]
               tries == s.tries + 1
             r == Called(now, "spec", tries, FALSE)
    <3>1. /\ now.context = c /\ now.leaf = leaf
          /\ leaf = [x \in Leaves |-> leaf[x]] /\ \A x \in Leaves : LeafOK(leaf[x])
          /\ tries \in Nat /\ FALSE \in BOOLEAN
      BY <2>2 DEF Now, IInv, Shaped, LeafOK
    <3>2. /\ r.context = context' /\ r.leaf = leaf'
          /\ UNCHANGED <<stage, primary, turn, budget, built>>
      BY <1>5, <2>6 DEF NotExtracted, Becomes, c, documents
    <3> HIDE DEF now, r, tries
    <3>3. Effect(r, c, leaf, "spec", tries, FALSE)
      <4>1. Callable(c, leaf) /\ c = now.context /\ leaf = now.leaf /\ "spec" \in Leaves
        BY <2>2, <2>4, <2>5, <3>1 DEF Callable
      <4> HIDE DEF s
      <4> QED BY <4>1, <3>1, CalledEffect DEF r
    <3>4. /\ context' \in Contexts /\ context'.calls <= HardCap
          /\ context'.fresh = c.fresh
          /\ leaf' = [x \in Leaves |-> leaf'[x]]
          /\ \A x \in Leaves : LeafOK(leaf'[x])
      BY <3>2, <3>3 DEF Effect
    <3>5. Shaped'
      BY <2>3, <3>2, <3>4 DEF Shaped
    <3>6. TypeOK'
      BY <2>3, <3>2, <3>4, NoneAssumption DEF IInv, TypeOK, LeafOK
    <3> QED BY <2>5, <3>4, <3>5, <3>6, NotFresh DEF Fresh
  <2>7. CASE ~MayRetrySpec(s, c)
    <3>1. DocumentFails /\ (primary # turn => context' = c)
      BY <1>5, <2>7 DEF NotExtracted, c
    <3> QED BY <2>3, <2>4, <2>5, <3>1, DocumentFailsKeeps
  <2> QED BY <2>6, <2>7
<1> QED BY <1>1, <1>2, <1>3, <1>4, <1>5

LEMMA FuseStep ==
  ASSUME IInv, FuseDocuments
  PROVE  IInv'
<1>1. stage = "documents" /\ UNCHANGED documents
  BY DEF FuseDocuments
<1>2. context # None /\ ~context.fresh
  BY <1>1 DEF IInv, TypeOK, Budgeted, Fresh
<1>3. CASE specs = <<>>
  BY <1>1, <1>3, FailsKeeps DEF FuseDocuments
<1>4. CASE specs # <<>>
  <2>1. /\ stage' = "fused" /\ context' = [context EXCEPT !.repeats = NoRepeats]
        /\ UNCHANGED <<primary, turn, budget, leaf, built>>
    BY <1>4 DEF FuseDocuments, documents
  <2>2. context' \in Contexts /\ context'.calls <= HardCap /\ ~context'.fresh
    BY <1>2, <2>1, InvParts DEF Contexts, NoRepeats
  <2>3. TypeOK'
    BY <1>2, <2>1, <2>2, NoneAssumption DEF IInv, TypeOK
  <2>4. Shaped'
    BY <2>1 DEF IInv, Shaped
  <2> QED BY <2>2, <2>3, <2>4, NotFresh DEF Fresh
<1> QED BY <1>3, <1>4

LEMMA TickStep ==
  ASSUME IInv, Tick
  PROVE  IInv'
<1>1. /\ stage \in {"documents", "compose", "detect"}
      /\ context' = [context EXCEPT !.late = TRUE]
      /\ UNCHANGED <<stage, primary, turn, budget, leaf, built>>
  BY DEF Tick, documents
<1>2. context # None
  BY <1>1 DEF IInv, TypeOK
<1>3. /\ context' \in Contexts /\ context'.calls = context.calls /\ context'.fresh = context.fresh
      /\ context'.calls <= HardCap
  BY <1>1, <1>2, InvParts DEF Contexts
<1>4. TypeOK'
  BY <1>1, <1>2, <1>3, NoneAssumption DEF IInv, TypeOK
<1>5. Shaped'
  BY <1>1 DEF IInv, Shaped
<1>6. Budgeted' /\ RetriesFitTheCap'
  BY <1>1, <1>2, <1>3, NoneAssumption DEF IInv, Budgeted, RetriesFitTheCap, Fresh, Spent
<1> QED BY <1>4, <1>5, <1>6 DEF IInv

LEMMA RerunStep ==
  ASSUME IInv, Rerun
  PROVE  IInv'
<1>1. /\ stage = "failed" /\ stage' = "fused" /\ context' = NewContext(TRUE)
      /\ UNCHANGED <<primary, turn, budget, leaf, built>>
  BY DEF Rerun, documents
<1>2. leaf = AllIdle
  BY <1>1 DEF IInv, Shaped
<1>3. context' \in Contexts /\ context'.calls = 0 /\ context' # None /\ context'.calls <= HardCap
  <2>1. context' = [calls |-> 0, late |-> FALSE, repeats |-> NoRepeats, fresh |-> TRUE]
    BY <1>1 DEF NewContext
  <2>2. NoRepeats \in [Flaws -> Nat]
    BY DEF NoRepeats
  <2>3. context' \in Contexts
    BY <2>1, <2>2 DEF Contexts
  <2>4. 0 <= HardCap
    BY CountsAssumption
  <2> QED BY <2>1, <2>3, <2>4, NoneAssumption
<1>4. TypeOK'
  BY <1>1, <1>3 DEF IInv, TypeOK
<1>5. Shaped'
  BY <1>1 DEF IInv, Shaped
<1>6. \A l \in Leaves : leaf'[l] = Idle
  BY <1>1, <1>2, AnyIdle
<1>7. Budgeted'
  <2>1. leaf' = AllIdle' /\ stage' = "fused"
    BY <1>1, <1>2 DEF AllIdle, Idle
  <2>2. leaf'["spec"] = Idle /\ leaf'["script"].at = "idle"
    BY <1>6 DEF Leaves, Idle
  <2> QED BY <1>3, <2>1, <2>2 DEF Budgeted, Idle
<1>8. RetriesFitTheCap'
  BY <1>6, NoneAssumption DEF RetriesFitTheCap, Idle, Hows
<1> QED BY <1>4, <1>5, <1>7, <1>8 DEF IInv

LEMMA StepsAnsweredStep ==
  ASSUME IInv, StepsAnswered
  PROVE  IInv'
<1>1. /\ built' \in {"drafts", "without structure", "raised"}
      /\ UNCHANGED <<stage, primary, turn, context, budget, leaf>>
  BY DEF StepsAnswered, documents
<1>2. TypeOK'
  BY <1>1 DEF IInv, TypeOK
<1>3. Shaped' /\ Budgeted' /\ RetriesFitTheCap'
  BY <1>1 DEF IInv, Shaped, Budgeted, RetriesFitTheCap, Fresh, Spent
<1> QED BY <1>2, <1>3 DEF IInv

LEMMA AssembleStep ==
  ASSUME IInv, Assemble
  PROVE  IInv'
<1>1. stage' = "finished" /\ Quiet /\ UNCHANGED <<budget, documents>>
  BY Zenon DEF Assemble
<1>2. context' = None /\ leaf' = AllIdle /\ built' = None /\ stage' = "finished"
      /\ UNCHANGED <<primary, turn, budget>>
  BY <1>1 DEF Quiet, documents
<1>3. TypeOK'
  BY <1>2, AnyIdle DEF IInv, TypeOK, LeafOK
<1>4. Shaped'
  BY <1>2, AnyIdle DEF Shaped
<1> QED BY <1>2, <1>3, <1>4, NotFresh DEF Fresh

LEMMA AssembleFailsStep ==
  ASSUME IInv, OutlineFails \/ GuidanceRefused
  PROVE  IInv'
BY FailsKeeps DEF OutlineFails, GuidanceRefused

\* The first call of an attempt costs the leaf no less than it counts.
LEMMA FirstCall ==
  ASSUME NEW c, NEW f, NEW l, NEW r, Effect(r, c, f, l, 1, FALSE),
         c.calls \in Nat, c.calls < HardCap
  PROVE  /\ r.leaf[l].how # "cap"
         /\ r.context.calls \in Nat /\ r.context.calls <= c.calls + 1
         /\ Cost(r.leaf[l]) \in Nat /\ r.context.calls <= c.calls + Cost(r.leaf[l])
         /\ ScriptCost(r.leaf[l]) \in Nat /\ r.context.calls <= c.calls + ScriptCost(r.leaf[l])
         /\ r.leaf[l].at = "flying" => r.leaf[l].tries \in 1 .. ScriptTries
         /\ r.leaf[l].at # "idle"
<1> DEFINE x == r.leaf[l]
           n == r.context.calls
<1>1. ScriptTries \in Nat \ {0}
  BY CountsAssumption
<1>2. \/ n = c.calls + 1 /\ x = Flying(1, FALSE)
      \/ r.context = c /\ x.at = "settled" /\ x.how # "cap"
  BY DEF Effect
<1>3. CASE n = c.calls + 1 /\ x = Flying(1, FALSE)
  <2>1. Flying(1, FALSE).how = None
    BY DEF Flying, Idle
  <2>2. x.at = "flying" /\ x.tries = 1 /\ x.again = FALSE /\ x.how # "cap"
    <3>1. x.how = None /\ x.at = "flying" /\ x.tries = 1 /\ x.again = FALSE
      <4>1. 1 \in Nat /\ FALSE \in BOOLEAN
        OBVIOUS
      <4>2. Flying(1, FALSE).at = "flying" /\ Flying(1, FALSE).tries = 1 /\ Flying(1, FALSE).again = FALSE
        BY <4>1, FlyingOK
      <4> QED BY <1>3, <2>1, <4>2
    <3> QED BY <3>1, NoneAssumption DEF Hows
  <2> HIDE DEF x, n
  <2>3. Cost(x) = 1 /\ ScriptCost(x) = 1
    BY <2>2 DEF Cost, ScriptCost
  <2>4. n \in Nat /\ n = c.calls + 1
    BY <1>3
  <2>5. /\ x.how # "cap" /\ n \in Nat /\ n <= c.calls + 1
        /\ Cost(x) \in Nat /\ n <= c.calls + Cost(x)
        /\ ScriptCost(x) \in Nat /\ n <= c.calls + ScriptCost(x)
        /\ x.at = "flying" => x.tries \in 1 .. ScriptTries
        /\ x.at # "idle"
    BY <1>1, <2>2, <2>3, <2>4
  <2> QED BY <2>5 DEF x, n
<1>4. CASE r.context = c /\ x.at = "settled" /\ x.how # "cap"
  <2>1. n = c.calls
    BY <1>4
  <2> HIDE DEF x, n
  <2>2. Cost(x) = 2 /\ ScriptCost(x) = 2 * ScriptTries
    BY <1>4 DEF Cost, ScriptCost
  <2>3. /\ x.how # "cap" /\ n \in Nat /\ n <= c.calls + 1
        /\ Cost(x) \in Nat /\ n <= c.calls + Cost(x)
        /\ ScriptCost(x) \in Nat /\ n <= c.calls + ScriptCost(x)
        /\ x.at = "flying" => x.tries \in 1 .. ScriptTries
        /\ x.at # "idle"
    BY <1>1, <1>4, <2>1, <2>2
  <2> QED BY <2>3 DEF x, n
<1> QED BY <1>2, <1>3, <1>4

LEMMA GenerateStep ==
  ASSUME IInv, CapSuffices, Generate
  PROVE  IInv'
<1>1. CASE ~FitForPlan(spec)
  BY <1>1, FailsKeeps DEF Generate
<1>2. CASE FitForPlan(spec)
  <2> DEFINE m == Called(Now, "compose", 1, FALSE)
             r == Called(m, "script", 1, FALSE)
  <2>1. /\ stage = "fused" /\ stage' = "compose" /\ budget' = PlanExtra
        /\ context' = r.context /\ leaf' = r.leaf
        /\ UNCHANGED <<primary, turn, built>>
    BY <1>2 DEF Generate, Becomes, documents
  <2>2. context # None
    BY <2>1 DEF IInv, TypeOK
  <2>3. "compose" \in Leaves /\ "script" \in Leaves /\ 1 \in Nat /\ FALSE \in BOOLEAN
    BY DEF Leaves
  <2>4. Effect(m, context, leaf, "compose", 1, FALSE)
    <3>1. Now.context = context /\ Now.leaf = leaf
      BY DEF Now
    <3>2. Callable(context, leaf)
      BY <2>2, InvParts DEF Callable
    <3> QED BY <2>3, <3>1, <3>2, CalledEffect
  <2> HIDE DEF m
  <2>5. Effect(r, m.context, m.leaf, "script", 1, FALSE)
    <3>1. Callable(m.context, m.leaf)
      BY <2>4 DEF Effect, Callable
    <3> QED BY <2>3, <3>1, CalledEffect
  <2> HIDE DEF r
  <2>6. /\ context' \in Contexts /\ context'.calls <= HardCap
        /\ context'.fresh = context.fresh /\ context' # None
        /\ leaf' = [x \in Leaves |-> leaf'[x]]
        /\ \A x \in Leaves : LeafOK(leaf'[x])
    BY <2>1, <2>4, <2>5, NoneAssumption DEF Effect
  <2>7. Shaped'
    BY <2>1, <2>6 DEF Shaped
  <2>8. TypeOK'
    <3>1. budget' \in 0 .. PlanExtra
      BY <2>1, CountsAssumption
    <3> QED BY <2>1, <2>6, <3>1 DEF IInv, TypeOK, LeafOK
  <2>9. CASE ~context.fresh
    BY <2>6, <2>7, <2>8, <2>9, NotFresh DEF Fresh
  <2>10. CASE context.fresh
    <3>1. leaf = AllIdle /\ context.calls = 0
      BY <2>1, <2>2, <2>10 DEF IInv, Budgeted, Fresh
    <3>2. HardCap \in Nat /\ HardCap >= 6 /\ ScriptTries \in Nat \ {0} /\ PlanExtra \in Nat
      BY CountsAssumption DEF CapSuffices
    <3>3. Idle.how # "cap" /\ Idle.at = "idle"
      BY NoneAssumption DEF Idle, Hows
    <3>4. /\ m.context.calls \in Nat /\ m.context.calls <= 1
          /\ Cost(m.leaf["compose"]) \in Nat /\ m.context.calls <= Cost(m.leaf["compose"])
          /\ m.leaf["compose"].how # "cap"
      <4>1. context.calls \in Nat /\ context.calls < HardCap
        BY <3>1, <3>2
      <4>2. /\ m.leaf["compose"].how # "cap"
            /\ m.context.calls \in Nat /\ m.context.calls <= context.calls + 1
            /\ Cost(m.leaf["compose"]) \in Nat
            /\ m.context.calls <= context.calls + Cost(m.leaf["compose"])
        BY <2>4, <4>1, FirstCall
      <4> QED BY <3>1, <4>2
    <3>5. /\ context'.calls \in Nat
          /\ ScriptCost(leaf'["script"]) \in Nat
          /\ context'.calls <= m.context.calls + ScriptCost(leaf'["script"])
          /\ leaf'["script"].how # "cap"
          /\ leaf'["script"].at = "flying" => leaf'["script"].tries \in 1 .. ScriptTries
      <4>1. m.context.calls < HardCap
        BY <3>2, <3>4
      <4> QED BY <2>1, <2>5, <3>4, <4>1, FirstCall
    <3>6. leaf["detect"] = Idle /\ leaf["spec"] = Idle
      BY <3>1, AnyIdle DEF Leaves
    <3>7. m.leaf["detect"] = Idle /\ m.leaf["spec"] = Idle
      BY <2>4, <3>6 DEF Effect, Leaves
    <3>8. leaf'["detect"] = Idle /\ leaf'["spec"] = Idle /\ leaf'["compose"] = m.leaf["compose"]
      BY <2>1, <2>5, <3>7 DEF Effect, Leaves
    <3>9. Cost(leaf'["detect"]) = 0
      BY <3>3, <3>8 DEF Cost
    <3>10. context'.calls <= Spent(budget', leaf')
      BY <2>1, <3>2, <3>4, <3>5, <3>8, <3>9 DEF Spent
    <3>11. Budgeted'
      BY <2>1, <3>5, <3>8, <3>10 DEF Budgeted
    <3>12. RetriesFitTheCap'
      BY <3>3, <3>4, <3>5, <3>8 DEF RetriesFitTheCap, Leaves
    <3> QED BY <2>7, <2>8, <3>11, <3>12 DEF IInv
  <2>11. context.fresh \in BOOLEAN
    BY <2>2, InvParts
  <2> QED BY <2>9, <2>10, <2>11
<1> QED BY <1>1, <1>2

\* Composing and detecting: what ends the attempt, or asks for another one.
LEMMA GivesUpStep ==
  ASSUME IInv, NEW l \in Leaves, GivesUp(l), UNCHANGED documents
  PROVE  IInv'
BY FailsKeeps DEF GivesUp

BuiltOK == built \in {None, "flying", "drafts", "without structure", "raised"}

LEMMA AskKeeps ==
  ASSUME IInv, CapSuffices, NEW l \in {"compose", "detect"}, Call(l, 1), UNCHANGED documents,
         BuiltOK', leaf["compose"].at = "settled", leaf["script"].at = "settled",
         \/ /\ stage' = stage /\ budget > 0 /\ budget' = budget - 1
            /\ leaf[l].at = "settled"
            /\ (stage = "compose" /\ l = "compose") \/ (stage = "detect" /\ l = "detect")
         \/ /\ stage = "compose" /\ stage' = "detect" /\ l = "detect" /\ budget' = budget
  PROVE  IInv'
<1>1. stage \in {"compose", "detect"} /\ stage' \in {"compose", "detect"}
  OBVIOUS
<1>2. context # None
  BY <1>1 DEF IInv, TypeOK
<1>3. /\ context \in Contexts /\ context.calls \in Nat /\ context.fresh \in BOOLEAN
      /\ PlanExtra \in Nat /\ ScriptTries \in Nat \ {0} /\ HardCap \in Nat
      /\ budget \in 0 .. PlanExtra
  BY <1>2, InvParts
<1>4. Effect(Now', context, leaf, l, 1, FALSE)
  <2>1. l \in Leaves /\ 1 \in Nat /\ FALSE \in BOOLEAN
    BY DEF Leaves
  <2> QED BY <1>2, <2>1, CallsEffect DEF Call
<1>5. Now'.context = context' /\ Now'.leaf = leaf'
  BY DEF Now
<1>6. /\ context' \in Contexts /\ context'.calls <= HardCap
      /\ context'.fresh = context.fresh /\ context' # None
      /\ leaf' = [x \in Leaves |-> leaf'[x]]
      /\ \A x \in Leaves : LeafOK(leaf'[x])
      /\ \A x \in Leaves \ {l} : leaf'[x] = leaf[x]
  BY <1>4, <1>5, NoneAssumption DEF Effect
<1>7. budget' \in 0 .. PlanExtra
  BY <1>3
<1>8. Shaped'
  BY <1>1, <1>6 DEF Shaped
<1>9. TypeOK'
  <2>1. TypeOK /\ UNCHANGED <<primary, turn>>
    BY DEF IInv, documents
  <2>2. \A x \in Leaves :
          /\ leaf'[x].at \in {"idle", "flying", "settled"} /\ leaf'[x].tries \in Nat
          /\ leaf'[x].again \in BOOLEAN /\ leaf'[x].cut \in BOOLEAN
    BY <1>6 DEF LeafOK
  <2> QED BY <1>1, <1>6, <1>7, <2>1, <2>2 DEF TypeOK, BuiltOK
<1>10. CASE ~context.fresh
  BY <1>6, <1>8, <1>9, <1>10, NotFresh DEF Fresh
<1>11. CASE context.fresh
  <2>1. /\ context.calls <= Spent(budget, leaf) /\ leaf["spec"] = Idle
        /\ stage = "compose" => leaf["detect"] = Idle
    BY <1>1, <1>2, <1>11 DEF IInv, Budgeted, Fresh
  <2>2. Cost(leaf["compose"]) = 2 /\ ScriptCost(leaf["script"]) = 2 * ScriptTries
    BY DEF Cost, ScriptCost
  <2>a. leaf["detect"].at = "idle" => Cost(leaf["detect"]) = 0
    BY DEF Cost
  <2>b. leaf["detect"].at = "settled" => Cost(leaf["detect"]) = 2
    BY DEF Cost
  <2>c. \/ /\ stage = "compose" /\ stage' = "compose" /\ l = "compose" /\ budget > 0
           /\ budget' = budget - 1 /\ Cost(leaf["detect"]) = 0
        \/ /\ stage = "detect" /\ stage' = "detect" /\ l = "detect" /\ budget > 0
           /\ budget' = budget - 1 /\ Cost(leaf["detect"]) = 2
        \/ /\ stage = "compose" /\ stage' = "detect" /\ l = "detect"
           /\ budget' = budget /\ Cost(leaf["detect"]) = 0
    BY <2>1, <2>a, <2>b DEF Idle
  <2>d. context.calls <= 2 * (PlanExtra - budget) + 2 + 2 * ScriptTries + Cost(leaf["detect"])
    BY <2>1, <2>2 DEF Spent
  <2>3. context.calls < HardCap
    BY <1>3, <2>c, <2>d DEF CapSuffices
  <2>4. /\ leaf'[l].how # "cap" /\ leaf'[l].at # "idle"
        /\ context'.calls \in Nat /\ Cost(leaf'[l]) \in Nat
        /\ context'.calls <= context.calls + Cost(leaf'[l])
    <3> HIDE DEF Now
    <3> QED BY <1>3, <1>4, <1>5, <2>3, FirstCall
  <2>5. RetriesFitTheCap'
    BY <1>2, <1>6, <1>11, <2>4 DEF IInv, RetriesFitTheCap
  <2>6. /\ leaf'["script"] = leaf["script"] /\ leaf'["spec"] = Idle
        /\ l = "detect" => leaf'["compose"] = leaf["compose"]
        /\ l = "compose" => leaf'["detect"] = leaf["detect"]
    BY <1>6, <2>1 DEF Leaves
  <2>7. context'.calls <= Spent(budget', leaf')
    <3>1. Spent(budget', leaf') = 2 * (PlanExtra - budget') + Cost(leaf'["compose"])
                                    + 2 * ScriptTries + Cost(leaf'["detect"])
      BY <2>2, <2>6 DEF Spent
    <3>2. CASE l = "detect"
      <4>1. Cost(leaf'["compose"]) = 2 /\ Cost(leaf'["detect"]) = Cost(leaf'[l])
        BY <2>2, <2>6, <3>2
      <4> QED BY <1>3, <2>4, <2>c, <2>d, <3>1, <3>2, <4>1
    <3>3. CASE l = "compose"
      <4>1. Cost(leaf'["compose"]) = Cost(leaf'[l]) /\ Cost(leaf'["detect"]) = 0
        BY <2>c, <2>6, <3>3
      <4> QED BY <1>3, <2>4, <2>c, <2>d, <3>1, <3>3, <4>1
    <3> QED BY <3>2, <3>3
  <2>8. Budgeted'
    BY <1>1, <2>1, <2>6, <2>7 DEF Budgeted
  <2> QED BY <1>8, <1>9, <2>5, <2>8 DEF IInv
<1> QED BY <1>3, <1>10, <1>11

LEMMA ComposedStep ==
  ASSUME IInv, CapSuffices, Composed
  PROVE  IInv'
<1>1. /\ stage = "compose" /\ UNCHANGED documents
      /\ leaf["compose"].at = "settled" /\ leaf["script"].at = "settled"
      /\ "compose" \in Leaves /\ BuiltOK
  BY DEF Composed, Leaves, IInv, TypeOK, BuiltOK
<1>2. CASE RetryLeaf("compose")
  <2>1. /\ budget > 0 /\ budget' = budget - 1 /\ Call("compose", 1) /\ stage' = stage
        /\ built' = built
    BY <1>2 DEF RetryLeaf, MayRetry
  <2>2. BuiltOK'
    BY <1>1, <2>1 DEF BuiltOK
  <2> QED BY <1>1, <2>1, <2>2, AskKeeps
<1>3. CASE GivesUp("compose")
  BY <1>1, <1>3, GivesUpStep
<1>4. CASE stage' = "detect" /\ Call("detect", 1) /\ built' = "flying" /\ budget' = budget
  <2>1. BuiltOK'
    BY <1>4 DEF BuiltOK
  <2> QED BY <1>1, <1>4, <2>1, AskKeeps
<1> QED BY <1>2, <1>3, <1>4 DEF Composed

LEMMA DetectedStep ==
  ASSUME IInv, CapSuffices, Detected
  PROVE  IInv'
<1>1. /\ stage = "detect" /\ UNCHANGED documents /\ leaf["detect"].at = "settled"
      /\ "detect" \in Leaves /\ BuiltOK
  BY DEF Detected, Leaves, IInv, TypeOK, BuiltOK
<1>2. CASE RetryLeaf("detect")
  <2>1. /\ budget > 0 /\ budget' = budget - 1 /\ Call("detect", 1) /\ stage' = stage
        /\ built' = built
    BY <1>2 DEF RetryLeaf, MayRetry
  <2>2. BuiltOK'
    BY <1>1, <2>1 DEF BuiltOK
  <2>3. CASE Fresh
    <3>1. leaf["compose"].at = "settled" /\ leaf["script"].at = "settled"
      BY <1>1, <2>3 DEF IInv, Budgeted
    <3> QED BY <1>1, <2>1, <2>2, <3>1, AskKeeps
  <2>4. CASE ~Fresh
    <3>1. context # None
      BY <1>1 DEF IInv, TypeOK
    <3>2. 1 \in Nat /\ FALSE \in BOOLEAN
      OBVIOUS
    <3>3. Effect(Now', context, leaf, "detect", 1, FALSE)
      BY <1>1, <2>1, <3>1, <3>2, CallsEffect DEF Call
    <3>4. /\ context' \in Contexts /\ context'.calls <= HardCap
          /\ context'.fresh = context.fresh /\ context' # None
          /\ leaf' = [x \in Leaves |-> leaf'[x]]
          /\ \A x \in Leaves : LeafOK(leaf'[x])
      BY <3>3, NoneAssumption DEF Effect, Now
    <3>5. Shaped'
      BY <1>1, <2>1, <3>4 DEF Shaped
    <3>6. budget' \in 0 .. PlanExtra
      BY <2>1, <3>1, InvParts
    <3>7. TypeOK'
      <4>1. TypeOK /\ UNCHANGED <<stage, primary, turn, built>>
        BY <1>1, <2>1 DEF IInv, documents
      <4>2. \A x \in Leaves :
              /\ leaf'[x].at \in {"idle", "flying", "settled"} /\ leaf'[x].tries \in Nat
              /\ leaf'[x].again \in BOOLEAN /\ leaf'[x].cut \in BOOLEAN
        BY <3>4 DEF LeafOK
      <4> QED BY <1>1, <3>1, <3>4, <3>6, <4>1, <4>2 DEF TypeOK
    <3> QED BY <2>4, <3>1, <3>4, <3>5, <3>7, NotFresh DEF Fresh
  <2> QED BY <2>3, <2>4
<1>3. CASE GivesUp("detect")
  BY <1>1, <1>3, GivesUpStep
<1>4. CASE Fails("provider")
  BY <1>1, <1>4, FailsKeeps
<1>5. CASE stage' = "assemble" /\ UNCHANGED <<why, spec, context, budget, leaf, built, plan>>
  <2>1. TypeOK'
    BY <1>1, <1>5 DEF IInv, TypeOK, documents
  <2>2. Shaped' /\ RetriesFitTheCap'
    BY <1>1, <1>5 DEF IInv, Shaped, RetriesFitTheCap
  <2>3. Budgeted'
    BY <1>1, <1>5 DEF IInv, Budgeted, Fresh, Leaves
  <2> QED BY <2>1, <2>2, <2>3 DEF IInv
<1> QED BY <1>2, <1>3, <1>4, <1>5 DEF Detected

----------------------------------------------------------------------------
(* The theorems.                                                           *)

LEMMA InitOK == Init => IInv
<1> SUFFICES ASSUME Init PROVE IInv
  OBVIOUS
<1>1. /\ stage = "documents" /\ turn = 1 /\ context = NewContext(FALSE) /\ budget = 0
      /\ leaf = AllIdle /\ built = None /\ primary \in Documents \cup {0}
  BY PrimariesAssumption DEF Init
<1>2. context \in Contexts /\ context.calls = 0 /\ context.fresh = FALSE /\ context # None
  <2>1. context = [calls |-> 0, late |-> FALSE, repeats |-> NoRepeats, fresh |-> FALSE]
    BY <1>1 DEF NewContext
  <2>2. NoRepeats \in [Flaws -> Nat]
    BY DEF NoRepeats
  <2>3. context \in Contexts
    BY <2>1, <2>2 DEF Contexts
  <2> QED BY <2>1, <2>3, NoneAssumption
<1>3. Shaped
  BY <1>1, AnyIdle DEF Shaped
<1>4. \A l \in Leaves :
        /\ leaf[l].at \in {"idle", "flying", "settled"} /\ leaf[l].tries \in Nat
        /\ leaf[l].again \in BOOLEAN /\ leaf[l].cut \in BOOLEAN
  BY <1>1, AnyIdle DEF LeafOK
<1>5. budget \in 0 .. PlanExtra /\ turn \in Nat \ {0} /\ 0 <= HardCap
  BY <1>1, CountsAssumption
<1>6. TypeOK
  BY <1>1, <1>2, <1>4, <1>5 DEF TypeOK
<1> QED BY <1>2, <1>3, <1>6 DEF IInv, Budgeted, RetriesFitTheCap, Fresh

LEMMA StepOK ==
  ASSUME IInv, CapSuffices, [Next]_vars
  PROVE  IInv'
<1>1. CASE UNCHANGED vars
  BY <1>1 DEF IInv, TypeOK, Shaped, Budgeted, RetriesFitTheCap, Fresh, Spent, vars, documents
<1>2. ASSUME NEW l \in Leaves,
             ProviderFails(l) \/ TooLate(l) \/ NotJson(l) \/ Malformed(l) \/ Answered(l)
      PROVE  IInv'
  BY <1>2, LeafStep
<1>3. CASE ParseFails \/ Parsed \/ Extracted \/ NotExtracted \/ ExtractionBreaks
  BY <1>3, DocumentStep
<1> QED BY <1>1, <1>2, <1>3, FuseStep, GenerateStep, ComposedStep, StepsAnsweredStep,
           DetectedStep, AssembleStep, AssembleFailsStep, RerunStep, TickStep DEF Next

LEMMA Inductive == CapSuffices => (Spec => []IInv)
<1> SUFFICES ASSUME CapSuffices PROVE Spec => []IInv
  OBVIOUS
<1>1. IInv /\ [Next]_vars => IInv'
  BY StepOK
<1> QED BY InitOK, <1>1, PTL DEF Spec

(* With a cap of two calls for each attempt, types and counters stay       *)
(* within their bounds, and a job that ended has left nothing behind.      *)
THEOREM GenerationTyped ==
  ASSUME CapSuffices
  PROVE  Spec => []TypeOK
BY Inductive, PTL DEF IInv

(* With such a cap no rerun is refused a call by it, whatever its leaves   *)
(* answer, and in whatever order composing, detecting and the script use   *)
(* up their attempts.                                                      *)
THEOREM RerunsFitTheCap ==
  ASSUME CapSuffices
  PROVE  Spec => []RetriesFitTheCap
BY Inductive, PTL DEF IInv

----------------------------------------------------------------------------
(***************************************************************************)
(* The gate of the build steps.                                            *)
(***************************************************************************)

\* A step with all its parts, and a sequence of such.
Sane(s) ==
  StepFields \subseteq DOMAIN s /\ IsSequence(s.deps) /\ IsSequence(s.blocks) /\ IsSequence(s.links)

SaneSteps(steps) == IsSequence(steps) /\ \A i \in DOMAIN steps : Sane(steps[i])

DistinctIds(steps) == \A i, j \in DOMAIN steps : steps[i].id = steps[j].id => i = j

Rooted(steps) ==
  \A i \in DOMAIN steps : \A d \in ToSet(steps[i].deps) : \E j \in 1 .. i - 1 : steps[j].id = d

ParamsMapped(steps, mapping) ==
  \A i \in DOMAIN steps : steps[i].params \subseteq {m.param : m \in ToSet(mapping)}

OneBearer(steps) ==
  \A i, j \in DOMAIN steps : \A ref : Brings(steps, i, ref) # {} /\ Brings(steps, j, ref) # {} => i = j

LinksInSight(steps) ==
  \A i \in DOMAIN steps : \A l \in ToSet(steps[i].links) : \A ref \in {l.from, l.to} :
    \E j \in 1 .. i : Brings(steps, j, ref) # {}

\* A set of one element is not empty.
LEMMA SomeWhereOne ==
  ASSUME NEW S, Cardinality(S) = 1
  PROVE  S # {}
<1>1. Cardinality({}) = 0
  BY FS_EmptySet
<1>2. S = {} => Cardinality(S) = 0
  BY <1>1
<1> QED
  BY <1>2

\* A sequence is a function of the numbers up to its length.
LEMMA SequenceDomain ==
  ASSUME NEW s, IsSequence(s)
  PROVE  Len(s) \in Nat /\ DOMAIN s = 1 .. Len(s) /\ s = [i \in 1 .. Len(s) |-> s[i]]
BY DEF IsSequence

\* What is intact of a sequence is one, without what is broken.
LEMMA IntactSequence ==
  ASSUME NEW s, IsSequence(s)
  PROVE  IsSequence(Intact(s)) /\ ToSet(Intact(s)) \subseteq ToSet(s) \ {Broken}
<1> DEFINE places == {i \in DOMAIN s : s[i] # Broken}
<1>1. IsSequence(Picked(s, places)) /\ ToSet(Picked(s, places)) = {s[i] : i \in DOMAIN s \cap places}
  BY PickedSequence
<1> QED
  BY <1>1 DEF Intact, ToSet

\* The steps that are read have all their parts.
LEMMA SanitizedSane ==
  ASSUME NEW drafts, IsSequence(drafts), \A s \in ToSet(drafts) \ {Broken} : Sane(s)
  PROVE  SaneSteps(Sanitized(drafts))
<1> DEFINE items == Intact(drafts)
           places == {i \in DOMAIN items : Broken \notin ToSet(items[i].deps)}
           read == Picked(items, places)
           steps == [i \in DOMAIN read |-> [read[i] EXCEPT !.blocks = Intact(@), !.links = Intact(@)]]
<1>1. IsSequence(items) /\ ToSet(items) \subseteq ToSet(drafts) \ {Broken}
  BY IntactSequence
<1>2. Sanitized(drafts) = steps
  BY DEF Sanitized
<1> HIDE DEF items, places
<1>3. IsSequence(read) /\ ToSet(read) \subseteq ToSet(items)
  <2>1. IsSequence(read) /\ ToSet(read) = {items[i] : i \in DOMAIN items \cap places}
    BY <1>1, PickedSequence
  <2> QED
    BY <2>1 DEF ToSet
<1>4. \A i \in DOMAIN read : Sane(read[i])
  BY <1>1, <1>3 DEF ToSet
<1> HIDE DEF read
<1>5. ASSUME NEW i \in DOMAIN read PROVE Sane(steps[i])
  <2>1. /\ steps[i].deps = read[i].deps /\ steps[i].blocks = Intact(read[i].blocks)
        /\ steps[i].links = Intact(read[i].links) /\ DOMAIN steps[i] = DOMAIN read[i]
    BY <1>4 DEF Sane, StepFields
  <2> HIDE DEF steps
  <2> QED
    BY <1>4, <2>1, IntactSequence DEF Sane
<1>6. IsSequence(steps)
  <2>1. steps = [i \in 1 .. Len(read) |-> steps[i]] /\ Len(read) \in Nat
    BY <1>3, SequenceDomain
  <2> HIDE DEF steps
  <2> QED
    BY <2>1, BuiltSequence
<1>7. DOMAIN steps = DOMAIN read
  OBVIOUS
<1> HIDE DEF steps
<1> QED
  BY <1>2, <1>5, <1>6, <1>7 DEF SaneSteps

\* No two of the named steps have the same id.
LEMMA NamedFacts ==
  ASSUME NEW drafts, SaneSteps(drafts)
  PROVE  SaneSteps(Named(drafts)) /\ DistinctIds(Named(drafts))
<1> DEFINE places == {i \in DOMAIN drafts : /\ drafts[i].id \in StepIds
                                           /\ \A j \in 1 .. i - 1 : drafts[j].id # drafts[i].id}
           steps == Picked(drafts, places)
<1>1. Named(drafts) = steps
  BY DEF Named
<1>2. IsSequence(drafts) /\ DOMAIN drafts = 1 .. Len(drafts) /\ Len(drafts) \in Nat
  BY SequenceDomain DEF SaneSteps
<1>3. \A i, j \in DOMAIN drafts \cap places : drafts[i].id = drafts[j].id => i = j
  <2> SUFFICES ASSUME NEW i \in DOMAIN drafts \cap places, NEW j \in DOMAIN drafts \cap places,
                      i < j
               PROVE  drafts[i].id # drafts[j].id
    BY <1>2
  <2>1. i \in 1 .. j - 1
    BY <1>2
  <2> QED
    BY <2>1
<1> HIDE DEF places
<1>4. IsSequence(steps) /\ ToSet(steps) = {drafts[i] : i \in DOMAIN drafts \cap places}
  BY <1>2, PickedSequence
<1>5. \E at : Embeds(at, steps, drafts, places)
  BY <1>2, PickedEmbeds DEF IsSequence
<1> HIDE DEF steps
<1>6. PICK at : Embeds(at, steps, drafts, places)
  BY <1>5
<1>7. \A k \in DOMAIN steps : at[k] \in DOMAIN drafts \cap places /\ steps[k] = drafts[at[k]]
  BY <1>6 DEF Embeds
<1>8. ASSUME NEW k \in DOMAIN steps, NEW m \in DOMAIN steps, steps[k].id = steps[m].id
      PROVE  k = m
  <2>1. at[k] = at[m] /\ at[k] \in Nat
    BY <1>2, <1>3, <1>7, <1>8
  <2>2. ~(k < m) /\ ~(m < k)
    BY <1>6, <2>1 DEF Embeds
  <2>3. k \in Nat /\ m \in Nat
    BY <1>4, SequenceDomain
  <2> QED
    BY <2>2, <2>3
<1>9. \A k \in DOMAIN steps : Sane(steps[k])
  BY <1>7 DEF SaneSteps
<1> QED
  BY <1>1, <1>4, <1>8, <1>9 DEF SaneSteps, DistinctIds

----------------------------------------------------------------------------
(* One part of each step is replaced.                                      *)
Updates(new, steps, f, v) == new = [i \in DOMAIN steps |-> [steps[i] EXCEPT ![f] = v[i]]]

Replaces(new, steps, f) ==
  /\ IsSequence(new) /\ DOMAIN new = DOMAIN steps
  /\ \A i \in DOMAIN steps : DOMAIN new[i] = DOMAIN steps[i] /\ \A g \in StepFields \ {f} : new[i][g] = steps[i][g]

\* An update of one part leaves the others as they are.
LEMMA ReplacedSteps ==
  ASSUME NEW steps, SaneSteps(steps), NEW f \in StepFields, NEW v, NEW new,
         Updates(new, steps, f, v)
  PROVE  Replaces(new, steps, f) /\ \A i \in DOMAIN steps : new[i][f] = v[i]
<1>1. IsSequence(steps) /\ Len(steps) \in Nat /\ DOMAIN steps = 1 .. Len(steps)
  BY SequenceDomain DEF SaneSteps
<1>2. new = [i \in 1 .. Len(steps) |-> new[i]]
  BY <1>1 DEF Updates
<1>3. IsSequence(new)
  BY <1>1, <1>2, BuiltSequence
<1>4. ASSUME NEW i \in DOMAIN steps
      PROVE  /\ DOMAIN new[i] = DOMAIN steps[i] /\ new[i][f] = v[i]
             /\ \A g \in StepFields \ {f} : new[i][g] = steps[i][g]
  <2>1. new[i] = [steps[i] EXCEPT ![f] = v[i]] /\ StepFields \subseteq DOMAIN steps[i]
    BY DEF SaneSteps, Sane, Updates
  <2> QED
    BY <2>1
<1>5. DOMAIN new = DOMAIN steps
  BY DEF Updates
<1> QED
  BY <1>3, <1>4, <1>5 DEF Replaces

\* Dependencies that are kept are ids of steps.
LEMMA KnownFacts ==
  ASSUME NEW steps, SaneSteps(steps), DistinctIds(steps)
  PROVE  /\ SaneSteps(Known(steps)) /\ DistinctIds(Known(steps))
         /\ \A i \in DOMAIN Known(steps) : ToSet(Known(steps)[i].deps) \subseteq Ids(Known(steps))
<1> DEFINE new == Known(steps)
           kept(s) == {k \in DOMAIN s.deps : s.deps[k] \in Ids(steps) \ {s.id}}
           v == [i \in DOMAIN steps |-> Picked(steps[i].deps, kept(steps[i]))]
<1>1. Updates(new, steps, "deps", v)
  BY DEF Known, Updates
<1>2. ASSUME NEW i \in DOMAIN steps PROVE IsSequence(v[i]) /\ ToSet(v[i]) \subseteq Ids(steps)
  <2> DEFINE places == kept(steps[i])
  <2>1. IsSequence(steps[i].deps)
    BY DEF SaneSteps, Sane
  <2>2. v[i] = Picked(steps[i].deps, places) /\ \A k \in places : steps[i].deps[k] \in Ids(steps)
    OBVIOUS
  <2> HIDE DEF places, v
  <2>3. IsSequence(v[i]) /\ ToSet(v[i]) = {steps[i].deps[k] : k \in DOMAIN steps[i].deps \cap places}
    BY <2>1, <2>2, PickedSequence
  <2> QED
    BY <2>2, <2>3
<1> HIDE DEF new, v
<1>3. Replaces(new, steps, "deps") /\ \A i \in DOMAIN steps : new[i].deps = v[i]
  <2>1. "deps" \in StepFields
    BY DEF StepFields
  <2>2. Replaces(new, steps, "deps") /\ \A i \in DOMAIN steps : new[i]["deps"] = v[i]
    BY <1>1, <2>1, ReplacedSteps
  <2> QED
    BY <2>2
<1>4. \A i \in DOMAIN steps : /\ DOMAIN new[i] = DOMAIN steps[i] /\ new[i].id = steps[i].id
                              /\ new[i].blocks = steps[i].blocks /\ new[i].links = steps[i].links
  BY <1>3 DEF Replaces, StepFields
<1>5. Ids(new) = Ids(steps)
  BY <1>3, <1>4 DEF Ids, ToSet, Replaces
<1>6. SaneSteps(new)
  BY <1>2, <1>3, <1>4 DEF SaneSteps, Sane, Replaces
<1>7. DistinctIds(new)
  BY <1>3, <1>4 DEF DistinctIds, Replaces
<1> QED
  BY <1>2, <1>3, <1>5, <1>6, <1>7 DEF new, Replaces

----------------------------------------------------------------------------
(* The order of the steps.                                                 *)
Ready(steps, rest) == {i \in rest : \A j \in rest : ~Contains(steps[i].deps, steps[j].id)}
First(steps, rest) == CHOOSE i \in Ready(steps, rest) : \A j \in Ready(steps, rest) : i <= j

IsOrder(order, steps) ==
  order = [rest \in SUBSET DOMAIN steps |->
             IF Ready(steps, rest) = {} THEN <<>>
             ELSE <<steps[First(steps, rest)]>> \o order[rest \ {First(steps, rest)}]]

\* Where a step is ready there is a first one.
LEMMA FirstReady ==
  ASSUME NEW steps, IsSequence(steps), NEW rest \in SUBSET DOMAIN steps, Ready(steps, rest) # {}
  PROVE  First(steps, rest) \in Ready(steps, rest)
<1>1. Ready(steps, rest) \subseteq Nat
  BY SequenceDomain DEF Ready
<1>2. \E i \in Ready(steps, rest) : \A j \in Ready(steps, rest) : i <= j
  BY <1>1, LeastElement
<1> QED
  BY <1>2 DEF First

\* The function that orders the steps exists.
LEMMA OrderExists ==
  ASSUME NEW steps, IsSequence(steps)
  PROVE  \E order \in [SUBSET DOMAIN steps -> Seq(ToSet(steps))] : IsOrder(order, steps)
<1> DEFINE D == DOMAIN steps
           A == Seq(ToSet(steps))
           Z == {rest \in SUBSET D : Ready(steps, rest) = {}}
           c == [rest \in SUBSET D |-> First(steps, rest)]
           h == [rest \in SUBSET D |-> [a \in A |-> <<steps[First(steps, rest)]>> \o a]]
<1>1. IsFiniteSet(D)
  BY SequenceDomain, FS_Interval
<1>2. Shrinks(D, Z, c)
  BY FirstReady DEF Shrinks, Ready
<1>3. <<>> \in A
  OBVIOUS
<1>4. ASSUME NEW rest \in SUBSET D, NEW a \in A, rest \notin Z
      PROVE  h[rest][a] = <<steps[First(steps, rest)]>> \o a /\ h[rest][a] \in A
  <2>1. First(steps, rest) \in D
    BY <1>4, FirstReady DEF Ready
  <2>2. steps[First(steps, rest)] \in ToSet(steps)
    BY <2>1 DEF ToSet
  <2>3. <<steps[First(steps, rest)]>> \in A
    BY <2>2
  <2> QED
    BY <2>3
<1>5. StepsDown(D, Z, h, A)
  BY <1>4 DEF StepsDown
<1>a. \A rest \in SUBSET D : c[rest] = First(steps, rest)
  OBVIOUS
<1>b. \A rest \in SUBSET D : rest \in Z <=> Ready(steps, rest) = {}
  OBVIOUS
<1> HIDE DEF A, Z, c, h
<1>6. PICK f \in [SUBSET D -> A] : Solved(f, D, Z, <<>>, c, h)
  BY <1>1, <1>2, <1>3, <1>5, SubsetRecursion DEF Solvable
<1>7. ASSUME NEW rest \in SUBSET D
      PROVE  f[rest] = IF Ready(steps, rest) = {} THEN <<>>
                       ELSE <<steps[First(steps, rest)]>> \o f[rest \ {First(steps, rest)}]
  <2>1. f[rest] = IF rest \in Z THEN <<>> ELSE h[rest][f[rest \ {c[rest]}]]
    BY <1>6 DEF Solved
  <2>2. f[rest \ {First(steps, rest)}] \in A
    BY <1>6
  <2> QED
    BY <1>4, <1>a, <1>b, <2>1, <2>2
<1>8. IsOrder(f, steps)
  BY <1>6, <1>7 DEF IsOrder
<1> QED
  BY <1>6, <1>8 DEF A

\* What is known of the steps in order that came of some of them.
Arranged(o, steps, rest) ==
  /\ IsSequence(o)
  /\ \A k \in DOMAIN o : \E j \in rest : o[k] = steps[j]
  /\ DistinctIds(o)
  /\ \A k \in DOMAIN o : \A d \in ToSet(o[k].deps) :
       \/ \E m \in 1 .. k - 1 : o[m].id = d
       \/ \A j \in rest : steps[j].id # d

(* A ready step before the order of the rest keeps it an order: what it    *)
(* waits for is none of the rest.                                          *)
LEMMA OneMore ==
  ASSUME NEW steps, SaneSteps(steps), DistinctIds(steps), NEW rest \in SUBSET DOMAIN steps,
         NEW i \in Ready(steps, rest), NEW o, Arranged(o, steps, rest \ {i})
  PROVE  Arranged(<<steps[i]>> \o o, steps, rest)
<1> DEFINE s == steps[i]
           new == <<s>> \o o
<1>1. /\ IsSequence(o) /\ Len(o) \in Nat /\ DOMAIN o = 1 .. Len(o)
      /\ IsSequence(new) /\ i \in rest /\ i \in DOMAIN steps
  BY SequenceDomain, ShortSequences, ConcatSequence DEF Arranged, Ready
<1>2. /\ DOMAIN new = 1 .. Len(o) + 1 /\ new[1] = s
      /\ \A k \in 1 .. Len(o) : new[k + 1] = o[k]
  <2>1. PICK E : o \in Seq(E)
    BY <1>1 DEF IsSequence
  <2>2. PICK F : F = E \cup {s}
    OBVIOUS
  <2>3. o \in Seq(F) /\ <<s>> \in Seq(F) /\ Len(<<s>>) = 1
    BY <2>1, <2>2
  <2> HIDE DEF s
  <2> QED
    BY <1>1, <2>3
<1>3. \A d \in ToSet(s.deps) : \A j \in rest : steps[j].id # d
  <2>1. s.deps \in Seq(ToSet(s.deps))
    BY <1>1 DEF SaneSteps, Sane, IsSequence
  <2> QED
    BY <2>1 DEF Ready, Contains, ToSet
<1> HIDE DEF new, s
<1>4. \A k \in 2 .. Len(o) + 1 : k - 1 \in 1 .. Len(o) /\ new[k] = o[k - 1]
  BY <1>1, <1>2
<1>5. \A k \in DOMAIN new : \E j \in rest : new[k] = steps[j]
  <2> SUFFICES ASSUME NEW k \in DOMAIN new PROVE \E j \in rest : new[k] = steps[j]
    OBVIOUS
  <2>1. CASE k = 1
    BY <1>1, <1>2, <2>1 DEF s
  <2>2. CASE k # 1
    <3>1. k \in 2 .. Len(o) + 1
      BY <1>1, <1>2, <2>2
    <3> QED
      BY <1>1, <1>4, <3>1 DEF Arranged
  <2> QED
    BY <2>1, <2>2
<1>6. \A k \in 2 .. Len(o) + 1 : new[k].id # s.id
  <2> SUFFICES ASSUME NEW k \in 2 .. Len(o) + 1 PROVE new[k].id # s.id
    OBVIOUS
  <2>1. PICK j \in rest \ {i} : new[k] = steps[j]
    BY <1>1, <1>4 DEF Arranged
  <2> QED
    BY <1>1, <2>1 DEF s, DistinctIds
<1>7. DistinctIds(new)
  <2> SUFFICES ASSUME NEW k \in DOMAIN new, NEW m \in DOMAIN new, new[k].id = new[m].id PROVE k = m
    BY DEF DistinctIds
  <2>1. CASE k = 1 /\ m = 1
    BY <2>1
  <2>2. CASE k # 1 /\ m = 1
    BY <1>1, <1>2, <1>6, <2>2
  <2>3. CASE k = 1 /\ m # 1
    BY <1>1, <1>2, <1>6, <2>3
  <2>4. CASE k # 1 /\ m # 1
    <3>1. k \in 2 .. Len(o) + 1 /\ m \in 2 .. Len(o) + 1
      BY <1>1, <1>2, <2>4
    <3>2. k - 1 \in DOMAIN o /\ m - 1 \in DOMAIN o /\ o[k - 1].id = o[m - 1].id
      BY <1>1, <1>4, <3>1
    <3>3. k - 1 = m - 1
      BY <3>2 DEF Arranged, DistinctIds
    <3> QED
      BY <1>1, <3>1, <3>3
  <2> QED
    BY <2>1, <2>2, <2>3, <2>4
<1>8. ASSUME NEW k \in DOMAIN new, NEW d \in ToSet(new[k].deps)
      PROVE  \/ \E m \in 1 .. k - 1 : new[m].id = d
             \/ \A j \in rest : steps[j].id # d
  <2>1. CASE k = 1
    BY <1>2, <1>3, <1>8, <2>1
  <2>2. CASE k # 1
    <3>1. k \in 2 .. Len(o) + 1
      BY <1>1, <1>2, <2>2
    <3>2. k - 1 \in DOMAIN o /\ d \in ToSet(o[k - 1].deps)
      BY <1>1, <1>4, <1>8, <3>1
    <3>3. CASE \E m \in 1 .. (k - 1) - 1 : o[m].id = d
      <4>1. PICK m \in 1 .. (k - 1) - 1 : o[m].id = d
        BY <3>3
      <4>2. m + 1 \in 1 .. k - 1 /\ new[m + 1] = o[m]
        BY <1>1, <1>2, <3>1
      <4> QED
        BY <4>1, <4>2
    <3>4. CASE \A j \in rest \ {i} : steps[j].id # d
      <4>1. CASE d = s.id
        <5>1. 1 \in 1 .. k - 1
          BY <1>1, <3>1
        <5> QED
          BY <1>2, <4>1, <5>1
      <4>2. CASE d # s.id
        BY <3>4, <4>2 DEF s
      <4> QED
        BY <4>1, <4>2
    <3> QED
      BY <3>2, <3>3, <3>4 DEF Arranged
  <2> QED
    BY <2>1, <2>2
<1> QED
  BY <1>1, <1>5, <1>7, <1>8 DEF Arranged, new, s

(* Ordering leaves steps of the draft, each after those it depends on, as  *)
(* far as these are steps at all.                                          *)
LEMMA OrderedFacts ==
  ASSUME NEW steps, SaneSteps(steps), DistinctIds(steps)
  PROVE  Arranged(Ordered(steps), steps, DOMAIN steps)
<1> DEFINE D == DOMAIN steps
           order == CHOOSE f : IsOrder(f, steps)
           T == {rest \in SUBSET D : Arranged(order[rest], steps, rest)}
<1>1. Ordered(steps) = order[D]
  BY DEF Ordered, IsOrder, Ready, First
<1>2. IsSequence(steps) /\ IsFiniteSet(D)
  <2>1. IsSequence(steps)
    BY DEF SaneSteps
  <2>2. Len(steps) \in Nat /\ D = 1 .. Len(steps)
    BY <2>1, SequenceDomain
  <2> QED
    BY <2>1, <2>2, FS_Interval
<1>3. IsOrder(order, steps)
  BY <1>2, OrderExists
<1> HIDE DEF order
<1>4. ASSUME NEW rest \in SUBSET D, \A x \in rest : rest \ {x} \in T
      PROVE  rest \in T
  <2>1. CASE Ready(steps, rest) = {}
    <3>1. order[rest] = <<>>
      BY <1>3, <2>1 DEF IsOrder
    <3>2. Arranged(<<>>, steps, rest)
      BY ShortSequences DEF Arranged, DistinctIds
    <3> QED
      BY <3>1, <3>2
  <2>2. CASE Ready(steps, rest) # {}
    <3> DEFINE i == First(steps, rest)
    <3>1. i \in Ready(steps, rest) /\ i \in rest
      BY <1>2, <2>2, FirstReady DEF Ready
    <3>2. order[rest] = <<steps[i]>> \o order[rest \ {i}]
      BY <1>3, <2>2 DEF IsOrder
    <3>3. Arranged(order[rest \ {i}], steps, rest \ {i})
      BY <1>4, <3>1
    <3> HIDE DEF i
    <3>4. Arranged(order[rest], steps, rest)
      BY <3>1, <3>2, <3>3, OneMore
    <3> QED
      BY <3>4
  <2> QED
    BY <2>1, <2>2
<1> HIDE DEF T
<1>5. SUBSET D \subseteq T
  <2>1. GrowsFrom(D, T)
    BY <1>4 DEF GrowsFrom
  <2> HIDE DEF D
  <2> QED
    BY <1>2, <2>1, SubsetInduction
<1>6. D \in T
  BY <1>5
<1> QED
  BY <1>1, <1>6 DEF T

\* Whether or not there is a cycle, a dependency is a step before.
LEMMA UntangledFacts ==
  ASSUME NEW steps, SaneSteps(steps), DistinctIds(steps)
  PROVE  SaneSteps(Untangled(steps)) /\ DistinctIds(Untangled(steps)) /\ Rooted(Untangled(steps))
<1> DEFINE known == Known(steps)
           order == Ordered(known)
           bare == [i \in DOMAIN known |-> [known[i] EXCEPT !.deps = <<>>]]
<1>1. /\ SaneSteps(known) /\ DistinctIds(known)
      /\ \A i \in DOMAIN known : ToSet(known[i].deps) \subseteq Ids(known)
  BY KnownFacts
<1> HIDE DEF known
<1>2. Arranged(order, known, DOMAIN known)
  BY <1>1, OrderedFacts
<1>3. Untangled(steps) = order \/ Untangled(steps) = bare
  BY DEF Untangled, known
<1> HIDE DEF order
<1>4. SaneSteps(order) /\ DistinctIds(order)
  BY <1>1, <1>2 DEF Arranged, SaneSteps
<1>5. Rooted(order)
  <2> SUFFICES ASSUME NEW k \in DOMAIN order, NEW d \in ToSet(order[k].deps)
               PROVE  \E m \in 1 .. k - 1 : order[m].id = d
    BY DEF Rooted
  <2>1. PICK j \in DOMAIN known : order[k] = known[j]
    BY <1>2 DEF Arranged
  <2>2. d \in Ids(known)
    BY <1>1, <2>1
  <2>3. \E i \in DOMAIN known : known[i].id = d
    BY <2>2 DEF Ids, ToSet
  <2> QED
    BY <1>2, <2>3 DEF Arranged
<1>6. Replaces(bare, known, "deps") /\ \A i \in DOMAIN known : bare[i].deps = <<>>
  <2> DEFINE v == [i \in DOMAIN known |-> <<>>]
  <2>1. Updates(bare, known, "deps", v) /\ "deps" \in StepFields
    BY DEF StepFields, Updates
  <2>2. \A i \in DOMAIN known : v[i] = <<>>
    OBVIOUS
  <2> HIDE DEF bare, v
  <2>3. Replaces(bare, known, "deps") /\ \A i \in DOMAIN known : bare[i]["deps"] = v[i]
    BY <1>1, <2>1, ReplacedSteps
  <2> QED
    BY <2>2, <2>3
<1> HIDE DEF bare
<1>7. \A i \in DOMAIN known : /\ DOMAIN bare[i] = DOMAIN known[i] /\ bare[i].id = known[i].id
                              /\ bare[i].blocks = known[i].blocks /\ bare[i].links = known[i].links
  BY <1>6 DEF Replaces, StepFields
<1>8. SaneSteps(bare) /\ DistinctIds(bare) /\ Rooted(bare)
  BY <1>1, <1>6, <1>7, ShortSequences DEF SaneSteps, Sane, DistinctIds, Rooted, Replaces
<1> QED
  BY <1>3, <1>4, <1>5, <1>8

----------------------------------------------------------------------------
(* What is left of a step when it has its place.                           *)
Placed(steps) == SaneSteps(steps) /\ DistinctIds(steps) /\ Rooted(steps)

\* Neither id nor dependencies are touched from here on.
LEMMA PlacedStays ==
  ASSUME NEW steps, Placed(steps), NEW f \in StepFields \ {"id", "deps"}, NEW new,
         Replaces(new, steps, f),
         \A i \in DOMAIN steps : f \in {"blocks", "links"} => IsSequence(new[i][f])
  PROVE  Placed(new)
<1>1. \A i \in DOMAIN steps : /\ DOMAIN new[i] = DOMAIN steps[i] /\ new[i].id = steps[i].id
                              /\ new[i].deps = steps[i].deps
                              /\ f # "blocks" => new[i].blocks = steps[i].blocks
                              /\ f # "links" => new[i].links = steps[i].links
  BY DEF Replaces, StepFields
<1>2. DOMAIN new = DOMAIN steps /\ IsSequence(new)
  BY DEF Replaces
<1>3. \A i \in DOMAIN steps : IsSequence(new[i].blocks) /\ IsSequence(new[i].links)
  <2>1. \A i \in DOMAIN steps : IsSequence(steps[i].blocks) /\ IsSequence(steps[i].links)
    BY DEF Placed, SaneSteps, Sane
  <2>2. CASE f = "blocks"
    BY <1>1, <2>1, <2>2
  <2>3. CASE f = "links"
    BY <1>1, <2>1, <2>3
  <2>4. CASE f \notin {"blocks", "links"}
    BY <1>1, <2>1, <2>4
  <2> QED
    BY <2>2, <2>3, <2>4
<1>4. SaneSteps(new)
  BY <1>1, <1>2, <1>3 DEF Placed, SaneSteps, Sane
<1>5. DistinctIds(new)
  BY <1>1, <1>2 DEF Placed, DistinctIds
<1>6. Rooted(new)
  <2> SUFFICES ASSUME NEW i \in DOMAIN steps, NEW d \in ToSet(steps[i].deps)
               PROVE  \E j \in 1 .. i - 1 : new[j].id = d
    BY <1>1, <1>2 DEF Rooted
  <2>1. PICK j \in 1 .. i - 1 : steps[j].id = d
    BY DEF Placed, Rooted
  <2>2. j \in DOMAIN steps
    <3>1. DOMAIN steps = 1 .. Len(steps) /\ Len(steps) \in Nat
      BY SequenceDomain DEF Placed, SaneSteps
    <3> QED
      BY <3>1
  <2> QED
    BY <1>1, <2>1, <2>2
<1> QED
  BY <1>4, <1>5, <1>6 DEF Placed

\* Parameters are those of the mapping.
LEMMA MappedFacts ==
  ASSUME NEW steps, Placed(steps), NEW mapping
  PROVE  Placed(Mapped(steps, mapping)) /\ ParamsMapped(Mapped(steps, mapping), mapping)
<1> DEFINE new == Mapped(steps, mapping)
           v == [i \in DOMAIN steps |->
                   {p \in steps[i].params : Cardinality({k \in DOMAIN mapping : mapping[k].param = p}) = 1}]
<1>1. Updates(new, steps, "params", v)
  BY DEF Mapped, Updates
<1>2. ASSUME NEW i \in DOMAIN steps PROVE v[i] \subseteq {m.param : m \in ToSet(mapping)}
  <2> DEFINE of(p) == {k \in DOMAIN mapping : mapping[k].param = p}
  <2>1. \A p : of(p) # {} => p \in {m.param : m \in ToSet(mapping)}
    BY DEF ToSet
  <2>2. \A p : Cardinality(of(p)) = 1 => of(p) # {}
    <3> HIDE DEF of
    <3> QED
      BY SomeWhereOne
  <2>3. v[i] \subseteq {p \in v[i] : Cardinality(of(p)) = 1}
    OBVIOUS
  <2> HIDE DEF of, v
  <2> QED
    BY <2>1, <2>2, <2>3
<1> HIDE DEF new, v
<1>3. "params" \in StepFields \ {"id", "deps"} /\ SaneSteps(steps)
  BY DEF StepFields, Placed
<1>4. Replaces(new, steps, "params") /\ \A i \in DOMAIN steps : new[i]["params"] = v[i]
  BY <1>1, <1>3, ReplacedSteps
<1>5. Placed(new)
  BY <1>3, <1>4, PlacedStays
<1>6. ParamsMapped(new, mapping)
  BY <1>2, <1>4 DEF ParamsMapped, Replaces
<1> QED
  BY <1>5, <1>6 DEF new

\* Dropping blocks changes nothing of it.
LEMMA RecommendedFacts ==
  ASSUME NEW steps, Placed(steps), NEW mapping, ParamsMapped(steps, mapping), NEW recs
  PROVE  Placed(Recommended(steps, recs)) /\ ParamsMapped(Recommended(steps, recs), mapping)
<1> DEFINE new == Recommended(steps, recs)
           kept(s) == {k \in DOMAIN s.blocks : s.blocks[k].rec \in recs}
           v == [i \in DOMAIN steps |-> Picked(steps[i].blocks, kept(steps[i]))]
<1>1. Updates(new, steps, "blocks", v)
  BY DEF Recommended, Updates
<1>2. \A i \in DOMAIN steps : IsSequence(v[i])
  BY PickedSequence DEF Placed, SaneSteps, Sane
<1> HIDE DEF new, v
<1>3. "blocks" \in StepFields \ {"id", "deps"} /\ SaneSteps(steps)
  BY DEF StepFields, Placed
<1>4. Replaces(new, steps, "blocks") /\ \A i \in DOMAIN steps : new[i]["blocks"] = v[i]
  BY <1>1, <1>3, ReplacedSteps
<1>5. Placed(new)
  BY <1>2, <1>3, <1>4, PlacedStays
<1>6. ParamsMapped(new, mapping)
  BY <1>4 DEF ParamsMapped, Replaces, StepFields
<1> QED
  BY <1>5, <1>6 DEF new

\* A name is of one step.
LEMMA UnambiguousFacts ==
  ASSUME NEW steps, Placed(steps), NEW mapping, ParamsMapped(steps, mapping)
  PROVE  /\ Placed(Unambiguous(steps)) /\ ParamsMapped(Unambiguous(steps), mapping)
         /\ OneBearer(Unambiguous(steps))
<1> DEFINE new == Unambiguous(steps)
           borne(i, k) == \/ \E j \in 1 .. i - 1 : Brings(steps, j, steps[i].blocks[k].ref) # {}
                          \/ \E m \in 1 .. k - 1 : steps[i].blocks[m].ref = steps[i].blocks[k].ref
           fresh(i) == {k \in DOMAIN steps[i].blocks : ~borne(i, k)}
           v == [i \in DOMAIN steps |-> Picked(steps[i].blocks, fresh(i))]
<1>1. Updates(new, steps, "blocks", v)
  BY DEF Unambiguous, Updates
<1>2. ASSUME NEW i \in DOMAIN steps
      PROVE  IsSequence(v[i]) /\ ToSet(v[i]) = {steps[i].blocks[k] : k \in DOMAIN steps[i].blocks \cap fresh(i)}
  <2>1. IsSequence(steps[i].blocks) /\ v[i] = Picked(steps[i].blocks, fresh(i))
    BY DEF Placed, SaneSteps, Sane
  <2> HIDE DEF fresh, v
  <2> QED
    BY <2>1, PickedSequence
<1>3. ASSUME NEW i \in DOMAIN steps, NEW k \in fresh(i), NEW j \in 1 .. i - 1
      PROVE  Brings(steps, j, steps[i].blocks[k].ref) = {}
  BY <1>3
<1> HIDE DEF new, v, fresh
<1>4. "blocks" \in StepFields \ {"id", "deps"} /\ SaneSteps(steps)
  BY DEF StepFields, Placed
<1>5. Replaces(new, steps, "blocks") /\ \A i \in DOMAIN steps : new[i].blocks = v[i]
  <2>1. Replaces(new, steps, "blocks") /\ \A i \in DOMAIN steps : new[i]["blocks"] = v[i]
    BY <1>1, <1>4, ReplacedSteps
  <2> QED
    BY <2>1
<1>6. Placed(new)
  BY <1>2, <1>4, <1>5, PlacedStays
<1>7. ParamsMapped(new, mapping)
  BY <1>5 DEF ParamsMapped, Replaces, StepFields
<1>8. ASSUME NEW i \in DOMAIN steps, NEW ref, Brings(new, i, ref) # {}
      PROVE  /\ Brings(steps, i, ref) # {}
             /\ \A j \in 1 .. i - 1 : Brings(steps, j, ref) = {}
  <2>1. PICK k \in DOMAIN v[i] : v[i][k].ref = ref
    BY <1>5, <1>8 DEF Brings
  <2>2. v[i][k] \in ToSet(v[i])
    BY DEF ToSet
  <2>3. PICK m \in DOMAIN steps[i].blocks \cap fresh(i) : v[i][k] = steps[i].blocks[m]
    BY <1>2, <2>2
  <2> QED
    BY <1>3, <2>1, <2>3 DEF Brings
<1>9. OneBearer(new)
  <2>1. DOMAIN new = DOMAIN steps /\ DOMAIN steps = 1 .. Len(steps) /\ Len(steps) \in Nat
    BY <1>4, <1>5, SequenceDomain DEF Replaces, SaneSteps
  <2>2. ASSUME NEW i \in DOMAIN steps, NEW j \in DOMAIN steps, NEW ref, i < j,
               Brings(new, i, ref) # {}, Brings(new, j, ref) # {}
        PROVE  FALSE
    <3>1. i \in 1 .. j - 1
      BY <2>1, <2>2
    <3> QED
      BY <1>8, <2>2, <3>1
  <2>3. \A i, j \in DOMAIN steps : i < j \/ j < i \/ i = j
    BY <2>1
  <2> QED
    BY <2>1, <2>2, <2>3 DEF OneBearer
<1> QED
  BY <1>6, <1>7, <1>9 DEF new

----------------------------------------------------------------------------
(* Links.                                                                  *)

Below(steps, js) == {k \in DOMAIN steps : \E j \in js : Contains(steps[j].deps, steps[k].id)}

\* How the steps a step rests on are gathered, all of them before it.
Gathers(r, steps, i) ==
  /\ r[0] = Below(steps, {i}) /\ r[Len(steps)] = RestsOn(steps, i)
  /\ \A n \in 1 .. Len(steps) : r[n] = r[n - 1] \cup Below(steps, r[n - 1])
  /\ \A n \in 0 .. Len(steps) : r[n] \subseteq 1 .. i - 1

\* They can be gathered so.
LEMMA RestsGathered ==
  ASSUME NEW steps, Placed(steps), NEW i \in DOMAIN steps
  PROVE  \E r : Gathers(r, steps, i)
<1> DEFINE D == DOMAIN steps
           L == Len(steps)
           below(js) == {k \in D : \E j \in js : Contains(steps[j].deps, steps[k].id)}
           A == SUBSET D
           Solves(f) == f = [n \in 0 .. L |-> IF n = 0 THEN below({i}) ELSE f[n - 1] \cup below(f[n - 1])]
           rests == CHOOSE f : Solves(f)
           h == [n \in 1 .. L |-> [a \in A |-> a \cup below(a)]]
<1>1. D = 1 .. L /\ L \in Nat /\ i \in 1 .. L
  BY SequenceDomain DEF Placed, SaneSteps
<1>2. RestsOn(steps, i) = rests[L]
  BY DEF RestsOn
<1>3. ASSUME NEW j \in D, NEW k \in D, Contains(steps[j].deps, steps[k].id) PROVE k < j
  <2>1. steps[k].id \in ToSet(steps[j].deps)
    <3>1. DOMAIN steps[j].deps = 1 .. Len(steps[j].deps)
      BY SequenceDomain DEF Placed, SaneSteps, Sane
    <3> QED
      BY <1>3, <3>1 DEF Contains, ToSet
  <2>2. PICK m \in 1 .. j - 1 : steps[m].id = steps[k].id
    BY <2>1 DEF Placed, Rooted
  <2>3. m \in D /\ m < j
    BY <1>1
  <2> QED
    BY <2>2, <2>3 DEF Placed, DistinctIds
<1>4. \A js \in A : below(js) \in A /\ below({i}) \in A
  OBVIOUS
<1>5. below({i}) \subseteq 1 .. i - 1 /\ \A js \in A : js \subseteq 1 .. i - 1 => below(js) \subseteq 1 .. i - 1
  <2>1. ASSUME NEW js \in A, js \subseteq 1 .. i, NEW k \in below(js) PROVE k \in 1 .. i - 1
    <3>1. PICK j \in js : Contains(steps[j].deps, steps[k].id)
      OBVIOUS
    <3>2. j \in D /\ k \in D
      BY <2>1
    <3>3. k < j
      BY <1>3, <3>1, <3>2
    <3> QED
      BY <1>1, <2>1, <3>2, <3>3
  <2>2. {i} \in A /\ {i} \subseteq 1 .. i
    BY <1>1
  <2>3. \A js \in A : js \subseteq 1 .. i - 1 => js \subseteq 1 .. i
    BY <1>1
  <2> HIDE DEF below, A
  <2> QED
    BY <2>1, <2>2, <2>3
<1> HIDE DEF below
<1>6. StepsIn(h, L, A)
  BY <1>4 DEF StepsIn
<1>7. \A n \in 1 .. L : \A a \in A : h[n][a] = a \cup below(a)
  OBVIOUS
<1> HIDE DEF A, h
<1>8. \E f \in [0 .. L -> A] : Recurs(f, below({i}), h, L)
  <2>1. below({i}) \in A
    BY <1>4 DEF A
  <2> QED
    BY <1>1, <1>6, <2>1, UpToRecursion
<1>9. \E f : Solves(f)
  <2>1. PICK f \in [0 .. L -> A] : Recurs(f, below({i}), h, L)
    BY <1>8
  <2>2. ASSUME NEW n \in 0 .. L
        PROVE  f[n] = IF n = 0 THEN below({i}) ELSE f[n - 1] \cup below(f[n - 1])
    <3>1. CASE n = 0
      BY <2>1, <3>1 DEF Recurs
    <3>2. CASE n # 0
      <4>1. n \in 1 .. L /\ n - 1 \in 0 .. L
        BY <1>1, <3>2
      <4>2. f[n] = h[n][f[n - 1]] /\ f[n - 1] \in A
        BY <2>1, <4>1 DEF Recurs
      <4> QED
        BY <1>7, <3>2, <4>1, <4>2
    <3> QED
      BY <3>1, <3>2
  <2>3. f = [n \in 0 .. L |-> f[n]]
    BY <2>1
  <2>4. Solves(f)
    BY <2>2, <2>3
  <2> HIDE DEF Solves
  <2> QED
    BY <2>4
<1> HIDE DEF Solves
<1>10. Solves(rests)
  BY <1>9
<1> HIDE DEF rests
<1>11. rests[0] = below({i}) /\ \A n \in 1 .. L : rests[n] = rests[n - 1] \cup below(rests[n - 1])
  <2>1. PICK f : f = rests
    OBVIOUS
  <2>2. f = [n \in 0 .. L |-> IF n = 0 THEN below({i}) ELSE f[n - 1] \cup below(f[n - 1])]
    BY <1>10, <2>1 DEF Solves
  <2> HIDE DEF L
  <2> DEFINE next(g, n) == IF n = 0 THEN below({i}) ELSE g[n - 1] \cup below(g[n - 1])
  <2>a. f = [n \in 0 .. L |-> next(f, n)]
    BY <2>2
  <2>b. next(f, 0) = below({i}) /\ \A n \in 1 .. L : next(f, n) = f[n - 1] \cup below(f[n - 1])
    BY <1>1
  <2>c. L \in Nat
    BY <1>1
  <2> HIDE DEF next
  <2>d. \A n \in 0 .. L : f[n] = next(f, n)
    BY <2>a
  <2>3. f[0] = below({i}) /\ \A n \in 1 .. L : f[n] = f[n - 1] \cup below(f[n - 1])
    BY <2>b, <2>c, <2>d
  <2> QED
    BY <2>1, <2>3
<1> DEFINE S == {n \in 0 .. L : rests[n] \in A /\ rests[n] \subseteq 1 .. i - 1}
<1>12. 0 \in S
  <2>1. below({i}) \in A
    BY <1>4 DEF A
  <2> QED
    BY <1>1, <1>5, <1>11, <2>1
<1>13. ASSUME NEW n \in 1 .. L, n - 1 \in S PROVE n \in S
  <2>1. rests[n - 1] \in A /\ rests[n - 1] \subseteq 1 .. i - 1 /\ n \in 0 .. L
    BY <1>1, <1>13
  <2>2. below(rests[n - 1]) \in A /\ below(rests[n - 1]) \subseteq 1 .. i - 1
    BY <1>4, <1>5, <2>1
  <2> QED
    BY <1>11, <2>1, <2>2 DEF A
<1> HIDE DEF S
<1>14. 0 .. L \subseteq S
  BY <1>1, <1>12, <1>13, UpToInduction
<1>15. \A js : below(js) = Below(steps, js)
  BY DEF below, Below
<1>16. \A n \in 0 .. L : rests[n] \subseteq 1 .. i - 1
  BY <1>14 DEF S
<1>17. Gathers(rests, steps, i)
  BY <1>2, <1>11, <1>15, <1>16 DEF Gathers
<1> QED
  BY <1>17

\* What a step rests on comes before it.
LEMMA RestsOnEarlier ==
  ASSUME NEW steps, Placed(steps), NEW i \in DOMAIN steps
  PROVE  RestsOn(steps, i) \subseteq 1 .. i - 1
<1>1. PICK r : Gathers(r, steps, i)
  BY RestsGathered
<1>2. Len(steps) \in 0 .. Len(steps)
  BY SequenceDomain DEF Placed, SaneSteps
<1> QED
  BY <1>1, <1>2 DEF Gathers

\* Steps with the same ids and dependencies rest on the same steps.
LEMMA RestsSame ==
  ASSUME NEW steps, Placed(steps), NEW new, Placed(new), DOMAIN new = DOMAIN steps,
         \A k \in DOMAIN steps : new[k].id = steps[k].id /\ new[k].deps = steps[k].deps,
         NEW i \in DOMAIN steps
  PROVE  RestsOn(new, i) = RestsOn(steps, i)
<1>1. /\ Len(steps) \in Nat /\ DOMAIN steps = 1 .. Len(steps)
      /\ Len(new) \in Nat /\ DOMAIN new = 1 .. Len(new)
  BY SequenceDomain DEF Placed, SaneSteps
<1>2. Len(new) = Len(steps)
  BY <1>1
<1>3. \A js \in SUBSET DOMAIN steps : Below(new, js) = Below(steps, js)
  BY DEF Below
<1>4. PICK r : Gathers(r, steps, i)
  BY RestsGathered
<1>5. PICK q : Gathers(q, new, i)
  BY RestsGathered
<1> DEFINE L == Len(steps)
           S == {n \in 0 .. L : q[n] = r[n]}
<1>6. 0 \in S
  BY <1>1, <1>3, <1>4, <1>5 DEF Gathers
<1>7. ASSUME NEW n \in 1 .. L, n - 1 \in S PROVE n \in S
  <2>1. r[n - 1] \in SUBSET DOMAIN steps /\ q[n - 1] = r[n - 1] /\ n \in 0 .. L
    <3>1. n - 1 \in 0 .. L /\ n \in 0 .. L /\ i \in 1 .. L
      BY <1>1
    <3>2. r[n - 1] \subseteq 1 .. i - 1
      BY <1>4, <3>1 DEF Gathers
    <3> QED
      BY <1>1, <1>7, <3>1, <3>2
  <2>2. r[n] = r[n - 1] \cup Below(steps, r[n - 1]) /\ q[n] = q[n - 1] \cup Below(new, q[n - 1])
    BY <1>2, <1>4, <1>5 DEF Gathers
  <2> QED
    BY <1>3, <2>1, <2>2
<1> HIDE DEF S
<1>8. 0 .. L \subseteq S
  BY <1>1, <1>6, <1>7, UpToInduction
<1>9. q[L] = r[L]
  <2>1. L \in S
    BY <1>1, <1>8
  <2> QED
    BY <2>1 DEF S
<1> QED
  BY <1>2, <1>4, <1>5, <1>9 DEF Gathers

\* The ends of a link are named by steps up to its own.
LEMMA LinkedFacts ==
  ASSUME NEW steps, Placed(steps), NEW mapping, ParamsMapped(steps, mapping), OneBearer(steps)
  PROVE  /\ Placed(Linked(steps)) /\ ParamsMapped(Linked(steps), mapping)
         /\ OneBearer(Linked(steps)) /\ LinksInSight(Linked(steps))
<1> DEFINE new == Linked(steps)
           kept(i) == {k \in DOMAIN steps[i].links :
                         \A ref \in {steps[i].links[k].from, steps[i].links[k].to} : Visible(steps, i, ref)}
           v == [i \in DOMAIN steps |-> Picked(steps[i].links, kept(i))]
<1>1. Updates(new, steps, "links", v)
  BY DEF Linked, Updates
<1>2. ASSUME NEW i \in DOMAIN steps
      PROVE  IsSequence(v[i]) /\ ToSet(v[i]) = {steps[i].links[k] : k \in DOMAIN steps[i].links \cap kept(i)}
  <2>1. IsSequence(steps[i].links) /\ v[i] = Picked(steps[i].links, kept(i))
    BY DEF Placed, SaneSteps, Sane
  <2> HIDE DEF kept, v
  <2> QED
    BY <2>1, PickedSequence
<1>3. ASSUME NEW i \in DOMAIN steps, NEW l \in ToSet(v[i]), NEW ref \in {l.from, l.to}
      PROVE  Visible(steps, i, ref)
  <2>1. PICK k \in DOMAIN steps[i].links \cap kept(i) : l = steps[i].links[k]
    BY <1>2
  <2> QED
    BY <2>1
<1> HIDE DEF new, v, kept
<1>4. "links" \in StepFields \ {"id", "deps"} /\ SaneSteps(steps)
  BY DEF StepFields, Placed
<1>5. Replaces(new, steps, "links") /\ \A i \in DOMAIN steps : new[i].links = v[i]
  <2>1. Replaces(new, steps, "links") /\ \A i \in DOMAIN steps : new[i]["links"] = v[i]
    BY <1>1, <1>4, ReplacedSteps
  <2> QED
    BY <2>1
<1>6. Placed(new)
  BY <1>2, <1>4, <1>5, PlacedStays
<1>7. /\ DOMAIN new = DOMAIN steps
      /\ \A i \in DOMAIN steps : new[i].blocks = steps[i].blocks /\ new[i].params = steps[i].params
  BY <1>5 DEF Replaces, StepFields
<1>8. ParamsMapped(new, mapping) /\ OneBearer(new)
  <2>1. ParamsMapped(new, mapping)
    BY <1>7 DEF ParamsMapped
  <2>2. OneBearer(new)
    BY <1>7 DEF OneBearer, Brings
  <2> QED
    BY <2>1, <2>2
<1>9. ASSUME NEW i \in DOMAIN steps, NEW ref, Visible(steps, i, ref)
      PROVE  \E j \in 1 .. i : j \in DOMAIN steps /\ Brings(steps, j, ref) # {}
  <2> DEFINE near == {i} \cup RestsOn(steps, i)
             seen == UNION {{j} \X Brings(steps, j, ref) : j \in near}
  <2>1. seen # {}
    <3>1. Cardinality(seen) = 1
      BY <1>9 DEF Visible
    <3> HIDE DEF seen
    <3> QED
      BY <3>1, SomeWhereOne
  <2>2. PICK j \in near : Brings(steps, j, ref) # {}
    BY <2>1
  <2>3. DOMAIN steps = 1 .. Len(steps) /\ Len(steps) \in Nat
    BY <1>4, SequenceDomain DEF SaneSteps
  <2>4. j \in 1 .. i /\ j \in DOMAIN steps
    BY <2>3, RestsOnEarlier
  <2> QED
    BY <2>2, <2>4
<1>10. LinksInSight(new)
  <2> SUFFICES ASSUME NEW i \in DOMAIN steps, NEW l \in ToSet(v[i]), NEW ref \in {l.from, l.to}
               PROVE  \E j \in 1 .. i : Brings(new, j, ref) # {}
    BY <1>5, <1>7 DEF LinksInSight
  <2>1. PICK j \in 1 .. i : j \in DOMAIN steps /\ Brings(steps, j, ref) # {}
    BY <1>3, <1>9
  <2> QED
    BY <1>7, <2>1 DEF Brings
<1> QED
  BY <1>6, <1>8, <1>10 DEF new

\* All of it holds of what passes the gate.
LEMMA GatedFacts ==
  ASSUME NEW drafts, SaneSteps(drafts), NEW mapping, NEW recs
  PROVE  LET steps == Gated(drafts, mapping, recs)
         IN Placed(steps) /\ ParamsMapped(steps, mapping) /\ OneBearer(steps) /\ LinksInSight(steps)
<1> DEFINE s1 == Named(drafts)
           s2 == Untangled(s1)
           s3 == Mapped(s2, mapping)
           s4 == Recommended(s3, recs)
           s5 == Unambiguous(s4)
<1>1. SaneSteps(s1) /\ DistinctIds(s1)
  BY NamedFacts
<1>2. Placed(s2)
  BY <1>1, UntangledFacts DEF Placed
<1>3. Placed(s3) /\ ParamsMapped(s3, mapping)
  BY <1>2, MappedFacts
<1>4. Placed(s4) /\ ParamsMapped(s4, mapping)
  BY <1>3, RecommendedFacts
<1>5. Placed(s5) /\ ParamsMapped(s5, mapping) /\ OneBearer(s5)
  BY <1>4, UnambiguousFacts
<1>6. Gated(drafts, mapping, recs) = Linked(s5)
  BY DEF Gated
<1> QED
  BY <1>5, <1>6, LinkedFacts

----------------------------------------------------------------------------
(***************************************************************************)
(* What the gate lets through it would leave as it is: each of its rules   *)
(* still holds after all the others have dropped their parts.              *)
(***************************************************************************)
NamesFit(steps) == \A i \in DOMAIN steps : steps[i].id \in StepIds

ParamsFit(steps, mapping) ==
  \A i \in DOMAIN steps : \A p \in steps[i].params :
    Cardinality({k \in DOMAIN mapping : mapping[k].param = p}) = 1

BlocksFit(steps, recs) ==
  \A i \in DOMAIN steps : \A k \in DOMAIN steps[i].blocks : steps[i].blocks[k].rec \in recs

Borne(steps, i, k) ==
  \/ \E j \in 1 .. i - 1 : Brings(steps, j, steps[i].blocks[k].ref) # {}
  \/ \E m \in 1 .. k - 1 : steps[i].blocks[m].ref = steps[i].blocks[k].ref

NamesFresh(steps) ==
  \A i \in DOMAIN steps : \A k \in DOMAIN steps[i].blocks : ~Borne(steps, i, k)

EndsInSight(steps) ==
  \A i \in DOMAIN steps : \A k \in DOMAIN steps[i].links :
    \A ref \in {steps[i].links[k].from, steps[i].links[k].to} : Visible(steps, i, ref)

Records(steps) == \A i \in DOMAIN steps : steps[i] = [g \in DOMAIN steps[i] |-> steps[i][g]]

\* A part replaced by itself.
LEMMA SameSteps ==
  ASSUME NEW steps, SaneSteps(steps), Records(steps), NEW f \in StepFields, NEW v, NEW new,
         Updates(new, steps, f, v), \A i \in DOMAIN steps : v[i] = steps[i][f]
  PROVE  new = steps
<1>1. steps = [i \in DOMAIN steps |-> steps[i]]
  BY SequenceDomain DEF SaneSteps
<1>2. ASSUME NEW i \in DOMAIN steps PROVE new[i] = steps[i]
  <2>1. new[i] = [steps[i] EXCEPT ![f] = steps[i][f]] /\ f \in DOMAIN steps[i]
    BY DEF Updates, SaneSteps, Sane
  <2>2. steps[i] = [g \in DOMAIN steps[i] |-> steps[i][g]]
    BY DEF Records
  <2> QED
    BY <2>1, <2>2
<1>3. new = [i \in DOMAIN steps |-> new[i]]
  BY DEF Updates
<1> QED
  BY <1>1, <1>2, <1>3

\* No id is another's, so all steps are named.
LEMMA NamedAgain ==
  ASSUME NEW steps, Placed(steps), NamesFit(steps)
  PROVE  Named(steps) = steps
<1> DEFINE places == {i \in DOMAIN steps : /\ steps[i].id \in StepIds
                                          /\ \A j \in 1 .. i - 1 : steps[j].id # steps[i].id}
<1>1. IsSequence(steps) /\ DOMAIN steps = 1 .. Len(steps) /\ Len(steps) \in Nat
  BY SequenceDomain DEF Placed, SaneSteps
<1>2. ASSUME NEW i \in DOMAIN steps, NEW j \in 1 .. i - 1 PROVE steps[j].id # steps[i].id
  <2>1. j \in DOMAIN steps /\ j # i
    BY <1>1
  <2> QED
    BY <2>1 DEF Placed, DistinctIds
<1>3. DOMAIN steps \subseteq places
  BY <1>2 DEF NamesFit
<1>4. Named(steps) = Picked(steps, places)
  BY DEF Named
<1> HIDE DEF places
<1> QED
  BY <1>1, <1>3, <1>4, PickedAll

\* What a step depends on is another step.
LEMMA KnownAgain ==
  ASSUME NEW steps, Placed(steps), Records(steps)
  PROVE  Known(steps) = steps
<1> DEFINE kept(s) == {k \in DOMAIN s.deps : s.deps[k] \in Ids(steps) \ {s.id}}
           v == [i \in DOMAIN steps |-> Picked(steps[i].deps, kept(steps[i]))]
           new == Known(steps)
<1>1. Updates(new, steps, "deps", v)
  BY DEF Known, Updates
<1>2. DOMAIN steps = 1 .. Len(steps) /\ Len(steps) \in Nat /\ SaneSteps(steps)
  BY SequenceDomain DEF Placed, SaneSteps
<1>3. ASSUME NEW i \in DOMAIN steps PROVE v[i] = steps[i].deps
  <2> DEFINE places == kept(steps[i])
  <2>1. ASSUME NEW k \in DOMAIN steps[i].deps PROVE steps[i].deps[k] \in Ids(steps) \ {steps[i].id}
    <3>1. steps[i].deps[k] \in ToSet(steps[i].deps)
      BY DEF ToSet
    <3>2. PICK j \in 1 .. i - 1 : steps[j].id = steps[i].deps[k]
      BY <3>1 DEF Placed, Rooted
    <3>3. j \in DOMAIN steps /\ j # i
      BY <1>2
    <3>4. steps[j].id \in Ids(steps)
      BY <3>3 DEF Ids, ToSet
    <3> QED
      BY <3>2, <3>3, <3>4 DEF Placed, DistinctIds
  <2>2. DOMAIN steps[i].deps \subseteq places
    BY <2>1
  <2>3. v[i] = Picked(steps[i].deps, places) /\ IsSequence(steps[i].deps)
    BY <1>2 DEF SaneSteps, Sane
  <2> HIDE DEF places, v
  <2> QED
    BY <2>2, <2>3, PickedAll
<1> HIDE DEF v, new
<1>4. "deps" \in StepFields /\ \A i \in DOMAIN steps : v[i] = steps[i]["deps"]
  BY <1>3 DEF StepFields
<1>5. new = steps
  BY <1>1, <1>2, <1>4, SameSteps
<1> QED
  BY <1>5 DEF new

(* Steps in an order keep it: of the last ones, the first waits for none   *)
(* of them.                                                                *)
LEMMA OrderedAgain ==
  ASSUME NEW steps, Placed(steps)
  PROVE  Ordered(steps) = steps
<1> DEFINE D == DOMAIN steps
           L == Len(steps)
           order == CHOOSE f : IsOrder(f, steps)
           S == {n \in 0 .. L : order[L - n + 1 .. L] = [k \in 1 .. n |-> steps[L - n + k]]}
<1>1. /\ IsSequence(steps) /\ D = 1 .. L /\ L \in Nat
      /\ steps = [k \in 1 .. L |-> steps[k]] /\ steps \in Seq(ToSet(steps))
  BY SequenceDomain DEF Placed, SaneSteps, IsSequence
<1>2. Ordered(steps) = order[D]
  BY DEF Ordered, IsOrder, Ready, First
<1>3. IsOrder(order, steps)
  BY <1>1, OrderExists
<1> HIDE DEF order, L
<1>4. 0 \in S
  <2>1. L - 0 + 1 .. L = {} /\ {} \in SUBSET D /\ Ready(steps, {}) = {}
    BY <1>1 DEF Ready
  <2>2. order[{}] = <<>>
    BY <1>3, <2>1 DEF IsOrder
  <2> QED
    BY <1>1, <2>1, <2>2
<1>5. ASSUME NEW n \in 1 .. L, n - 1 \in S PROVE n \in S
  <2> DEFINE m == L - n + 1
             rest == m .. L
             tail == [k \in 1 .. n - 1 |-> steps[m + k]]
  <2>1. /\ n \in Nat /\ n \in 0 .. L /\ m \in D /\ m \in rest /\ rest \in SUBSET D
        /\ rest \ {m} = L - (n - 1) + 1 .. L /\ \A j \in rest : m <= j
    BY <1>1
  <2>2. order[rest \ {m}] = tail
    <3>1. \A k \in 1 .. n - 1 : L - (n - 1) + k = m + k
      BY <1>1, <2>1
    <3> QED
      BY <1>5, <2>1, <3>1
  <2>3. m \in Ready(steps, rest)
    <3>1. ASSUME NEW j \in rest, Contains(steps[m].deps, steps[j].id) PROVE FALSE
      <4>1. IsSequence(steps[m].deps)
        BY <2>1 DEF Placed, SaneSteps, Sane
      <4>2. steps[j].id \in ToSet(steps[m].deps)
        <5>1. DOMAIN steps[m].deps = 1 .. Len(steps[m].deps)
          BY <4>1, SequenceDomain
        <5> QED
          BY <3>1, <5>1 DEF Contains, ToSet
      <4>3. PICK i \in 1 .. m - 1 : steps[i].id = steps[j].id
        BY <2>1, <4>2 DEF Placed, Rooted
      <4>4. i \in D /\ j \in D /\ i # j
        BY <1>1, <2>1
      <4> QED
        BY <4>3, <4>4 DEF Placed, DistinctIds
    <3> QED
      BY <2>1, <3>1 DEF Ready
  <2>4. First(steps, rest) = m
    <3>1. \A i \in Ready(steps, rest) : m <= i /\ i \in Nat
      BY <1>1, <2>1 DEF Ready
    <3>2. First(steps, rest) \in Ready(steps, rest) /\ First(steps, rest) <= m
      <4>1. \E i \in Ready(steps, rest) : \A j \in Ready(steps, rest) : i <= j
        BY <2>3, <3>1
      <4> HIDE DEF rest, m
      <4> QED
        BY <2>3, <4>1 DEF First
    <3>3. PICK i : i = First(steps, rest)
      OBVIOUS
    <3>4. m <= i /\ i \in Nat /\ i <= m
      BY <3>1, <3>2, <3>3
    <3> QED
      BY <1>1, <2>1, <3>3, <3>4
  <2>5. order[rest] = <<steps[m]>> \o tail
    <3> HIDE DEF rest, m, tail
    <3>1. order[rest] = IF Ready(steps, rest) = {} THEN <<>>
                        ELSE <<steps[First(steps, rest)]>> \o order[rest \ {First(steps, rest)}]
      BY <1>3, <2>1 DEF IsOrder
    <3> QED
      BY <2>2, <2>3, <2>4, <3>1
  <2>6. <<steps[m]>> \o tail = [k \in 1 .. n |-> steps[L - n + k]]
    <3> DEFINE whole == <<steps[m]>> \o tail
               E == ToSet(steps)
    <3>1. tail \in Seq(E) /\ <<steps[m]>> \in Seq(E) /\ Len(tail) = n - 1
      <4>1. \A k \in 1 .. n - 1 : m + k \in D
        BY <1>1, <2>1
      <4>2. \A k \in D : steps[k] \in E
        BY DEF ToSet
      <4> HIDE DEF E, m
      <4>3. tail \in [1 .. n - 1 -> E] /\ steps[m] \in E /\ n - 1 \in Nat
        BY <2>1, <4>1, <4>2
      <4> QED
        BY <4>3
    <3> HIDE DEF E
    <3>2. /\ whole \in Seq(E) /\ DOMAIN whole = 1 .. n /\ whole[1] = steps[m]
          /\ \A k \in 2 .. n : whole[k] = tail[k - 1]
      BY <2>1, <3>1
    <3>3. \A k \in 2 .. n : tail[k - 1] = steps[L - n + k]
      <4>1. ASSUME NEW k \in 2 .. n PROVE k - 1 \in 1 .. n - 1 /\ m + (k - 1) = L - n + k
        <5>1. n \in Nat /\ k \in Int /\ 2 <= k /\ k <= n /\ L \in Nat
          BY <1>1, <2>1
        <5> QED
          BY <5>1
      <4> QED
        BY <4>1
    <3> HIDE DEF whole, tail
    <3>4. \A k \in 1 .. n : whole[k] = steps[L - n + k]
      <4>1. \A k \in 1 .. n : k = 1 \/ k \in 2 .. n
        BY <2>1
      <4> QED
        BY <3>2, <3>3, <4>1
    <3>5. whole = [k \in 1 .. n |-> whole[k]]
      BY <2>1, <3>2
    <3>6. whole = [k \in 1 .. n |-> steps[L - n + k]]
      BY <3>4, <3>5
    <3> QED
      BY <3>6 DEF whole
  <2> QED
    BY <2>1, <2>5, <2>6
<1>6. order[1 .. L] = [k \in 1 .. L |-> steps[k]]
  <2> HIDE DEF S
  <2>1. 0 .. L \subseteq S
    BY <1>1, <1>4, <1>5, UpToInduction
  <2>2. L \in S
    BY <1>1, <2>1
  <2>3. order[L - L + 1 .. L] = [k \in 1 .. L |-> steps[L - L + k]]
    BY <2>2 DEF S
  <2>4. L - L + 1 = 1 /\ \A k \in 1 .. L : L - L + k = k
    BY <1>1
  <2> QED
    BY <2>3, <2>4
<1> QED
  BY <1>1, <1>2, <1>6

LEMMA UntangledAgain ==
  ASSUME NEW steps, Placed(steps), Records(steps)
  PROVE  Untangled(steps) = steps
<1>1. Known(steps) = steps /\ Ordered(steps) = steps
  BY KnownAgain, OrderedAgain
<1> QED
  BY <1>1 DEF Untangled

LEMMA MappedAgain ==
  ASSUME NEW steps, Placed(steps), Records(steps), NEW mapping, ParamsFit(steps, mapping)
  PROVE  Mapped(steps, mapping) = steps
<1> DEFINE new == Mapped(steps, mapping)
           v == [i \in DOMAIN steps |->
                   {p \in steps[i].params : Cardinality({k \in DOMAIN mapping : mapping[k].param = p}) = 1}]
<1>1. Updates(new, steps, "params", v)
  BY DEF Mapped, Updates
<1>2. \A i \in DOMAIN steps : v[i] = steps[i].params
  BY DEF ParamsFit
<1> HIDE DEF new, v
<1>3. SaneSteps(steps) /\ "params" \in StepFields /\ \A i \in DOMAIN steps : v[i] = steps[i]["params"]
  BY <1>2 DEF StepFields, Placed
<1>4. new = steps
  BY <1>1, <1>3, SameSteps
<1> QED
  BY <1>4 DEF new

LEMMA RecommendedAgain ==
  ASSUME NEW steps, Placed(steps), Records(steps), NEW recs, BlocksFit(steps, recs)
  PROVE  Recommended(steps, recs) = steps
<1> DEFINE new == Recommended(steps, recs)
           kept(s) == {k \in DOMAIN s.blocks : s.blocks[k].rec \in recs}
           v == [i \in DOMAIN steps |-> Picked(steps[i].blocks, kept(steps[i]))]
<1>1. Updates(new, steps, "blocks", v)
  BY DEF Recommended, Updates
<1>2. ASSUME NEW i \in DOMAIN steps PROVE v[i] = steps[i].blocks
  <2> DEFINE places == kept(steps[i])
  <2>1. /\ DOMAIN steps[i].blocks \subseteq places /\ v[i] = Picked(steps[i].blocks, places)
        /\ IsSequence(steps[i].blocks)
    BY DEF BlocksFit, Placed, SaneSteps, Sane
  <2> HIDE DEF places, v
  <2> QED
    BY <2>1, PickedAll
<1> HIDE DEF new, v
<1>3. SaneSteps(steps) /\ "blocks" \in StepFields /\ \A i \in DOMAIN steps : v[i] = steps[i]["blocks"]
  BY <1>2 DEF StepFields, Placed
<1>4. new = steps
  BY <1>1, <1>3, SameSteps
<1> QED
  BY <1>4 DEF new

LEMMA UnambiguousAgain ==
  ASSUME NEW steps, Placed(steps), Records(steps), NamesFresh(steps)
  PROVE  Unambiguous(steps) = steps
<1> DEFINE new == Unambiguous(steps)
           fresh(i) == {k \in DOMAIN steps[i].blocks : ~Borne(steps, i, k)}
           v == [i \in DOMAIN steps |-> Picked(steps[i].blocks, fresh(i))]
<1>1. Updates(new, steps, "blocks", v)
  BY DEF Unambiguous, Updates, Borne
<1>2. ASSUME NEW i \in DOMAIN steps PROVE v[i] = steps[i].blocks
  <2> DEFINE places == fresh(i)
  <2>1. /\ DOMAIN steps[i].blocks \subseteq places /\ v[i] = Picked(steps[i].blocks, places)
        /\ IsSequence(steps[i].blocks)
    BY DEF NamesFresh, Placed, SaneSteps, Sane
  <2> HIDE DEF places, v
  <2> QED
    BY <2>1, PickedAll
<1> HIDE DEF new, v
<1>3. SaneSteps(steps) /\ "blocks" \in StepFields /\ \A i \in DOMAIN steps : v[i] = steps[i]["blocks"]
  BY <1>2 DEF StepFields, Placed
<1>4. new = steps
  BY <1>1, <1>3, SameSteps
<1> QED
  BY <1>4 DEF new

LEMMA LinkedAgain ==
  ASSUME NEW steps, Placed(steps), Records(steps), EndsInSight(steps)
  PROVE  Linked(steps) = steps
<1> DEFINE new == Linked(steps)
           kept(i) == {k \in DOMAIN steps[i].links :
                         \A ref \in {steps[i].links[k].from, steps[i].links[k].to} : Visible(steps, i, ref)}
           v == [i \in DOMAIN steps |-> Picked(steps[i].links, kept(i))]
<1>1. Updates(new, steps, "links", v)
  BY DEF Linked, Updates
<1>2. ASSUME NEW i \in DOMAIN steps PROVE v[i] = steps[i].links
  <2> DEFINE places == kept(i)
  <2>1. /\ DOMAIN steps[i].links \subseteq places /\ v[i] = Picked(steps[i].links, places)
        /\ IsSequence(steps[i].links)
    BY DEF EndsInSight, Placed, SaneSteps, Sane
  <2> HIDE DEF places, v
  <2> QED
    BY <2>1, PickedAll
<1> HIDE DEF new, v
<1>3. SaneSteps(steps) /\ "links" \in StepFields /\ \A i \in DOMAIN steps : v[i] = steps[i]["links"]
  BY <1>2 DEF StepFields, Placed
<1>4. new = steps
  BY <1>1, <1>3, SameSteps
<1> QED
  BY <1>4 DEF new

\* The named steps have ids of the form asked for, and keep them in order.
LEMMA NamedFit ==
  ASSUME NEW drafts, SaneSteps(drafts)
  PROVE  NamesFit(Named(drafts))
<1> DEFINE places == {i \in DOMAIN drafts : /\ drafts[i].id \in StepIds
                                           /\ \A j \in 1 .. i - 1 : drafts[j].id # drafts[i].id}
           steps == Picked(drafts, places)
<1>1. Named(drafts) = steps
  BY DEF Named
<1>2. \A i \in places : drafts[i].id \in StepIds
  OBVIOUS
<1> HIDE DEF places
<1>3. ToSet(steps) = {drafts[i] : i \in DOMAIN drafts \cap places}
  BY PickedSequence DEF SaneSteps
<1> HIDE DEF steps
<1>4. \A k \in DOMAIN steps : steps[k] \in ToSet(steps)
  BY DEF ToSet
<1> QED
  BY <1>1, <1>2, <1>3, <1>4 DEF NamesFit

LEMMA UntangledFit ==
  ASSUME NEW steps, SaneSteps(steps), DistinctIds(steps), NamesFit(steps)
  PROVE  NamesFit(Untangled(steps))
<1> DEFINE known == Known(steps)
           kept(s) == {k \in DOMAIN s.deps : s.deps[k] \in Ids(steps) \ {s.id}}
           v == [i \in DOMAIN steps |-> Picked(steps[i].deps, kept(steps[i]))]
           w == [i \in DOMAIN known |-> <<>>]
           bare == [i \in DOMAIN known |-> [known[i] EXCEPT !.deps = <<>>]]
<1>1. SaneSteps(known) /\ DistinctIds(known)
  BY KnownFacts
<1>2. Updates(known, steps, "deps", v) /\ Updates(bare, known, "deps", w) /\ "deps" \in StepFields
  BY DEF Known, Updates, StepFields
<1>3. Untangled(steps) = Ordered(known) \/ Untangled(steps) = bare
  BY DEF Untangled
<1> HIDE DEF known, bare, v, w
<1>4. Replaces(known, steps, "deps") /\ Replaces(bare, known, "deps")
  BY <1>1, <1>2, ReplacedSteps
<1>5. NamesFit(known)
  BY <1>4 DEF NamesFit, Replaces, StepFields
<1>6. NamesFit(bare)
  BY <1>4, <1>5 DEF NamesFit, Replaces, StepFields
<1>7. NamesFit(Ordered(known))
  <2>1. Arranged(Ordered(known), known, DOMAIN known)
    BY <1>1, OrderedFacts
  <2> QED
    BY <1>5, <2>1 DEF NamesFit, Arranged
<1> QED
  BY <1>3, <1>6, <1>7

\* A parameter that is left is of one mapping.
LEMMA MappedFit ==
  ASSUME NEW steps, SaneSteps(steps), NEW mapping
  PROVE  /\ Replaces(Mapped(steps, mapping), steps, "params")
         /\ ParamsFit(Mapped(steps, mapping), mapping)
<1> DEFINE new == Mapped(steps, mapping)
           one(p) == Cardinality({k \in DOMAIN mapping : mapping[k].param = p}) = 1
           v == [i \in DOMAIN steps |-> {p \in steps[i].params : one(p)}]
<1>1. Updates(new, steps, "params", v) /\ "params" \in StepFields
  BY DEF Mapped, Updates, StepFields
<1>2. \A i \in DOMAIN steps : \A p \in v[i] : one(p)
  OBVIOUS
<1> HIDE DEF new, v
<1>3. Replaces(new, steps, "params") /\ \A i \in DOMAIN steps : new[i]["params"] = v[i]
  BY <1>1, ReplacedSteps
<1>4. ParamsFit(new, mapping)
  BY <1>2, <1>3 DEF ParamsFit, Replaces
<1> QED
  BY <1>3, <1>4 DEF new

\* A block that is left is of a recommendation.
LEMMA RecommendedFit ==
  ASSUME NEW steps, SaneSteps(steps), NEW recs
  PROVE  /\ Replaces(Recommended(steps, recs), steps, "blocks")
         /\ BlocksFit(Recommended(steps, recs), recs)
<1> DEFINE new == Recommended(steps, recs)
           kept(s) == {k \in DOMAIN s.blocks : s.blocks[k].rec \in recs}
           v == [i \in DOMAIN steps |-> Picked(steps[i].blocks, kept(steps[i]))]
<1>1. Updates(new, steps, "blocks", v) /\ "blocks" \in StepFields
  BY DEF Recommended, Updates, StepFields
<1>2. ASSUME NEW i \in DOMAIN steps, NEW k \in DOMAIN v[i] PROVE v[i][k].rec \in recs
  <2> DEFINE places == kept(steps[i])
  <2>1. /\ IsSequence(steps[i].blocks) /\ v[i] = Picked(steps[i].blocks, places)
        /\ \A m \in places : steps[i].blocks[m].rec \in recs
    BY DEF SaneSteps, Sane
  <2> HIDE DEF places, v
  <2>2. ToSet(v[i]) = {steps[i].blocks[m] : m \in DOMAIN steps[i].blocks \cap places}
    BY <2>1, PickedSequence
  <2>3. v[i][k] \in ToSet(v[i])
    BY DEF ToSet
  <2> QED
    BY <2>1, <2>2, <2>3
<1> HIDE DEF new, v
<1>3. Replaces(new, steps, "blocks") /\ \A i \in DOMAIN steps : new[i]["blocks"] = v[i]
  BY <1>1, ReplacedSteps
<1>4. BlocksFit(new, recs)
  BY <1>2, <1>3 DEF BlocksFit, Replaces
<1> QED
  BY <1>3, <1>4 DEF new

(* A block keeps its name where none before it bore it; those that are     *)
(* dropped bear it no more.                                                *)
LEMMA UnambiguousFit ==
  ASSUME NEW steps, SaneSteps(steps), NEW recs, BlocksFit(steps, recs)
  PROVE  /\ Replaces(Unambiguous(steps), steps, "blocks")
         /\ BlocksFit(Unambiguous(steps), recs) /\ NamesFresh(Unambiguous(steps))
<1> DEFINE new == Unambiguous(steps)
           fresh(i) == {k \in DOMAIN steps[i].blocks : ~Borne(steps, i, k)}
           v == [i \in DOMAIN steps |-> Picked(steps[i].blocks, fresh(i))]
<1>1. Updates(new, steps, "blocks", v) /\ "blocks" \in StepFields
  BY DEF Unambiguous, Updates, Borne, StepFields
<1>2. ASSUME NEW i \in DOMAIN steps
      PROVE  IsSequence(v[i]) /\ \E at : Embeds(at, v[i], steps[i].blocks, fresh(i))
  <2>1. IsSequence(steps[i].blocks) /\ v[i] = Picked(steps[i].blocks, fresh(i))
    BY DEF SaneSteps, Sane
  <2> HIDE DEF fresh, v
  <2> QED
    BY <2>1, PickedSequence, PickedEmbeds DEF IsSequence
<1>3. \A i \in DOMAIN steps : \A k \in fresh(i) : ~Borne(steps, i, k)
  OBVIOUS
<1> HIDE DEF new, v, fresh
<1>4. DOMAIN new = DOMAIN steps /\ Replaces(new, steps, "blocks") /\ \A i \in DOMAIN steps : new[i].blocks = v[i]
  <2>1. Replaces(new, steps, "blocks") /\ \A i \in DOMAIN steps : new[i]["blocks"] = v[i]
    BY <1>1, ReplacedSteps
  <2> QED
    BY <2>1 DEF Replaces
<1>5. ASSUME NEW i \in DOMAIN steps, NEW k \in DOMAIN v[i]
      PROVE  \E m \in DOMAIN steps[i].blocks : v[i][k] = steps[i].blocks[m]
  BY <1>2 DEF Embeds
<1>6. BlocksFit(new, recs)
  BY <1>4, <1>5 DEF BlocksFit
<1>7. \A j \in DOMAIN steps : \A ref : Brings(new, j, ref) # {} => Brings(steps, j, ref) # {}
  <2> SUFFICES ASSUME NEW j \in DOMAIN steps, NEW ref, Brings(new, j, ref) # {}
               PROVE  Brings(steps, j, ref) # {}
    OBVIOUS
  <2>1. PICK k \in DOMAIN v[j] : v[j][k].ref = ref
    BY <1>4 DEF Brings
  <2>2. PICK m \in DOMAIN steps[j].blocks : v[j][k] = steps[j].blocks[m]
    BY <1>5
  <2> QED
    BY <2>1, <2>2 DEF Brings
<1>8. DOMAIN steps = 1 .. Len(steps) /\ Len(steps) \in Nat
  BY SequenceDomain DEF SaneSteps
<1>9. ASSUME NEW i \in DOMAIN steps, NEW k \in DOMAIN v[i], Borne(new, i, k) PROVE FALSE
  <2>1. PICK at : Embeds(at, v[i], steps[i].blocks, fresh(i))
    BY <1>2
  <2>2. /\ at[k] \in DOMAIN steps[i].blocks /\ ~Borne(steps, i, at[k])
        /\ v[i][k] = steps[i].blocks[at[k]]
    BY <1>3, <2>1 DEF Embeds
  <2>3. /\ DOMAIN v[i] = 1 .. Len(v[i]) /\ Len(v[i]) \in Nat
        /\ DOMAIN steps[i].blocks = 1 .. Len(steps[i].blocks) /\ Len(steps[i].blocks) \in Nat
    BY <1>2, SequenceDomain DEF SaneSteps, Sane
  <2>4. CASE \E j \in 1 .. i - 1 : Brings(new, j, v[i][k].ref) # {}
    <3>1. PICK j \in 1 .. i - 1 : Brings(new, j, v[i][k].ref) # {}
      BY <2>4
    <3>2. j \in DOMAIN steps
      BY <1>8
    <3>3. Brings(steps, j, steps[i].blocks[at[k]].ref) # {}
      BY <1>7, <2>2, <3>1, <3>2
    <3> QED
      BY <2>2, <3>3 DEF Borne
  <2>5. CASE \E m \in 1 .. k - 1 : v[i][m].ref = v[i][k].ref
    <3>1. PICK m \in 1 .. k - 1 : v[i][m].ref = v[i][k].ref
      BY <2>5
    <3>2. m \in DOMAIN v[i] /\ m < k
      BY <2>3
    <3>3. at[m] \in DOMAIN steps[i].blocks /\ v[i][m] = steps[i].blocks[at[m]] /\ at[m] < at[k]
      BY <2>1, <3>2 DEF Embeds
    <3>4. at[m] \in 1 .. at[k] - 1
      BY <2>2, <2>3, <3>3
    <3>5. steps[i].blocks[at[m]].ref = steps[i].blocks[at[k]].ref
      BY <2>2, <3>1, <3>3
    <3> QED
      BY <2>2, <3>4, <3>5 DEF Borne
  <2> QED
    BY <1>4, <1>9, <2>4, <2>5 DEF Borne
<1>10. NamesFresh(new)
  BY <1>4, <1>9 DEF NamesFresh
<1> QED
  BY <1>4, <1>6, <1>10 DEF new

\* What is in sight of a step is a matter of ids, dependencies and blocks.
LEMMA LinkedFit ==
  ASSUME NEW steps, Placed(steps), Placed(Linked(steps))
  PROVE  /\ Replaces(Linked(steps), steps, "links")
         /\ EndsInSight(Linked(steps)) /\ Records(Linked(steps))
<1> DEFINE new == Linked(steps)
           kept(i) == {k \in DOMAIN steps[i].links :
                         \A ref \in {steps[i].links[k].from, steps[i].links[k].to} : Visible(steps, i, ref)}
           v == [i \in DOMAIN steps |-> Picked(steps[i].links, kept(i))]
<1>1. Updates(new, steps, "links", v) /\ "links" \in StepFields /\ SaneSteps(steps)
  BY DEF Linked, Updates, StepFields, Placed
<1>2. ASSUME NEW i \in DOMAIN steps, NEW k \in DOMAIN v[i], NEW ref \in {v[i][k].from, v[i][k].to}
      PROVE  Visible(steps, i, ref)
  <2>1. IsSequence(steps[i].links) /\ v[i] = Picked(steps[i].links, kept(i))
    BY <1>1 DEF SaneSteps, Sane
  <2>2. \A m \in kept(i) : \A end \in {steps[i].links[m].from, steps[i].links[m].to} : Visible(steps, i, end)
    OBVIOUS
  <2> HIDE DEF kept, v
  <2>3. ToSet(v[i]) = {steps[i].links[m] : m \in DOMAIN steps[i].links \cap kept(i)}
    BY <2>1, PickedSequence
  <2>4. v[i][k] \in ToSet(v[i])
    BY DEF ToSet
  <2> QED
    BY <1>2, <2>2, <2>3, <2>4
<1> HIDE DEF v, kept
<1>3. Replaces(new, steps, "links") /\ \A i \in DOMAIN steps : new[i]["links"] = v[i]
  <2> HIDE DEF new
  <2> QED
    BY <1>1, ReplacedSteps
<1>4. Records(new)
  <2>1. DOMAIN new = DOMAIN steps /\ \A i \in DOMAIN steps : new[i] = [steps[i] EXCEPT !["links"] = v[i]]
    BY <1>1 DEF Updates
  <2>2. \A s, x : [s EXCEPT !["links"] = x] = [g \in DOMAIN s |-> [s EXCEPT !["links"] = x][g]]
    OBVIOUS
  <2>3. \A s, x : DOMAIN [s EXCEPT !["links"] = x] = DOMAIN s
    OBVIOUS
  <2> HIDE DEF new
  <2>4. \A i \in DOMAIN steps : new[i] = [g \in DOMAIN new[i] |-> new[i][g]]
    BY <2>1, <2>2, <2>3
  <2> QED
    BY <2>1, <2>4 DEF Records
<1>5. /\ DOMAIN new = DOMAIN steps
      /\ \A i \in DOMAIN steps : /\ new[i].id = steps[i].id /\ new[i].deps = steps[i].deps
                                 /\ new[i].blocks = steps[i].blocks
  <2> HIDE DEF new
  <2> QED
    BY <1>3 DEF Replaces, StepFields
<1>6. ASSUME NEW i \in DOMAIN steps, NEW ref, Visible(steps, i, ref) PROVE Visible(new, i, ref)
  <2> HIDE DEF new
  <2>1. RestsOn(new, i) = RestsOn(steps, i)
    BY <1>5, RestsSame DEF new
  <2>2. {i} \cup RestsOn(steps, i) \subseteq DOMAIN steps
    <3>1. DOMAIN steps = 1 .. Len(steps) /\ Len(steps) \in Nat
      BY <1>1, SequenceDomain DEF SaneSteps
    <3>2. RestsOn(steps, i) \subseteq 1 .. i - 1
      BY RestsOnEarlier
    <3> QED
      BY <3>1, <3>2
  <2>3. \A j \in DOMAIN steps : Brings(new, j, ref) = Brings(steps, j, ref)
    BY <1>5 DEF Brings
  <2>4. UNION {{j} \X Brings(new, j, ref) : j \in {i} \cup RestsOn(new, i)}
          = UNION {{j} \X Brings(steps, j, ref) : j \in {i} \cup RestsOn(steps, i)}
    BY <2>1, <2>2, <2>3
  <2> QED
    BY <1>6, <2>4 DEF Visible
<1>7. EndsInSight(new)
  <2> HIDE DEF new
  <2> QED
    BY <1>2, <1>3, <1>5, <1>6 DEF EndsInSight
<1> QED
  BY <1>3, <1>4, <1>7

\* Other parts do not touch ids and parameters.
LEMMA FitStays ==
  ASSUME NEW steps, NEW new, NEW f \in {"blocks", "links"}, Replaces(new, steps, f),
         NEW mapping, NamesFit(steps), ParamsFit(steps, mapping)
  PROVE  NamesFit(new) /\ ParamsFit(new, mapping)
<1>1. /\ DOMAIN new = DOMAIN steps
      /\ \A i \in DOMAIN steps : new[i].id = steps[i].id /\ new[i].params = steps[i].params
  BY DEF Replaces, StepFields
<1>2. NamesFit(new)
  BY <1>1 DEF NamesFit
<1>3. \A i \in DOMAIN steps : \A p \in new[i].params : Cardinality({k \in DOMAIN mapping : mapping[k].param = p}) = 1
  BY <1>1 DEF ParamsFit
<1> QED
  BY <1>1, <1>2, <1>3 DEF ParamsFit

LEMMA GatedFit ==
  ASSUME NEW drafts, SaneSteps(drafts), NEW mapping, NEW recs
  PROVE  LET steps == Gated(drafts, mapping, recs)
         IN /\ Placed(steps) /\ Records(steps) /\ NamesFit(steps) /\ ParamsFit(steps, mapping)
            /\ BlocksFit(steps, recs) /\ NamesFresh(steps) /\ EndsInSight(steps)
<1> DEFINE s1 == Named(drafts)
           s2 == Untangled(s1)
           s3 == Mapped(s2, mapping)
           s4 == Recommended(s3, recs)
           s5 == Unambiguous(s4)
           s6 == Linked(s5)
<1>1. SaneSteps(s1) /\ DistinctIds(s1) /\ NamesFit(s1)
  BY NamedFacts, NamedFit
<1> HIDE DEF s1
<1>2. Placed(s2) /\ NamesFit(s2)
  BY <1>1, UntangledFacts, UntangledFit DEF Placed
<1> HIDE DEF s2
<1>3. /\ Placed(s3) /\ ParamsMapped(s3, mapping)
      /\ Replaces(s3, s2, "params") /\ ParamsFit(s3, mapping)
  BY <1>2, MappedFacts, MappedFit DEF Placed
<1>4. NamesFit(s3)
  BY <1>2, <1>3 DEF NamesFit, Replaces, StepFields
<1> HIDE DEF s3
<1>5. /\ Placed(s4) /\ ParamsMapped(s4, mapping)
      /\ Replaces(s4, s3, "blocks") /\ BlocksFit(s4, recs)
  BY <1>3, RecommendedFacts, RecommendedFit DEF Placed
<1>6. NamesFit(s4) /\ ParamsFit(s4, mapping)
  BY <1>3, <1>4, <1>5, FitStays
<1> HIDE DEF s4
<1>7. /\ Placed(s5) /\ ParamsMapped(s5, mapping) /\ OneBearer(s5)
      /\ Replaces(s5, s4, "blocks") /\ BlocksFit(s5, recs) /\ NamesFresh(s5)
  BY <1>5, UnambiguousFacts, UnambiguousFit DEF Placed
<1>8. NamesFit(s5) /\ ParamsFit(s5, mapping)
  BY <1>6, <1>7, FitStays
<1> HIDE DEF s5
<1>9. Placed(s6)
  BY <1>7, LinkedFacts
<1>10. Replaces(s6, s5, "links") /\ EndsInSight(s6) /\ Records(s6)
  BY <1>7, <1>9, LinkedFit
<1>11. NamesFit(s6) /\ ParamsFit(s6, mapping)
  BY <1>8, <1>10, FitStays
<1>12. BlocksFit(s6, recs) /\ NamesFresh(s6)
  <2>1. /\ DOMAIN s6 = DOMAIN s5 /\ \A i \in DOMAIN s5 : s6[i].blocks = s5[i].blocks
        /\ DOMAIN s5 = 1 .. Len(s5) /\ Len(s5) \in Nat
    BY <1>7, <1>10, SequenceDomain DEF Replaces, StepFields, Placed, SaneSteps
  <2> HIDE DEF s6
  <2>2. \A i \in DOMAIN s5 : \A ref : Brings(s6, i, ref) = Brings(s5, i, ref)
    BY <2>1 DEF Brings
  <2>3. ASSUME NEW i \in DOMAIN s5, NEW k, Borne(s6, i, k) PROVE Borne(s5, i, k)
    <3>1. \A j \in 1 .. i - 1 : j \in DOMAIN s5
      BY <2>1
    <3> QED
      BY <2>1, <2>2, <2>3, <3>1 DEF Borne
  <2> QED
    BY <1>7, <2>1, <2>3 DEF BlocksFit, NamesFresh
<1>13. Gated(drafts, mapping, recs) = s6
  BY DEF Gated, s1, s2, s3, s4, s5
<1> HIDE DEF s6
<1> QED
  BY <1>9, <1>10, <1>11, <1>12, <1>13

(***************************************************************************)
(* Gating settles the steps of any answer at once: what it lets through it *)
(* would let through again unchanged, step for step and part for part      *)
(* (_build_step_graph.py: names, dependencies, order, parameters, blocks   *)
(* and links are dropped one after another, and no later dropping makes an *)
(* earlier rule drop more).                                                *)
(***************************************************************************)
THEOREM GateSettles ==
  ASSUME NEW drafts, SaneSteps(drafts), NEW mapping, NEW recs
  PROVE  LET steps == Gated(drafts, mapping, recs)
         IN Gated(steps, mapping, recs) = steps
<1> DEFINE steps == Gated(drafts, mapping, recs)
<1>1. /\ Placed(steps) /\ Records(steps) /\ NamesFit(steps) /\ ParamsFit(steps, mapping)
      /\ BlocksFit(steps, recs) /\ NamesFresh(steps) /\ EndsInSight(steps)
  BY GatedFit
<1> HIDE DEF steps
<1>2. Named(steps) = steps
  BY <1>1, NamedAgain
<1>3. Untangled(steps) = steps
  BY <1>1, UntangledAgain
<1>4. Mapped(steps, mapping) = steps
  BY <1>1, MappedAgain
<1>5. Recommended(steps, recs) = steps
  BY <1>1, RecommendedAgain
<1>6. Unambiguous(steps) = steps
  BY <1>1, UnambiguousAgain
<1>7. Linked(steps) = steps
  BY <1>1, LinkedAgain
<1>8. Gated(steps, mapping, recs) = steps
  BY <1>2, <1>3, <1>4, <1>5, <1>6, <1>7 DEF Gated
<1> QED
  BY <1>8 DEF steps

----------------------------------------------------------------------------
(***************************************************************************)
(* The audit and the gate agree.  Ordering ends early exactly where some   *)
(* steps all wait for one of them, and the gate then takes all their       *)
(* dependencies; else the order has each step once.                        *)
(***************************************************************************)
Cleared(steps) == \A rest \in SUBSET DOMAIN steps : rest # {} => Ready(steps, rest) # {}

\* Where a step is always ready, none is left over.
LEMMA OrderedWhole ==
  ASSUME NEW steps, SaneSteps(steps), Cleared(steps)
  PROVE  Len(Ordered(steps)) = Len(steps)
<1> DEFINE D == DOMAIN steps
           order == CHOOSE f : IsOrder(f, steps)
           T == {rest \in SUBSET D : IsSequence(order[rest]) /\ Len(order[rest]) = Cardinality(rest)}
<1>1. Ordered(steps) = order[D]
  BY DEF Ordered, IsOrder, Ready, First
<1>2. IsSequence(steps) /\ IsFiniteSet(D) /\ Cardinality(D) = Len(steps)
  <2>1. IsSequence(steps) /\ Len(steps) \in Nat /\ D = 1 .. Len(steps)
    BY SequenceDomain DEF SaneSteps
  <2>2. 1 \in Int /\ Len(steps) \in Int
    BY <2>1
  <2>3. IsFiniteSet(D) /\ Cardinality(D) = IF 1 > Len(steps) THEN 0 ELSE Len(steps) - 1 + 1
    BY <2>1, <2>2, FS_Interval
  <2> HIDE DEF D
  <2> QED
    BY <2>1, <2>3
<1>3. IsOrder(order, steps)
  BY <1>2, OrderExists
<1> HIDE DEF order
<1>4. ASSUME NEW rest \in SUBSET D, \A x \in rest : rest \ {x} \in T
      PROVE  rest \in T
  <2>1. CASE rest = {}
    <3>1. order[rest] = <<>>
      BY <1>3, <2>1 DEF IsOrder, Ready
    <3> QED
      BY <2>1, <3>1, ShortSequences, FS_EmptySet
  <2>2. CASE rest # {}
    <3> DEFINE i == First(steps, rest)
    <3>1. Ready(steps, rest) # {}
      BY <2>2 DEF Cleared
    <3>2. i \in rest
      BY <1>2, <3>1, FirstReady DEF Ready
    <3>3. order[rest] = <<steps[i]>> \o order[rest \ {i}]
      BY <1>3, <3>1 DEF IsOrder
    <3> HIDE DEF i
    <3>4. IsSequence(order[rest \ {i}]) /\ Len(order[rest \ {i}]) = Cardinality(rest \ {i})
      BY <1>4, <3>2
    <3>5. IsFiniteSet(rest) /\ Cardinality(rest) \in Nat /\ Cardinality(rest \ {i}) = Cardinality(rest) - 1
      <4>1. IsFiniteSet(rest)
        BY <1>2, FS_Subset
      <4> QED
        BY <3>2, <4>1, FS_RemoveElement, FS_CardinalityType
    <3>6. IsSequence(order[rest])
      <4>1. PICK one : one = <<steps[i]>>
        OBVIOUS
      <4>2. PICK others : others = order[rest \ {i}]
        OBVIOUS
      <4>3. IsSequence(one) /\ IsSequence(others)
        BY <3>4, <4>1, <4>2, ShortSequences
      <4>4. IsSequence(one \o others)
        BY <4>3, ConcatSequence
      <4> QED
        BY <3>3, <4>1, <4>2, <4>4
    <3>7. Len(order[rest]) = 1 + Len(order[rest \ {i}])
      <4>1. PICK E : order[rest \ {i}] \in Seq(E)
        BY <3>4 DEF IsSequence
      <4>2. PICK F : F = E \cup {steps[i]}
        OBVIOUS
      <4>3. order[rest \ {i}] \in Seq(F) /\ <<steps[i]>> \in Seq(F) /\ Len(<<steps[i]>>) = 1
        BY <4>1, <4>2
      <4> QED
        BY <3>3, <4>3, ConcatIn
    <3> QED
      BY <3>4, <3>5, <3>6, <3>7
  <2> QED
    BY <2>1, <2>2
<1> HIDE DEF T
<1>5. SUBSET D \subseteq T
  <2>1. GrowsFrom(D, T)
    BY <1>4 DEF GrowsFrom
  <2> HIDE DEF D
  <2> QED
    BY <1>2, <2>1, SubsetInduction
<1>6. D \in T
  BY <1>5
<1> QED
  BY <1>1, <1>2, <1>6 DEF T

\* An order with as many places as there are steps has each of them.
LEMMA OrderedAll ==
  ASSUME NEW steps, SaneSteps(steps), NEW o, NEW rest \in SUBSET DOMAIN steps,
         IsSequence(o), DistinctIds(o), Len(o) = Len(steps),
         \A k \in DOMAIN o : \E j \in rest : o[k] = steps[j]
  PROVE  rest = DOMAIN steps /\ ToSet(o) = ToSet(steps)
<1> DEFINE n == Len(steps)
           at == [k \in 1 .. n |-> CHOOSE j \in rest : o[k] = steps[j]]
<1>1. n \in Nat /\ DOMAIN steps = 1 .. n /\ DOMAIN o = 1 .. n
  BY SequenceDomain DEF SaneSteps
<1>2. \A k \in 1 .. n : at[k] \in rest /\ o[k] = steps[at[k]]
  BY <1>1
<1> HIDE DEF at, n
<1>3. ASSUME NEW k \in 1 .. n, NEW m \in 1 .. n, at[k] = at[m] PROVE k = m
  <2>1. o[k] = o[m]
    BY <1>2, <1>3
  <2>2. o[k].id = o[m].id
    BY <2>1
  <2> QED
    BY <1>1, <2>2 DEF DistinctIds
<1>4. Fills(at, n, rest)
  <2>1. Differ(at, n, rest)
    BY <1>1, <1>2, <1>3 DEF Differ
  <2> QED
    BY <1>1, <2>1, FillsAll
<1>5. rest = 1 .. n /\ \A j \in 1 .. n : \E k \in 1 .. n : at[k] = j
  BY <1>4 DEF Fills
<1>6. \A j \in 1 .. n : \E k \in 1 .. n : o[k] = steps[j]
  BY <1>2, <1>5
<1>7. \A k \in 1 .. n : \E j \in 1 .. n : o[k] = steps[j]
  BY <1>2, <1>5
<1>8. ToSet(o) = ToSet(steps)
  <2>1. \A x : x \in ToSet(o) <=> \E k \in 1 .. n : x = o[k]
    BY <1>1 DEF ToSet
  <2>2. \A x : x \in ToSet(steps) <=> \E k \in 1 .. n : x = steps[k]
    BY <1>1 DEF ToSet
  <2>3. ASSUME NEW x \in ToSet(o) PROVE x \in ToSet(steps)
    BY <1>7, <2>1, <2>2, <2>3
  <2>4. ASSUME NEW x \in ToSet(steps) PROVE x \in ToSet(o)
    BY <1>6, <2>1, <2>2, <2>4
  <2> QED
    BY <2>3, <2>4
<1> QED
  BY <1>1, <1>5, <1>8

\* Steps that all wait for one of them are never taken.
LEMMA OrderedMisses ==
  ASSUME NEW steps, SaneSteps(steps), DistinctIds(steps),
         NEW stuck \in SUBSET DOMAIN steps, stuck # {}, Ready(steps, stuck) = {}
  PROVE  Len(Ordered(steps)) # Len(steps)
<1> DEFINE D == DOMAIN steps
           order == CHOOSE f : IsOrder(f, steps)
           T == {rest \in SUBSET D :
                   /\ IsSequence(order[rest])
                   /\ stuck \subseteq rest => ToSet(order[rest]) \subseteq {steps[j] : j \in rest \ stuck}}
<1>1. Ordered(steps) = order[D]
  BY DEF Ordered, IsOrder, Ready, First
<1>2. IsSequence(steps) /\ IsFiniteSet(D)
  <2>1. IsSequence(steps)
    BY DEF SaneSteps
  <2>2. Len(steps) \in Nat /\ D = 1 .. Len(steps)
    BY <2>1, SequenceDomain
  <2> QED
    BY <2>1, <2>2, FS_Interval
<1>3. IsOrder(order, steps)
  BY <1>2, OrderExists
<1> HIDE DEF order
<1>4. ASSUME NEW rest \in SUBSET D, \A x \in rest : rest \ {x} \in T
      PROVE  rest \in T
  <2>1. CASE Ready(steps, rest) = {}
    <3>1. order[rest] = <<>>
      BY <1>3, <2>1 DEF IsOrder
    <3> QED
      BY <3>1, ShortSequences
  <2>2. CASE Ready(steps, rest) # {}
    <3> DEFINE i == First(steps, rest)
    <3>1. i \in Ready(steps, rest) /\ i \in rest
      BY <1>2, <2>2, FirstReady DEF Ready
    <3>2. order[rest] = <<steps[i]>> \o order[rest \ {i}]
      BY <1>3, <2>2 DEF IsOrder
    <3> HIDE DEF i
    <3>3. /\ IsSequence(order[rest \ {i}])
          /\ stuck \subseteq rest \ {i} =>
               ToSet(order[rest \ {i}]) \subseteq {steps[j] : j \in (rest \ {i}) \ stuck}
      BY <1>4, <3>1
    <3>4. stuck \subseteq rest => i \notin stuck
      BY <3>1 DEF Ready
    <3>5. IsSequence(order[rest]) /\ ToSet(order[rest]) = {steps[i]} \cup ToSet(order[rest \ {i}])
      <4>1. PICK one : one = <<steps[i]>>
        OBVIOUS
      <4>2. PICK others : others = order[rest \ {i}]
        OBVIOUS
      <4>3. IsSequence(one) /\ ToSet(one) = {steps[i]} /\ IsSequence(others)
        BY <3>3, <4>1, <4>2, ShortSequences
      <4>4. IsSequence(one \o others) /\ ToSet(one \o others) = ToSet(one) \cup ToSet(others)
        BY <4>3, ConcatSequence
      <4> QED
        BY <3>2, <4>1, <4>2, <4>3, <4>4
    <3> QED
      BY <3>1, <3>3, <3>4, <3>5
  <2> QED
    BY <2>1, <2>2
<1> HIDE DEF T
<1>5. SUBSET D \subseteq T
  <2>1. GrowsFrom(D, T)
    BY <1>4 DEF GrowsFrom
  <2> HIDE DEF D
  <2> QED
    BY <1>2, <2>1, SubsetInduction
<1>6. ToSet(Ordered(steps)) \subseteq {steps[j] : j \in D \ stuck}
  <2>1. D \in T
    BY <1>5
  <2> QED
    BY <1>1, <2>1 DEF T
<1>7. ASSUME Len(Ordered(steps)) = Len(steps) PROVE FALSE
  <2> DEFINE o == Ordered(steps)
             free == D \ stuck
  <2>1. IsSequence(o) /\ DistinctIds(o)
    BY OrderedFacts DEF Arranged
  <2>2. \A k \in DOMAIN o : o[k] \in ToSet(o)
    BY DEF ToSet
  <2>3. \A k \in DOMAIN o : \E j \in free : o[k] = steps[j]
    BY <1>6, <2>2
  <2> HIDE DEF o
  <2>4. free \in SUBSET DOMAIN steps /\ Len(o) = Len(steps)
    BY <1>7 DEF o
  <2> HIDE DEF free
  <2>5. free = DOMAIN steps
    BY <2>1, <2>3, <2>4, OrderedAll
  <2> QED
    BY <2>5 DEF free
<1> QED
  BY <1>7

\* An order is whole exactly where no steps block each other.
LEMMA OrderedIfCleared ==
  ASSUME NEW steps, SaneSteps(steps), DistinctIds(steps)
  PROVE  Len(Ordered(steps)) = Len(steps) <=> Cleared(steps)
BY OrderedWhole, OrderedMisses DEF Cleared

\* What is left of dependencies: those on another step.
LEMMA KnownDeps ==
  ASSUME NEW steps, SaneSteps(steps)
  PROVE  /\ Replaces(Known(steps), steps, "deps")
         /\ \A i \in DOMAIN steps :
              /\ IsSequence(Known(steps)[i].deps)
              /\ ToSet(Known(steps)[i].deps) = ToSet(steps[i].deps) \cap (Ids(steps) \ {steps[i].id})
<1> DEFINE new == Known(steps)
           kept(s) == {k \in DOMAIN s.deps : s.deps[k] \in Ids(steps) \ {s.id}}
           v == [i \in DOMAIN steps |-> Picked(steps[i].deps, kept(steps[i]))]
<1>1. Updates(new, steps, "deps", v) /\ "deps" \in StepFields
  BY DEF Known, Updates, StepFields
<1>2. ASSUME NEW i \in DOMAIN steps
      PROVE  /\ IsSequence(v[i])
             /\ ToSet(v[i]) = ToSet(steps[i].deps) \cap (Ids(steps) \ {steps[i].id})
  <2> DEFINE places == kept(steps[i])
             others == Ids(steps) \ {steps[i].id}
  <2>1. /\ IsSequence(steps[i].deps) /\ v[i] = Picked(steps[i].deps, places)
        /\ places = {k \in DOMAIN steps[i].deps : steps[i].deps[k] \in others}
    BY DEF SaneSteps, Sane
  <2> HIDE DEF places, v, others
  <2>2. IsSequence(v[i]) /\ ToSet(v[i]) = {steps[i].deps[k] : k \in DOMAIN steps[i].deps \cap places}
    BY <2>1, PickedSequence
  <2>3. \A d : d \in ToSet(steps[i].deps) <=> \E k \in DOMAIN steps[i].deps : d = steps[i].deps[k]
    BY DEF ToSet
  <2>4. ToSet(v[i]) = ToSet(steps[i].deps) \cap others
    BY <2>1, <2>2, <2>3
  <2> QED
    BY <2>2, <2>4 DEF others
<1> HIDE DEF new, v
<1>3. Replaces(new, steps, "deps") /\ \A i \in DOMAIN steps : new[i]["deps"] = v[i]
  BY <1>1, ReplacedSteps
<1> QED
  BY <1>2, <1>3 DEF new

\* A step waits for another where its known dependencies have that one's id.
LEMMA WaitsKnown ==
  ASSUME NEW steps, SaneSteps(steps), DistinctIds(steps), NEW i \in DOMAIN steps, NEW j \in DOMAIN steps
  PROVE  Waits(steps, i, j) <=> Contains(Known(steps)[i].deps, Known(steps)[j].id)
<1> DEFINE known == Known(steps)
           other == Ids(steps) \ {steps[i].id}
<1>1. /\ known[j].id = steps[j].id /\ IsSequence(known[i].deps)
      /\ ToSet(known[i].deps) = ToSet(steps[i].deps) \cap other
  BY KnownDeps DEF Replaces, StepFields
<1> HIDE DEF known
<1>2. Contains(known[i].deps, steps[j].id) <=> steps[j].id \in ToSet(known[i].deps)
  <2>1. DOMAIN known[i].deps = 1 .. Len(known[i].deps)
    BY <1>1, SequenceDomain
  <2> QED
    BY <2>1 DEF Contains, ToSet
<1>3. steps[j].id \in other <=> i # j
  BY DEF Ids, ToSet, DistinctIds
<1>4. Matches(steps, steps[j].id) = {j}
  BY DEF Matches, DistinctIds
<1>5. \A d : Matches(steps, d) = {j} => d = steps[j].id
  BY DEF Matches
<1>6. Waits(steps, i, j) <=> i # j /\ steps[j].id \in ToSet(steps[i].deps)
  BY <1>4, <1>5 DEF Waits
<1> QED
  BY <1>1, <1>2, <1>3, <1>6 DEF known

\* So the audit finds a cycle exactly where the order is not whole.
LEMMA CyclicOrder ==
  ASSUME NEW steps, SaneSteps(steps), DistinctIds(steps)
  PROVE  Cyclic(steps) <=> Len(Ordered(Known(steps))) # Len(Known(steps))
<1> DEFINE known == Known(steps)
<1>1. SaneSteps(known) /\ DistinctIds(known)
  BY KnownFacts
<1>2. DOMAIN known = DOMAIN steps
  BY KnownDeps DEF Replaces
<1>3. \A i, j \in DOMAIN steps : Waits(steps, i, j) <=> Contains(known[i].deps, known[j].id)
  BY WaitsKnown
<1> HIDE DEF known
<1>4. Cyclic(steps) <=> ~Cleared(known)
  BY <1>2, <1>3 DEF Cyclic, Cleared, Ready
<1>5. Len(Ordered(known)) = Len(known) <=> Cleared(known)
  BY <1>1, OrderedIfCleared
<1> QED
  BY <1>4, <1>5 DEF known

\* It finds no other fault exactly where every dependency is on another step.
LEMMA EdgesKnown ==
  ASSUME NEW steps, SaneSteps(steps), DistinctIds(steps)
  PROVE  EdgeViolations(steps) = {}
           <=> \A i \in DOMAIN steps : ToSet(steps[i].deps) \subseteq Ids(steps) \ {steps[i].id}
<1> DEFINE fault(i, d) == Cardinality(Matches(steps, d)) # 1 \/ Matches(steps, d) = {i}
<1>1. ASSUME NEW i \in DOMAIN steps, NEW d PROVE fault(i, d) <=> d \notin Ids(steps) \ {steps[i].id}
  <2>1. CASE d \notin Ids(steps)
    <3>1. Matches(steps, d) = {}
      BY <2>1 DEF Matches, Ids, ToSet
    <3> QED
      BY <2>1, <3>1, FS_EmptySet
  <2>2. CASE d \in Ids(steps)
    <3>1. PICK j \in DOMAIN steps : d = steps[j].id
      BY <2>2 DEF Ids, ToSet
    <3>2. Matches(steps, d) = {j}
      BY <3>1 DEF Matches, DistinctIds
    <3>3. Cardinality({j}) = 1
      BY FS_Singleton
    <3>4. {j} = {i} <=> d = steps[i].id
      BY <3>1 DEF DistinctIds
    <3> QED
      BY <2>2, <3>2, <3>3, <3>4
  <2> QED
    BY <2>1, <2>2
<1>2. EdgeViolations(steps) = {} <=> \A i \in DOMAIN steps : \A k \in DOMAIN steps[i].deps : ~fault(i, steps[i].deps[k])
  <2> DEFINE pairs == UNION {{i} \X DOMAIN steps[i].deps : i \in DOMAIN steps}
  <2>1. EdgeViolations(steps) = {e \in pairs : fault(e[1], steps[e[1]].deps[e[2]])}
    BY DEF EdgeViolations
  <2>2. \A i \in DOMAIN steps : \A k \in DOMAIN steps[i].deps : <<i, k>> \in pairs
    OBVIOUS
  <2>3. \A e \in pairs : e[1] \in DOMAIN steps /\ e[2] \in DOMAIN steps[e[1]].deps
    OBVIOUS
  <2> HIDE DEF pairs, fault
  <2>4. \A i \in DOMAIN steps : \A k \in DOMAIN steps[i].deps : <<i, k>>[1] = i /\ <<i, k>>[2] = k
    OBVIOUS
  <2>5. ASSUME EdgeViolations(steps) = {}, NEW i \in DOMAIN steps, NEW k \in DOMAIN steps[i].deps
        PROVE  ~fault(i, steps[i].deps[k])
    <3>1. PICK e : e = <<i, k>>
      OBVIOUS
    <3>2. e \in pairs /\ e[1] = i /\ e[2] = k
      BY <2>2, <2>4, <3>1
    <3>3. ~fault(e[1], steps[e[1]].deps[e[2]])
      BY <2>1, <2>5, <3>2
    <3> QED
      BY <3>2, <3>3
  <2>6. ASSUME \A i \in DOMAIN steps : \A k \in DOMAIN steps[i].deps : ~fault(i, steps[i].deps[k])
        PROVE  EdgeViolations(steps) = {}
    BY <2>1, <2>3, <2>6
  <2> QED
    BY <2>5, <2>6
<1>3. \A i \in DOMAIN steps : \A d : d \in ToSet(steps[i].deps) <=> \E k \in DOMAIN steps[i].deps : d = steps[i].deps[k]
  BY DEF ToSet
<1> HIDE DEF fault
<1> QED
  BY <1>1, <1>2, <1>3

\* Later parts of the gate touch neither ids nor dependencies.
LEMMA KeepsIdsAndDeps ==
  ASSUME NEW steps, SaneSteps(steps), NEW f \in StepFields \ {"id", "deps"}, NEW new, Replaces(new, steps, f)
  PROVE  Len(new) = Len(steps) /\ IdsAndDeps(new) = IdsAndDeps(steps)
<1>1. /\ DOMAIN new = DOMAIN steps /\ IsSequence(new) /\ IsSequence(steps)
      /\ \A i \in DOMAIN steps : new[i].id = steps[i].id /\ new[i].deps = steps[i].deps
  BY DEF Replaces, StepFields, SaneSteps
<1>2. Len(new) = Len(steps)
  <2>1. PICK n : n = Len(steps)
    OBVIOUS
  <2>2. n \in Nat /\ DOMAIN steps = 1 .. n /\ new = [i \in DOMAIN new |-> new[i]]
    BY <1>1, <2>1, SequenceDomain
  <2>3. new = [i \in 1 .. n |-> new[i]]
    BY <1>1, <2>2
  <2> QED
    BY <2>1, <2>2, <2>3, BuiltSequence
<1>3. \A s \in ToSet(new) : \E t \in ToSet(steps) : s.id = t.id /\ s.deps = t.deps
  BY <1>1 DEF ToSet
<1>4. \A t \in ToSet(steps) : \E s \in ToSet(new) : s.id = t.id /\ s.deps = t.deps
  BY <1>1 DEF ToSet
<1>5. IdsAndDeps(new) = IdsAndDeps(steps)
  BY <1>3, <1>4 DEF IdsAndDeps
<1> QED
  BY <1>2, <1>5

LEMMA GatedKeeps ==
  ASSUME NEW drafts, SaneSteps(drafts), NEW mapping, NEW recs
  PROVE  LET steps == Gated(drafts, mapping, recs)
             parted == Untangled(Named(drafts))
         IN Len(steps) = Len(parted) /\ IdsAndDeps(steps) = IdsAndDeps(parted)
<1> DEFINE s2 == Untangled(Named(drafts))
           s3 == Mapped(s2, mapping)
           s4 == Recommended(s3, recs)
           s5 == Unambiguous(s4)
           s6 == Linked(s5)
<1>0. {"params", "blocks", "links"} \subseteq StepFields \ {"id", "deps"}
  BY DEF StepFields
<1>1. Placed(s2)
  BY NamedFacts, UntangledFacts DEF Placed
<1> HIDE DEF s2
<1>2. Placed(s3) /\ ParamsMapped(s3, mapping) /\ Replaces(s3, s2, "params")
  BY <1>1, MappedFacts, MappedFit DEF Placed
<1>3. Len(s3) = Len(s2) /\ IdsAndDeps(s3) = IdsAndDeps(s2)
  BY <1>0, <1>1, <1>2, KeepsIdsAndDeps DEF Placed
<1> HIDE DEF s3
<1>4. /\ Placed(s4) /\ ParamsMapped(s4, mapping)
      /\ Replaces(s4, s3, "blocks") /\ BlocksFit(s4, recs)
  BY <1>2, RecommendedFacts, RecommendedFit DEF Placed
<1>5. Len(s4) = Len(s3) /\ IdsAndDeps(s4) = IdsAndDeps(s3)
  BY <1>0, <1>2, <1>4, KeepsIdsAndDeps DEF Placed
<1> HIDE DEF s4
<1>6. Placed(s5) /\ ParamsMapped(s5, mapping) /\ OneBearer(s5) /\ Replaces(s5, s4, "blocks")
  BY <1>4, UnambiguousFacts, UnambiguousFit DEF Placed
<1>7. Len(s5) = Len(s4) /\ IdsAndDeps(s5) = IdsAndDeps(s4)
  BY <1>0, <1>4, <1>6, KeepsIdsAndDeps DEF Placed
<1> HIDE DEF s5
<1>8. Placed(s6)
  BY <1>6, LinkedFacts
<1>9. Replaces(s6, s5, "links")
  BY <1>6, <1>8, LinkedFit
<1>10. Len(s6) = Len(s5) /\ IdsAndDeps(s6) = IdsAndDeps(s5)
  BY <1>0, <1>6, <1>9, KeepsIdsAndDeps DEF Placed
<1>11. Gated(drafts, mapping, recs) = s6
  BY DEF Gated, s2, s3, s4, s5
<1> QED
  BY <1>3, <1>5, <1>7, <1>10, <1>11 DEF s2

\* As long as none is dropped, and only then, no two have one id.
LEMMA NamedWhole ==
  ASSUME NEW drafts, SaneSteps(drafts), NamesFit(drafts)
  PROVE  /\ DistinctIds(drafts) => Named(drafts) = drafts
         /\ Len(Named(drafts)) = Len(drafts) => DistinctIds(drafts)
<1> DEFINE places == {i \in DOMAIN drafts : /\ drafts[i].id \in StepIds
                                           /\ \A j \in 1 .. i - 1 : drafts[j].id # drafts[i].id}
<1>1. IsSequence(drafts) /\ DOMAIN drafts = 1 .. Len(drafts) /\ Len(drafts) \in Nat
  BY SequenceDomain DEF SaneSteps
<1>2. Named(drafts) = Picked(drafts, places)
  BY DEF Named
<1>3. DistinctIds(drafts) => DOMAIN drafts \subseteq places
  <2> SUFFICES ASSUME DistinctIds(drafts), NEW i \in DOMAIN drafts, NEW j \in 1 .. i - 1
               PROVE  drafts[j].id # drafts[i].id
    BY DEF NamesFit
  <2>1. j \in DOMAIN drafts /\ j # i
    BY <1>1
  <2> QED
    BY <2>1 DEF DistinctIds
<1>4. DOMAIN drafts \subseteq places => DistinctIds(drafts)
  <2> SUFFICES ASSUME DOMAIN drafts \subseteq places,
                      NEW i \in DOMAIN drafts, NEW j \in DOMAIN drafts, j < i
               PROVE  drafts[i].id # drafts[j].id
    BY <1>1 DEF DistinctIds
  <2>1. j \in 1 .. i - 1 /\ i \in places
    BY <1>1
  <2> QED
    BY <2>1
<1> HIDE DEF places
<1>5. DOMAIN drafts \subseteq places => Picked(drafts, places) = drafts
  BY <1>1, PickedAll
<1>6. Len(Picked(drafts, places)) = Len(drafts) => DOMAIN drafts \subseteq places
  BY <1>1, PickedWhole
<1> QED
  BY <1>2, <1>3, <1>4, <1>5, <1>6

\* Untangling drops no step.
LEMMA UntangledKeeps ==
  ASSUME NEW steps, SaneSteps(steps), DistinctIds(steps)
  PROVE  Len(Untangled(steps)) = Len(steps)
<1> DEFINE known == Known(steps)
           bare == [i \in DOMAIN known |-> [known[i] EXCEPT !.deps = <<>>]]
<1>1. IsSequence(known) /\ IsSequence(steps) /\ DOMAIN known = DOMAIN steps
  BY KnownFacts, KnownDeps DEF SaneSteps, Replaces
<1>2. Untangled(steps) = bare \/ (Untangled(steps) = Ordered(known) /\ Len(Ordered(known)) = Len(known))
  BY DEF Untangled
<1>3. bare = [i \in DOMAIN known |-> bare[i]]
  OBVIOUS
<1> HIDE DEF known, bare
<1>4. PICK n : n = Len(steps)
  OBVIOUS
<1>5. n \in Nat /\ DOMAIN steps = 1 .. n /\ known = [i \in DOMAIN known |-> known[i]]
  BY <1>1, <1>4, SequenceDomain
<1>6. known = [i \in 1 .. n |-> known[i]] /\ bare = [i \in 1 .. n |-> bare[i]]
  BY <1>1, <1>3, <1>5
<1>7. Len(known) = n /\ Len(bare) = n
  BY <1>5, <1>6, BuiltSequence
<1> QED
  BY <1>2, <1>4, <1>7

\* What untangling leaves of dependencies, with and without a cycle.
LEMMA UntangledDeps ==
  ASSUME NEW steps, SaneSteps(steps), DistinctIds(steps)
  PROVE  IF Cyclic(steps) THEN \A e \in IdsAndDeps(Untangled(steps)) : e[2] = {}
         ELSE IdsAndDeps(Untangled(steps)) =
                {<<s.id, ToSet(s.deps) \cap (Ids(steps) \ {s.id})>> : s \in ToSet(steps)}
<1> DEFINE known == Known(steps)
           bare == [i \in DOMAIN known |-> [known[i] EXCEPT !.deps = <<>>]]
<1>1. SaneSteps(known) /\ DistinctIds(known)
  BY KnownFacts
<1>2. /\ DOMAIN known = DOMAIN steps
      /\ \A i \in DOMAIN steps : /\ known[i].id = steps[i].id
                                 /\ ToSet(known[i].deps) = ToSet(steps[i].deps) \cap (Ids(steps) \ {steps[i].id})
  BY KnownDeps DEF Replaces, StepFields
<1>3. Cyclic(steps) <=> Len(Ordered(known)) # Len(known)
  BY CyclicOrder
<1>4. Untangled(steps) = IF Len(Ordered(known)) = Len(known) THEN Ordered(known) ELSE bare
  BY DEF Untangled
<1>5. \A i \in DOMAIN known : bare[i].deps = <<>>
  BY <1>1 DEF SaneSteps, Sane, StepFields
<1>6. DOMAIN bare = DOMAIN known
  OBVIOUS
<1> HIDE DEF known, bare
<1>7. CASE Cyclic(steps)
  <2>1. Untangled(steps) = bare
    BY <1>3, <1>4, <1>7
  <2>2. \A s \in ToSet(bare) : ToSet(s.deps) = {}
    BY <1>5, <1>6, ShortSequences DEF ToSet
  <2>3. \A e \in IdsAndDeps(bare) : e[2] = {}
    BY <2>2 DEF IdsAndDeps
  <2> QED
    BY <1>7, <2>1, <2>3
<1>8. CASE ~Cyclic(steps)
  <2>1. Untangled(steps) = Ordered(known) /\ Len(Ordered(known)) = Len(known)
    BY <1>3, <1>4, <1>8
  <2>2. ToSet(Ordered(known)) = ToSet(known)
    <3>1. PICK o : o = Ordered(known)
      OBVIOUS
    <3>2. PICK rest \in SUBSET DOMAIN known : rest = DOMAIN known
      OBVIOUS
    <3>3. /\ IsSequence(o) /\ DistinctIds(o) /\ Len(o) = Len(known)
          /\ \A k \in DOMAIN o : \E j \in rest : o[k] = known[j]
      BY <1>1, <2>1, <3>1, <3>2, OrderedFacts DEF Arranged
    <3>4. ToSet(o) = ToSet(known)
      BY <1>1, <3>3, OrderedAll
    <3> QED
      BY <3>1, <3>4
  <2>3. IdsAndDeps(Ordered(known)) = IdsAndDeps(known)
    BY <2>2 DEF IdsAndDeps
  <2> DEFINE cut(s) == ToSet(s.deps) \cap (Ids(steps) \ {s.id})
  <2>4. \A s \in ToSet(known) : \E t \in ToSet(steps) : s.id = t.id /\ ToSet(s.deps) = cut(t)
    <3>1. \A s : s \in ToSet(known) <=> \E i \in DOMAIN steps : s = known[i]
      BY <1>2 DEF ToSet
    <3>2. \A i \in DOMAIN steps : steps[i] \in ToSet(steps)
      BY DEF ToSet
    <3> QED
      BY <1>2, <3>1, <3>2
  <2>5. \A t \in ToSet(steps) : \E s \in ToSet(known) : s.id = t.id /\ ToSet(s.deps) = cut(t)
    <3>1. \A t : t \in ToSet(steps) <=> \E i \in DOMAIN steps : t = steps[i]
      BY DEF ToSet
    <3>2. \A i \in DOMAIN steps : known[i] \in ToSet(known)
      BY <1>2 DEF ToSet
    <3> QED
      BY <1>2, <3>1, <3>2
  <2> HIDE DEF cut
  <2>6. IdsAndDeps(known) = {<<t.id, cut(t)>> : t \in ToSet(steps)}
    BY <2>4, <2>5 DEF IdsAndDeps
  <2> QED
    BY <1>8, <2>1, <2>3, <2>6 DEF cut
<1> QED
  BY <1>7, <1>8

(***************************************************************************)
(* The audit and the gate, two readings of the same draft in two modules   *)
(* of the code, agree whatever is drafted: the audit                       *)
(* (build_steps_dependency_audit.py) finds nothing to report exactly where *)
(* the gate (_build_step_graph.py) keeps every step, and with it every     *)
(* dependency, as long as the ids are of the form the gate asks for, which *)
(* the audit does not look at.                                             *)
(***************************************************************************)
THEOREM AuditMeetsGate ==
  ASSUME NEW drafts, SaneSteps(drafts), NamesFit(drafts), NEW mapping, NEW recs
  PROVE  LET steps == Gated(drafts, mapping, recs)
         IN AuditClean(drafts) <=> /\ Len(steps) = Len(drafts)
                                   /\ IdsAndDeps(steps) = IdsAndDeps(drafts)
<1> DEFINE steps == Gated(drafts, mapping, recs)
           left == Untangled(Named(drafts))
           cut(s) == ToSet(s.deps) \cap (Ids(drafts) \ {s.id})
<1>1. Len(steps) = Len(left) /\ IdsAndDeps(steps) = IdsAndDeps(left)
  BY GatedKeeps
<1>2. Len(left) = Len(Named(drafts))
  BY NamedFacts, UntangledKeeps
<1>3. ~DuplicateIds(drafts) <=> DistinctIds(drafts)
  BY DEF DuplicateIds, DistinctIds
<1> HIDE DEF steps, left, cut
<1>4. CASE ~DistinctIds(drafts)
  BY <1>1, <1>2, <1>3, <1>4, NamedWhole DEF AuditClean, steps
<1>5. CASE DistinctIds(drafts)
  <2>1. Named(drafts) = drafts
    BY <1>5, NamedWhole
  <2>2. left = Untangled(drafts) /\ Len(steps) = Len(drafts)
    BY <1>1, <1>2, <2>1 DEF left
  <2>3. EdgeViolations(drafts) = {} <=> \A s \in ToSet(drafts) : cut(s) = ToSet(s.deps)
    <3>1. \A i \in DOMAIN drafts : cut(drafts[i]) = ToSet(drafts[i].deps)
            <=> ToSet(drafts[i].deps) \subseteq Ids(drafts) \ {drafts[i].id}
      BY DEF cut
    <3>2. \A s : s \in ToSet(drafts) <=> \E i \in DOMAIN drafts : s = drafts[i]
      BY DEF ToSet
    <3> QED
      BY <1>5, <3>1, <3>2, EdgesKnown
  <2>4. CASE Cyclic(drafts)
    <3>1. PICK i \in DOMAIN drafts : ToSet(drafts[i].deps) # {}
      BY <2>4 DEF Cyclic, Waits
    <3>2. <<drafts[i].id, ToSet(drafts[i].deps)>> \in IdsAndDeps(drafts)
      BY DEF IdsAndDeps, ToSet
    <3>3. \A e \in IdsAndDeps(left) : e[2] = {}
      BY <1>5, <2>2, <2>4, UntangledDeps
    <3>4. IdsAndDeps(steps) # IdsAndDeps(drafts)
      BY <1>1, <3>1, <3>2, <3>3
    <3> QED
      BY <2>4, <3>4 DEF AuditClean, steps
  <2>5. CASE ~Cyclic(drafts)
    <3>1. IdsAndDeps(left) = {<<s.id, cut(s)>> : s \in ToSet(drafts)}
      BY <1>5, <2>2, <2>5, UntangledDeps DEF cut
    <3>2. \A s, t \in ToSet(drafts) : s.id = t.id => s = t
      BY <1>5 DEF DistinctIds, ToSet
    <3>3. IdsAndDeps(drafts) = {<<s.id, ToSet(s.deps)>> : s \in ToSet(drafts)}
      BY DEF IdsAndDeps
    <3>4. IdsAndDeps(left) = IdsAndDeps(drafts) <=> \A s \in ToSet(drafts) : cut(s) = ToSet(s.deps)
      <4>1. ASSUME IdsAndDeps(left) = IdsAndDeps(drafts), NEW s \in ToSet(drafts)
            PROVE  cut(s) = ToSet(s.deps)
        <5>1. <<s.id, cut(s)>> \in IdsAndDeps(drafts)
          BY <3>1, <4>1
        <5>2. PICK t \in ToSet(drafts) : <<s.id, cut(s)>> = <<t.id, ToSet(t.deps)>>
          BY <3>3, <5>1
        <5> QED
          BY <3>2, <5>2
      <4>2. ASSUME \A s \in ToSet(drafts) : cut(s) = ToSet(s.deps)
            PROVE  IdsAndDeps(left) = IdsAndDeps(drafts)
        BY <3>1, <3>3, <4>2
      <4> QED
        BY <4>1, <4>2
    <3> QED
      BY <1>1, <1>3, <1>5, <2>2, <2>3, <2>5, <3>4 DEF AuditClean, steps
  <2> QED
    BY <2>4, <2>5
<1> QED
  BY <1>4, <1>5

(***************************************************************************)
(* So the audit would find nothing in the steps of a plan: what passes the *)
(* gate has no dependency or link it would report.                         *)
(***************************************************************************)
COROLLARY GatedPassesAudit ==
  ASSUME NEW drafts, SaneSteps(drafts), NEW mapping, NEW recs
  PROVE  LET steps == Gated(drafts, mapping, recs)
         IN AuditClean(steps) /\ LinksOutOfSight(steps) = {}
<1> DEFINE steps == Gated(drafts, mapping, recs)
<1>1. SaneSteps(steps) /\ NamesFit(steps) /\ EndsInSight(steps)
  BY GatedFit DEF Placed
<1>2. Gated(steps, mapping, recs) = steps
  BY GateSettles
<1> HIDE DEF steps
<1>3. AuditClean(steps)
  BY <1>1, <1>2, AuditMeetsGate
<1>4. LinksOutOfSight(steps) = {}
  <2> DEFINE pairs == UNION {{i} \X DOMAIN steps[i].links : i \in DOMAIN steps}
  <2>1. \A e \in pairs : e[1] \in DOMAIN steps /\ e[2] \in DOMAIN steps[e[1]].links
    OBVIOUS
  <2>2. \A i \in DOMAIN steps : \A k \in DOMAIN steps[i].links :
          Visible(steps, i, steps[i].links[k].from) /\ Visible(steps, i, steps[i].links[k].to)
    BY <1>1 DEF EndsInSight
  <2>3. LinksOutOfSight(steps) =
          {e \in pairs : LET l == steps[e[1]].links[e[2]]
                         IN ~Visible(steps, e[1], l.from) \/ ~Visible(steps, e[1], l.to)}
    BY DEF LinksOutOfSight
  <2> HIDE DEF pairs
  <2> QED
    BY <2>1, <2>2, <2>3
<1> QED
  BY <1>3, <1>4 DEF steps

----------------------------------------------------------------------------
(***************************************************************************)
(* What the leaves and the documents have come to, at each stage.          *)
(***************************************************************************)
Staged ==
  /\ leaf = [l \in Leaves |-> leaf[l]]
  /\ \A l \in Leaves : leaf[l].how = "ok" => leaf[l].at = "settled" /\ leaf[l].out \in Sound(l)
  /\ leaf["spec"] # Idle => stage = "documents" /\ turn \in Documents
  /\ leaf["compose"] # Idle \/ leaf["script"] # Idle => stage \in {"compose", "detect", "assemble"}
  /\ leaf["detect"] # Idle => stage \in {"detect", "assemble"}
  /\ stage \in {"detect", "assemble"} =>
       leaf["compose"].how = "ok" /\ leaf["script"].at = "settled"
  /\ stage = "assemble" => leaf["detect"].how = "ok"

Extract(s) ==
  /\ s.doc \in Documents /\ Grounded(s, Found[s.doc])
  /\ IsSequence(s.rows) /\ IsSequence(s.evidence)
  /\ IsSequence(s.equations) /\ IsSequence(s.figures)

SpecsHold ==
  /\ IsSequence(specs)
  /\ \A s \in ToSet(specs) : Extract(s)
  /\ spec # None \/ stage \notin {"documents", "failed"} => spec = Fuse(specs) /\ stage # "documents"

\* No leaf is in two conditions at once.
LEMMA Wordy == None # "ok" /\ None # "degraded" /\ None # "late" /\ None # "cap" /\ Idle.how = None /\ Idle.at = "idle"
BY NoneAssumption DEF Hows, Idle

\* A leaf that settles has an answer only where it settles well.
LEMMA SettledLeaf ==
  ASSUME NEW l, NEW t, NEW how \in Hows, NEW cut, NEW out
  PROVE  LET s == Settled(l, t, how, cut, out)
         IN /\ s.at = "settled" /\ s.how \in {how, "degraded"}
            /\ how = "ok" => s.out = out
BY DEF Settled, Idle

\* What comes of calling a leaf is no answer yet.
Asked(l, f, g) ==
  /\ g = [x \in Leaves |-> g[x]] /\ \A x \in Leaves \ {l} : g[x] = f[x]
  /\ g[l].at \in {"flying", "settled"} /\ g[l].how # "ok"

\* Calling a leaf, or being refused the call, touches no other.
LEMMA CalledLeaf ==
  ASSUME NEW now, NEW f, now.leaf = f, f = [x \in Leaves |-> f[x]],
         NEW l \in Leaves, NEW t, NEW again
  PROVE  Asked(l, f, Called(now, l, t, again).leaf)
<1> DEFINE fly == Flying(t, again)
           late == Settled(l, t, "late", FALSE, None)
           cap == Settled(l, t, "cap", FALSE, None)
<1>1. fly.at = "flying" /\ fly.how # "ok"
  BY Wordy DEF Flying, Idle
<1>2. "late" \in Hows /\ "cap" \in Hows
  BY DEF Hows
<1>3. late.at = "settled" /\ late.how # "ok" /\ cap.at = "settled" /\ cap.how # "ok"
  BY Wordy DEF Settled, Idle
<1>4. \E x \in {fly, late, cap} : Called(now, l, t, again).leaf = [f EXCEPT ![l] = x]
  <2>1. CASE now.context.late
    BY <2>1, Wordy DEF Called
  <2>2. CASE ~now.context.late /\ now.context.calls >= HardCap
    BY <2>2, Wordy DEF Called
  <2>3. CASE ~now.context.late /\ ~(now.context.calls >= HardCap)
    BY <2>3, Wordy DEF Called
  <2> QED
    BY <2>1, <2>2, <2>3
<1> HIDE DEF fly, late, cap
<1>5. PICK x \in {fly, late, cap} : Called(now, l, t, again).leaf = [f EXCEPT ![l] = x]
  BY <1>4
<1>6. x.at \in {"flying", "settled"} /\ x.how # "ok"
  BY <1>1, <1>3
<1> QED
  BY <1>5, <1>6 DEF Asked

(* What passes the checks depends on the turn and the spec, and for the    *)
(* questions on the settled mapping.                                       *)
LEMMA SoundSame ==
  ASSUME UNCHANGED <<turn, spec>>, NEW l \in Leaves,
         l = "detect" => leaf'["compose"] = leaf["compose"]
  PROVE  Sound(l)' = Sound(l)
<1>1. CASE l = "spec"
  BY <1>1 DEF Sound, SoundSpec
<1>2. CASE l = "compose"
  BY <1>2 DEF Sound, SoundPlan, Cites, AllWhitelisted
<1>3. CASE l = "script"
  BY <1>3 DEF Sound, SoundScript
<1>4. CASE l = "detect"
  BY <1>4 DEF Sound, SoundPrompts, Cites, AllWhitelisted
<1> QED
  BY <1>1, <1>2, <1>3, <1>4 DEF Leaves

\* One leaf in its flight changes, and nothing else does.
LEMMA FlightKeeps ==
  ASSUME Staged, SpecsHold, UNCHANGED <<stage, turn, specs, spec>>, NEW l \in Leaves,
         leaf[l].at = "flying", leaf' = [x \in Leaves |-> leaf'[x]],
         \A x \in Leaves \ {l} : leaf'[x] = leaf[x],
         leaf'[l].how = "ok" => leaf'[l].at = "settled" /\ leaf'[l].out \in Sound(l)
  PROVE  Staged' /\ SpecsHold' /\ stage # "finished"
<1>1. leaf[l] # Idle
  BY Wordy
<1>2. SpecsHold' /\ stage # "finished"
  BY <1>1 DEF SpecsHold, Staged, Leaves
<1>3. /\ l = "spec" => stage = "documents" /\ turn \in Documents
      /\ l \in {"compose", "script"} => stage = "compose"
      /\ l = "detect" => stage = "detect"
  BY <1>1 DEF Staged, Leaves
<1>4. ASSUME NEW x \in Leaves, leaf'[x].how = "ok"
      PROVE  leaf'[x].at = "settled" /\ leaf'[x].out \in Sound(x)'
  <2>1. CASE x = l
    BY <1>4, <2>1, SoundSame DEF Leaves
  <2>2. CASE x # l
    <3>1. leaf'[x] = leaf[x] /\ leaf[x].how = "ok" /\ leaf[x].out \in Sound(x) /\ leaf[x].at = "settled"
      BY <1>4, <2>2 DEF Staged
    <3>2. x = "detect" => leaf'["compose"] = leaf["compose"]
      BY <1>3, <2>2, <3>1, Wordy DEF Staged, Leaves
    <3> QED
      BY <3>1, <3>2, SoundSame
  <2> QED
    BY <2>1, <2>2
<1>5. Staged'
  BY <1>3, <1>4 DEF Staged, Leaves
<1> QED
  BY <1>2, <1>5

\* A call that comes back, whatever it brings.
LEMMA FlightStep ==
  ASSUME Staged, SpecsHold, NEW l \in Leaves,
         ProviderFails(l) \/ TooLate(l) \/ NotJson(l) \/ Malformed(l) \/ Answered(l)
  PROVE  Staged' /\ SpecsHold' /\ stage # "finished" /\ plan' = plan
<1>1. leaf[l].at = "flying" /\ UNCHANGED <<stage, turn, specs, spec, plan>>
  BY DEF ProviderFails, TooLate, NotJson, Malformed, Answered, documents
<1>2. ASSUME NEW how \in Hows, NEW cut, NEW out, Settles(l, how, cut, out),
             how = "ok" => out \in Sound(l)
      PROVE  Staged' /\ SpecsHold' /\ stage # "finished"
  <2> DEFINE s == Settled(l, leaf[l].tries, how, cut, out)
  <2>1. leaf' = [leaf EXCEPT ![l] = s]
    BY <1>2 DEF Settles, Becomes, Now
  <2>2. s.at = "settled" /\ s.how \in {how, "degraded"} /\ (how = "ok" => s.out = out)
    BY SettledLeaf
  <2> HIDE DEF s
  <2>3. leaf' = [x \in Leaves |-> leaf'[x]] /\ leaf'[l] = s /\ \A x \in Leaves \ {l} : leaf'[x] = leaf[x]
    BY <2>1 DEF Staged
  <2>4. leaf'[l].how = "ok" => leaf'[l].at = "settled" /\ leaf'[l].out \in Sound(l)
    BY <1>2, <2>2, <2>3
  <2> QED
    BY <1>1, <2>3, <2>4, FlightKeeps
<1>3. ASSUME NEW t, NEW again, Becomes(Called(Now, l, t, again))
      PROVE  Staged' /\ SpecsHold' /\ stage # "finished"
  <2>1. Now.leaf = leaf /\ leaf' = Called(Now, l, t, again).leaf /\ leaf = [x \in Leaves |-> leaf[x]]
    BY <1>3 DEF Becomes, Now, Staged
  <2>2. /\ leaf' = [x \in Leaves |-> leaf'[x]] /\ \A x \in Leaves \ {l} : leaf'[x] = leaf[x]
        /\ leaf'[l].how # "ok"
    BY <2>1, CalledLeaf DEF Asked
  <2> QED
    BY <1>1, <2>2, FlightKeeps
<1>4. {"error", "late", "garbled", "malformed", "ok"} \subseteq Hows
  BY DEF Hows, Flaws
<1>5. CASE ProviderFails(l)
  BY <1>2, <1>3, <1>4, <1>5 DEF ProviderFails, Call
<1>6. CASE TooLate(l)
  BY <1>2, <1>4, <1>6 DEF TooLate
<1>7. CASE NotJson(l)
  BY <1>2, <1>3, <1>4, <1>7 DEF NotJson
<1>8. CASE Malformed(l)
  BY <1>2, <1>4, <1>8 DEF Malformed
<1>9. CASE Answered(l)
  BY <1>2, <1>4, <1>9 DEF Answered
<1> QED
  BY <1>1, <1>5, <1>6, <1>7, <1>8, <1>9

\* The leaves of a job that goes from one stage to the next.
LEMMA QuietLeaves ==
  /\ AllIdle = [x \in Leaves |-> AllIdle[x]]
  /\ \A x \in Leaves : AllIdle[x] = Idle
  /\ Idle.how # "ok" /\ Idle.at # "settled" /\ Idle.at # "flying"
BY Wordy DEF AllIdle

\* A job that fails drops its answers.
LEMMA FailedKeeps ==
  ASSUME SpecsHold, NEW reason, Fails(reason), UNCHANGED documents
  PROVE  Staged' /\ SpecsHold' /\ plan' = plan
<1>1. stage' = "failed" /\ leaf' = AllIdle /\ UNCHANGED <<spec, specs, plan>>
  BY DEF Fails, Quiet, documents
<1> QED
  BY <1>1, QuietLeaves DEF Staged, SpecsHold, Leaves

\* While documents are read there is no spec and nothing of a plan.
LEMMA StillReading ==
  ASSUME Staged, SpecsHold, stage = "documents"
  PROVE  /\ spec = None
         /\ \A x \in Leaves \ {"spec"} : leaf[x] = Idle
BY DEF Staged, SpecsHold, Leaves

\* A document that is left out, or ends the job.
LEMMA SkippedKeeps ==
  ASSUME Staged, SpecsHold, stage = "documents", DocumentFails
  PROVE  Staged' /\ SpecsHold' /\ plan' = plan
<1>1. CASE primary = turn
  <2>1. stage' = "failed" /\ leaf' = AllIdle /\ UNCHANGED <<spec, specs, plan>>
    BY <1>1 DEF DocumentFails, Quiet, documents
  <2> QED
    BY <2>1, QuietLeaves DEF Staged, SpecsHold, Leaves
<1>2. CASE primary # turn
  <2>1. leaf' = [leaf EXCEPT !["spec"] = Idle] /\ UNCHANGED <<stage, spec, specs, plan>>
    BY <1>2 DEF DocumentFails
  <2>2. leaf' = [x \in Leaves |-> leaf'[x]] /\ \A x \in Leaves : leaf'[x] = Idle
    BY <2>1, StillReading DEF Staged, Leaves
  <2> QED
    BY <2>1, <2>2, Wordy DEF Staged, SpecsHold, Leaves
<1> QED
  BY <1>1, <1>2

\* A leaf for a spec is of a document whose turn it is.
LEMMA SpecOK ==
  ASSUME Staged, leaf["spec"].how # None
  PROVE  stage = "documents" /\ turn \in Documents
BY Wordy DEF Staged

\* Marking the owner keeps the sequence.
LEMMA OwnedSequence ==
  ASSUME NEW d, NEW things, IsSequence(things)
  PROVE  IsSequence(Owned(d, things))
<1>1. things \in Seq(ToSet(things)) /\ DOMAIN things = 1 .. Len(things) /\ Len(things) \in Nat
  BY DEF IsSequence
<1> DEFINE o == Owned(d, things)
           own(i) == [f \in DOMAIN things[i] \cup {"doc"} |-> IF f = "doc" THEN d ELSE things[i][f]]
<1>2. o = [i \in 1 .. Len(things) |-> own(i)]
  BY <1>1 DEF Owned
<1> HIDE DEF o, own
<1>3. DOMAIN o = 1 .. Len(things) /\ \A i \in 1 .. Len(things) : o[i] \in ToSet(o)
  BY <1>2 DEF ToSet
<1>4. o \in [1 .. Len(things) -> ToSet(o)]
  BY <1>2, <1>3
<1> QED
  BY <1>1, <1>4 DEF IsSequence, o

\* An extraction that passed its checks is added to the specs.
LEMMA ExtractedKeeps ==
  ASSUME Staged, SpecsHold, Extracted
  PROVE  Staged' /\ SpecsHold' /\ plan' = plan
<1>1. stage = "documents" /\ turn \in Documents
  BY SpecOK, Wordy DEF Extracted
<1> DEFINE d == leaf["spec"].out
           new == Enriched(turn, d)
<1>2. d \in SpecDrafts[turn] /\ Grounded(new, Found[turn])
  BY DEF Extracted, Staged, Sound, SoundSpec, Leaves
<1>3. IsSequence(d.rows) /\ IsSequence(d.evidence) /\ IsSequence(d.equations) /\ IsSequence(d.figures)
  BY <1>1, <1>2, DraftsAssumption
<1>4. Extract(new)
  <2>1. /\ new.doc = turn /\ new.rows = Owned(turn, d.rows) /\ new.evidence = Owned(turn, d.evidence)
        /\ new.equations = Owned(turn, d.equations) /\ new.figures = Owned(turn, d.figures)
    BY DEF Enriched
  <2> HIDE DEF new, d
  <2> QED
    BY <1>1, <1>2, <1>3, <2>1, OwnedSequence DEF Extract
<1>5. /\ specs' = Append(specs, new) /\ leaf' = [leaf EXCEPT !["spec"] = Idle]
      /\ UNCHANGED <<stage, spec, plan>>
  BY DEF Extracted
<1> HIDE DEF new, d
<1>6. IsSequence(specs') /\ ToSet(specs') = ToSet(specs) \cup {new}
  <2>1. specs \in Seq(ToSet(specs) \cup {new}) /\ specs' \in Seq(ToSet(specs) \cup {new})
    BY <1>5 DEF SpecsHold, IsSequence
  <2>2. /\ DOMAIN specs = 1 .. Len(specs) /\ DOMAIN specs' = 1 .. Len(specs) + 1 /\ Len(specs) \in Nat
        /\ specs'[Len(specs) + 1] = new /\ \A i \in 1 .. Len(specs) : specs'[i] = specs[i]
    BY <1>5, <2>1
  <2>3. ToSet(specs') = ToSet(specs) \cup {new}
    BY <2>2 DEF ToSet
  <2> QED
    BY <2>1, <2>3 DEF IsSequence
<1>7. SpecsHold'
  BY <1>1, <1>4, <1>5, <1>6, StillReading DEF SpecsHold, Extract
<1>8. leaf' = [x \in Leaves |-> leaf'[x]] /\ \A x \in Leaves : leaf'[x] = Idle
  BY <1>1, <1>5, StillReading DEF Staged, Leaves
<1>9. Staged'
  BY <1>1, <1>5, <1>8, Wordy DEF Staged, Leaves
<1> QED
  BY <1>5, <1>7, <1>9

\* The steps of reading documents.
LEMMA DocumentsStep ==
  ASSUME Staged, SpecsHold,
         ParseFails \/ Parsed \/ Extracted \/ NotExtracted \/ ExtractionBreaks
  PROVE  Staged' /\ SpecsHold' /\ stage # "finished" /\ plan' = plan
<1>1. CASE ParseFails
  BY <1>1, SkippedKeeps DEF ParseFails, AtDocument
<1>2. ASSUME NEW now, now.leaf = leaf, NEW t, stage = "documents", turn \in Documents,
             Becomes(Called(now, "spec", t, FALSE)), UNCHANGED <<stage, turn, specs, spec>>
      PROVE  Staged' /\ SpecsHold'
  <2>1. leaf' = Called(now, "spec", t, FALSE).leaf /\ leaf = [x \in Leaves |-> leaf[x]]
    BY <1>2 DEF Becomes, Staged
  <2>2. /\ leaf' = [x \in Leaves |-> leaf'[x]] /\ \A x \in Leaves \ {"spec"} : leaf'[x] = leaf[x]
        /\ leaf'["spec"].how # "ok"
    <3>1. "spec" \in Leaves
      BY DEF Leaves
    <3>2. Asked("spec", leaf, leaf')
      BY <1>2, <2>1, <3>1, CalledLeaf
    <3> QED
      BY <3>2 DEF Asked
  <2>3. \A x \in Leaves \ {"spec"} : leaf'[x] = Idle
    BY <1>2, <2>2, StillReading
  <2> QED
    BY <1>2, <2>2, <2>3, Wordy DEF Staged, SpecsHold, Leaves
<1>3. CASE Parsed
  <2>1. Now.leaf = leaf
    BY DEF Now
  <2> QED
    BY <1>2, <1>3, <2>1 DEF Parsed, AtDocument, Call, documents
<1>4. CASE Extracted
  BY <1>4, ExtractedKeeps, SpecOK, Wordy DEF Extracted
<1>5. CASE NotExtracted
  <2>1. leaf["spec"].how \in Flaws \cup {"late", "cap"}
    BY <1>5 DEF NotExtracted
  <2>2. stage = "documents" /\ turn \in Documents
    BY <2>1, SpecOK, NoneAssumption DEF Hows
  <2>3. \/ DocumentFails
        \/ \E c : /\ Becomes(Called([Now EXCEPT !.context = c], "spec", leaf["spec"].tries + 1, FALSE))
                  /\ UNCHANGED <<stage, why, documents, spec, budget, built, plan>>
    BY <1>5 DEF NotExtracted
  <2>4. CASE DocumentFails
    BY <2>2, <2>4, SkippedKeeps
  <2>5. ASSUME NEW c, Becomes(Called([Now EXCEPT !.context = c], "spec", leaf["spec"].tries + 1, FALSE)),
               UNCHANGED <<stage, why, documents, spec, budget, built, plan>>
        PROVE  Staged' /\ SpecsHold' /\ plan' = plan
    <3>1. [Now EXCEPT !.context = c].leaf = leaf
      BY DEF Now
    <3> QED
      BY <1>2, <2>2, <2>5, <3>1 DEF documents
  <2> QED
    BY <2>2, <2>3, <2>4, <2>5
<1>6. CASE ExtractionBreaks
  <2>1. stage = "documents"
    BY <1>6, SpecOK, NoneAssumption DEF ExtractionBreaks, Hows
  <2> QED
    BY <1>6, <2>1, FailedKeeps DEF ExtractionBreaks
<1> QED
  BY <1>1, <1>3, <1>4, <1>5, <1>6

\* The spec is what fusing the specs yields.
LEMMA FusedStep ==
  ASSUME Staged, SpecsHold, FuseDocuments
  PROVE  Staged' /\ SpecsHold' /\ stage # "finished" /\ plan' = plan
<1>1. stage = "documents" /\ turn \notin Documents /\ UNCHANGED documents
  BY DEF FuseDocuments
<1>2. CASE specs = <<>>
  BY <1>1, <1>2, FailedKeeps DEF FuseDocuments
<1>3. CASE specs # <<>>
  <2>1. spec' = Fuse(specs) /\ stage' = "fused" /\ UNCHANGED <<specs, leaf, plan>>
    BY <1>1, <1>3 DEF FuseDocuments, documents
  <2>2. \A x \in Leaves : leaf[x] = Idle
    BY <1>1, StillReading DEF Staged, Leaves
  <2> QED
    BY <1>1, <2>1, <2>2, Wordy DEF Staged, SpecsHold, Leaves
<1> QED
  BY <1>2, <1>3

\* Two leaves are called at once.
LEMMA GeneratedStep ==
  ASSUME Staged, SpecsHold, Generate
  PROVE  Staged' /\ SpecsHold' /\ stage # "finished" /\ plan' = plan
<1>1. stage = "fused" /\ UNCHANGED documents
  BY DEF Generate
<1>2. CASE ~FitForPlan(spec)
  BY <1>1, <1>2, FailedKeeps DEF Generate
<1>3. CASE FitForPlan(spec)
  <2> DEFINE one == Called(Now, "compose", 1, FALSE)
  <2>1. /\ leaf' = Called(one, "script", 1, FALSE).leaf
        /\ stage' = "compose" /\ UNCHANGED <<spec, specs, plan>>
    BY <1>1, <1>3 DEF Generate, Becomes, documents
  <2>2. Now.leaf = leaf /\ leaf = [x \in Leaves |-> leaf[x]] /\ \A x \in Leaves : leaf[x] = Idle
    BY <1>1 DEF Now, Staged, Leaves
  <2>3. /\ one.leaf = [x \in Leaves |-> one.leaf[x]]
        /\ \A x \in Leaves \ {"compose"} : one.leaf[x] = Idle
        /\ one.leaf["compose"].how # "ok"
    <3>1. "compose" \in Leaves
      BY DEF Leaves
    <3>2. Asked("compose", leaf, one.leaf)
      BY <2>2, <3>1, CalledLeaf
    <3> QED
      BY <2>2, <3>2 DEF Asked
  <2> HIDE DEF one
  <2>4. /\ leaf' = [x \in Leaves |-> leaf'[x]]
        /\ \A x \in Leaves \ {"script"} : leaf'[x] = one.leaf[x]
        /\ leaf'["script"].how # "ok"
    <3>1. "script" \in Leaves
      BY DEF Leaves
    <3>2. Asked("script", one.leaf, leaf')
      BY <2>1, <2>3, <3>1, CalledLeaf
    <3> QED
      BY <3>2 DEF Asked
  <2>5. leaf'["spec"] = Idle /\ leaf'["detect"] = Idle /\ \A x \in Leaves : leaf'[x].how # "ok"
    BY <2>3, <2>4, Wordy DEF Leaves
  <2>6. Staged'
    BY <2>1, <2>4, <2>5 DEF Staged, Leaves
  <2> QED
    BY <1>1, <2>1, <2>6 DEF SpecsHold
<1> QED
  BY <1>2, <1>3

\* A leaf is called at a stage that waits for it, the others as they were.
LEMMA CalledAt ==
  ASSUME Staged, SpecsHold, NEW l \in Leaves, Call(l, 1), UNCHANGED <<turn, specs, spec>>,
         \/ l = "compose" /\ stage = "compose" /\ stage' = "compose"
         \/ l = "detect" /\ stage = "detect" /\ stage' = "detect"
         \/ /\ l = "detect" /\ stage = "compose" /\ stage' = "detect"
            /\ leaf["compose"].how = "ok" /\ leaf["script"].at = "settled"
  PROVE  Staged' /\ SpecsHold'
<1>1. Now.leaf = leaf /\ leaf' = Called(Now, l, 1, FALSE).leaf /\ leaf = [x \in Leaves |-> leaf[x]]
  BY DEF Call, Becomes, Now, Staged
<1>2. /\ leaf' = [x \in Leaves |-> leaf'[x]] /\ \A x \in Leaves \ {l} : leaf'[x] = leaf[x]
      /\ leaf'[l].how # "ok"
  <2>1. Asked(l, leaf, leaf')
    BY <1>1, CalledLeaf
  <2> QED
    BY <2>1 DEF Asked
<1>3. ASSUME NEW x \in Leaves, leaf'[x].how = "ok"
      PROVE  leaf'[x].at = "settled" /\ leaf'[x].out \in Sound(x)'
  <2>1. x # l /\ leaf'[x] = leaf[x] /\ leaf[x].out \in Sound(x) /\ leaf[x].at = "settled"
    BY <1>2, <1>3 DEF Staged
  <2>2. x = "detect" => leaf'["compose"] = leaf["compose"]
    BY <1>2, <1>3, <2>1, Wordy DEF Staged, Leaves
  <2> QED
    BY <2>1, <2>2, SoundSame
<1>4. Staged'
  BY <1>2, <1>3, Wordy DEF Staged, Leaves
<1> QED
  BY <1>4 DEF SpecsHold

\* Giving up is a way to fail.
LEMMA GaveUp ==
  ASSUME SpecsHold, NEW l, GivesUp(l), UNCHANGED documents
  PROVE  Staged' /\ SpecsHold' /\ plan' = plan
BY FailedKeeps DEF GivesUp

\* The composer is asked again, given up on, or followed.
LEMMA ComposedKeeps ==
  ASSUME Staged, SpecsHold, Composed
  PROVE  Staged' /\ SpecsHold' /\ stage # "finished" /\ plan' = plan
<1>1. /\ stage = "compose" /\ UNCHANGED <<turn, specs>> /\ UNCHANGED documents
      /\ leaf["script"].at = "settled"
  BY DEF Composed, documents
<1>2. CASE RetryLeaf("compose")
  BY <1>1, <1>2, CalledAt DEF RetryLeaf, Leaves
<1>3. CASE GivesUp("compose")
  BY <1>1, <1>3, GaveUp
<1>4. CASE /\ leaf["compose"].how = "ok" /\ stage' = "detect" /\ Call("detect", 1)
           /\ UNCHANGED <<why, spec, budget, plan>>
  BY <1>1, <1>4, CalledAt DEF Leaves
<1> QED
  BY <1>1, <1>2, <1>3, <1>4 DEF Composed

\* The same of detecting, after which both answers stand.
LEMMA DetectedKeeps ==
  ASSUME Staged, SpecsHold, Detected
  PROVE  Staged' /\ SpecsHold' /\ stage # "finished" /\ plan' = plan
<1>1. stage = "detect" /\ UNCHANGED <<turn, specs>> /\ UNCHANGED documents
  BY DEF Detected, documents
<1>2. CASE RetryLeaf("detect")
  BY <1>1, <1>2, CalledAt DEF RetryLeaf, Leaves
<1>3. CASE GivesUp("detect")
  BY <1>1, <1>3, GaveUp
<1>4. CASE Fails("provider")
  BY <1>1, <1>4, FailedKeeps
<1>5. CASE leaf["detect"].how = "ok" /\ stage' = "assemble" /\ UNCHANGED <<spec, leaf, plan>>
  <2>1. UNCHANGED <<turn, spec, leaf>>
    BY <1>1, <1>5
  <2>2. \A x \in Leaves : Sound(x)' = Sound(x)
    BY <2>1, SoundSame
  <2>3. Staged'
    BY <1>1, <1>5, <2>2 DEF Staged, Leaves
  <2> QED
    BY <1>1, <1>5, <2>3 DEF SpecsHold
<1> QED
  BY <1>1, <1>2, <1>3, <1>4, <1>5 DEF Detected

\* Nothing of it changes.
LEMMA SameKeeps ==
  ASSUME Staged, SpecsHold, UNCHANGED <<stage, turn, specs, spec, leaf>>
  PROVE  Staged' /\ SpecsHold'
<1>1. \A x \in Leaves : Sound(x)' = Sound(x)
  BY SoundSame
<1> QED
  BY <1>1 DEF Staged, SpecsHold, Leaves

\* A rerun starts from the stored spec with idle leaves.
LEMMA RerunKeeps ==
  ASSUME Staged, SpecsHold, Rerun
  PROVE  Staged' /\ SpecsHold' /\ stage # "finished" /\ plan' = plan
<1>1. stage = "failed" /\ spec # None /\ stage' = "fused" /\ UNCHANGED <<turn, specs, spec, leaf, plan>>
  BY DEF Rerun, documents
<1>2. \A x \in Leaves : leaf[x] = Idle
  BY <1>1 DEF Staged, Leaves
<1> QED
  BY <1>1, <1>2, Wordy DEF Staged, SpecsHold, Leaves

----------------------------------------------------------------------------
(***************************************************************************)
(* Guidance.                                                               *)
(***************************************************************************)

\* What one draft comes to is at most one detail.
LEMMA AcceptedSequence ==
  ASSUME NEW details, NEW draft, NEW cards
  PROVE  LET a == Accepted(details, draft, cards) IN a = <<>> \/ \E d : a = <<d>>
BY DEF Accepted, DocumentDetail, OtherDetail

\* So what all of them come to is a sequence.
LEMMA DraftedSequence ==
  ASSUME NEW drafts, IsSequence(drafts), NEW reqs, NEW cards
  PROVE  IsSequence(Drafted(drafts, reqs, cards))
<1> DEFINE L == Len(drafts)
           taken(d) == d # Broken /\ d.req \in reqs /\ ~MentionsOther(d, reqs)
           add(sofar, n) == sofar \o (IF taken(drafts[n]) THEN Accepted(sofar, drafts[n], cards) ELSE <<>>)
           Solves(f, m) == f = [n \in 0 .. m |-> IF n = 0 THEN <<>> ELSE add(f[n - 1], n)]
           details == CHOOSE f : Solves(f, L)
           T == {m \in 0 .. L : \E f : Solves(f, m)}
<1>1. L \in Nat
  BY DEF IsSequence
<1>2. Drafted(drafts, reqs, cards) = details[L]
  BY DEF Drafted
<1>a. \A sofar, n : IsSequence(sofar) => IsSequence(add(sofar, n))
  <2> SUFFICES ASSUME NEW sofar, NEW n, IsSequence(sofar) PROVE IsSequence(add(sofar, n))
    OBVIOUS
  <2>1. PICK more : more = (IF taken(drafts[n]) THEN Accepted(sofar, drafts[n], cards) ELSE <<>>)
    OBVIOUS
  <2>2. more = <<>> \/ \E d : more = <<d>>
    BY <2>1, AcceptedSequence
  <2>3. add(sofar, n) = sofar \o more
    BY <2>1
  <2> HIDE DEF add
  <2>4. IsSequence(more)
    BY <2>2, ShortSequences
  <2> QED
    BY <2>3, <2>4, ConcatSequence
<1> HIDE DEF add
<1>3. 0 \in T
  <2>1. Solves([n \in 0 .. 0 |-> <<>>], 0) /\ 0 \in 0 .. L
    BY <1>1
  <2> HIDE DEF Solves
  <2> QED
    BY <2>1
<1>4. ASSUME NEW m \in 1 .. L, m - 1 \in T PROVE m \in T
  <2>1. PICK f : Solves(f, m - 1)
    BY <1>4
  <2> DEFINE g == [n \in 0 .. m |-> IF n = 0 THEN <<>> ELSE add(f[n - 1], n)]
  <2>2. \A n \in 0 .. m - 1 : g[n] = f[n]
    BY <1>1, <2>1
  <2>3. Solves(g, m)
    BY <1>1, <2>2
  <2> HIDE DEF g, Solves
  <2> QED
    BY <1>1, <2>3
<1> HIDE DEF T
<1>5. 0 .. L \subseteq T
  BY <1>1, <1>3, <1>4, UpToInduction
<1>6. \E f : Solves(f, L)
  BY <1>1, <1>5 DEF T
<1> HIDE DEF Solves
<1>7. Solves(details, L)
  BY <1>6
<1> HIDE DEF details
<1> DEFINE S == {n \in 0 .. L : IsSequence(details[n])}
<1>8. details[0] = <<>> /\ \A n \in 1 .. L : details[n] = add(details[n - 1], n)
  BY <1>1, <1>7 DEF Solves
<1>9. 0 \in S
  <2>1. IsSequence(<<>>)
    BY ShortSequences
  <2> QED
    BY <1>1, <1>8, <2>1
<1>10. ASSUME NEW n \in 1 .. L, n - 1 \in S PROVE n \in S
  BY <1>1, <1>8, <1>10, <1>a
<1> HIDE DEF S
<1>11. 0 .. L \subseteq S
  BY <1>1, <1>9, <1>10, UpToInduction
<1> QED
  BY <1>1, <1>2, <1>11 DEF S

----------------------------------------------------------------------------
(* What a validation leaves of a detail.                                   *)
Fine(d, reqs, citable) ==
  /\ d.cites \subseteq citable /\ d.req \in reqs
  /\ d.basis \in DocumentBases => d.cites # {} /\ d.grounded = "cited"

\* Examining a detail leaves it, an unverified one in its place, or none.
LEMMA ExaminedFacts ==
  ASSUME NEW details, NEW d, NEW reqs, NEW citable
  PROVE  LET left == Examined(details, d, reqs, citable)
         IN left = <<>> \/ \E x : left = <<x>> /\ Fine(x, reqs, citable)
<1> DEFINE left == Examined(details, d, reqs, citable)
           u == Unverified(d.id, d.req)
<1>1. u.cites = {} /\ u.req = d.req /\ u.basis \notin DocumentBases
  BY DEF Unverified, DocumentBases
<1> HIDE DEF u
<1>2. left = <<>> \/ (d.req \in reqs /\ (left = <<d>> \/ left = <<u>>))
  BY DEF Examined, u
<1>3. left = <<d>> => left = <<>> \/ left = <<u>> \/ Fine(d, reqs, citable)
  BY <1>2 DEF Examined, Fine, u
<1>4. d.req \in reqs => Fine(u, reqs, citable)
  BY <1>1 DEF Fine
<1> HIDE DEF left
<1> QED
  BY <1>2, <1>3, <1>4 DEF left

\* Every detail that is left is fine.
LEMMA ValidatedFacts ==
  ASSUME NEW details, IsSequence(details), NEW reqs, NEW citable
  PROVE  /\ IsSequence(Validated(details, reqs, citable))
         /\ \A d \in ToSet(Validated(details, reqs, citable)) : Fine(d, reqs, citable)
<1> DEFINE n == Len(details)
           ss == [k \in DOMAIN details |-> Examined(details, details[k], reqs, citable)]
           E == UNION {ToSet(ss[k]) : k \in 1 .. n}
<1>1. n \in Nat /\ DOMAIN details = 1 .. n
  BY DEF IsSequence
<1>2. Validated(details, reqs, citable) = FlattenSeq(ss)
  BY DEF Validated
<1>3. \A k \in 1 .. n : ss[k] = <<>> \/ \E x : ss[k] = <<x>> /\ Fine(x, reqs, citable)
  BY <1>1, ExaminedFacts
<1>4. ss = [k \in 1 .. n |-> ss[k]]
  BY <1>1
<1> HIDE DEF ss, n
<1>5. \A k \in 1 .. n : \A d \in ToSet(ss[k]) : Fine(d, reqs, citable)
  BY <1>3 DEF ToSet
<1>6. \A k \in 1 .. n : ss[k] \in Seq(E)
  <2> SUFFICES ASSUME NEW k \in 1 .. n PROVE ss[k] \in Seq(E)
    OBVIOUS
  <2>1. ToSet(ss[k]) \subseteq E
    OBVIOUS
  <2> HIDE DEF E
  <2>2. CASE ss[k] = <<>>
    BY <2>2
  <2>3. ASSUME NEW x, ss[k] = <<x>> PROVE ss[k] \in Seq(E)
    <3>1. x \in ToSet(ss[k])
      BY <2>3 DEF ToSet
    <3> QED
      BY <2>1, <2>3, <3>1
  <2> QED
    BY <1>3, <2>2, <2>3
<1>7. ss \in [1 .. n -> Seq(E)]
  BY <1>4, <1>6
<1>8. FlattenSeq(ss) \in Seq(E) /\ ToSet(FlattenSeq(ss)) = E
  BY <1>1, <1>7, FlattenElements
<1>9. \A d \in E : Fine(d, reqs, citable)
  BY <1>5
<1> QED
  BY <1>2, <1>8, <1>9 DEF IsSequence

\* So is all guidance a plan may get, and without steps there is none.
LEMMA GuidedFacts ==
  ASSUME NEW steps, NEW guidance \in Guided(steps)
  PROVE  /\ IsSequence(guidance)
         /\ steps = <<>> => guidance = <<>>
         /\ \A d \in ToSet(guidance) : Fine(d, Requirements(steps), Citable)
<1> DEFINE reqs == Requirements(steps)
<1>0. IsSequence(<<>>) /\ ToSet(<<>>) = {}
  BY ShortSequences
<1>1. CASE steps = <<>>
  <2>1. guidance = <<>>
    BY <1>1 DEF Guided
  <2> QED
    BY <1>0, <2>1
<1>2. CASE steps # <<>>
  <2>1. PICK d \in Attempts(reqs) : guidance = Validated(d, reqs, Citable)
    BY <1>2 DEF Guided
  <2>2. PICK a \in GuidanceAnswers : d = Drafted(a, reqs, Cards)
    BY <2>1 DEF Attempts
  <2>3. IsSequence(a)
    BY <1>0, <2>2, DraftsAssumption DEF GuidanceAnswers
  <2>4. IsSequence(d)
    BY <2>2, <2>3, DraftedSequence
  <2> QED
    BY <1>2, <2>1, <2>4, ValidatedFacts
<1> QED
  BY <1>1, <1>2

----------------------------------------------------------------------------
(***************************************************************************)
(* A finished plan, and what a read makes of it.                           *)
(***************************************************************************)

PlanFields ==
  {"mapping", "cites", "script", "prompts", "steps", "breakdown", "outline", "guidance", "version",
   "gaps", "status"}

\* A plan as a read expects it.
Formed(p) ==
  /\ PlanFields \subseteq DOMAIN p
  /\ p.version \in {"none", "v2"} /\ p.status \in {"generated", "generation_failed"}
  /\ IsSequence(p.guidance)
  /\ p.status = "generated" => p.guidance # <<>>
  /\ p.guidance # <<>> => p.status = "generated" /\ p.gaps = Gaps(p.guidance, Requirements(p.steps))

OpenLeft(p) ==
  (\A m \in ToSet(p.mapping) : ~Hits(m.param, spec.conflicts)) /\ ~Assigns(p.script, spec.conflicts)

AllCited(p) ==
  /\ \A place \in p.cites : Whitelisted(place, spec)
  /\ \A q \in ToSet(p.prompts) : \A place \in q.cites : Whitelisted(place, spec)
  /\ \A s \in ToSet(p.steps) : \A place \in s.cites : Whitelisted(place, spec)
  /\ \A d \in ToSet(p.guidance) : Fine(d, Requirements(p.steps), Citable)

Paired(p) ==
  /\ [i \in DOMAIN p.prompts |-> p.prompts[i].param]
       = [i \in DOMAIN Sentinels(p.mapping) |-> Sentinels(p.mapping)[i].param]
  /\ \A q \in ToSet(p.prompts) : Cardinality(q.binds) = 1
  /\ p.outline <=> p.steps = <<>>
  /\ p.guidance # <<>> => ~p.outline

\* Steps that have their place, and whose links and parameters hold.
StepsFit(steps, mapping) ==
  /\ SaneSteps(steps) /\ DistinctIds(steps) /\ Rooted(steps)
  /\ ParamsMapped(steps, mapping) /\ OneBearer(steps) /\ LinksInSight(steps)

\* The breakdown of a plan with steps holds their texts.
BrokenDown(p) == p.steps # <<>> => p.breakdown = Texts(p.steps)

Fits(p) ==
  /\ Formed(p) /\ OpenLeft(p) /\ AllCited(p) /\ Paired(p) /\ StepsFit(p.steps, p.mapping)
  /\ BrokenDown(p)

\* The steps a plan may get.
LEMMA StepsFacts ==
  ASSUME NEW drafts \in StepDrafts
  PROVE  /\ StepsFit(StepsOf(drafts), Draft.mapping)
         /\ \A s \in ToSet(StepsOf(drafts)) : \A place \in s.cites : Whitelisted(place, spec)
<1> DEFINE mapping == Draft.mapping
           steps == Gated(Sanitized(drafts), mapping, Draft.recs)
           new == Degraded(steps)
           v == [i \in DOMAIN steps |-> {p \in StepPlaces(steps[i].cites, spec) : Whitelisted(p, spec)}]
<1>1. StepsOf(drafts) = <<>> \/ StepsOf(drafts) = new
  BY DEF StepsOf
<1>2. /\ StepsFit(<<>>, mapping)
      /\ \A s \in ToSet(<<>>) : \A place \in s.cites : Whitelisted(place, spec)
  BY ShortSequences
  DEF StepsFit, SaneSteps, DistinctIds, Rooted, ParamsMapped, OneBearer, LinksInSight
<1>3. Placed(steps) /\ ParamsMapped(steps, mapping) /\ OneBearer(steps) /\ LinksInSight(steps)
  <2>1. IsSequence(drafts) /\ \A s \in ToSet(drafts) \ {Broken} : Sane(s)
    BY DraftsAssumption DEF Sane
  <2>2. SaneSteps(Sanitized(drafts))
    BY <2>1, SanitizedSane
  <2> HIDE DEF mapping
  <2> QED
    BY <2>2, GatedFacts
<1>4. Updates(new, steps, "cites", v)
  BY DEF Degraded, Updates
<1>5. \A i \in DOMAIN steps : \A place \in v[i] : Whitelisted(place, spec)
  OBVIOUS
<1> HIDE DEF mapping, steps, new, v
<1>6. "cites" \in StepFields \ {"id", "deps", "blocks", "links"} /\ SaneSteps(steps)
  BY <1>3 DEF StepFields, Placed
<1>7. Replaces(new, steps, "cites") /\ \A i \in DOMAIN steps : new[i]["cites"] = v[i]
  BY <1>4, <1>6, ReplacedSteps
<1>8. Placed(new)
  BY <1>3, <1>6, <1>7, PlacedStays
<1>9. /\ DOMAIN new = DOMAIN steps
      /\ \A i \in DOMAIN steps : /\ new[i].blocks = steps[i].blocks /\ new[i].params = steps[i].params
                                 /\ new[i].links = steps[i].links /\ new[i].cites = v[i]
  BY <1>7 DEF Replaces, StepFields
<1>10. ParamsMapped(new, mapping) /\ OneBearer(new) /\ LinksInSight(new)
  <2>1. ParamsMapped(new, mapping)
    BY <1>3, <1>9 DEF ParamsMapped
  <2>2. \A i \in DOMAIN steps : \A ref : Brings(new, i, ref) = Brings(steps, i, ref)
    BY <1>9 DEF Brings
  <2>3. OneBearer(new)
    BY <1>3, <1>9, <2>2 DEF OneBearer
  <2>4. \A i \in DOMAIN steps : \A j \in 1 .. i : j \in DOMAIN steps
    BY <1>6, SequenceDomain DEF SaneSteps
  <2>5. LinksInSight(new)
    BY <1>3, <1>9, <2>2, <2>4 DEF LinksInSight
  <2> QED
    BY <2>1, <2>3, <2>5
<1>11. StepsFit(new, mapping) /\ \A s \in ToSet(new) : \A place \in s.cites : Whitelisted(place, spec)
  BY <1>5, <1>8, <1>9, <1>10 DEF StepsFit, Placed, ToSet
<1> QED
  BY <1>1, <1>2, <1>11 DEF mapping

(* What was answered apart fits: each answer passed its checks against     *)
(* what the others are.                                                    *)
LEMMA MergedFits ==
  ASSUME Staged, SpecsHold, stage = "assemble", NEW drafts \in StepDrafts, NEW steps, steps = StepsOf(drafts),
         NEW guidance \in Guided(steps), NEW breakdown \in Breakdowns(steps)
  PROVE  Fits(Merged(steps, breakdown, guidance))
<1> DEFINE p == Merged(steps, breakdown, guidance)
           draft == leaf["compose"].out
           asked == Sentinels(draft.mapping)
           questions == leaf["detect"].out
<1>1. /\ draft \in ComposerDrafts /\ SoundPlan(draft) /\ SoundPrompts(questions)
      /\ leaf["script"].how = "ok" => SoundScript(leaf["script"].out)
  BY DEF Staged, Sound, Leaves
<1>2. /\ p.mapping = draft.mapping /\ p.cites = Cites(draft.cites) /\ p.steps = steps
      /\ p.breakdown = breakdown /\ p.guidance = guidance /\ p.outline = (steps = <<>>)
      /\ p.script = IF leaf["script"].how = "ok" THEN leaf["script"].out ELSE {}
      /\ p.version = IF guidance = <<>> THEN "none" ELSE "v2"
      /\ p.gaps = IF guidance = <<>> THEN {} ELSE Gaps(guidance, Requirements(steps))
      /\ p.status = IF guidance = <<>> THEN "generation_failed" ELSE "generated"
      /\ p.prompts = [i \in DOMAIN questions |->
                        [param |-> questions[i].param, binds |-> Bindings(questions[i]),
                         cites |-> Cites(<<questions[i].cite>>)]]
      /\ DOMAIN p = PlanFields
  BY DEF Merged, Draft, PlanFields
<1>3. /\ IsSequence(guidance) /\ (steps = <<>> => guidance = <<>>)
      /\ \A d \in ToSet(guidance) : Fine(d, Requirements(steps), Citable)
  BY GuidedFacts
<1> HIDE DEF p
<1>4. Formed(p)
  BY <1>2, <1>3 DEF Formed
<1>5. OpenLeft(p)
  <2>1. ~Assigns({}, spec.conflicts)
    BY DEF Assigns
  <2> QED
    BY <1>1, <1>2, <2>1 DEF OpenLeft, SoundPlan, SoundScript
<1>6. AllCited(p)
  <2>1. \A place \in p.cites : Whitelisted(place, spec)
    BY <1>1, <1>2 DEF SoundPlan, AllWhitelisted
  <2>2. ASSUME NEW q \in ToSet(p.prompts) PROVE \A place \in q.cites : Whitelisted(place, spec)
    <3>1. PICK i \in DOMAIN questions : q.cites = Cites(<<questions[i].cite>>)
      BY <1>2 DEF ToSet
    <3> QED
      BY <1>1, <3>1 DEF SoundPrompts, AllWhitelisted
  <2>3. \A s \in ToSet(p.steps) : \A place \in s.cites : Whitelisted(place, spec)
    BY <1>2, StepsFacts
  <2> QED
    BY <1>2, <1>3, <2>1, <2>2, <2>3 DEF AllCited
<1>7. Paired(p)
  <2>1. [i \in DOMAIN questions |-> questions[i].param] = [i \in DOMAIN asked |-> asked[i].param]
    BY <1>1 DEF SoundPrompts
  <2>2. IsSequence(draft.mapping)
    BY <1>1, DraftsAssumption
  <2>3. ToSet(asked) = {draft.mapping[k] : k \in DOMAIN draft.mapping
                                          \cap {i \in DOMAIN draft.mapping : draft.mapping[i].missing}}
    BY <2>2, PickedSequence DEF Sentinels
  <2>4. ASSUME NEW i \in DOMAIN questions PROVE Cardinality(Bindings(questions[i])) = 1
    <3>1. i \in DOMAIN asked /\ asked[i].param = questions[i].param
      BY <2>1
    <3>2. asked[i] \in ToSet(asked)
      BY <3>1 DEF ToSet
    <3> HIDE DEF asked
    <3>3. PICK k \in DOMAIN draft.mapping : draft.mapping[k].missing /\ asked[i] = draft.mapping[k]
      BY <2>3, <3>2
    <3>4. \A j \in DOMAIN draft.mapping : draft.mapping[j].param = draft.mapping[k].param => j = k
      BY <1>1, <3>3 DEF SoundPlan
    <3>5. Bindings(questions[i]) = {k}
      BY <3>1, <3>3, <3>4 DEF Bindings, Draft
    <3> QED
      BY <3>5, FS_Singleton
  <2>5. ASSUME NEW q \in ToSet(p.prompts) PROVE Cardinality(q.binds) = 1
    <3> DEFINE asks(i) == [param |-> questions[i].param, binds |-> Bindings(questions[i]),
                           cites |-> Cites(<<questions[i].cite>>)]
    <3>a. p.prompts = [i \in DOMAIN questions |-> asks(i)]
      BY <1>2
    <3>b. \A i : asks(i).binds = Bindings(questions[i])
      OBVIOUS
    <3> HIDE DEF asks
    <3>c. PICK i \in DOMAIN questions : q = asks(i)
      BY <3>a DEF ToSet
    <3>1. i \in DOMAIN questions /\ q.binds = Bindings(questions[i])
      BY <3>b, <3>c
    <3> QED
      BY <2>4, <3>1
  <2>6. [i \in DOMAIN p.prompts |-> p.prompts[i].param] = [i \in DOMAIN questions |-> questions[i].param]
    BY <1>2
  <2> QED
    BY <1>2, <1>3, <2>1, <2>5, <2>6 DEF Paired
<1>8. StepsFit(p.steps, p.mapping)
  <2>1. Draft = draft
    BY DEF Draft
  <2> HIDE DEF draft
  <2> QED
    BY <1>2, <2>1, StepsFacts
<1>9. BrokenDown(p)
  BY <1>2 DEF Breakdowns, BrokenDown
<1> QED
  BY <1>4, <1>5, <1>6, <1>7, <1>8, <1>9 DEF Fits, p

----------------------------------------------------------------------------
(* A read gives a plan back, with at most its guidance gone.               *)
Kept(p, r) ==
  /\ PlanFields \subseteq DOMAIN r
  /\ \A f \in {"mapping", "cites", "script", "prompts", "steps", "outline"} : r[f] = p[f]

(* The repair of a stored row leaves a plan of today alone, but for its    *)
(* guidance.                                                               *)
LEMMA ScrubbedFacts ==
  ASSUME NEW p, Formed(p)
  PROVE  /\ Kept(p, Scrubbed(p)) /\ Scrubbed(p).status = p.status
         /\ IsSequence(Scrubbed(p).guidance)
<1>1. /\ p.status # "absent" /\ p.status \in Statuses /\ p.version # "unreadable" /\ p.version # "v1"
      /\ PlanFields \subseteq DOMAIN p
  BY DEF Formed, Statuses, EmptyStatuses
<1>2. CASE p.version = "none"
  <2>1. Scrubbed(p) = WithoutGuidance(p, p.status)
    BY <1>1, <1>2 DEF Scrubbed
  <2> QED
    BY <1>1, <2>1, ShortSequences DEF WithoutGuidance, Kept, PlanFields
<1>3. CASE p.version = "v2"
  <2>1. Scrubbed(p) = Repaired([p EXCEPT !.status = p.status])
    BY <1>1, <1>3 DEF Scrubbed
  <2>2. IsSequence(Intact(p.guidance))
    BY IntactSequence DEF Formed
  <2> QED
    BY <1>1, <2>1, <2>2 DEF Repaired, Kept, PlanFields
<1> QED
  BY <1>2, <1>3 DEF Formed

\* Reading validates guidance again and takes away what fails.
LEMMA ReadFacts ==
  ASSUME NEW p, Formed(p), NEW r, r = Read(Scrubbed(p), Requirements(p.steps), Citable)
  PROVE  /\ Kept(p, r) /\ IsSequence(r.guidance)
         /\ \A d \in ToSet(r.guidance) : Fine(d, Requirements(p.steps), Citable)
         /\ r.guidance # <<>> =>
              /\ p.status = "generated" /\ r.status = "generated"
              /\ r.gaps = Gaps(r.guidance, Requirements(p.steps))
<1> DEFINE s == Scrubbed(p)
           reqs == Requirements(p.steps)
           details == Validated(s.guidance, reqs, Citable)
<1>1. Kept(p, s) /\ s.status = p.status /\ IsSequence(s.guidance)
  BY ScrubbedFacts
<1>2. IsSequence(details) /\ \A d \in ToSet(details) : Fine(d, reqs, Citable)
  BY <1>1, ValidatedFacts
<1>3. s.status \in {"generated", "generation_failed"}
  BY <1>1 DEF Formed
<1>4. \/ \E status : r = WithoutGuidance(s, status)
      \/ r = [s EXCEPT !.guidance = details, !.gaps = Gaps(details, reqs)] /\ s.status = "generated"
  BY <1>3 DEF Read, EmptyStatuses
<1> HIDE DEF s, details, reqs
<1>5. ASSUME NEW status, r = WithoutGuidance(s, status)
      PROVE  Kept(p, r) /\ r.guidance = <<>>
  BY <1>1, <1>5 DEF WithoutGuidance, Kept, PlanFields
<1>6. CASE r = [s EXCEPT !.guidance = details, !.gaps = Gaps(details, reqs)] /\ s.status = "generated"
  <2>1. Kept(p, r) /\ r.guidance = details /\ r.gaps = Gaps(details, reqs) /\ r.status = s.status
    BY <1>1, <1>6 DEF Kept, PlanFields
  <2> QED
    BY <1>1, <1>2, <1>6, <2>1 DEF reqs
<1>7. CASE \E status : r = WithoutGuidance(s, status)
  BY <1>5, <1>7, ShortSequences
<1> QED
  BY <1>4, <1>6, <1>7

\* A plan that fits fits as it is read, too; only its version and status may differ.
LEMMA ReadFits ==
  ASSUME NEW p, Fits(p), NEW r, r = Read(Scrubbed(p), Requirements(p.steps), Citable)
  PROVE  /\ OpenLeft(r) /\ AllCited(r) /\ Paired(r) /\ StepsFit(r.steps, r.mapping)
         /\ r.steps = p.steps /\ r.mapping = p.mapping
         /\ IsSequence(r.guidance)
         /\ r.guidance # <<>> => r.status = "generated" /\ r.gaps = Gaps(r.guidance, Requirements(r.steps))
<1>1. Formed(p)
  BY DEF Fits
<1>2. /\ Kept(p, r) /\ IsSequence(r.guidance)
      /\ \A d \in ToSet(r.guidance) : Fine(d, Requirements(p.steps), Citable)
      /\ r.guidance # <<>> =>
           /\ p.status = "generated" /\ r.status = "generated"
           /\ r.gaps = Gaps(r.guidance, Requirements(p.steps))
  BY <1>1, ReadFacts
<1>3. /\ r.mapping = p.mapping /\ r.cites = p.cites /\ r.script = p.script
      /\ r.prompts = p.prompts /\ r.steps = p.steps /\ r.outline = p.outline
  BY <1>2 DEF Kept
<1>4. OpenLeft(r) /\ AllCited(r)
  BY <1>2, <1>3 DEF Fits, OpenLeft, AllCited
<1>5. r.guidance # <<>> => ~p.outline
  BY <1>2 DEF Fits, Paired, Formed
<1>6. Paired(r)
  BY <1>3, <1>5 DEF Fits, Paired
<1> QED
  BY <1>2, <1>3, <1>4, <1>6 DEF Fits

----------------------------------------------------------------------------
(***************************************************************************)
(* What the fused spec lists, the documents bear out.                      *)
(***************************************************************************)
LEMMA JoinedElements ==
  ASSUME SpecsHold, NEW f \in {"rows", "evidence", "equations", "figures"}, NEW ss,
         ss = [i \in DOMAIN specs |-> specs[i][f]]
  PROVE  ToSet(FlattenSeq(ss)) = UNION {ToSet(specs[i][f]) : i \in DOMAIN specs}
<1>1. Len(specs) \in Nat /\ DOMAIN specs = 1 .. Len(specs)
  BY SequenceDomain DEF SpecsHold
<1>2. \A i \in DOMAIN specs : IsSequence(specs[i][f])
  <2>1. \A i \in DOMAIN specs : Extract(specs[i])
    BY DEF SpecsHold, ToSet
  <2> QED
    BY <2>1 DEF Extract
<1>3. PICK n \in Nat : n = Len(specs)
  BY <1>1
<1>4. ss = [i \in 1 .. n |-> ss[i]] /\ \A i \in 1 .. n : ss[i] = specs[i][f]
  BY <1>1, <1>3
<1>5. \A i \in 1 .. n : IsSequence(ss[i])
  BY <1>1, <1>2, <1>3, <1>4
<1>6. ToSet(FlattenSeq(ss)) = UNION {ToSet(ss[i]) : i \in 1 .. n}
  BY <1>4, <1>5, FlattenedElements
<1> QED
  BY <1>1, <1>3, <1>4, <1>6

\* The parts of the fused spec; its conflicts are those of all rows.
LEMMA FusedFacts ==
  ASSUME NEW fused, fused = Fuse(specs)
  PROVE  /\ fused.evidence = FlattenSeq([i \in DOMAIN specs |-> specs[i]["evidence"]])
         /\ fused.equations = FlattenSeq([i \in DOMAIN specs |-> specs[i]["equations"]])
         /\ fused.figures = FlattenSeq([i \in DOMAIN specs |-> specs[i]["figures"]])
         /\ fused.conflicts = Conflicts(AllRows)
BY DEF Fuse, AllRows

\* What the fused spec lists, the parser found in one of its documents.
LEMMA WhitelistedIsVouched ==
  ASSUME SpecsHold, spec = Fuse(specs), NEW place, Whitelisted(place, spec)
  PROVE  place \in Vouched
<1> DEFINE held(i) == Places(specs[i].evidence) \cup Places(specs[i].equations) \cup Places(specs[i].figures)
<1>1. ASSUME NEW i \in DOMAIN specs PROVE held(i) \subseteq Found[specs[i].doc]
  <2>1. Extract(specs[i])
    BY DEF SpecsHold, ToSet
  <2>2. /\ IsSequence(specs[i].evidence) /\ IsSequence(specs[i].equations) /\ IsSequence(specs[i].figures)
        /\ Places(specs[i].evidence \o specs[i].equations \o specs[i].figures) \subseteq Found[specs[i].doc]
    BY <2>1 DEF Extract, Grounded
  <2>3. ToSet(specs[i].evidence \o specs[i].equations \o specs[i].figures)
          = ToSet(specs[i].evidence) \cup ToSet(specs[i].equations) \cup ToSet(specs[i].figures)
    BY <2>2, ConcatSequence
  <2> QED
    BY <2>2, <2>3 DEF Places
<1> HIDE DEF held
<1>2. \E f \in {"evidence", "equations", "figures"} :
        place \in {Place(x) : x \in UNION {ToSet(specs[i][f]) : i \in DOMAIN specs}}
  <2> DEFINE all(f) == FlattenSeq([i \in DOMAIN specs |-> specs[i][f]])
  <2>1. spec.evidence = all("evidence") /\ spec.equations = all("equations") /\ spec.figures = all("figures")
    BY FusedFacts
  <2>2. \A f \in {"evidence", "equations", "figures"} :
          ToSet(all(f)) = UNION {ToSet(specs[i][f]) : i \in DOMAIN specs}
    BY JoinedElements
  <2> HIDE DEF all
  <2>3. \E f \in {"evidence", "equations", "figures"} : place \in Places(all(f))
    BY <2>1 DEF Whitelisted
  <2> QED
    BY <2>2, <2>3 DEF Places
<1>3. PICK i \in DOMAIN specs : place \in held(i)
  <2>1. PICK f \in {"evidence", "equations", "figures"} :
          place \in {Place(x) : x \in UNION {ToSet(specs[i][f]) : i \in DOMAIN specs}}
    BY <1>2
  <2>2. PICK x \in UNION {ToSet(specs[i][f]) : i \in DOMAIN specs} : place = Place(x)
    BY <2>1
  <2>3. PICK i \in DOMAIN specs : x \in ToSet(specs[i][f])
    BY <2>2
  <2>4. place \in Places(specs[i][f])
    BY <2>2, <2>3 DEF Places
  <2> QED
    BY <2>4 DEF held
<1> QED
  BY <1>1, <1>3 DEF Vouched

\* A contested parameter is among the conflicts.
LEMMA ContestedHits ==
  ASSUME NEW rows, NEW p, Contested(rows, p)
  PROVE  Hits(p, Conflicts(rows))
<1> DEFINE of == {r \in ToSet(rows) : r.param = p}
<1>1. of # {}
  <2>1. Cardinality({r.doc : r \in of}) >= 2
    BY DEF Contested
  <2>2. Cardinality({}) = 0
    BY FS_EmptySet
  <2> HIDE DEF of
  <2>3. of = {} => {r.doc : r \in of} = {}
    OBVIOUS
  <2>4. of = {} => Cardinality({r.doc : r \in of}) = 0
    BY <2>2, <2>3
  <2> QED
    BY <2>1, <2>4
<1>2. PICK r \in ToSet(rows) : r.param = p
  BY <1>1
<1>3. [param |-> r.param, value |-> r.value] \in Conflicts(rows)
  BY <1>2 DEF Conflicts
<1>4. [param |-> r.param, value |-> r.value].param = p
  BY <1>2
<1> QED
  BY <1>3, <1>4 DEF Hits

----------------------------------------------------------------------------
(* The invariant, and that every step keeps it.                            *)
PlanInv ==
  /\ Staged /\ SpecsHold
  /\ plan # None => stage = "finished" /\ Fits(plan)

\* It holds at first.
LEMMA PlanInvInit == Init => PlanInv
<1> SUFFICES ASSUME Init PROVE PlanInv
  OBVIOUS
<1>1. leaf = AllIdle /\ stage = "documents" /\ specs = <<>> /\ spec = None /\ plan = None
  BY DEF Init
<1>2. Staged
  BY <1>1, QuietLeaves DEF Staged, Leaves
<1>3. SpecsHold
  BY <1>1, ShortSequences DEF SpecsHold
<1> QED
  BY <1>1, <1>2, <1>3 DEF PlanInv

\* Of a plan that stays only the spec could change whether it fits.
LEMMA FitsSame ==
  ASSUME UNCHANGED spec, NEW p, plan' = p, Fits(p)
  PROVE  Fits(plan)'
BY DEF Fits, OpenLeft, AllCited, Citable, Cards

\* The plan that is assembled fits.
LEMMA AssembledKeeps ==
  ASSUME PlanInv, Assemble
  PROVE  PlanInv'
<1>1. /\ stage = "assemble" /\ stage' = "finished" /\ leaf' = AllIdle
      /\ UNCHANGED <<turn, specs, spec>>
  BY DEF Assemble, Quiet, documents
<1>2. Staged' /\ SpecsHold'
  BY <1>1, QuietLeaves DEF PlanInv, Staged, SpecsHold, Leaves
<1>3. PICK drafts \in StepDrafts :
        \E guidance \in Guided(StepsOf(drafts)), breakdown \in Breakdowns(StepsOf(drafts)) :
          plan' = Merged(StepsOf(drafts), breakdown, guidance)
  BY DEF Assemble
<1>4. PICK guidance \in Guided(StepsOf(drafts)), breakdown \in Breakdowns(StepsOf(drafts)) :
        plan' = Merged(StepsOf(drafts), breakdown, guidance)
  BY <1>3
<1>5. Fits(Merged(StepsOf(drafts), breakdown, guidance))
  BY <1>1, MergedFits DEF PlanInv
<1>6. Fits(plan)'
  BY <1>1, <1>4, <1>5, FitsSame
<1> QED
  BY <1>1, <1>2, <1>6 DEF PlanInv

\* One case for each action.
LEMMA PlanInvStep ==
  ASSUME PlanInv, [Next]_vars
  PROVE  PlanInv'
<1>1. ASSUME Staged', SpecsHold', stage # "finished", plan' = plan PROVE PlanInv'
  BY <1>1 DEF PlanInv
<1>2. ASSUME UNCHANGED <<stage, turn, specs, spec, leaf, plan>> PROVE PlanInv'
  <2>1. Staged' /\ SpecsHold'
    BY <1>2, SameKeeps DEF PlanInv
  <2>2. Fits(plan) => Fits(plan)'
    BY <1>2, FitsSame
  <2> QED
    BY <1>2, <2>1, <2>2 DEF PlanInv
<1>3. ASSUME stage = "assemble", Fails("provider"), UNCHANGED documents PROVE PlanInv'
  BY <1>1, <1>3, FailedKeeps DEF PlanInv
<1>4. ASSUME NEW l \in Leaves,
             ProviderFails(l) \/ TooLate(l) \/ NotJson(l) \/ Malformed(l) \/ Answered(l)
      PROVE  PlanInv'
  BY <1>1, <1>4, FlightStep DEF PlanInv
<1>5. CASE ParseFails \/ Parsed \/ Extracted \/ NotExtracted \/ ExtractionBreaks
  BY <1>1, <1>5, DocumentsStep DEF PlanInv
<1>6. CASE FuseDocuments
  BY <1>1, <1>6, FusedStep DEF PlanInv
<1>7. CASE Generate
  BY <1>1, <1>7, GeneratedStep DEF PlanInv
<1>8. CASE Composed
  BY <1>1, <1>8, ComposedKeeps DEF PlanInv
<1>9. CASE StepsAnswered
  BY <1>2, <1>9 DEF StepsAnswered, documents
<1>10. CASE Detected
  BY <1>1, <1>10, DetectedKeeps DEF PlanInv
<1>11. CASE Assemble
  BY <1>11, AssembledKeeps
<1>12. CASE OutlineFails \/ GuidanceRefused
  BY <1>3, <1>12 DEF OutlineFails, GuidanceRefused
<1>13. CASE Rerun
  BY <1>1, <1>13, RerunKeeps DEF PlanInv
<1>14. CASE Tick
  BY <1>2, <1>14 DEF Tick, documents
<1>15. CASE UNCHANGED vars
  BY <1>2, <1>15 DEF vars
<1> QED
  BY <1>4, <1>5, <1>6, <1>7, <1>8, <1>9, <1>10, <1>11, <1>12, <1>13, <1>14, <1>15 DEF Next

\* It always holds.
LEMMA PlanInvHolds == Spec => []PlanInv
BY PlanInvInit, PlanInvStep, PTL DEF Spec

----------------------------------------------------------------------------
(* The properties.                                                         *)
LEMMA FinishedSpec ==
  ASSUME PlanInv, plan # None
  PROVE  spec = Fuse(specs) /\ Fits(plan) /\ SpecsHold
BY DEF PlanInv, SpecsHold

(* What a plan that fits is read as.  Its parameters are mapped, so none   *)
(* is contested, and a leak that is no text is a hint.                     *)
LEMMA ReadOfPlan ==
  ASSUME NEW open, Fits(plan), spec.conflicts = open
  PROVE  /\ \A s \in ToSet(plan.steps) : LeakOf(s, open) = "fatal" => "hint" \in s.leaks
         /\ \/ Served(plan, open) = plan /\ \A s \in ToSet(plan.steps) : LeakOf(s, open) = "none"
            \/ Served(plan, open) = WithoutSteps(plan)
            \/ Served(plan, open) = Unreadable /\ \E s \in ToSet(plan.steps) : LeakOf(s, open) = "fatal"
<1> DEFINE leaking == {i \in DOMAIN plan.steps : LeakOf(plan.steps[i], open) # "none"}
           first == CHOOSE i \in leaking : \A j \in leaking : i <= j
<1>1. \A s \in ToSet(plan.steps) : \A p \in s.params : ~Hits(p, open)
  <2>1. \A s \in ToSet(plan.steps) : s.params \subseteq {m.param : m \in ToSet(plan.mapping)}
    BY DEF Fits, StepsFit, ParamsMapped, ToSet
  <2> QED
    BY <2>1 DEF Fits, OpenLeft
<1>2. \A s \in ToSet(plan.steps) : LeakOf(s, open) = "fatal" => "hint" \in s.leaks
  BY <1>1 DEF LeakOf
<1>3. ~Assigns(plan.script, open) /\ \A m \in ToSet(plan.mapping) : ~Hits(m.param, open)
  BY DEF Fits, OpenLeft
<1>4. Served(plan, open) = IF leaking = {} THEN plan
                           ELSE IF LeakOf(plan.steps[first], open) = "text" THEN WithoutSteps(plan)
                           ELSE Unreadable
  BY <1>3 DEF Served
<1>5. CASE leaking = {}
  BY <1>2, <1>4, <1>5 DEF ToSet
<1>6. CASE leaking # {}
  <2>1. first \in leaking
    <3>1. DOMAIN plan.steps = 1 .. Len(plan.steps) /\ Len(plan.steps) \in Nat
      BY SequenceDomain DEF Fits, StepsFit, SaneSteps
    <3>2. leaking \subseteq Nat
      BY <3>1
    <3> HIDE DEF leaking
    <3>3. \E i \in leaking : \A j \in leaking : i <= j
      BY <1>6, <3>2, LeastElement
    <3> QED
      BY <3>3
  <2> HIDE DEF first
  <2>2. /\ plan.steps[first] \in ToSet(plan.steps)
        /\ LeakOf(plan.steps[first], open) \in {"text", "fatal"}
    BY <2>1 DEF ToSet, LeakOf
  <2> QED
    BY <1>2, <1>4, <1>6, <2>2
<1> QED
  BY <1>5, <1>6

(* A plan that fits leaves conflicts open, and so does what is read of it, *)
(* as far as the steps that are left of it go.                             *)
LEMMA OpenConflicts == PlanInv => ConflictsStayOpen
<1> SUFFICES ASSUME PlanInv, plan # None PROVE ConflictsStayOpen
  BY DEF ConflictsStayOpen
<1> DEFINE open == Conflicts(AllRows)
           read == Served(plan, open)
<1>1. spec.conflicts = open /\ Fits(plan) /\ OpenLeft(plan)
  BY FinishedSpec, FusedFacts DEF Fits
<1>2. \A p : Contested(AllRows, p) => Hits(p, open)
  BY ContestedHits
<1> HIDE DEF open
<1>3. \A m \in ToSet(plan.mapping) : ~Contested(AllRows, m.param)
  BY <1>1, <1>2 DEF OpenLeft
<1>4. plan.script \cap open = {}
  BY <1>1 DEF OpenLeft, Assigns
<1>5. /\ \A s \in ToSet(plan.steps) : LeakOf(s, open) = "fatal" => "hint" \in s.leaks
      /\ \/ read = plan /\ \A s \in ToSet(plan.steps) : LeakOf(s, open) = "none"
         \/ read = WithoutSteps(plan)
         \/ read = Unreadable /\ \E s \in ToSet(plan.steps) : LeakOf(s, open) = "fatal"
  BY <1>1, ReadOfPlan
<1> HIDE DEF read
<1>6. /\ PlanFields \subseteq DOMAIN plan
      /\ WithoutSteps(plan).steps = <<>> /\ WithoutSteps(plan) # Unreadable /\ plan # Unreadable
  <2>1. "steps" \in DOMAIN plan /\ "mapping" \in DOMAIN plan /\ PlanFields \subseteq DOMAIN plan
    BY <1>1 DEF Fits, Formed, PlanFields
  <2>2. "steps" \in DOMAIN WithoutSteps(plan) /\ WithoutSteps(plan).steps = <<>>
    BY <2>1 DEF WithoutSteps, PlanFields
  <2>3. "steps" \notin DOMAIN Unreadable
    BY DEF Unreadable
  <2> QED
    BY <2>1, <2>2, <2>3
<1>7. ASSUME read = Unreadable PROVE \E s \in ToSet(plan.steps) : "hint" \in s.leaks
  BY <1>5, <1>6, <1>7
<1>8. ASSUME read # Unreadable, read.steps # <<>>, open # {}
      PROVE  /\ \A s \in ToSet(read.steps) :
                  s.leaks \cap {"text", "hint"} = {} /\ ~\E p \in s.params : Contested(AllRows, p)
             /\ "text" \notin read.breakdown
  <2>1. read = plan /\ \A s \in ToSet(plan.steps) : LeakOf(s, open) = "none"
    BY <1>5, <1>6, <1>8
  <2>2. ASSUME NEW s \in ToSet(plan.steps)
        PROVE  "text" \notin s.leaks /\ "hint" \notin s.leaks /\ \A p \in s.params : ~Hits(p, open)
    BY <1>8, <2>1, <2>2 DEF LeakOf
  <2>3. read.breakdown = Texts(plan.steps)
    BY <1>1, <1>8, <2>1 DEF Fits, BrokenDown
  <2>4. "text" \notin Texts(plan.steps)
    BY <2>2 DEF Texts
  <2> QED
    BY <1>2, <2>1, <2>2, <2>3, <2>4
<1> QED
  BY <1>3, <1>4, <1>7, <1>8 DEF ConflictsStayOpen, open, read

\* It cites what the documents bear out, as it is and as it is read.
LEMMA GroundedPlan == PlanInv => PlanIsGrounded
<1> SUFFICES ASSUME PlanInv, NEW p \in Shown
             PROVE  LET cited == UNION ({p.cites} \cup {q.cites : q \in ToSet(p.prompts)}
                                        \cup {s.cites : s \in ToSet(p.steps)}
                                        \cup {d.cites : d \in ToSet(p.guidance)})
                    IN /\ \A place \in cited : place \in Vouched /\ Whitelisted(place, spec)
                       /\ \A d \in ToSet(p.guidance) :
                            d.basis \in DocumentBases => d.cites # {} /\ d.grounded = "cited"
  BY DEF PlanIsGrounded
<1>1. plan # None
  BY DEF Shown
<1>2. AllCited(p)
  <2>1. Fits(plan)
    BY <1>1, FinishedSpec
  <2>2. CASE p = plan
    BY <2>1, <2>2 DEF Fits
  <2>3. CASE p = Read(Scrubbed(plan), Requirements(plan.steps), Citable)
    BY <2>1, <2>3, ReadFits
  <2> QED
    BY <1>1, <2>2, <2>3 DEF Shown
<1>3. \A place : Whitelisted(place, spec) => place \in Vouched
  BY <1>1, FinishedSpec, WhitelistedIsVouched
<1>4. \A place \in Citable : Whitelisted(place, spec)
  BY DEF Citable
<1>5. /\ \A place \in p.cites : Whitelisted(place, spec)
      /\ \A q \in ToSet(p.prompts) : \A place \in q.cites : Whitelisted(place, spec)
      /\ \A s \in ToSet(p.steps) : \A place \in s.cites : Whitelisted(place, spec)
      /\ \A d \in ToSet(p.guidance) : Fine(d, Requirements(p.steps), Citable)
  BY <1>2 DEF AllCited
<1>6. /\ \A place \in p.cites : Whitelisted(place, spec)
      /\ \A q \in ToSet(p.prompts) : \A place \in q.cites : Whitelisted(place, spec)
      /\ \A s \in ToSet(p.steps) : \A place \in s.cites : Whitelisted(place, spec)
      /\ \A d \in ToSet(p.guidance) : \A place \in d.cites : Whitelisted(place, spec)
  BY <1>4, <1>5 DEF Fine
<1>7. \A d \in ToSet(p.guidance) :
        d.basis \in DocumentBases => d.cites # {} /\ d.grounded = "cited"
  BY <1>5 DEF Fine
<1> QED
  BY <1>3, <1>6, <1>7

\* Its parts fit each other, as it is and as it is read.
LEMMA WholePlan == PlanInv => PlanIsWhole
<1> SUFFICES ASSUME PlanInv, NEW p \in Shown
             PROVE  LET ids(n) == {p.steps[i].id : i \in 1 .. n}
    IN /\ [i \in DOMAIN p.prompts |-> p.prompts[i].param]
            = LET m == Sentinels(p.mapping) IN [i \in DOMAIN m |-> m[i].param]
       /\ \A q \in ToSet(p.prompts) : Cardinality(q.binds) = 1
       /\ p.outline <=> p.steps = <<>>
       /\ p.guidance # <<>> => ~p.outline /\ p.status = "generated"
       /\ \A i \in DOMAIN p.steps :
            /\ ToSet(p.steps[i].deps) \subseteq ids(i - 1)
            /\ p.steps[i].id \notin ids(i - 1)
            /\ \A l \in ToSet(p.steps[i].links) : \A ref \in {l.from, l.to} :
                 Cardinality({j \in 1 .. i : Brings(p.steps, j, ref) # {}}) = 1
            /\ p.steps[i].params \subseteq {m.param : m \in ToSet(p.mapping)}
       /\ \A d \in ToSet(p.guidance) : d.req \in Requirements(p.steps)
       /\ p.guidance # <<>> =>
            \A r \in Requirements(p.steps) \ p.gaps :
              \E k \in Closers(p.guidance, r) : Closers(p.guidance, r) = {k}
  BY DEF PlanIsWhole
<1>1. plan # None
  BY DEF Shown
<1>2. /\ AllCited(p) /\ Paired(p) /\ StepsFit(p.steps, p.mapping) /\ IsSequence(p.guidance)
      /\ p.guidance # <<>> => p.status = "generated" /\ p.gaps = Gaps(p.guidance, Requirements(p.steps))
  <2>1. Fits(plan)
    BY <1>1, FinishedSpec
  <2>2. CASE p = plan
    BY <2>1, <2>2 DEF Fits, Formed
  <2>3. CASE p = Read(Scrubbed(plan), Requirements(plan.steps), Citable)
    BY <2>1, <2>3, ReadFits
  <2> QED
    BY <1>1, <2>2, <2>3 DEF Shown
<1>3. ASSUME NEW i \in DOMAIN p.steps
      PROVE  /\ ToSet(p.steps[i].deps) \subseteq {p.steps[j].id : j \in 1 .. i - 1}
             /\ p.steps[i].id \notin {p.steps[j].id : j \in 1 .. i - 1}
             /\ \A l \in ToSet(p.steps[i].links) : \A ref \in {l.from, l.to} :
                  Cardinality({j \in 1 .. i : Brings(p.steps, j, ref) # {}}) = 1
             /\ p.steps[i].params \subseteq {m.param : m \in ToSet(p.mapping)}
  <2>1. DOMAIN p.steps = 1 .. Len(p.steps) /\ Len(p.steps) \in Nat
    BY <1>2, SequenceDomain DEF StepsFit, SaneSteps
  <2>2. ToSet(p.steps[i].deps) \subseteq {p.steps[j].id : j \in 1 .. i - 1}
    BY <1>2 DEF StepsFit, Rooted
  <2>3. p.steps[i].id \notin {p.steps[j].id : j \in 1 .. i - 1}
    BY <1>2, <2>1 DEF StepsFit, DistinctIds
  <2>4. ASSUME NEW l \in ToSet(p.steps[i].links), NEW ref \in {l.from, l.to}
        PROVE  Cardinality({j \in 1 .. i : Brings(p.steps, j, ref) # {}}) = 1
    <3>1. PICK j \in 1 .. i : Brings(p.steps, j, ref) # {}
      BY <1>2 DEF StepsFit, LinksInSight
    <3>2. \A m \in 1 .. i : Brings(p.steps, m, ref) # {} => m = j
      <4>1. OneBearer(p.steps) /\ \A m \in 1 .. i : m \in DOMAIN p.steps
        BY <1>2, <2>1 DEF StepsFit
      <4>2. j \in DOMAIN p.steps
        BY <4>1
      <4> QED
        BY <3>1, <4>1, <4>2 DEF OneBearer
    <3>3. {m \in 1 .. i : Brings(p.steps, m, ref) # {}} = {j}
      BY <3>1, <3>2
    <3> QED
      BY <3>3, FS_Singleton
  <2>5. p.steps[i].params \subseteq {m.param : m \in ToSet(p.mapping)}
    BY <1>2 DEF StepsFit, ParamsMapped
  <2> QED
    BY <2>2, <2>3, <2>4, <2>5
<1>4. ASSUME p.guidance # <<>>, NEW r \in Requirements(p.steps) \ p.gaps
      PROVE  \E k \in Closers(p.guidance, r) : Closers(p.guidance, r) = {k}
  <2>1. Cardinality(Closers(p.guidance, r)) = 1
    BY <1>2, <1>4 DEF Gaps
  <2>2. IsFiniteSet(Closers(p.guidance, r))
    <3>1. IsFiniteSet(DOMAIN p.guidance)
      <4>1. Len(p.guidance) \in Nat /\ DOMAIN p.guidance = 1 .. Len(p.guidance)
        BY <1>2, SequenceDomain
      <4>2. IsFiniteSet(1 .. Len(p.guidance))
        BY <4>1, FS_Interval
      <4> QED
        BY <4>1, <4>2
    <3> QED
      BY <3>1, FS_Subset DEF Closers
  <2> QED
    BY <2>1, <2>2, FS_Singleton
<1>5. \A d \in ToSet(p.guidance) : d.req \in Requirements(p.steps)
  BY <1>2 DEF AllCited, Fine
<1> QED
  BY <1>2, <1>3, <1>4, <1>5 DEF Paired

(* Whatever the models answer and in whatever order the calls come back,   *)
(* a finished plan, its questions, steps and closed claims cite places the *)
(* parser found in a document that was extracted, when it is made and at   *)
(* every later read.                                                       *)
THEOREM PlanAlwaysGrounded == Spec => []PlanIsGrounded
BY PlanInvHolds, GroundedPlan, PTL

(* No finished plan settles what its documents disagree on in its mapping  *)
(* or script; only a hint makes one unreadable, and one that is read with  *)
(* steps gives no contested value away in them or in its breakdown.        *)
THEOREM ConflictsAlwaysOpen == Spec => []ConflictsStayOpen
BY PlanInvHolds, OpenConflicts, PTL

(* The parts of a finished plan fit each other, when it is made and at     *)
(* every later read: questions and missing values, dependencies and order, *)
(* links and blocks, parameters and mapping, guidance and requirements.    *)
THEOREM PlanAlwaysWhole == Spec => []PlanIsWhole
BY PlanInvHolds, WholePlan, PTL
=============================================================================
