------------------------ MODULE ExternalCalls_proofs ------------------------
(***************************************************************************)
(* What holds of the two components that call something outside which      *)
(* nothing can stop: coaching calls a provider, the engine's session calls *)
(* MATLAB.  Each has a part of its own here.                               *)
(***************************************************************************)
EXTENDS BridgeCoaching, MatlabEngineRuntime, FiniteSetTheorems, TLAPS

(***************************************************************************)
(* Coaching, for every number of requests and sessions, every TTL and      *)
(* every orphan limit.                                                     *)
(*                                                                         *)
(* Every step does one of three things to the slots: it takes one, it ends *)
(* an attempt and releases it, or it leaves the slots and the set of       *)
(* attempts in flight alone.  One lemma for each kind shows that the       *)
(* bookkeeping of slots and orphans survives.                              *)
(***************************************************************************)


(* The two owners of a slot: the coroutine first, then the provider task.  *)
PhaseInv ==
  \A r \in Requests :
    /\ phase[r] # "idle" => session[r] \in Sessions
    /\ phase[r] \in Owning \cup {"idle"} => call[r] = "none"
    /\ phase[r] = "waiting" => call[r] # "none"
    /\ since[r] <= clock

SlotInv ==
  \A s \in Sessions : slot[s] # NoSlot =>
    /\ session[slot[s].attempt] = s
    /\ InFlight(slot[s].attempt)
    /\ slot[s].attempt \notin orphans
    /\ slot[s].expires = since[slot[s].attempt] + TTL

OrphanInv ==
  \A r \in orphans : InFlight(r) /\ since[r] + TTL <= clock

FlightInv ==
  \A r \in Requests : InFlight(r) =>
    \/ r \in orphans
    \/ slot[session[r]] # NoSlot /\ slot[session[r]].attempt = r

LimitInv == Cardinality(orphans) <= OrphanLimit

Bookkeeping ==
  SlotInv /\ OrphanInv /\ FlightInv /\ LimitInv /\ OverlapOnlyAfterTTL

CoachingInv == CoachingTypeOK /\ PhaseInv /\ Bookkeeping

LEMMA CoachingTypeStep == CoachingTypeOK /\ [CoachingNext]_coachingVars => CoachingTypeOK'
<1> SUFFICES ASSUME CoachingTypeOK, [CoachingNext]_coachingVars PROVE CoachingTypeOK'
  OBVIOUS
<1> USE LimitAssumption, NoneAssumption
<1>1. ASSUME NEW r \in Requests, NEW s \in Sessions, Busy(r, s) PROVE CoachingTypeOK'
  BY <1>1 DEF Busy, Finish, CoachingTypeOK, Phases, Answers, slotVars
<1>2. ASSUME NEW r \in Requests, NEW s \in Sessions, Acquire(r, s) PROVE CoachingTypeOK'
  <2>1. slot' \in [Sessions -> Slots \cup {NoSlot}]
    BY <1>2 DEF Acquire, CoachingTypeOK, Slots, Time
  <2>2. orphans' \subseteq Requests
    BY <1>2 DEF Acquire, Orphaned, Stale, CoachingTypeOK, Slots
  <2> QED
    BY <1>2, <2>1, <2>2 DEF Acquire, Goto, CoachingTypeOK, Phases, Owning, Time
<1>3. ASSUME NEW r \in Requests, Release(r)
      PROVE  slot' \in [Sessions -> Slots \cup {NoSlot}] /\ orphans' \subseteq Requests
  BY <1>3 DEF Release, CoachingTypeOK
<1>4. ASSUME NEW r \in Requests, Read(r) PROVE CoachingTypeOK'
  BY <1>4 DEF Read, Goto, CoachingTypeOK, Phases, Owning, slotVars
<1>5. ASSUME NEW r \in Requests, AnswerWithoutProvider(r) PROVE CoachingTypeOK'
  BY <1>3, <1>5 DEF AnswerWithoutProvider, Finish, CoachingTypeOK, Phases, Answers
<1>6. ASSUME NEW r \in Requests, CallProvider(r) PROVE CoachingTypeOK'
  BY <1>6 DEF CallProvider, Goto, Until, CoachingTypeOK, Phases, slotVars, Time
<1>7. ASSUME NEW r \in Requests, Rejected(r) PROVE CoachingTypeOK'
  BY <1>3, <1>7 DEF Rejected, Finish, CoachingTypeOK, Phases, Answers
<1>8. ASSUME NEW r \in Requests, Shape(r) PROVE CoachingTypeOK'
  BY <1>8 DEF Shape, CoachingTypeOK, Phases, Answers, slotVars
<1>9. ASSUME NEW r \in Requests, GiveUp(r) PROVE CoachingTypeOK'
  BY <1>9 DEF GiveUp, CoachingTypeOK, Phases, Answers, slotVars
<1>10. ASSUME NEW r \in Requests, Finalize(r) PROVE CoachingTypeOK'
  BY <1>10 DEF Finalize, Finish, CoachingTypeOK, Phases, Answers, slotVars
<1>11. ASSUME NEW r \in Requests, Settle(r) PROVE CoachingTypeOK'
  BY <1>11 DEF Settle, CoachingTypeOK, slotVars
<1>12. ASSUME NEW r \in Requests, CallbackRelease(r) PROVE CoachingTypeOK'
  BY <1>3, <1>12 DEF CallbackRelease, CoachingTypeOK
<1>13. ASSUME NEW r \in Requests, Cancel(r) PROVE CoachingTypeOK'
  <2>1. slot' \in [Sessions -> Slots \cup {NoSlot}] /\ orphans' \subseteq Requests
    BY <1>3, <1>13 DEF Cancel, CoachingTypeOK, slotVars
  <2> QED
    BY <1>13, <2>1 DEF Cancel, Finish, CoachingTypeOK, Phases, Answers
<1>14. ASSUME NEW s \in Sessions, EndSession(s) PROVE CoachingTypeOK'
  BY <1>14 DEF EndSession, CoachingTypeOK, slotVars
<1>15. CASE Tick
  BY <1>15 DEF Tick, CoachingTypeOK, Time, slotVars
<1>16. CASE UNCHANGED coachingVars
  BY <1>16 DEF coachingVars, CoachingTypeOK
<1> QED
  BY <1>1, <1>2, <1>4, <1>5, <1>6, <1>7, <1>8, <1>9, <1>10, <1>11, <1>12,
     <1>13, <1>14, <1>15, <1>16 DEF CoachingNext, Advance

LEMMA PhaseStep == CoachingTypeOK /\ PhaseInv /\ [CoachingNext]_coachingVars => PhaseInv'
<1> SUFFICES ASSUME CoachingTypeOK, PhaseInv, [CoachingNext]_coachingVars PROVE PhaseInv'
  OBVIOUS
<1> USE NoneAssumption DEF PhaseInv, CoachingTypeOK, Owning
<1>1. ASSUME NEW r \in Requests, NEW s \in Sessions, Busy(r, s) PROVE PhaseInv'
  BY <1>1 DEF Busy, Finish
<1>2. ASSUME NEW r \in Requests, NEW s \in Sessions, Acquire(r, s) PROVE PhaseInv'
  BY <1>2 DEF Acquire, Goto, Time
<1>4. ASSUME NEW r \in Requests, Read(r) PROVE PhaseInv'
  BY <1>4 DEF Read, Goto
<1>5. ASSUME NEW r \in Requests, AnswerWithoutProvider(r) PROVE PhaseInv'
  BY <1>5 DEF AnswerWithoutProvider, Finish
<1>6. ASSUME NEW r \in Requests, CallProvider(r) PROVE PhaseInv'
  BY <1>6 DEF CallProvider, Goto
<1>7. ASSUME NEW r \in Requests, Rejected(r) PROVE PhaseInv'
  BY <1>7 DEF Rejected, Finish
<1>8. ASSUME NEW r \in Requests, Shape(r) PROVE PhaseInv'
  BY <1>8 DEF Shape
<1>9. ASSUME NEW r \in Requests, GiveUp(r) PROVE PhaseInv'
  BY <1>9 DEF GiveUp
<1>10. ASSUME NEW r \in Requests, Finalize(r) PROVE PhaseInv'
  BY <1>10 DEF Finalize, Finish
<1>11. ASSUME NEW r \in Requests, Settle(r) PROVE PhaseInv'
  BY <1>11 DEF Settle
<1>12. ASSUME NEW r \in Requests, CallbackRelease(r) PROVE PhaseInv'
  BY <1>12 DEF CallbackRelease
<1>13. ASSUME NEW r \in Requests, Cancel(r) PROVE PhaseInv'
  BY <1>13 DEF Cancel, Finish
<1>14. ASSUME NEW s \in Sessions, EndSession(s) PROVE PhaseInv'
  BY <1>14 DEF EndSession
<1>15. CASE Tick
  BY <1>15 DEF Tick, Time
<1>16. CASE UNCHANGED coachingVars
  BY <1>16 DEF coachingVars
<1> QED
  BY <1>1, <1>2, <1>4, <1>5, <1>6, <1>7, <1>8, <1>9, <1>10, <1>11, <1>12,
     <1>13, <1>14, <1>15, <1>16 DEF CoachingNext, Advance

(* A step that takes no slot and ends no attempt.                          *)
Quiet ==
  /\ UNCHANGED <<slotVars, since>>
  /\ clock' >= clock
  /\ \A r \in Requests : InFlight(r)' <=> InFlight(r)
  /\ \A r \in Requests : InFlight(r) => session'[r] = session[r]

LEMMA QuietKeeps ==
  ASSUME CoachingInv, CoachingTypeOK', Quiet
  PROVE  Bookkeeping'
<1> USE DEF CoachingInv, Bookkeeping, Quiet, slotVars, CoachingTypeOK
<1>1. SlotInv'
  BY DEF SlotInv, Slots
<1>2. OrphanInv'
  BY LimitAssumption DEF OrphanInv, Time
<1>3. FlightInv'
  BY DEF FlightInv
<1>4. LimitInv'
  BY DEF LimitInv
<1>5. OverlapOnlyAfterTTL'
  BY DEF OverlapOnlyAfterTTL
<1> QED
  BY <1>1, <1>2, <1>3, <1>4, <1>5

(* A step that ends one attempt and releases what it held.                 *)
Ending(r) ==
  /\ InFlight(r) /\ ~InFlight(r)'
  /\ \A q \in Requests \ {r} : InFlight(q)' <=> InFlight(q)
  /\ Release(r)
  /\ UNCHANGED <<clock, session, since>>

LEMMA EndingKeeps ==
  ASSUME CoachingInv, CoachingTypeOK', NEW r \in Requests, Ending(r)
  PROVE  Bookkeeping'
<1> USE DEF CoachingInv, Bookkeeping, Ending, Release
<1>0. session[r] \in Sessions
  BY DEF PhaseInv, InFlight, Owning, CoachingTypeOK
<1>1. SlotInv'
  BY <1>0 DEF SlotInv, FlightInv, Slots, CoachingTypeOK
<1>2. OrphanInv'
  BY <1>0 DEF OrphanInv, FlightInv, CoachingTypeOK, SlotInv
<1>3. FlightInv'
  BY <1>0 DEF FlightInv, CoachingTypeOK
<1>4. LimitInv'
  <2>1. IsFiniteSet(orphans)
    BY SetAssumption, FS_Subset DEF CoachingTypeOK
  <2>2. Cardinality(orphans') <= Cardinality(orphans) /\ Cardinality(orphans') \in Nat
    BY <2>1, FS_Subset, FS_CardinalityType
  <2> QED
    BY <2>1, <2>2, FS_CardinalityType, LimitAssumption DEF LimitInv
<1>5. OverlapOnlyAfterTTL'
  BY DEF OverlapOnlyAfterTTL
<1> QED
  BY <1>1, <1>2, <1>3, <1>4, <1>5

LEMMA AcquireKeeps ==
  ASSUME CoachingInv, CoachingTypeOK', NEW r \in Requests, NEW s \in Sessions, Acquire(r, s)
  PROVE  Bookkeeping'
<1> USE LimitAssumption, NoneAssumption DEF CoachingInv, Bookkeeping
<1>1. /\ ~InFlight(r) /\ InFlight(r)'
      /\ \A q \in Requests \ {r} : InFlight(q)' <=> InFlight(q)
  BY DEF Acquire, Goto, InFlight, PhaseInv, CoachingTypeOK, Owning
<1>2. /\ session' = [session EXCEPT ![r] = s] /\ since' = [since EXCEPT ![r] = clock]
      /\ slot' = [slot EXCEPT ![s] = [attempt |-> r, expires |-> clock + TTL]]
      /\ orphans' = IF Stale(s) THEN orphans \cup {slot[s].attempt} ELSE orphans
      /\ clock' = clock
  BY DEF Acquire, Orphaned
<1>3. r \notin orphans /\ \A t \in Sessions : slot[t] # NoSlot => slot[t].attempt # r
  BY <1>1 DEF OrphanInv, SlotInv
<1>4. Stale(s) => slot[s].attempt \in Requests /\ slot[s].expires <= clock /\ slot[s] # NoSlot
  BY DEF Stale, CoachingTypeOK, Slots
<1>5. ~Stale(s) => slot[s] = NoSlot
  BY DEF Acquire, Blocked, Taken, Stale, CoachingTypeOK, Slots, Time
<1>6. SlotInv'
  <2> SUFFICES ASSUME NEW t \in Sessions, slot'[t] # NoSlot
               PROVE  /\ session'[slot'[t].attempt] = t
                      /\ InFlight(slot[t].attempt)'
                      /\ slot'[t].attempt \notin orphans'
                      /\ slot'[t].expires = since'[slot'[t].attempt] + TTL
    BY DEF SlotInv
  <2>1. CASE t = s
    BY <2>1, <1>1, <1>2, <1>3, <1>4 DEF CoachingTypeOK
  <2>2. CASE t # s
    <3>1. slot'[t] = slot[t] /\ slot[t] \in Slots
      BY <2>2, <1>2 DEF CoachingTypeOK
    <3>2. slot[t].attempt \in Requests \ {r}
      BY <3>1, <1>3 DEF Slots
    <3>3. Stale(s) => slot[t].attempt # slot[s].attempt
      BY <3>1, <1>4, <2>2 DEF SlotInv
    <3>4. slot[t].attempt \notin orphans'
      BY <3>1, <3>3, <1>2 DEF SlotInv
    <3> QED
      BY <3>1, <3>2, <3>4, <1>1, <1>2 DEF SlotInv, CoachingTypeOK
  <2> QED
    BY <2>1, <2>2
<1>7. OrphanInv'
  <2> SUFFICES ASSUME NEW q \in orphans' PROVE InFlight(q)' /\ since'[q] + TTL <= clock'
    BY DEF OrphanInv
  <2>1. q \in Requests \ {r}
    BY <1>2, <1>3, <1>4 DEF CoachingTypeOK
  <2>2. InFlight(q) /\ since[q] + TTL <= clock
    BY <1>2, <1>4 DEF OrphanInv, SlotInv
  <2> QED
    BY <1>1, <1>2, <2>1, <2>2 DEF CoachingTypeOK
<1>8. FlightInv'
  <2> SUFFICES ASSUME NEW q \in Requests, InFlight(q)'
               PROVE  \/ q \in orphans'
                      \/ slot'[session'[q]] # NoSlot /\ slot'[session'[q]].attempt = q
    BY DEF FlightInv
  <2>1. CASE q = r
    <3>1. slot'[s] \in Slots
      BY <1>2 DEF CoachingTypeOK, Slots, Time
    <3> QED
      BY <2>1, <3>1, <1>2 DEF CoachingTypeOK
  <2>2. CASE q # r
    <3>1. InFlight(q) /\ session'[q] = session[q] /\ session[q] \in Sessions
      BY <2>2, <1>1, <1>2 DEF CoachingTypeOK, PhaseInv, InFlight, Owning
    <3>2. CASE session[q] = s
      BY <3>1, <3>2, <1>2, <1>5 DEF FlightInv
    <3>3. CASE session[q] # s
      BY <3>1, <3>3, <1>2 DEF FlightInv, CoachingTypeOK
    <3> QED
      BY <3>2, <3>3
  <2> QED
    BY <2>1, <2>2
<1>9. LimitInv'
  <2>1. IsFiniteSet(orphans)
    BY SetAssumption, FS_Subset DEF CoachingTypeOK
  <2>2. CASE Stale(s)
    <3>1. ~(Cardinality(orphans) >= OrphanLimit)
      BY <2>2 DEF Acquire, Blocked
    <3>2. Cardinality(orphans') <= Cardinality(orphans) + 1
      <4>1. orphans' = orphans \cup {slot[s].attempt}
        BY <2>2, <1>2
      <4>2. \/ Cardinality(orphans') = Cardinality(orphans)
            \/ Cardinality(orphans') = Cardinality(orphans) + 1
        BY <2>1, <4>1, FS_AddElement
      <4>3. Cardinality(orphans) \in Nat
        BY <2>1, FS_CardinalityType
      <4> QED
        BY <4>2, <4>3
    <3> QED
      <4>1. Cardinality(orphans) \in Nat /\ Cardinality(orphans') \in Nat
        BY <2>1, <1>2, <2>2, FS_AddElement, FS_CardinalityType
      <4> QED
        BY <4>1, <3>1, <3>2 DEF LimitInv
  <2>3. CASE ~Stale(s)
    BY <2>3, <1>2 DEF LimitInv
  <2> QED
    BY <2>2, <2>3
<1>10. OverlapOnlyAfterTTL'
  <2>1. ASSUME NEW q \in Requests \ {r}, InFlight(q), session[q] = s
        PROVE  since[q] + TTL <= clock
    <3>1. CASE q \in orphans
      BY <3>1 DEF OrphanInv
    <3>2. CASE q \notin orphans
      <4>1. slot[s] # NoSlot /\ slot[s].attempt = q
        BY <3>2, <2>1 DEF FlightInv
      <4> QED
        BY <4>1, <1>4, <1>5 DEF SlotInv
    <3> QED
      BY <3>1, <3>2
  <2> SUFFICES ASSUME NEW p \in Requests, NEW q \in Requests, p # q,
                      InFlight(p)', InFlight(q)', session'[p] = session'[q]
               PROVE  since'[p] + TTL <= since'[q] \/ since'[q] + TTL <= since'[p]
    BY DEF OverlapOnlyAfterTTL
  <2>2. CASE p = r
    BY <2>1, <2>2, <1>1, <1>2 DEF CoachingTypeOK
  <2>3. CASE q = r
    BY <2>1, <2>3, <1>1, <1>2 DEF CoachingTypeOK
  <2>4. CASE p # r /\ q # r
    BY <2>4, <1>1, <1>2 DEF CoachingTypeOK, OverlapOnlyAfterTTL
  <2> QED
    BY <2>2, <2>3, <2>4
<1> QED
  BY <1>6, <1>7, <1>8, <1>9, <1>10

LEMMA BookkeepingStep == CoachingInv /\ [CoachingNext]_coachingVars => Bookkeeping'
<1> SUFFICES ASSUME CoachingInv, [CoachingNext]_coachingVars PROVE Bookkeeping'
  OBVIOUS
<1>0. CoachingTypeOK'
  BY CoachingTypeStep DEF CoachingInv
<1> USE <1>0 DEF CoachingInv
<1>a. clock \in Int
  BY DEF CoachingTypeOK, Time
<1>b. Quiet => Bookkeeping'
  BY QuietKeeps
<1>c. \A r \in Requests : Ending(r) => Bookkeeping'
  BY EndingKeeps
<1>1. ASSUME NEW r \in Requests, NEW s \in Sessions, Busy(r, s) PROVE Bookkeeping'
  <2>1. Quiet
    BY <1>1, <1>a DEF Busy, Finish, Quiet, InFlight, PhaseInv, CoachingTypeOK, Owning
  <2> QED
    BY <2>1, <1>b
<1>2. ASSUME NEW r \in Requests, NEW s \in Sessions, Acquire(r, s) PROVE Bookkeeping'
  BY <1>2, AcquireKeeps
<1>4. ASSUME NEW r \in Requests, Read(r) PROVE Bookkeeping'
  <2>1. Quiet
    BY <1>4, <1>a DEF Read, Goto, Quiet, InFlight, CoachingTypeOK, Owning
  <2> QED
    BY <2>1, <1>b
<1>5. ASSUME NEW r \in Requests, AnswerWithoutProvider(r) PROVE Bookkeeping'
  <2>1. Ending(r)
    BY <1>5 DEF AnswerWithoutProvider, Finish, Ending, InFlight, PhaseInv, CoachingTypeOK, Owning
  <2> QED
    BY <2>1, <1>c
<1>6. ASSUME NEW r \in Requests, CallProvider(r) PROVE Bookkeeping'
  <2>1. Quiet
    BY <1>6, <1>a DEF CallProvider, Goto, Quiet, InFlight, CoachingTypeOK, Owning
  <2> QED
    BY <2>1, <1>b
<1>7. ASSUME NEW r \in Requests, Rejected(r) PROVE Bookkeeping'
  <2>1. Ending(r)
    BY <1>7 DEF Rejected, Finish, Ending, InFlight, PhaseInv, CoachingTypeOK, Owning
  <2> QED
    BY <2>1, <1>c
<1>8. ASSUME NEW r \in Requests, Shape(r) PROVE Bookkeeping'
  <2>1. Quiet
    BY <1>8, <1>a DEF Shape, Quiet, InFlight, CoachingTypeOK, Owning
  <2> QED
    BY <2>1, <1>b
<1>9. ASSUME NEW r \in Requests, GiveUp(r) PROVE Bookkeeping'
  <2>1. Quiet
    BY <1>9, <1>a DEF GiveUp, Quiet, InFlight, CoachingTypeOK, Owning
  <2> QED
    BY <2>1, <1>b
<1>10. ASSUME NEW r \in Requests, Finalize(r) PROVE Bookkeeping'
  <2>1. Quiet
    BY <1>10, <1>a DEF Finalize, Finish, Quiet, InFlight, CoachingTypeOK, Owning
  <2> QED
    BY <2>1, <1>b
<1>11. ASSUME NEW r \in Requests, Settle(r) PROVE Bookkeeping'
  <2>1. Quiet
    BY <1>11, <1>a DEF Settle, Quiet, InFlight, CoachingTypeOK
  <2> QED
    BY <2>1, <1>b
<1>12. ASSUME NEW r \in Requests, CallbackRelease(r) PROVE Bookkeeping'
  <2>1. Ending(r)
    BY <1>12 DEF CallbackRelease, Ending, InFlight, PhaseInv, CoachingTypeOK
  <2> QED
    BY <2>1, <1>c
<1>13. ASSUME NEW r \in Requests, Cancel(r) PROVE Bookkeeping'
  <2>1. CASE phase[r] \in Owning
    <3>1. Ending(r)
      BY <1>13, <2>1 DEF Cancel, Finish, Ending, InFlight, PhaseInv, CoachingTypeOK, Owning
    <3> QED
      BY <3>1, <1>c
  <2>2. CASE phase[r] \notin Owning
    <3>1. Quiet
      BY <1>13, <2>2, <1>a DEF Cancel, Finish, Quiet, InFlight, CoachingTypeOK, Owning
    <3> QED
      BY <3>1, <1>b
  <2> QED
    BY <2>1, <2>2
<1>14. ASSUME NEW s \in Sessions, EndSession(s) PROVE Bookkeeping'
  <2>1. Quiet
    BY <1>14, <1>a DEF EndSession, Quiet, InFlight
  <2> QED
    BY <2>1, <1>b
<1>15. CASE Tick
  <2>1. Quiet
    BY <1>15, <1>a DEF Tick, Quiet, InFlight
  <2> QED
    BY <2>1, <1>b
<1>16. CASE UNCHANGED coachingVars
  <2>1. Quiet
    BY <1>16, <1>a DEF coachingVars, Quiet, InFlight, slotVars
  <2> QED
    BY <2>1, <1>b
<1> QED
  BY <1>1, <1>2, <1>4, <1>5, <1>6, <1>7, <1>8, <1>9, <1>10, <1>11, <1>12,
     <1>13, <1>14, <1>15, <1>16 DEF CoachingNext, Advance

LEMMA CoachingInitInv == CoachingInit => CoachingInv
<1> SUFFICES ASSUME CoachingInit PROVE CoachingInv
  OBVIOUS
<1> USE LimitAssumption, NoneAssumption DEF CoachingInit
<1>1. CoachingTypeOK
  BY DEF CoachingTypeOK, Time, Phases, Answers
<1>2. PhaseInv
  BY DEF PhaseInv, Owning
<1>3. \A r \in Requests : ~InFlight(r)
  BY DEF InFlight, Owning
<1>4. LimitInv
  BY FS_EmptySet DEF LimitInv
<1> QED
  BY <1>1, <1>2, <1>3, <1>4
     DEF CoachingInv, Bookkeeping, SlotInv, OrphanInv, FlightInv, OverlapOnlyAfterTTL

LEMMA CoachingInductive == CoachingSpec => []CoachingInv
<1>1. CoachingInv /\ [CoachingNext]_coachingVars => CoachingInv'
  BY CoachingTypeStep, PhaseStep, BookkeepingStep DEF CoachingInv
<1> QED
  BY CoachingInitInv, <1>1, PTL DEF CoachingSpec

(* The slot manager's and the requests' variables have their types.        *)
THEOREM CoachingTypeCorrect == CoachingSpec => []CoachingTypeOK
  BY CoachingInductive, PTL DEF CoachingInv

(* Slots and orphans account for each attempt in flight exactly once.      *)
THEOREM AttemptsAlwaysAccounted == CoachingSpec => []AttemptsAccounted
<1>1. CoachingInv => AttemptsAccounted
  <2> SUFFICES ASSUME CoachingInv, NEW r \in Requests
               PROVE  /\ InFlight(r) <=> (Holds(r) \/ r \in orphans)
                      /\ ~(Holds(r) /\ r \in orphans)
    BY DEF AttemptsAccounted
  <2>1. InFlight(r) => session[r] \in Sessions
    BY DEF CoachingInv, PhaseInv, InFlight, Owning, CoachingTypeOK
  <2> QED
    BY <2>1 DEF CoachingInv, Bookkeeping, Holds, SlotInv, OrphanInv, FlightInv
<1> QED
  BY <1>1, CoachingInductive, PTL

(* Attempts of one session overlap only when the older outlived its slot.  *)
THEOREM OverlapAlwaysAfterTTL == CoachingSpec => []OverlapOnlyAfterTTL
  BY CoachingInductive, PTL DEF CoachingInv, Bookkeeping

(* At most one attempt for each session, and the orphan limit besides, are *)
(* in flight.                                                              *)
THEOREM CallsAlwaysBounded == CoachingSpec => []CallsBounded
<1>1. CoachingInv => CallsBounded
  <2> SUFFICES ASSUME CoachingInv PROVE CallsBounded
    OBVIOUS
  <2> DEFINE Held == {s \in Sessions : slot[s] # NoSlot}
             Holders == {slot[s].attempt : s \in Held}
             Flying == {r \in Requests : InFlight(r)}
  <2>1. Flying \subseteq orphans \cup Holders
    BY DEF CoachingInv, Bookkeeping, FlightInv, PhaseInv, InFlight, Owning, CoachingTypeOK
  <2>2. IsFiniteSet(orphans) /\ IsFiniteSet(Sessions)
    BY SetAssumption, FS_Subset DEF CoachingInv, CoachingTypeOK
  <2>3. IsFiniteSet(Held) /\ Cardinality(Held) <= Cardinality(Sessions)
    BY <2>2, FS_Subset
  <2>4. IsFiniteSet(Holders) /\ Cardinality(Holders) <= Cardinality(Held)
    <3>1. DEFINE f == [s \in Held |-> slot[s].attempt]
    <3>2. f \in Surjection(Held, Holders)
      BY DEF Surjection
    <3> QED
      BY <3>2, <2>3, FS_Surjection
  <2>5. IsFiniteSet(orphans \cup Holders)
        /\ Cardinality(orphans \cup Holders) <= Cardinality(orphans) + Cardinality(Holders)
    <3> HIDE DEF Holders
    <3>1. /\ IsFiniteSet(orphans \cup Holders)
          /\ Cardinality(orphans \cup Holders) =
               Cardinality(orphans) + Cardinality(Holders) - Cardinality(orphans \cap Holders)
      BY <2>2, <2>4, FS_Union
    <3>2. IsFiniteSet(orphans \cap Holders)
      BY <2>2, FS_Intersection
    <3>3. /\ Cardinality(orphans) \in Nat /\ Cardinality(Holders) \in Nat
          /\ Cardinality(orphans \cap Holders) \in Nat
      BY <2>2, <2>4, <3>2, FS_CardinalityType
    <3> QED
      BY <3>1, <3>3
  <2>6. IsFiniteSet(Flying) /\ Cardinality(Flying) <= Cardinality(orphans \cup Holders)
    BY <2>1, <2>5, FS_Subset
  <2>7. /\ Cardinality(Flying) \in Nat /\ Cardinality(orphans) \in Nat
        /\ Cardinality(Holders) \in Nat /\ Cardinality(Held) \in Nat
        /\ Cardinality(Sessions) \in Nat /\ Cardinality(orphans \cup Holders) \in Nat
    BY <2>2, <2>3, <2>4, <2>5, <2>6, FS_CardinalityType
  <2> QED
    BY <2>3, <2>4, <2>5, <2>6, <2>7, LimitAssumption
       DEF CallsBounded, CoachingInv, Bookkeeping, LimitInv
<1> QED
  BY <1>1, CoachingInductive, PTL

(* No slot is leaked or freed by another attempt, and the calls are        *)
(* bounded for it.                                                         *)
THEOREM SlotsAlwaysAccount == CoachingSpec => []SlotsAccountForAttempts
  BY AttemptsAlwaysAccounted, CallsAlwaysBounded, PTL DEF SlotsAccountForAttempts

(* Once its session has ended, a request gets no reply: each exit that      *)
(* gives one has passed a fence in the same step.                           *)
THEOREM EndedAlwaysGetNothing == CoachingSpec => EndedSessionsGetNothing
<1> DEFINE Fenced(r) == phase[r] # "done" /\ phase'[r] = "done" /\ answer'[r] = "reply"
                          => active[session[r]]
<1>1. CoachingTypeOK /\ [CoachingNext]_coachingVars
        => [\A r \in Requests :
              phase[r] # "done" /\ phase'[r] = "done" /\ answer'[r] = "reply"
                => active[session[r]]]_coachingVars
  <2> SUFFICES ASSUME CoachingTypeOK, CoachingNext, NEW r \in Requests PROVE Fenced(r)
    OBVIOUS
  <2> USE DEF CoachingTypeOK
  <2>1. ASSUME NEW q \in Requests, NEW a, Finish(q, a), a # "reply" PROVE Fenced(r)
    BY <2>1 DEF Finish
  <2>2. ASSUME NEW q \in Requests, NEW a, Finish(q, a), active[session[q]] PROVE Fenced(r)
    BY <2>2 DEF Finish
  <2>3. ASSUME phase' = phase PROVE Fenced(r)
    BY <2>3
  <2>4. ASSUME NEW q \in Requests, NEW p, phase' = [phase EXCEPT ![q] = p], p # "done"
        PROVE  Fenced(r)
    BY <2>4
  <2>5. ASSUME NEW q \in Requests, Rejected(q) PROVE Fenced(r)
    BY <2>1, <2>5 DEF Rejected
  <2>6. ASSUME NEW q \in Requests, Finalize(q) PROVE Fenced(r)
    BY <2>1, <2>2, <2>6 DEF Finalize
  <2>7. ASSUME NEW q \in Requests, AnswerWithoutProvider(q) PROVE Fenced(r)
    BY <2>2, <2>7 DEF AnswerWithoutProvider
  <2>8. ASSUME NEW q \in Requests, Read(q) \/ CallProvider(q) \/ Shape(q) \/ GiveUp(q)
        PROVE  Fenced(r)
    BY <2>4, <2>8 DEF Read, CallProvider, Shape, GiveUp, Goto
  <2>9. ASSUME NEW q \in Requests, Settle(q) \/ CallbackRelease(q) PROVE Fenced(r)
    BY <2>3, <2>9 DEF Settle, CallbackRelease
  <2>10. ASSUME NEW q \in Requests, Cancel(q) PROVE Fenced(r)
    BY <2>1, <2>10 DEF Cancel
  <2>11. ASSUME NEW q \in Requests, NEW s \in Sessions, Busy(q, s) \/ Acquire(q, s)
         PROVE  Fenced(r)
    BY <2>1, <2>4, <2>11 DEF Busy, Acquire, Goto
  <2>12. ASSUME NEW s \in Sessions, EndSession(s) PROVE Fenced(r)
    BY <2>3, <2>12 DEF EndSession
  <2>13. CASE Tick
    BY <2>3, <2>13 DEF Tick
  <2> QED
    BY <2>5, <2>6, <2>7, <2>8, <2>9, <2>10, <2>11, <2>12, <2>13 DEF CoachingNext, Advance
<1>2. CoachingInv => CoachingTypeOK
  BY DEF CoachingInv
<1> QED
  BY <1>1, <1>2, CoachingInductive, PTL DEF CoachingSpec, EndedSessionsGetNothing
----------------------------------------------------------------------------
(***************************************************************************)
(* The session of the engine and its service, for any number of threads:   *)
(* the lock keeps calls and a late quit apart, and a service that is down  *)
(* left no process behind without a trace.                                 *)
(*                                                                         *)
(* The proofs go thread step by thread step and service step by service    *)
(* step.  The thread that holds the call lock is the only one between      *)
(* TakeLock and Leave, so what the state of the session says of that       *)
(* thread is not disturbed by the others.                                  *)
(***************************************************************************)


\* The session's wrapper exists from the end of the startup on.
Early == {"off", "find", "connect", "attest", "construct", "abort"}

\* The lock is held by the thread that is inside, and by no other.
LockInv == \A t \in Threads : pc[t] \in HoldingSteps => callLock = t

\* Before the wrapper exists nobody calls it.
EarlyInv ==
  /\ lifespan \in Early => state = "new" /\ ~lateQuit
  /\ state = "new" => /\ lifespan \in Early \cup {"down"}
                      /\ ~provider /\ \A t \in Threads : pc[t] = "idle"

\* A call of the engine, and the recovery of one, happens in a busy session; what
\* is closed is not closed again.
BusyInv ==
  \A t \in Threads : /\ pc[t] \in EngineCalls \cup {"recover"} => state = "busy"
                     /\ pc[t] \in {"quit", "terminate"} => state # "closed"

\* After a quit that was given up the session is over, or about to be.
LateInv ==
  lateQuit => \/ state \in {"broken", "closed"}
              \/ \E t \in Threads : pc[t] = "terminate"

\* Only what an owner quits or kills exits.
OwnerInv ==
  /\ AttachedSurvives
  /\ ownership = "attached" => lifespan = "alone" /\ launcher = "none"
  /\ ownership = "attached" => \A t \in Threads : pc[t] # "terminate"

SessionInv == TypeOK /\ LockInv /\ EarlyInv /\ BusyInv /\ LateInv /\ OwnerInv

LEMMA TypeStep == TypeOK /\ [Next]_vars => TypeOK'
<1> SUFFICES ASSUME TypeOK, [Next]_vars PROVE TypeOK'
  OBVIOUS
<1> USE NobodyIsNoThread, ServiceThreads
    DEF TypeOK, HoldingSteps, EngineCalls, Running, Ops, Lifespan, serviceVars, report, fixed, outside,
        sessionVars, At, Result, Leaving, Goes
<1>1. CASE Launch \/ Shutdown
  BY <1>1 DEF Launch, Shutdown
<1>2. CASE Find \/ Connect \/ Attest
  BY <1>2 DEF Find, Connect, Attest
<1>3. CASE Construct
  BY <1>3 DEF Construct, Call
<1>4. ASSUME NEW next \in Lifespan, TerminateTree(next) PROVE TypeOK'
  <2>1. treeKilled' \in BOOLEAN /\ reported' \in BOOLEAN /\ blind' \in BOOLEAN
    BY <1>4 DEF TerminateTree, LooksGone
  <2>2. matlab' \in {"none", "gone", "killed"} \cup Running /\ launcher' \in {"none", "alive", "gone"}
    BY <1>4 DEF TerminateTree
  <2> QED
    BY <1>4, <2>1, <2>2 DEF TerminateTree
<1>5. CASE Abort \/ ReapProbe \/ Reap
  BY <1>4, <1>5 DEF Abort, ReapProbe, Reap
<1>6. CASE Probed \/ AwaitClose \/ Finally
  <2>1. provider' \in BOOLEAN
    BY <1>6 DEF Probed, AwaitClose, Finally
  <2> QED
    BY <1>6, <2>1 DEF Probed, AwaitClose, Finally
<1>7. CASE Close
  BY <1>7 DEF Close, Call
<1>8. CASE CheckTree
  <2>1. blind' \in BOOLEAN
    BY <1>8 DEF CheckTree, LooksGone
  <2> QED
    BY <1>8, <2>1 DEF CheckTree
<1>9. CASE TreeStep
  BY <1>9 DEF TreeStep
<1>10. CASE EngineStep
  <2>1. lateQuit' \in BOOLEAN
    BY <1>10 DEF EngineStep, MatlabStep
  <2>2. matlab' \in {"none", "gone", "killed"} \cup Running
    BY <1>10 DEF EngineStep, MatlabStep, Quits
  <2>3. future' \in {"none", "running", "done", "cancelled"}
    BY <1>10 DEF EngineStep, MatlabStep
  <2> QED
    BY <1>10, <2>1, <2>2, <2>3 DEF EngineStep
<1>11. ASSUME NEW t \in Threads, Use(t) PROVE TypeOK'
  BY <1>11 DEF Use, Call
<1>12. ASSUME NEW t \in Threads, SessionStep(t) PROVE TypeOK'
  <2> USE <1>12 DEF SessionStep
  <2>1. CASE TakeLock(t)
    BY <2>1 DEF TakeLock
  <2>2. CASE Check(t)
    <3>1. First(op[t]) \in {"probe", "capability"}
      BY DEF First
    <3> QED
      BY <2>2, <3>1 DEF Check
  <2>3. CASE Leave(t)
    BY <2>3 DEF Leave
  <2>4. CASE EngineCall(t)
    BY <2>4 DEF EngineCall
  <2>5. CASE Submit(t) \/ Wait(t) \/ LateProbe(t)
    BY <2>5 DEF Submit, Wait, LateProbe
  <2>6. CASE Recover(t) \/ Verify(t)
    BY <2>6 DEF Recover, Verify
  <2>7. CASE Quit(t)
    <3>1. lateQuit' \in BOOLEAN
      BY <2>7 DEF Quit
    <3>2. matlab' \in {"none", "gone", "killed"} \cup Running
      BY <2>7 DEF Quit, Quits
    <3> QED
      BY <2>7, <3>1, <3>2 DEF Quit, Closed
  <2>8. CASE Terminate(t)
    BY <2>8 DEF Terminate, Closed
  <2> QED
    BY <2>1, <2>2, <2>3, <2>4, <2>5, <2>6, <2>7, <2>8 DEF ThreadStep
<1>13. CASE UNCHANGED vars
  BY <1>13 DEF vars
<1> QED
  BY <1>1, <1>2, <1>3, <1>5, <1>6, <1>7, <1>8, <1>9, <1>10, <1>11, <1>12, <1>13
  DEF Next, ServiceStep

\* A thread's step keeps what the lock guarantees.
LEMMA ThreadKeeps ==
  ASSUME SessionInv, TypeOK', NEW t \in Threads, SessionStep(t)
  PROVE  SessionInv'
<1> USE NobodyIsNoThread
    DEF SessionInv, LockInv, EarlyInv, BusyInv, LateInv, OwnerInv, AttachedSurvives, TypeOK, HoldingSteps,
        EngineCalls, Running, Ops, Early, fixed, outside, serviceVars, report, At, Result, Leaving, SessionStep
<1>1. CASE TakeLock(t)
  BY <1>1 DEF TakeLock
<1>2. CASE Check(t)
  BY <1>2 DEF Check, First, AlreadyClosed
<1>3. CASE Leave(t)
  BY <1>3 DEF Leave
<1>4. CASE EngineCall(t)
  BY <1>4 DEF EngineCall
<1>5. CASE Submit(t)
  BY <1>5 DEF Submit
<1>6. CASE Wait(t)
  BY <1>6 DEF Wait
<1>7. CASE LateProbe(t)
  BY <1>7 DEF LateProbe
<1>8. CASE Recover(t)
  BY <1>8 DEF Recover
<1>9. CASE Verify(t)
  BY <1>9 DEF Verify
<1>10. CASE Quit(t)
  BY <1>10 DEF Quit, Quits, Closed
<1>11. CASE Terminate(t)
  BY <1>11 DEF Terminate, Closed
<1> QED
  BY <1>1, <1>2, <1>3, <1>4, <1>5, <1>6, <1>7, <1>8, <1>9, <1>10, <1>11 DEF ThreadStep

\* A step of the service, of a caller or of MATLAB keeps it too.
LEMMA ServiceKeeps ==
  ASSUME SessionInv, TypeOK', Next, \A t \in Threads : ~SessionStep(t)
  PROVE  SessionInv'
<1> USE NobodyIsNoThread, ServiceThreads
    DEF SessionInv, LockInv, EarlyInv, BusyInv, LateInv, OwnerInv, AttachedSurvives, TypeOK, HoldingSteps,
        EngineCalls, Running, Early, fixed, outside, serviceVars, report, sessionVars, At, Result, Goes
<1>1. CASE Launch \/ Shutdown
  BY <1>1 DEF Launch, Shutdown
<1>2. CASE Find \/ Connect \/ Attest
  BY <1>2 DEF Find, Connect, Attest
<1>3. CASE Construct
  BY <1>3 DEF Construct, Call
<1>4. ASSUME NEW next \in {"down", "closing", "finally"}, TerminateTree(next),
             lifespan = IF next = "down" THEN "abort" ELSE IF next = "closing" THEN "reap_probe" ELSE "reap"
      PROVE  SessionInv'
  BY <1>4 DEF TerminateTree
<1>5. CASE Abort \/ ReapProbe \/ Reap
  BY <1>4, <1>5 DEF Abort, ReapProbe, Reap
<1>6. CASE Probed \/ AwaitClose \/ Finally
  BY <1>6 DEF Probed, AwaitClose, Finally
<1>7. CASE Close
  BY <1>7 DEF Close, Call
<1>8. CASE CheckTree
  BY <1>8 DEF CheckTree
<1>9. CASE TreeStep
  BY <1>9 DEF TreeStep
<1>10. CASE EngineStep
  BY <1>10 DEF EngineStep, MatlabStep, Quits
<1>11. ASSUME NEW t \in Threads, Use(t) PROVE SessionInv'
  BY <1>11 DEF Use, Call
<1> QED
  BY <1>1, <1>2, <1>3, <1>5, <1>6, <1>7, <1>8, <1>9, <1>10, <1>11 DEF Next, ServiceStep

LEMMA SessionStart == Init => SessionInv
BY NobodyIsNoThread, ServiceThreads
DEF Init, SessionInv, LockInv, EarlyInv, BusyInv, LateInv, OwnerInv, AttachedSurvives, TypeOK, HoldingSteps,
    EngineCalls, Running, Early, Ops, Lifespan

LEMMA SessionStutters == SessionInv /\ UNCHANGED vars => SessionInv'
BY DEF SessionInv, LockInv, EarlyInv, BusyInv, LateInv, OwnerInv, AttachedSurvives, TypeOK, vars, sessionVars

LEMMA SessionHolds == Spec => []SessionInv
<1>1. SessionInv /\ [Next]_vars => SessionInv'
  <2> SUFFICES ASSUME SessionInv, [Next]_vars PROVE SessionInv'
    OBVIOUS
  <2>1. TypeOK'
    BY TypeStep DEF SessionInv
  <2>2. CASE \E t \in Threads : SessionStep(t)
    BY <2>1, <2>2, ThreadKeeps
  <2>3. CASE Next /\ \A t \in Threads : ~SessionStep(t)
    BY <2>1, <2>3, ServiceKeeps
  <2>4. CASE UNCHANGED vars
    BY <2>4, SessionStutters
  <2> QED
    BY <2>2, <2>3, <2>4
<1> QED
  BY <1>1, SessionStart, PTL DEF Spec

\* Every variable of the session and of the service always has its type.
THEOREM EngineTypeCorrect == Spec => []TypeOK
<1>1. SessionInv => TypeOK
  BY DEF SessionInv
<1> QED
  BY <1>1, SessionHolds, PTL

\* However many threads call, time out and close: one is inside at a time, and none
\* calls the engine while a quit that was given up may still come.
THEOREM OneCallAlways == Spec => []OneCallAtATime
<1>1. SessionInv => OneCallAtATime
  BY NobodyIsNoThread
  DEF SessionInv, LockInv, BusyInv, LateInv, OneCallAtATime, TypeOK, HoldingSteps, EngineCalls
<1> QED
  BY <1>1, SessionHolds, PTL

\* The MATLAB of a user is neither quit nor killed by a wrapper attached to it.
THEOREM AttachedAlwaysSurvives == Spec => []AttachedSurvives
<1>1. SessionInv => AttachedSurvives
  BY DEF SessionInv, OwnerInv
<1> QED
  BY <1>1, SessionHolds, PTL

\* A session that broke or closed is never handed out again.
THEOREM BrokenStaysBrokenAlways == Spec => BrokenStaysBroken
<1>1. ASSUME SessionInv, [Next]_vars
      PROVE  [(state \in {"broken", "closed"}) => (state' \in {"closed", state})]_vars
  <2> SUFFICES ASSUME Next, state \in {"broken", "closed"} PROVE state' \in {"closed", state}
    BY <1>1
  <2> USE <1>1 DEF SessionInv
  <2>1. CASE Construct
    BY <2>1 DEF Construct, Goes, EarlyInv, Early
  <2>2. ASSUME NEW t \in Threads, ThreadStep(t) PROVE state' \in {"closed", state}
    <3>1. pc[t] \notin {"recover", "verify"}
      BY DEF BusyInv, EngineCalls
    <3>2. CASE TakeLock(t) \/ EngineCall(t) \/ Submit(t) \/ Wait(t) \/ LateProbe(t)
      BY <3>2 DEF TakeLock, EngineCall, Submit, Wait, LateProbe
    <3>3. CASE Check(t) \/ Leave(t)
      BY <3>3 DEF Check, Leave
    <3>4. CASE Quit(t) \/ Terminate(t)
      BY <3>4 DEF Quit, Terminate, Closed, BusyInv
    <3> QED
      BY <2>2, <3>1, <3>2, <3>3, <3>4 DEF ThreadStep, Recover, Verify
  <2> QED
    BY <2>1, <2>2 DEF Next, ServiceStep, Launch, Shutdown, Find, Connect, Attest, Abort, Probed, ReapProbe,
       Close, AwaitClose, CheckTree, Reap, Finally, TreeStep, EngineStep, Use, SessionStep, TerminateTree,
       sessionVars
<1> QED
  BY <1>1, SessionHolds, PTL DEF Spec, BrokenStaysBroken

\* The tree, once it is gone, does not come back; whoever says that it is gone was
\* right, or could not look.
LeftoverInv ==
  /\ lifespan = "off" => launcher = "none" /\ matlab = "none" /\ ~treeKilled
  /\ launcher = "none" => lifespan \in {"off", "down", "alone"}
  /\ treeKilled => TreeGone \/ blind
  /\ lifespan \in {"finally", "down"} => TreeGone \/ reported \/ blind

LEMMA LeftoverStep ==
  ASSUME TypeOK, LeftoverInv, [Next]_vars
  PROVE  LeftoverInv'
<1> USE DEF LeftoverInv, TreeGone, TypeOK, Running, fixed, outside, serviceVars, report, sessionVars, Goes
<1>1. CASE Launch \/ Shutdown
  BY <1>1 DEF Launch, Shutdown
<1>2. CASE Find \/ Connect \/ Attest
  BY <1>2 DEF Find, Connect, Attest
<1>3. CASE Construct
  BY <1>3 DEF Construct
<1>4. ASSUME NEW next \in {"down", "closing", "finally"}, TerminateTree(next), lifespan \notin {"off", "alone", "down"}
      PROVE  LeftoverInv'
  <2>1. launcher' # "none" /\ (TreeGone => TreeGone')
    BY <1>4 DEF TerminateTree
  <2>2. TreeGone' \/ reported' = TRUE \/ blind' = TRUE
    BY <1>4 DEF TerminateTree, LooksGone
  <2>3. treeKilled' => TreeGone' \/ blind'
    <3>1. CASE LooksGone
      BY <3>1 DEF LooksGone
    <3>2. CASE treeKilled' = treeKilled /\ blind' = blind
      BY <2>1, <3>2
    <3> QED
      BY <1>4, <3>1, <3>2 DEF TerminateTree
  <2> QED
    BY <1>4, <2>1, <2>2, <2>3 DEF TerminateTree
<1>5. CASE Abort \/ ReapProbe \/ Reap
  BY <1>4, <1>5 DEF Abort, ReapProbe, Reap
<1>6. CASE Probed \/ AwaitClose \/ Finally
  BY <1>6 DEF Probed, AwaitClose, Finally
<1>7. CASE Close
  BY <1>7 DEF Close
<1>8. CASE CheckTree
  BY <1>8 DEF CheckTree, LooksGone
<1>9. CASE TreeStep
  BY <1>9 DEF TreeStep
<1>10. CASE EngineStep
  BY <1>10 DEF EngineStep, MatlabStep, Quits
<1>11. ASSUME NEW t \in Threads, Use(t) PROVE LeftoverInv'
  BY <1>11 DEF Use
<1>12. ASSUME NEW t \in Threads, ThreadStep(t), UNCHANGED outside PROVE LeftoverInv'
  <2>1. \/ UNCHANGED matlab
        \/ Quits
        \/ matlab' = "killed" /\ matlab \in Running
    BY <1>12 DEF ThreadStep, TakeLock, Check, Leave, EngineCall, Submit, Wait, LateProbe, Recover, Verify,
                 Quit, Terminate
  <2> QED
    BY <1>12, <2>1 DEF Quits
<1>13. CASE UNCHANGED vars
  BY <1>13 DEF vars
<1> QED
  BY <1>1, <1>2, <1>3, <1>5, <1>6, <1>7, <1>8, <1>9, <1>10, <1>11, <1>12, <1>13
  DEF Next, ServiceStep, SessionStep

\* A service that is down left no process of its tree, or a report of a failed kill,
\* or had its lists of processes fail, for every failure of the startup, every hang
\* of MATLAB and every order in which probe, close and shutdown end.
THEOREM NoSilentLeftoverAlways == Spec => []NoSilentLeftover
<1>1. Init => LeftoverInv
  BY DEF Init, LeftoverInv
<1>2. TypeOK /\ LeftoverInv /\ [Next]_vars => LeftoverInv'
  BY LeftoverStep
<1>3. LeftoverInv => NoSilentLeftover
  BY DEF LeftoverInv, NoSilentLeftover
<1> QED
  BY <1>1, <1>2, <1>3, EngineTypeCorrect, PTL DEF Spec
=============================================================================
