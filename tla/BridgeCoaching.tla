--------------------------- MODULE BridgeCoaching ---------------------------
(***************************************************************************)
(* Run-state coaching: CoachingAttemptSlotManager and                      *)
(* BridgeRunStateCoachingService.coach of                                  *)
(* features/matlab_bridge/bridge_run_state_coaching_service.py.            *)
(* One event loop runs the requests; they suspend at the reads of the      *)
(* store and while a thread talks to the provider, which nothing can stop. *)
(* The slot manager is one for the process and never suspends inside its   *)
(* lock, so acquire and release are single steps.                          *)
(***************************************************************************)
EXTENDS Integers, FiniteSets

CONSTANTS
  Requests,         \* coaching requests; each stands for its attempt_id too
  Sessions,         \* bridge sessions, the keys of the slots
  NoSlot, NoSession,
  TTL,              \* ttl_seconds of a slot
  Deadline,         \* server_deadline_s
  OrphanLimit,      \* orphan_limit
  MaxClock          \* bound: the last tick

ASSUME LimitAssumption ==
  /\ TTL \in Nat \ {0} /\ Deadline \in Nat \ {0}
  /\ OrphanLimit \in Nat /\ MaxClock \in Nat

ASSUME SetAssumption == IsFiniteSet(Requests) /\ IsFiniteSet(Sessions)

Slots == [attempt : Requests, expires : Nat]

ASSUME NoneAssumption == NoSlot \notin Slots /\ NoSession \notin Sessions

Time == 0..MaxClock

(* What the client is told: "reply" stands for whatever the last fence     *)
(* lets out, the coaching or the 502, 503 and 504 answers.                 *)
Answers == {"none", "reply", "busy", "gone", "unavailable", "cancelled"}

(* Before the provider is called the coroutine itself owns its slot.       *)
Owning == {"reading", "insufficient", "fencing"}
Phases == Owning \cup {"idle", "waiting", "finalizing", "done"}

VARIABLES
  clock,            \* the loop's time
  slot,             \* _slots
  orphans,          \* _orphan_attempt_ids
  session,          \* the session a request asks about
  since,            \* when its attempt began
  phase,            \* where its coroutine is suspended
  deadline,         \* when wait_for gives up, 0 when nothing waits
  call,             \* the provider task and its release callback
  answer,           \* what the client is, or is going to be, told
  active            \* the store still has the session active

coachingVars == <<clock, slot, orphans, session, since, phase, deadline, call,
                  answer, active>>

slotVars == <<slot, orphans>>

(* Mutant: the orphans never hear of the attempt that is replaced.         *)
Orphaned_Forgotten(s) == orphans

(* The holder of an expired slot joins the orphans.                        *)
Orphaned(s) == orphans \cup {slot[s].attempt}

Taken(s) == slot[s] # NoSlot /\ slot[s].expires > clock

Stale(s) == slot[s] # NoSlot /\ slot[s].expires <= clock

(* acquire returns None.                                                   *)
Blocked(s) == Taken(s) \/ (Stale(s) /\ Cardinality(orphans) >= OrphanLimit)

(* Mutant: whoever holds the slot now loses it.                            *)
Release_Any(r) ==
  /\ slot' = [slot EXCEPT ![session[r]] = NoSlot]
  /\ orphans' = orphans \ {r}

(* Mutant: an attempt that lost its slot stays among the orphans.          *)
Release_SlotOnly(r) ==
  LET s == session[r] IN
  /\ slot' = IF slot[s] # NoSlot /\ slot[s].attempt = r
             THEN [slot EXCEPT ![s] = NoSlot] ELSE slot
  /\ UNCHANGED orphans

(* release: compare, then give back the slot or the place among orphans.   *)
Release(r) ==
  LET s == session[r]
      held == slot[s] # NoSlot /\ slot[s].attempt = r
  IN /\ slot' = IF held THEN [slot EXCEPT ![s] = NoSlot] ELSE slot
     /\ orphans' = IF held THEN orphans ELSE orphans \ {r}

(* The coroutine leaves coach() with an answer.                            *)
Finish(r, a) ==
  /\ phase' = [phase EXCEPT ![r] = "done"]
  /\ answer' = [answer EXCEPT ![r] = a]

Goto(r, p) ==
  /\ phase' = [phase EXCEPT ![r] = p]
  /\ UNCHANGED answer

(* wait_for's timer, capped by the bound of the model.                     *)
Until(t) == IF t + Deadline <= MaxClock THEN t + Deadline ELSE MaxClock

----------------------------------------------------------------------------

(* coach starts: the session has an attempt in flight, or it gets a slot.  *)
Busy(r, s) ==
  /\ phase[r] = "idle"
  /\ Blocked(s)
  /\ session' = [session EXCEPT ![r] = s]
  /\ Finish(r, "busy")
  /\ UNCHANGED <<clock, slotVars, since, deadline, call, active>>

Acquire(r, s) ==
  /\ phase[r] = "idle"
  /\ ~Blocked(s)
  /\ orphans' = IF Stale(s) THEN Orphaned(s) ELSE orphans
  /\ slot' = [slot EXCEPT ![s] = [attempt |-> r, expires |-> clock + TTL]]
  /\ session' = [session EXCEPT ![r] = s]
  /\ since' = [since EXCEPT ![r] = clock]
  /\ Goto(r, "reading")
  /\ UNCHANGED <<clock, deadline, call, active>>

(* read_run_state_window_for_coaching; the evidence decides what follows.  *)
Read(r) ==
  /\ phase[r] = "reading"
  /\ active[session[r]]
  /\ \E p \in {"insufficient", "fencing"} : Goto(r, p)
  /\ UNCHANGED <<clock, slotVars, session, since, deadline, call, active>>

(* assert_coaching_session_active, then the answer that needs no provider; *)
(* or a prompt over the input limit.                                       *)
AnswerWithoutProvider(r) ==
  /\ phase[r] \in {"insufficient", "fencing"}
  /\ Finish(r, "reply")
  /\ active[session[r]]
  /\ Release(r)
  /\ UNCHANGED <<clock, session, since, deadline, call, active>>

(* assert_coaching_session_active, then the provider's thread is started:  *)
(* from here its callback owns the slot.                                   *)
CallProvider(r) ==
  /\ phase[r] = "fencing"
  /\ active[session[r]]
  /\ call' = [call EXCEPT ![r] = "running"]
  /\ deadline' = [deadline EXCEPT ![r] = Until(clock)]
  /\ Goto(r, "waiting")
  /\ UNCHANGED <<clock, slotVars, session, since, active>>

(* Before the provider is called a read finds no run, a read or a fence    *)
(* rejects the session, or the store fails: the finally clause releases.   *)
Rejected(r) ==
  /\ phase[r] \in Owning
  /\ \/ ~active[session[r]] /\ Finish(r, "gone")
     \/ phase[r] = "reading" /\ Finish(r, "gone")      \* run_missing
     \/ Finish(r, "unavailable")
  /\ Release(r)
  /\ UNCHANGED <<clock, session, since, deadline, call, active>>

(* The thread ends; the loop runs its callback, which schedules a release. *)
Settle(r) ==
  /\ call[r] = "running"
  /\ call' = [call EXCEPT ![r] = "settled"]
  /\ UNCHANGED <<clock, slotVars, session, since, phase, deadline, answer, active>>

(* _release_provider_attempt's task.                                       *)
CallbackRelease(r) ==
  /\ call[r] = "settled"
  /\ call' = [call EXCEPT ![r] = "released"]
  /\ Release(r)
  /\ UNCHANGED <<clock, session, since, phase, deadline, answer, active>>

(* _await_and_shape_provider: the reply, if it passes the validation, or   *)
(* the server's deadline.                                                  *)
Shape(r) ==
  /\ phase[r] = "waiting"
  /\ call[r] # "running"
  /\ phase' = [phase EXCEPT ![r] = "finalizing"]
  /\ answer' = [answer EXCEPT ![r] = "reply"]
  /\ deadline' = [deadline EXCEPT ![r] = 0]
  /\ UNCHANGED <<clock, slotVars, session, since, call, active>>

GiveUp(r) ==
  /\ phase[r] = "waiting"
  /\ clock >= deadline[r]
  /\ phase' = [phase EXCEPT ![r] = "finalizing"]
  /\ answer' = [answer EXCEPT ![r] = "reply"]
  /\ deadline' = [deadline EXCEPT ![r] = 0]
  /\ UNCHANGED <<clock, slotVars, session, since, call, active>>

(* Mutant: the answer goes out without the last fence.                     *)
Finalize_NoFence(r) ==
  /\ phase[r] = "finalizing"
  /\ Finish(r, answer[r])
  /\ UNCHANGED <<clock, slotVars, session, since, deadline, call, active>>

(* The last fence decides whether the answer goes out.                     *)
Finalize(r) ==
  /\ phase[r] = "finalizing"
  /\ \/ active[session[r]] /\ Finish(r, answer[r])
     \/ ~active[session[r]] /\ Finish(r, "gone")
     \/ Finish(r, "unavailable")
  /\ UNCHANGED <<clock, slotVars, session, since, deadline, call, active>>

(* The coroutine is cancelled at its await; the provider's thread is       *)
(* shielded and keeps its slot.                                            *)
Cancel(r) ==
  /\ phase[r] \in Owning \cup {"waiting", "finalizing"}
  /\ Finish(r, "cancelled")
  /\ IF phase[r] \in Owning THEN Release(r) ELSE UNCHANGED slotVars
  /\ deadline' = [deadline EXCEPT ![r] = 0]
  /\ UNCHANGED <<clock, session, since, call, active>>

(* The store ends the session: its end, its deletion or its expiry.        *)
EndSession(s) ==
  /\ active[s]
  /\ active' = [active EXCEPT ![s] = FALSE]
  /\ UNCHANGED <<clock, slotVars, session, since, phase, deadline, call, answer>>

Tick ==
  /\ clock < MaxClock
  /\ clock' = clock + 1
  /\ UNCHANGED <<slotVars, session, since, phase, deadline, call, answer, active>>

CoachingInit ==
  /\ clock = 0
  /\ slot = [s \in Sessions |-> NoSlot]
  /\ orphans = {}
  /\ session = [r \in Requests |-> NoSession]
  /\ since = [r \in Requests |-> 0]
  /\ phase = [r \in Requests |-> "idle"]
  /\ deadline = [r \in Requests |-> 0]
  /\ call = [r \in Requests |-> "none"]
  /\ answer = [r \in Requests |-> "none"]
  /\ active = [s \in Sessions |-> TRUE]

Advance(r) ==
  \/ Read(r) \/ AnswerWithoutProvider(r) \/ CallProvider(r) \/ Rejected(r)
  \/ Shape(r) \/ GiveUp(r) \/ Finalize(r)

CoachingNext ==
  \/ \E r \in Requests :
       \/ \E s \in Sessions : Busy(r, s) \/ Acquire(r, s)
       \/ Advance(r) \/ Settle(r) \/ CallbackRelease(r) \/ Cancel(r)
  \/ \E s \in Sessions : EndSession(s)
  \/ Tick

CoachingSpec == CoachingInit /\ [][CoachingNext]_coachingVars

(* The loop runs what is ready and its clock moves; the provider may hang. *)
FairCoachingSpec ==
  /\ CoachingSpec
  /\ WF_coachingVars(Tick)
  /\ \A r \in Requests :
       WF_coachingVars(Advance(r)) /\ WF_coachingVars(CallbackRelease(r))

----------------------------------------------------------------------------

(* An attempt that still runs code, or has a thread, or owes its release.  *)
InFlight(r) == phase[r] \in Owning \/ call[r] \in {"running", "settled"}

(* Every variable has its type.                                            *)
CoachingTypeOK ==
  /\ clock \in Time
  /\ slot \in [Sessions -> Slots \cup {NoSlot}]
  /\ orphans \subseteq Requests
  /\ session \in [Requests -> Sessions \cup {NoSession}]
  /\ since \in [Requests -> Nat]
  /\ phase \in [Requests -> Phases]
  /\ deadline \in [Requests -> Nat]
  /\ call \in [Requests -> {"none", "running", "settled", "released"}]
  /\ answer \in [Requests -> Answers]
  /\ active \in [Sessions -> BOOLEAN]

Holds(r) == \E s \in Sessions : slot[s] # NoSlot /\ slot[s].attempt = r

(* Each attempt in flight has its session's slot or is an orphan.          *)
AttemptsAccounted ==
  \A r \in Requests :
    /\ InFlight(r) <=> (Holds(r) \/ r \in orphans)
    /\ ~(Holds(r) /\ r \in orphans)

CallsBounded ==
  Cardinality({r \in Requests : InFlight(r)}) <= Cardinality(Sessions) + OrphanLimit

(* Each attempt in flight is accounted for exactly once, by its session's  *)
(* slot or among the orphans, and nothing else is: no path through         *)
(* coach(), no cancellation and no late callback leaks a slot or frees the *)
(* slot of another attempt.  So, however long the provider hangs and       *)
(* whatever is retried, its calls are at most one for each session and the *)
(* orphan limit.                                                           *)
SlotsAccountForAttempts == AttemptsAccounted /\ CallsBounded

(* Two attempts of one session overlap only when the older has outlived    *)
(* its slot.                                                               *)
OverlapOnlyAfterTTL ==
  \A q, r \in Requests :
    q # r /\ InFlight(q) /\ InFlight(r) /\ session[q] = session[r]
      => since[q] + TTL <= since[r] \/ since[r] + TTL <= since[q]

(* Once its session has ended, a request is told so, whatever the provider *)
(* answered and whether it answered in time.                               *)
EndedSessionsGetNothing ==
  [][\A r \in Requests :
       phase[r] # "done" /\ phase'[r] = "done" /\ answer'[r] = "reply"
         => active[session[r]]]_coachingVars

(* Every request is answered although the provider may hang for ever, and  *)
(* in the end only a call whose provider hangs keeps its slot or its place *)
(* among the orphans: whoever ended, however late and although its request *)
(* was answered or cancelled long before, has given it back.               *)
AnsweredAndFreed ==
  []<>(\A r \in Requests :
         /\ phase[r] \in {"idle", "done"}
         /\ Holds(r) \/ r \in orphans => call[r] = "running")
=============================================================================
