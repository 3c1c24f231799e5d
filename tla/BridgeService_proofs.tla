------------------------ MODULE BridgeService_proofs ------------------------
(***************************************************************************)
(* Theorems about the bridge as one system, for any number of submissions, *)
(* sessions, owners and tokens, any lifetimes and skew, and any number of  *)
(* refusals, timeouts, revocations, restarts and ended sessions.           *)
(*                                                                         *)
(* A request is verified in one step and reaches the store in a later one. *)
(* What it was verified with is still true then: the claims of a token     *)
(* never change, a restart ends every request that is in the server, and   *)
(* the session is compared with the claims once more.                      *)
(***************************************************************************)
EXTENDS BridgeService, TLAPS

----------------------------------------------------------------------------
(* The tokens by themselves: a revoked token stays refused, for any        *)
(* lifetimes, skew and clock drift, and across any number of restarts.     *)

(* The record of a revocation, in the process that signed the token, holds *)
(* exp + skew until the clock has passed that instant.                     *)
RecordInv ==
  \A j \in everRevoked :
    /\ token[j] # NoToken
    /\ token[j].gen <= generation
    /\ token[j].gen = generation =>
         \/ revokedUntil[j] = token[j].exp + SkewTicks
         \/ token[j].exp + SkewTicks < clock

VerdictInv ==
  AcceptedRevoked => /\ verdict.token \in Issued
                     /\ verdict.at > token[verdict.token].exp + SkewTicks

IndInv == TypeOK /\ RecordInv /\ VerdictInv

LEMMA TicksTyped == SkewTicks \in Nat /\ TTLTicks \in Nat
  BY ClockAssumption DEF SkewTicks, TTLTicks

LEMMA EpochTyped == ASSUME NEW t \in Nat PROVE Epoch(t) \in Nat
  BY ClockAssumption DEF Epoch

LEMMA InitInd == Init => IndInv
  BY ClockAssumption, NoneAssumption DEF Init, IndInv, TypeOK, Time, RecordInv, VerdictInv,
     AcceptedRevoked, Unremarkable

(* Dropping the records that have run out keeps the invariant at the later *)
(* clock reading.                                                          *)
LEMMA DroppedKeeps ==
  ASSUME TypeOK, RecordInv, NEW now \in Time, clock <= now
  PROVE  /\ Dropped(now) \in [TokenIds -> Nat \cup {NoTime}]
         /\ \A j \in everRevoked :
              token[j].gen = generation =>
                \/ Dropped(now)[j] = token[j].exp + SkewTicks
                \/ token[j].exp + SkewTicks < now
<1>1. Dropped(now) \in [TokenIds -> Nat \cup {NoTime}]
  BY DEF Dropped, TypeOK
<1>2. ASSUME NEW j \in everRevoked, token[j].gen = generation
      PROVE  \/ Dropped(now)[j] = token[j].exp + SkewTicks
             \/ token[j].exp + SkewTicks < now
  <2>1. j \in TokenIds /\ token[j] \in Claims
    BY DEF TypeOK, RecordInv
  <2>2. token[j].exp + SkewTicks \in Nat /\ clock \in Nat /\ now \in Nat
    BY <2>1, TicksTyped, ClockAssumption DEF Claims, TypeOK, Time
  <2>3. CASE token[j].exp + SkewTicks < clock
    BY <2>2, <2>3
  <2>4. CASE revokedUntil[j] = token[j].exp + SkewTicks
    <3>1. revokedUntil[j] # NoTime
      BY <2>2, <2>4, NoneAssumption
    <3>2. Dropped(now)[j] = IF revokedUntil[j] >= now THEN revokedUntil[j] ELSE NoTime
      BY <2>1, <3>1 DEF Dropped, KeptAt
    <3> QED
      BY <2>2, <2>4, <3>2
  <2> QED
    BY <1>2, <2>3, <2>4 DEF RecordInv
<1> QED
  BY <1>1, <1>2

LEMMA StepInd == IndInv /\ [Next]_vars => IndInv'
<1> SUFFICES ASSUME IndInv, [Next]_vars PROVE IndInv'
  OBVIOUS
<1> USE ClockAssumption, NoneAssumption DEF IndInv
<1>1. CASE UNCHANGED vars
  BY <1>1 DEF vars, TypeOK, RecordInv, VerdictInv, AcceptedRevoked, Issued
<1>2. ASSUME NEW j \in TokenIds, NEW caps \in SUBSET Capabilities, Issue(j, caps)
      PROVE  IndInv'
  <2> DEFINE c == [iat |-> Epoch(clock), exp |-> Epoch(clock + TTLTicks),
                   told |-> ToldExpiry(clock), gen |-> generation, caps |-> caps]
  <2>1. c \in Claims
    BY TicksTyped, EpochTyped DEF Claims, TypeOK, Time, ToldExpiry
  <2>2. token[j] = NoToken /\ token' = [token EXCEPT ![j] = c]
    BY <1>2 DEF Issue
  <2> HIDE DEF c
  <2>3. \A k \in TokenIds : token[k] # NoToken => token'[k] = token[k]
    BY <2>2 DEF TypeOK
  <2>4. TypeOK'
    BY <1>2, <2>1, <2>2 DEF Issue, TypeOK
  <2>5. RecordInv'
    BY <1>2, <2>3 DEF Issue, TypeOK, RecordInv
  <2>6. VerdictInv'
    BY <1>2, <2>3 DEF Issue, VerdictInv, AcceptedRevoked, Issued
  <2> QED
    BY <2>4, <2>5, <2>6
<1>3. ASSUME NEW j \in TokenIds, NEW d \in 0..MaxDrift,
             VerifyDenied(j, d) \/ VerifyUnavailable(j, d)
      PROVE  IndInv'
  <2>1. /\ clock' \in Time /\ clock <= clock'
        /\ UNCHANGED <<generation, available, token, revokedUntil, everRevoked>>
        /\ verdict' = Unremarkable
    BY <1>3 DEF VerifyDenied, VerifyUnavailable, Drift, TypeOK, Time
  <2>2. RecordInv'
    <3>1. \A k \in everRevoked : token[k].exp + SkewTicks \in Nat
      BY TicksTyped DEF TypeOK, RecordInv, Claims
    <3> QED
      BY <2>1, <3>1 DEF RecordInv, TypeOK, Time
  <2> QED
    BY <2>1, <2>2 DEF TypeOK, VerdictInv, AcceptedRevoked, Unremarkable
<1>4. ASSUME NEW j \in TokenIds, NEW cap \in Capabilities, NEW d \in 0..MaxDrift,
             VerifyChecked(j, cap, d)
      PROVE  IndInv'
  <2>1. /\ clock' \in Time /\ clock <= clock'
        /\ UNCHANGED <<generation, available, token, everRevoked>>
        /\ revokedUntil' = Dropped(clock')
        /\ Decodes(j, clock)
    BY <1>4 DEF VerifyChecked, Drift, TypeOK, Time
  <2>2. /\ revokedUntil' \in [TokenIds -> Nat \cup {NoTime}]
        /\ \A k \in everRevoked :
             token[k].gen = generation =>
               \/ Dropped(clock')[k] = token[k].exp + SkewTicks
               \/ token[k].exp + SkewTicks < clock'
    BY <2>1, DroppedKeeps
  <2>3. TypeOK' /\ RecordInv'
    BY <2>1, <2>2 DEF TypeOK, RecordInv
  <2>4. token[j] \in Claims /\ token[j].gen = generation
    BY <2>1 DEF Decodes, Issued, GenerationValid, TypeOK
  <2>5. CASE IsRevoked(j, clock') \/ cap \notin token[j].caps
    <3>1. verdict' = Unremarkable
      BY <1>4, <2>5 DEF VerifyChecked
    <3> QED
      BY <2>3, <3>1 DEF VerdictInv, AcceptedRevoked, Unremarkable
  <2>6. CASE ~(IsRevoked(j, clock') \/ cap \notin token[j].caps)
    <3>1. verdict' = Acceptance(j, clock')
      BY <1>4, <2>6 DEF VerifyChecked
    <3>2. ASSUME j \in everRevoked
          PROVE  clock' > token[j].exp + SkewTicks
      <4>1. token[j].exp + SkewTicks \in Nat /\ SkewTicks \in Nat /\ clock' \in Nat
        BY <2>1, <2>4, TicksTyped DEF Claims, Time
      <4>2. CASE token[j].exp + SkewTicks < clock'
        BY <4>1, <4>2
      <4>3. CASE Dropped(clock')[j] = token[j].exp + SkewTicks
        <5>1. ~(token[j].exp + SkewTicks >= clock' - SkewTicks)
          BY <2>6, <4>1, <4>3, NoneAssumption DEF IsRevoked
        <5> QED
          BY <4>1, <5>1
      <4> QED
        BY <2>2, <2>4, <3>2, <4>2, <4>3
    <3>3. j \in Issued
      BY <2>1 DEF Decodes
    <3> QED
      BY <2>1, <2>3, <3>1, <3>2, <3>3
      DEF VerdictInv, AcceptedRevoked, Acceptance, Unremarkable, Issued
  <2> QED
    BY <2>5, <2>6
<1>5. ASSUME NEW j \in TokenIds, NEW d \in 0..MaxDrift, Revoke(j, d)
      PROVE  IndInv'
  <2>1. /\ clock' \in Time /\ clock <= clock'
        /\ UNCHANGED <<generation, available, token, verdict>>
        /\ revokedUntil' = [Dropped(clock') EXCEPT ![j] = token[j].exp + SkewTicks]
        /\ everRevoked' = everRevoked \cup {j}
        /\ Decodes(j, clock)
    BY <1>5 DEF Revoke, Drift, TypeOK, Time
  <2>2. /\ Dropped(clock') \in [TokenIds -> Nat \cup {NoTime}]
        /\ \A k \in everRevoked :
             token[k].gen = generation =>
               \/ Dropped(clock')[k] = token[k].exp + SkewTicks
               \/ token[k].exp + SkewTicks < clock'
    BY <2>1, DroppedKeeps
  <2>3. token[j] \in Claims /\ token[j] # NoToken /\ token[j].gen = generation
    BY <2>1, NoTokenAssumption DEF Decodes, Issued, GenerationValid, TypeOK
  <2>4. token[j].exp + SkewTicks \in Nat
    BY <2>3, TicksTyped DEF Claims
  <2>5. TypeOK'
    BY <2>1, <2>2, <2>4 DEF TypeOK
  <2>6. revokedUntil'[j] = token[j].exp + SkewTicks
    BY <2>1, <2>2
  <2>7. \A k \in TokenIds : k # j => revokedUntil'[k] = Dropped(clock')[k]
    BY <2>1, <2>2
  <2>8. RecordInv'
    BY <2>1, <2>2, <2>3, <2>6, <2>7 DEF RecordInv, TypeOK
  <2>9. VerdictInv'
    BY <2>1 DEF VerdictInv, AcceptedRevoked, Issued
  <2> QED
    BY <2>5, <2>8, <2>9
<1>6. CASE Toggle
  BY <1>6 DEF Toggle, TypeOK, RecordInv, VerdictInv, AcceptedRevoked, Issued
<1>7. CASE Restart
  BY <1>7 DEF Restart, TypeOK, RecordInv, VerdictInv, AcceptedRevoked, Issued, Claims
<1>8. CASE Tick
  <2>1. \A k \in everRevoked : token[k].exp + SkewTicks \in Nat
    BY TicksTyped DEF TypeOK, RecordInv, Claims
  <2> QED
    BY <1>8, <2>1 DEF Tick, TypeOK, Time, RecordInv, VerdictInv, AcceptedRevoked, Issued
<1> QED
  BY <1>1, <1>2, <1>3, <1>4, <1>5, <1>6, <1>7, <1>8 DEF Next

LEMMA Inductive == Spec => []IndInv
  BY InitInd, StepInd, PTL DEF Spec

(* The service's variables always have their types.                        *)
THEOREM AuthTypeCorrect == Spec => []TypeOK
  BY Inductive, PTL DEF IndInv

(* A verification that starts after a revocation was acknowledged accepts  *)
(* only past the last instant at which the token was acceptable at all.    *)
THEOREM RevocationHolds == Spec => []RevokedStaysRefused
<1>1. IndInv => RevokedStaysRefused
  BY DEF IndInv, VerdictInv, RevokedStaysRefused
<1> QED
  BY <1>1, Inductive, PTL

(* A revocation is remembered as long as its token passes the other        *)
(* checks: restarts lose the records, and with them the tokens.            *)
THEOREM RecordsOutliveTokens == Spec => []RecordOutlivesToken
<1>1. IndInv => RecordOutlivesToken
  <2> SUFFICES ASSUME IndInv, NEW j \in everRevoked, Decodes(j, clock)
               PROVE  revokedUntil[j] # NoTime
    BY DEF RecordOutlivesToken
  <2>1. token[j] \in Claims /\ token[j].gen = generation /\ token[j].exp >= clock - SkewTicks
    BY DEF IndInv, TypeOK, RecordInv, Decodes, Issued, GenerationValid, TimesValid
  <2>2. token[j].exp + SkewTicks \in Nat /\ SkewTicks \in Nat /\ token[j].exp \in Nat
    BY <2>1, TicksTyped DEF Claims
  <2>3. clock \in Nat
    BY DEF IndInv, TypeOK, Time
  <2>4. revokedUntil[j] = token[j].exp + SkewTicks
    BY <2>1, <2>2, <2>3 DEF IndInv, RecordInv
  <2> QED
    BY <2>2, <2>4, NoneAssumption
<1> QED
  BY <1>1, Inductive, PTL

(* What a token's times have to do with the instant it was issued at.      *)
Timed ==
  \A j \in Issued : \E t \in 0..clock :
    /\ token[j].iat = Epoch(t)
    /\ token[j].exp = Epoch(t + TTLTicks)
    /\ token[j].told = ToldExpiry(t)

(* Cutting to whole seconds takes off less than one, and as lifetimes are  *)
(* whole seconds it does not change them.                                  *)
LEMMA EpochCuts ==
  ASSUME NEW t \in Nat
  PROVE  /\ Epoch(t) \in Nat /\ Epoch(t) <= t /\ t < Epoch(t) + Second
         /\ Epoch(t + TTLTicks) = Epoch(t) + TTLTicks
<1>1. /\ (t \div Second) \in Nat
      /\ (t \div Second) * Second <= t
      /\ t < (t \div Second) * Second + Second
  BY ClockAssumption, SMTT(30)
<1>2. (t + TokenTTL * Second) \div Second = (t \div Second) + TokenTTL
  BY ClockAssumption, SMTT(30)
<1>3. ((t \div Second) + TokenTTL) * Second = (t \div Second) * Second + TokenTTL * Second
  BY <1>1, ClockAssumption, SMTT(30)
<1> QED
  BY <1>1, <1>2, <1>3, EpochTyped DEF Epoch, TTLTicks

LEMMA TimedStep == TypeOK /\ Timed /\ [Next]_vars => Timed'
<1> SUFFICES ASSUME TypeOK, Timed, [Next]_vars PROVE Timed'
  OBVIOUS
<1>1. ASSUME token' = token, clock' \in Nat, clock <= clock' PROVE Timed'
  <2> SUFFICES ASSUME NEW j \in Issued
               PROVE  \E t \in 0..clock' : /\ token[j].iat = Epoch(t)
                                           /\ token[j].exp = Epoch(t + TTLTicks)
                                           /\ token[j].told = ToldExpiry(t)
    BY <1>1 DEF Timed, Issued
  <2>1. PICK t \in 0..clock : /\ token[j].iat = Epoch(t)
                             /\ token[j].exp = Epoch(t + TTLTicks)
                             /\ token[j].told = ToldExpiry(t)
    BY DEF Timed
  <2> QED
    BY <1>1, <2>1 DEF TypeOK, Time
<1>2. ASSUME NEW i \in TokenIds, NEW caps \in SUBSET Capabilities, Issue(i, caps) PROVE Timed'
  <2>1. clock' = clock /\ clock \in Nat /\ TokenIds = DOMAIN token
    BY <1>2 DEF Issue, TypeOK, Time
  <2>2. token'[i].iat = Epoch(clock) /\ token'[i].exp = Epoch(clock + TTLTicks)
        /\ token'[i].told = ToldExpiry(clock)
    BY <1>2, <2>1 DEF Issue
  <2>3. \A j \in TokenIds \ {i} : token'[j] = token[j]
    BY <1>2 DEF Issue, TypeOK
  <2> QED
    BY <2>1, <2>2, <2>3 DEF Timed, Issued
<1>3. ASSUME NEW d \in 0..MaxDrift, Drift(d), token' = token PROVE Timed'
  BY <1>1, <1>3, ClockAssumption DEF Drift, TypeOK, Time
<1>4. CASE Toggle \/ Restart
  BY <1>1, <1>4 DEF Toggle, Restart, TypeOK, Time
<1>5. CASE Tick
  BY <1>1, <1>5 DEF Tick, TypeOK, Time
<1>6. CASE UNCHANGED vars
  BY <1>1, <1>6 DEF vars, TypeOK, Time
<1> QED
  BY <1>2, <1>3, <1>4, <1>5, <1>6
     DEF Next, VerifyDenied, VerifyUnavailable, VerifyChecked, Revoke

(* A token is honoured up to the expiry its client was told, for every     *)
(* lifetime and every skew of a second or more.                            *)
THEOREM TokensAlwaysHonoured == Spec => []HonouredUntilTold
<1>1. Init => Timed
  BY DEF Init, Timed, Issued
<1>2. TypeOK /\ Timed => HonouredUntilTold
  <2> SUFFICES ASSUME TypeOK, Timed, Skew > 0, NEW j \in Issued,
                      token[j].gen = generation, clock <= token[j].told
               PROVE  Decodes(j, clock)
    BY DEF HonouredUntilTold
  <2>1. PICK t \in 0..clock : /\ token[j].iat = Epoch(t)
                             /\ token[j].exp = Epoch(t + TTLTicks)
                             /\ token[j].told = t + TTLTicks
    BY DEF Timed, ToldExpiry
  <2>2. clock \in Nat /\ t \in Nat /\ t <= clock
    BY DEF TypeOK, Time
  <2>3. /\ Epoch(t) \in Nat /\ Epoch(t) <= t /\ t < Epoch(t) + Second
        /\ token[j].exp = Epoch(t) + TTLTicks
    BY <2>1, <2>2, EpochCuts
  <2>4. SkewTicks \in Nat /\ SkewTicks >= Second
    BY ClockAssumption, SMTT(30) DEF SkewTicks
  <2>5. TTLTicks \in Nat /\ TTLTicks > 0 /\ TTLTicks <= MaxLifetime * Second
    BY ClockAssumption, SMTT(30) DEF TTLTicks
  <2>6. /\ Second \in Nat /\ MaxLifetime * Second \in Nat
    BY ClockAssumption, SMTT(30)
  <2>7. TimesValid(token[j], clock)
    BY <2>1, <2>2, <2>3, <2>4, <2>5, <2>6 DEF TimesValid
  <2> QED
    BY <2>7 DEF Decodes, GenerationValid
<1>3. IndInv => TypeOK
  BY DEF IndInv
<1> QED
  BY <1>1, <1>2, <1>3, Inductive, TimedStep, PTL DEF Spec

----------------------------------------------------------------------------
(* The system.                                                             *)

Steps == {"confirming", "fetching", "establishing", "issuing", "posting", "over"}
Tellings == {"nothing", "saved", "explained", "cancelled", "conflict", "unavailable", "error"}

Snapshots == [kind : {Write, Explain}, session : Sessions, about : Sequences \cup Submissions]

Captured == [step : Steps, kind : {Write, Explain}, scope : Scopes,
             about : Sequences \cup Submissions, confirmed : {NoSnapshot} \cup Snapshots,
             tries : Nat, told : Tellings]

Entries == [run : Submissions, seq : Sequences, req : Submissions]

ServiceTyped ==
  /\ sub \in [Submissions -> {Fresh} \cup Captured]
  /\ request \in [Submissions -> {NoRequest} \cup [at : {"route", "handler"}, token : TokenIds]]
  /\ signedFor \in [TokenIds -> Scopes \cup {NoScope}]
  /\ written \in [Submissions -> TokenIds \cup {NoToken}]
  /\ holder \in [Sessions -> [owner : Owners, gen : 1..MaxGeneration] \cup {NoHolder}]
  /\ phase \in [Sessions -> {"none", "open", "closed"}]
  /\ entries \in [Sessions -> SUBSET Entries]

(* A request is in the server only while its window waits for it or has    *)
(* given up on it, and has then stored nothing yet; what was verified of   *)
(* it goes on to hold.  From the dialog on, the submission is what its     *)
(* user agreed to.                                                         *)
RequestVerified(r) ==
  /\ request[r] # NoRequest =>
       /\ sub[r].step \in {"posting", "over"} /\ written[r] = NoToken
       /\ request[r].token \in Issued
       /\ sub[r].told \in {"nothing", "error"}
  /\ sub[r].step = "posting" => request[r] # NoRequest
  /\ request[r].at = "handler" =>
       /\ sub[r].kind \in token[request[r].token].caps
       /\ SameSession(r)
       /\ token[request[r].token].gen = generation
  /\ sub[r].step \notin {"posting", "over"} => written[r] = NoToken
  /\ sub[r].step \notin {"new", "over"} => sub[r].told = "nothing"
  /\ sub[r] # Fresh /\ sub[r].kind = Write => sub[r].about \in Sequences
  /\ sub[r].step \notin {"new", "confirming", "over"} \/ request[r] # NoRequest =>
       sub[r].confirmed = Snapshot(r)

RequestsVerified == \A r \in Submissions : RequestVerified(r)

TokensSigned == \A j \in Issued : signedFor[j] \in Scopes

(* A session has a holder as long as it exists, and entries only while it  *)
(* is open; an entry is that of a submission that was captured.            *)
EntriesOwned ==
  \A s \in Sessions :
    /\ holder[s] = NoHolder <=> phase[s] = "none"
    /\ phase[s] # "open" => entries[s] = {}
    /\ \A e \in entries[s] :
         /\ e.req = e.run /\ sub[e.run] # Fresh /\ written[e.run] \in Issued
         /\ sub[e.run].scope.session = s /\ e.seq = sub[e.run].about

EntriesConfirmed == \A s \in Sessions : \A e \in entries[s] : EntryConfirmed(s, e)

ServiceInv ==
  ServiceTyped /\ RequestsVerified /\ TokensSigned /\ EntriesOwned
    /\ EntriesConfirmed /\ ReceiptsAreTrue

----------------------------------------------------------------------------
(* What becomes of a submission in its window.                             *)

LEMMA CapturedWhenStepped ==
  ASSUME ServiceTyped, NEW r \in Submissions
  PROVE  /\ sub[r] # Fresh => sub[r] \in Captured
         /\ sub[r].step # "new" => sub[r] # Fresh
  BY DEF ServiceTyped, Fresh

LEMMA EndedIs ==
  ASSUME NEW r \in Submissions, sub[r] \in Captured, NEW what \in Tellings
  PROVE  /\ Ended(r, what) \in Captured
         /\ Ended(r, what).step = "over" /\ Ended(r, what).told = what
         /\ Ended(r, what).kind = sub[r].kind /\ Ended(r, what).scope = sub[r].scope
         /\ Ended(r, what).about = sub[r].about
         /\ Ended(r, what).confirmed = sub[r].confirmed
  BY DEF Ended, Captured, Steps

LEMMA RefetchIs ==
  ASSUME NEW r \in Submissions, sub[r] \in Captured
  PROVE  /\ Refetch(r) \in Captured
         /\ Refetch(r).step = "fetching" /\ Refetch(r).told = sub[r].told
         /\ Refetch(r).kind = sub[r].kind /\ Refetch(r).scope = sub[r].scope
         /\ Refetch(r).about = sub[r].about
         /\ Refetch(r).confirmed = sub[r].confirmed
<1>1. sub[r].tries + 1 \in Nat
  BY DEF Captured
<1> DEFINE more == sub[r].tries + 1
<1>2. Refetch(r) = [sub[r] EXCEPT !.step = "fetching", !.tries = more]
  BY DEF Refetch, Captured
<1> HIDE DEF more
<1> QED
  BY <1>1, <1>2 DEF Captured, Steps, more

(* A window tells its user what the code it was answered with means.       *)
LEMMA ShownIs ==
  ASSUME NEW r \in Submissions, sub[r] \in Captured, NEW code
  PROVE  /\ Shown(r, code) \in Captured
         /\ Shown(r, code).kind = sub[r].kind /\ Shown(r, code).scope = sub[r].scope
         /\ Shown(r, code).about = sub[r].about
         /\ Shown(r, code).confirmed = sub[r].confirmed
         /\ \/ /\ Shown(r, code).step = "fetching" /\ Shown(r, code).told = sub[r].told
               /\ code = 401
            \/ /\ Shown(r, code).step = "over"
               /\ Shown(r, code).told \in Tellings \ {"nothing", "cancelled"}
               /\ Shown(r, code).told \in {"saved", "explained"} => code = 200
               /\ Shown(r, code).told = "saved" => sub[r].kind = Write
               /\ Shown(r, code).told = "explained" => sub[r].kind = Explain
               /\ Shown(r, code).told = "conflict" => code = 409
               /\ Shown(r, code).told = "unavailable" => code = 410
<1>1. CASE code = 401 /\ sub[r].tries = 1
  BY <1>1, RefetchIs DEF Shown
<1>2. CASE ~(code = 401 /\ sub[r].tries = 1) /\ code = 200 /\ sub[r].kind = Write
  BY <1>2, EndedIs DEF Shown, Tellings
<1>3. CASE ~(code = 401 /\ sub[r].tries = 1) /\ code = 200 /\ sub[r].kind = Explain
  BY <1>3, EndedIs, NamesAssumption DEF Shown, Tellings
<1>4. CASE ~(code = 401 /\ sub[r].tries = 1) /\ code = 409 /\ sub[r].kind = Write
  BY <1>4, EndedIs DEF Shown, Tellings
<1>5. CASE ~(code = 401 /\ sub[r].tries = 1) /\ code = 410 /\ sub[r].kind = Write
  BY <1>5, EndedIs DEF Shown, Tellings
<1>6. CASE /\ ~(code = 401 /\ sub[r].tries = 1) /\ ~(code = 200 /\ sub[r].kind = Write)
           /\ ~(code = 200 /\ sub[r].kind = Explain) /\ ~(code = 409 /\ sub[r].kind = Write)
           /\ ~(code = 410 /\ sub[r].kind = Write)
  <2>1. Shown(r, code) = Ended(r, "error")
    BY <1>6 DEF Shown
  <2> QED
    BY <2>1, EndedIs DEF Tellings
<1> QED
  BY <1>1, <1>2, <1>3, <1>4, <1>5, <1>6

----------------------------------------------------------------------------
(* The tokens of the system are those of BridgeAuth.                       *)
LEMMA AuthStep ==
  ServiceTyped /\ RequestsVerified /\ [ServiceNext]_serviceVars => [Next]_vars
<1> SUFFICES ASSUME ServiceTyped, RequestsVerified, [ServiceNext]_serviceVars
             PROVE  [Next]_vars
  OBVIOUS
<1>1. ASSUME UNCHANGED authVars PROVE UNCHANGED vars
  BY <1>1 DEF authVars, vars
<1>2. ASSUME NEW r \in Submissions, WindowStep(r) PROVE UNCHANGED authVars
  BY <1>2 DEF WindowStep, Capture, Decline, Confirm, FetchHeld, AskForToken
<1>3. ASSUME NEW r \in Submissions, RouteStep(r) PROVE Next \/ UNCHANGED authVars
  <2>1. ASSUME NEW j \in TokenIds, NEW caps \in Grants, Grant(r, j, caps) PROVE Next
    BY <2>1, ServiceAssumption DEF Grant, Next
  <2>2. ASSUME NEW d \in 0..MaxDrift, Verify(r, d) PROVE Next
    <3>1. request[r].token \in TokenIds /\ sub[r].kind \in Capabilities
      <4>1. request[r] # NoRequest
        BY <2>2 DEF Verify, NoRequest
      <4>2. request[r].token \in TokenIds
        BY <4>1 DEF ServiceTyped
      <4>3. sub[r].step \in {"posting", "over"}
        BY <4>1 DEF RequestsVerified, RequestVerified
      <4>4. sub[r] \in Captured
        BY <4>3, CapturedWhenStepped
      <4> QED
        BY <4>2, <4>4, ServiceAssumption DEF Captured
    <3> QED
      BY <2>2, <3>1 DEF Verify, Next
  <2> QED
    BY <1>3, <2>1, <2>2
       DEF RouteStep, EstablishNew, EstablishKnown, Persist, Conflict, SessionRejected, Coach
<1>4. CASE TimePasses
  BY <1>4 DEF TimePasses, Next
<1>5. CASE Trouble
  <2>1. ASSUME NEW r \in Submissions, NEW code, ProviderFails(r, code) \/ GiveUp(r) \/ CallFails(r)
        PROVE  UNCHANGED authVars
    BY <2>1 DEF ProviderFails, GiveUp, CallFails
  <2>2. ASSUME NEW j \in TokenIds, NEW d \in 0..MaxDrift, RevokeToken(j, d) PROVE Next
    BY <2>2 DEF RevokeToken, Next
  <2>3. ASSUME RevocationsToggle \/ RestartService PROVE Next
    BY <2>3 DEF RevocationsToggle, RestartService, Next
  <2>4. ASSUME NEW s \in Sessions, CloseSession(s) \/ ForgetSession(s) PROVE UNCHANGED authVars
    BY <2>4 DEF CloseSession, ForgetSession
  <2> QED
    BY <1>1, <1>5, <2>1, <2>2, <2>3, <2>4 DEF Trouble
<1>6. CASE UNCHANGED serviceVars
  BY <1>1, <1>6 DEF serviceVars
<1> QED
  BY <1>1, <1>2, <1>3, <1>4, <1>5, <1>6 DEF ServiceNext

----------------------------------------------------------------------------
(* What is true of one submission by itself, and of one session.           *)

SoldAs(r, about) ==
  {q \in Stored : /\ sub[q].scope.session = sub[r].scope.session
                  /\ q = about \/ sub[q].about = about}

Receipt(r) ==
  /\ sub[r].told = "saved" => r \in Stored
  /\ sub[r].told \in {"cancelled", "conflict", "unavailable"} => r \notin Stored
  /\ sub[r].told \in {"conflict", "explained"} => SoldAs(r, sub[r].about) # {}

LEMMA ReceiptsByOne ==
  ReceiptsAreTrue <=> \A r \in Submissions : sub[r] # Fresh => Receipt(r)
  BY DEF ReceiptsAreTrue, Receipt, SoldAs

OwnedSession(s) ==
  /\ holder[s] = NoHolder <=> phase[s] = "none"
  /\ phase[s] # "open" => entries[s] = {}

Confirmed(s, e) ==
  /\ e.req = e.run /\ sub[e.run] # Fresh /\ written[e.run] \in Issued
  /\ sub[e.run].scope.session = s /\ e.seq = sub[e.run].about
  /\ sub[e.run].confirmed = [kind |-> Write, session |-> s, about |-> e.seq]
  /\ Write \in token[written[e.run]].caps
  /\ holder[s] = [owner |-> signedFor[written[e.run]].owner, gen |-> token[written[e.run]].gen]

LEMMA ConfirmedByOne ==
  EntriesOwned /\ EntriesConfirmed
    <=> \A s \in Sessions : OwnedSession(s) /\ \A e \in entries[s] : Confirmed(s, e)
<1>1. ASSUME EntriesOwned, EntriesConfirmed, NEW s \in Sessions
      PROVE  OwnedSession(s) /\ \A e \in entries[s] : Confirmed(s, e)
  BY <1>1 DEF EntriesOwned, EntriesConfirmed, EntryConfirmed, OwnedSession, Confirmed
<1>2. ASSUME \A s \in Sessions : OwnedSession(s) /\ \A e \in entries[s] : Confirmed(s, e)
      PROVE  EntriesOwned /\ EntriesConfirmed
  <2>1. ASSUME NEW s \in Sessions
        PROVE  /\ holder[s] = NoHolder <=> phase[s] = "none"
               /\ phase[s] # "open" => entries[s] = {}
    BY <1>2 DEF OwnedSession
  <2>2. ASSUME NEW s \in Sessions, NEW e \in entries[s] PROVE Confirmed(s, e)
    BY <1>2
  <2>3. EntriesOwned
    <3>1. ASSUME NEW s \in Sessions, NEW e \in entries[s]
          PROVE  /\ e.req = e.run /\ sub[e.run] # Fresh /\ written[e.run] \in Issued
                 /\ sub[e.run].scope.session = s /\ e.seq = sub[e.run].about
      <4>1. Confirmed(s, e)
        BY <2>2
      <4> QED
        BY <4>1 DEF Confirmed
    <3> QED
      BY <2>1, <3>1, Zenon DEF EntriesOwned
  <2>4. EntriesConfirmed
    BY <2>2 DEF EntriesConfirmed, EntryConfirmed, Confirmed
  <2> QED
    BY <2>3, <2>4
<1> QED
  BY <1>1, <1>2

LEMMA ConfirmedNext ==
  (EntriesOwned /\ EntriesConfirmed
     <=> \A s \in Sessions : OwnedSession(s) /\ \A e \in entries[s] : Confirmed(s, e))'
  BY ConfirmedByOne, PTL

(* Nothing is forgotten: claims stay as they were signed, and a captured   *)
(* submission stays what it was captured as and what was agreed to.        *)
Lasting ==
  /\ \A j \in Issued : j \in Issued' /\ token'[j] = token[j] /\ signedFor'[j] = signedFor[j]
  /\ \A q \in Submissions : sub[q] # Fresh =>
       /\ sub'[q] # Fresh /\ sub'[q].kind = sub[q].kind
       /\ sub'[q].scope = sub[q].scope /\ sub'[q].about = sub[q].about
       /\ sub[q].step # "confirming" => sub'[q].confirmed = sub[q].confirmed
  /\ \A q \in Submissions : q \in Stored => written'[q] = written[q]

(* Entries go, with their session or for good, and others keep the holder  *)
(* they were written under.                                                *)
Shrinking ==
  \A s \in Sessions :
    /\ entries'[s] \subseteq entries[s]
    /\ entries'[s] # {} => holder'[s] = holder[s]

LEMMA ConfirmedLasts ==
  ASSUME ServiceTyped, RequestsVerified, Lasting, NEW s \in Sessions, NEW e \in entries[s],
         Confirmed(s, e),
         holder'[s] = holder[s]
  PROVE  Confirmed(s, e)'
<1>1. e.run \in Submissions /\ e.req = e.run
  BY DEF ServiceTyped, Entries, Confirmed
<1>2. written[e.run] \in Issued /\ written[e.run] # NoToken
  BY NamesAssumption DEF Confirmed, Issued
<1>3. written'[e.run] = written[e.run]
  BY <1>1, <1>2 DEF Lasting, Stored
<1>4. sub[e.run].step # "confirming"
  BY <1>1, <1>2 DEF RequestsVerified, RequestVerified
<1> QED
  BY <1>1, <1>2, <1>3, <1>4 DEF Lasting, Confirmed

LEMMA ReceiptLasts ==
  ASSUME ServiceTyped, RequestsVerified, Lasting,
         NEW r \in Submissions, sub[r] # Fresh, Receipt(r), sub'[r].told = sub[r].told,
         written'[r] = written[r]
  PROVE  Receipt(r)'
<1>1. ASSUME NEW q \in SoldAs(r, sub[r].about) PROVE q \in SoldAs(r, sub[r].about)'
  <2>1. q \in Submissions /\ written[q] # NoToken
    BY DEF SoldAs, Stored
  <2>2. sub[q] # Fresh
    BY <2>1 DEF RequestsVerified, RequestVerified, Fresh
  <2>3. q \in Stored'
    BY <2>1 DEF Lasting, Stored
  <2> QED
    BY <2>1, <2>2, <2>3 DEF SoldAs, Lasting
<1>2. r \in Stored <=> r \in Stored'
  BY DEF Stored
<1> QED
  BY <1>1, <1>2 DEF Receipt

(* Every other submission than r is where it was.                          *)
Others(r) ==
  \A q \in Submissions \ {r} :
    sub'[q] = sub[q] /\ request'[q] = request[q] /\ written'[q] = written[q]

LEMMA RequestsStay ==
  ASSUME RequestsVerified, NEW r \in Submissions, Lasting, Others(r), generation' = generation,
         RequestVerified(r)'
  PROVE  RequestsVerified'
<1>1. ASSUME NEW q \in Submissions, q # r PROVE RequestVerified(q)'
  <2>1. RequestVerified(q)
    BY DEF RequestsVerified
  <2>2. sub'[q] = sub[q] /\ request'[q] = request[q] /\ written'[q] = written[q]
    BY <1>1 DEF Others
  <2>3. CASE request[q] = NoRequest
    BY <2>1, <2>2, <2>3 DEF RequestVerified, NoRequest, Snapshot
  <2>4. CASE request[q] # NoRequest
    <3>1. LET j == request[q].token
          IN  j \in Issued /\ j \in Issued' /\ token'[j] = token[j] /\ signedFor'[j] = signedFor[j]
      BY <2>1, <2>4 DEF RequestVerified, Lasting
    <3>2. SameSession(q) <=> SameSession(q)'
      BY <2>2, <3>1 DEF SameSession
    <3> QED
      BY <2>1, <2>2, <3>1, <3>2 DEF RequestVerified, Snapshot
  <2> QED
    BY <2>3, <2>4
<1> QED
  BY <1>1 DEF RequestsVerified

LEMMA ReceiptsStay ==
  ASSUME ServiceTyped, RequestsVerified, ReceiptsAreTrue, NEW r \in Submissions, Lasting, Others(r),
         sub'[r] # Fresh => Receipt(r)'
  PROVE  ReceiptsAreTrue'
<1>1. ASSUME NEW q \in Submissions, q # r, sub'[q] # Fresh PROVE Receipt(q)'
  <2>1. sub'[q] = sub[q] /\ written'[q] = written[q]
    BY <1>1 DEF Others
  <2>2. sub[q] # Fresh /\ Receipt(q)
    BY <1>1, <2>1, ReceiptsByOne
  <2> QED
    BY <2>1, <2>2, ReceiptLasts
<1>2. \A q \in Submissions : sub'[q] # Fresh => Receipt(q)'
  BY <1>1
<1> QED
  BY <1>2 DEF ReceiptsAreTrue, Receipt, SoldAs

LEMMA EntriesStay ==
  ASSUME ServiceTyped, RequestsVerified, EntriesOwned, EntriesConfirmed, Lasting, Shrinking,
         \A s \in Sessions : OwnedSession(s)'
  PROVE  EntriesOwned' /\ EntriesConfirmed'
<1>1. ASSUME NEW s \in Sessions, NEW e \in entries'[s] PROVE Confirmed(s, e)'
  <2>1. e \in entries[s] /\ holder'[s] = holder[s]
    BY DEF Shrinking
  <2>2. Confirmed(s, e)
    BY <2>1, ConfirmedByOne
  <2> QED
    BY <2>1, <2>2, ConfirmedLasts
<1> QED
  BY <1>1, ConfirmedNext

(* A step that moves one submission and its request: the ledgers and their *)
(* holders stay, and so do the claims.                                     *)
Requests == {NoRequest} \cup [at : {"route", "handler"}, token : TokenIds]

Moves(r, n, m) ==
  /\ sub' = [sub EXCEPT ![r] = n]
  /\ request' = [request EXCEPT ![r] = m]
  /\ UNCHANGED <<token, generation, sessionVars, signedFor, written>>

SameCapture(r, n) ==
  sub[r] # Fresh =>
    /\ n.kind = sub[r].kind /\ n.scope = sub[r].scope /\ n.about = sub[r].about
    /\ sub[r].step # "confirming" => n.confirmed = sub[r].confirmed

LEMMA MoveLasts ==
  ASSUME ServiceTyped, NEW r \in Submissions, NEW n \in Captured, NEW m \in Requests,
         Moves(r, n, m), SameCapture(r, n)
  PROVE  /\ Lasting /\ Others(r)
         /\ sub'[r] = n /\ request'[r] = m
         /\ sub' \in [Submissions -> {Fresh} \cup Captured]
         /\ request' \in [Submissions -> Requests]
<1>1. sub'[r] = n /\ request'[r] = m
  BY DEF ServiceTyped, Moves
<1>2. \A q \in Submissions \ {r} : sub'[q] = sub[q] /\ request'[q] = request[q]
  BY DEF ServiceTyped, Moves
<1>3. Others(r)
  BY <1>2 DEF Others, Moves
<1>4. n # Fresh
  BY DEF Captured, Fresh
<1>5. ASSUME NEW q \in Submissions, sub[q] # Fresh
      PROVE  /\ sub'[q] # Fresh /\ sub'[q].kind = sub[q].kind
             /\ sub'[q].scope = sub[q].scope /\ sub'[q].about = sub[q].about
             /\ sub[q].step # "confirming" => sub'[q].confirmed = sub[q].confirmed
  BY <1>1, <1>2, <1>4, <1>5 DEF SameCapture
<1>6. Lasting
  BY <1>5 DEF Lasting, Moves, Issued
<1> QED
  BY <1>1, <1>3, <1>6 DEF ServiceTyped, Moves, Requests

LEMMA MoveKeeps ==
  ASSUME ServiceInv, NEW r \in Submissions, NEW n \in Captured, NEW m \in Requests,
         Moves(r, n, m), SameCapture(r, n), RequestVerified(r)', Receipt(r)'
  PROVE  ServiceInv'
<1>1. ServiceTyped /\ RequestsVerified /\ TokensSigned /\ EntriesOwned /\ EntriesConfirmed
      /\ ReceiptsAreTrue
  BY DEF ServiceInv
<1>2. Lasting /\ Others(r) /\ generation' = generation
  BY <1>1, MoveLasts DEF Moves
<1>3. ServiceTyped'
  BY <1>1, MoveLasts DEF ServiceTyped, Moves, sessionVars, ledgerVars, Requests
<1>4. RequestsVerified'
  BY <1>1, <1>2, RequestsStay
<1>5. TokensSigned'
  BY <1>1 DEF TokensSigned, Moves, Issued
<1>6. Shrinking /\ \A s \in Sessions : OwnedSession(s)'
  BY <1>1 DEF Moves, sessionVars, ledgerVars, Shrinking, OwnedSession, EntriesOwned
<1>7. EntriesOwned' /\ EntriesConfirmed'
  BY <1>1, <1>2, <1>6, EntriesStay
<1>8. ReceiptsAreTrue'
  BY <1>1, <1>2, ReceiptsStay
<1> QED
  BY <1>3, <1>4, <1>5, <1>7, <1>8 DEF ServiceInv

(* What a window knows before it is answered.                              *)
LEMMA SubmissionKnown ==
  ASSUME ServiceInv, NEW r \in Submissions, sub[r].step # "new"
  PROVE  /\ sub[r] \in Captured /\ sub[r] # Fresh
         /\ RequestVerified(r) /\ Receipt(r) /\ request[r] \in Requests
         /\ [request EXCEPT ![r] = request[r]] = request
<1>1. ServiceTyped /\ RequestsVerified /\ ReceiptsAreTrue
  BY DEF ServiceInv
<1>2. sub[r] \in Captured /\ sub[r] # Fresh
  BY <1>1, CapturedWhenStepped
<1>3. RequestVerified(r) /\ Receipt(r)
  BY <1>1, <1>2, ReceiptsByOne DEF RequestsVerified
<1>4. request[r] \in Requests /\ [request EXCEPT ![r] = request[r]] = request
  BY <1>1 DEF ServiceTyped, Requests
<1> QED
  BY <1>2, <1>3, <1>4

(* An answer that does not receipt anything that is not so.                *)
LEMMA AnswerKeeps ==
  ASSUME ServiceInv, NEW r \in Submissions, NEW code, request[r] # NoRequest, Answer(r, code),
         UNCHANGED <<token, generation, sessionVars, signedFor, written>>,
         code = 200 => sub[r].kind = Explain,
         code \in {200, 409} => SoldAs(r, sub[r].about) # {}
  PROVE  ServiceInv'
<1> DEFINE n == IF At(r, "posting") THEN Shown(r, code) ELSE sub[r]
<1>1. ServiceTyped /\ RequestsVerified
  BY DEF ServiceInv
<1>2. sub[r].step \in {"posting", "over"} /\ written[r] = NoToken
      /\ sub[r].told \in {"nothing", "error"}
  BY <1>1 DEF RequestsVerified, RequestVerified
<1>3. sub[r] \in Captured /\ sub[r] # Fresh /\ RequestVerified(r) /\ Receipt(r)
  BY <1>2, SubmissionKnown
<1>4. /\ n \in Captured /\ n.kind = sub[r].kind /\ n.scope = sub[r].scope /\ n.about = sub[r].about
      /\ n.confirmed = sub[r].confirmed
      /\ \/ n.step \in {"fetching"} /\ n.told = "nothing"
         \/ n.step = "over" /\ n.told \in {"nothing", "error"}
         \/ /\ n.step = "over" /\ n.told # "cancelled"
            /\ n.told # "saved"
            /\ n.told \in {"conflict", "explained"} => SoldAs(r, sub[r].about) # {}
  <2>1. CASE At(r, "posting")
    <3>1. sub[r].told = "nothing"
      BY <1>3, <2>1 DEF RequestVerified, At
    <3>2. Write # Explain
      BY NamesAssumption
    <3> QED
      BY <1>3, <2>1, <3>1, <3>2, ShownIs
  <2>2. CASE ~At(r, "posting")
    BY <1>2, <1>3, <2>2 DEF At
  <2> QED
    BY <2>1, <2>2
<1> HIDE DEF n
<1>5. Moves(r, n, NoRequest) /\ SameCapture(r, n)
  <2>1. sub' = [sub EXCEPT ![r] = n]
    BY <1>1 DEF Answer, n, ServiceTyped
  <2> QED
    BY <1>4, <2>1 DEF Moves, SameCapture, Answer
<1>6. NoRequest \in Requests
  BY DEF Requests
<1>7. Lasting /\ sub'[r] = n /\ request'[r] = NoRequest /\ written'[r] = NoToken
  BY <1>1, <1>2, <1>4, <1>5, <1>6, MoveLasts DEF Moves
<1>8. RequestVerified(r)'
  BY <1>3, <1>4, <1>7 DEF RequestVerified, NoRequest, Snapshot
<1>9. Receipt(r)'
  <2>1. r \notin Stored'
    BY <1>7 DEF Stored
  <2>2. SoldAs(r, sub[r].about) # {} => SoldAs(r, sub[r].about)' # {}
    <3>1. ASSUME NEW q \in SoldAs(r, sub[r].about) PROVE q \in SoldAs(r, sub[r].about)'
      <4>1. q \in Submissions /\ q \in Stored /\ sub[q] # Fresh
        BY <1>1 DEF SoldAs, Stored, RequestsVerified, RequestVerified, Fresh
      <4>2. q \in Stored'
        BY <1>7, <4>1 DEF Lasting, Stored
      <4> QED
        BY <1>4, <1>7, <4>1, <4>2 DEF SoldAs, Lasting
    <3> QED
      BY <3>1
  <2> QED
    BY <1>4, <1>7, <2>1, <2>2 DEF Receipt
<1> QED
  BY <1>4, <1>5, <1>6, <1>8, <1>9, MoveKeeps

----------------------------------------------------------------------------
(* Every step keeps the invariant: first the steps of a window.            *)

(* A step in the window alone, before anything was sent or after the       *)
(* window has given up.                                                    *)
WindowMoves(r, n) ==
  /\ sub' = [sub EXCEPT ![r] = n]
  /\ UNCHANGED <<token, generation, sessionVars, signedFor, request, written>>
  /\ n.kind = sub[r].kind /\ n.scope = sub[r].scope /\ n.about = sub[r].about
  /\ \/ n.step \in {"fetching", "establishing", "issuing"} /\ n.told = "nothing"
     \/ n.step = "over" /\ n.told \in {"error", "cancelled", "unavailable"}
  /\ sub[r].step \notin {"new", "over"}
  /\ sub[r].step = "posting" => n.step = "over" /\ n.told = "error"
  /\ sub[r].step # "confirming" => n.confirmed = sub[r].confirmed
  /\ n.step # "over" => n.confirmed = Snapshot(r)

LEMMA WindowKeeps ==
  ASSUME ServiceInv, NEW r \in Submissions, NEW n \in Captured, WindowMoves(r, n)
  PROVE  ServiceInv'
<1> USE DEF WindowMoves
<1>1. /\ sub[r] \in Captured /\ sub[r] # Fresh /\ RequestVerified(r) /\ Receipt(r)
      /\ request[r] \in Requests /\ [request EXCEPT ![r] = request[r]] = request
  BY SubmissionKnown
<1>2. ServiceTyped
  BY DEF ServiceInv
<1>3. Moves(r, n, request[r]) /\ SameCapture(r, n)
  BY <1>1 DEF Moves, SameCapture
<1>4. sub'[r] = n /\ request'[r] = request[r] /\ written'[r] = written[r] /\ Lasting
  BY <1>1, <1>2, <1>3, MoveLasts DEF Moves
<1>5. SameSession(r) <=> SameSession(r)'
  BY <1>4 DEF SameSession
<1>6. Issued' = Issued
  BY DEF Issued
<1>7. sub[r].step # "posting" => written[r] = NoToken /\ request[r] = NoRequest
  BY <1>1 DEF RequestVerified
<1>8. RequestVerified(r)'
  BY <1>1, <1>4, <1>5, <1>6, <1>7 DEF RequestVerified, NoRequest, Snapshot
<1>9. Receipt(r)'
  BY <1>4, <1>7 DEF Receipt, Stored
<1> QED
  BY <1>1, <1>3, <1>8, <1>9, MoveKeeps

LEMMA CaptureKeeps ==
  ASSUME ServiceInv, NEW r \in Submissions, NEW c \in Clicks, Capture(r, c)
  PROVE  ServiceInv'
<1> DEFINE n == [step |-> "confirming", kind |-> c.kind, scope |-> c.scope, about |-> c.about,
                 confirmed |-> NoSnapshot, tries |-> 0, told |-> "nothing"]
<1>1. ServiceTyped /\ RequestsVerified
  BY DEF ServiceInv
<1>2. n \in Captured /\ (n.kind = Write => n.about \in Sequences)
  BY ClickAssumption, NamesAssumption DEF Captured, Steps, Tellings
<1>3. sub[r] = Fresh /\ sub' = [sub EXCEPT ![r] = n]
  BY DEF Capture
<1>4. n.step = "confirming" /\ n.told = "nothing"
  OBVIOUS
<1> HIDE DEF n
<1>5. request[r] = NoRequest /\ written[r] = NoToken
  BY <1>1, <1>3 DEF RequestsVerified, RequestVerified, Fresh
<1>6. Moves(r, n, NoRequest) /\ SameCapture(r, n) /\ NoRequest \in Requests
  BY <1>1, <1>3, <1>5 DEF Capture, Moves, SameCapture, Requests, authVars, ServiceTyped
<1>7. sub'[r] = n /\ request'[r] = NoRequest /\ written'[r] = NoToken
  BY <1>1, <1>2, <1>5, <1>6, MoveLasts DEF Moves
<1>8. RequestVerified(r)'
  BY <1>2, <1>4, <1>7 DEF RequestVerified, NoRequest
<1>9. Receipt(r)'
  BY <1>4, <1>7 DEF Receipt
<1> QED
  BY <1>2, <1>6, <1>8, <1>9, MoveKeeps

LEMMA InWindowKeeps ==
  ASSUME ServiceInv, NEW r \in Submissions,
         Decline(r) \/ Confirm(r) \/ AskForToken(r) \/ GiveUp(r)
           \/ \E code \in {401, 503} : ProviderFails(r, code)
  PROVE  ServiceInv'
<1>1. sub[r].step \in {"confirming", "fetching", "establishing", "issuing", "posting"}
  BY DEF Decline, Confirm, AskForToken, GiveUp, ProviderFails, At
<1>2. sub[r] \in Captured /\ RequestVerified(r)
  BY <1>1, SubmissionKnown
<1>3. /\ sub[r].told = "nothing"
      /\ sub[r].step # "confirming" => sub[r].confirmed = Snapshot(r)
  BY <1>1, <1>2 DEF RequestVerified
<1>4. CASE Decline(r)
  <2>1. /\ sub[r].step = "confirming" /\ sub' = [sub EXCEPT ![r] = Ended(r, "cancelled")]
        /\ UNCHANGED <<token, generation, sessionVars, signedFor, request, written>>
    BY <1>4 DEF Decline, At, authVars
  <2>2. "cancelled" \in Tellings
    BY DEF Tellings
  <2>3. Ended(r, "cancelled") \in Captured /\ WindowMoves(r, Ended(r, "cancelled"))
    BY <1>2, <2>1, <2>2, EndedIs DEF WindowMoves
  <2> QED
    BY <2>3, WindowKeeps
<1>5. CASE Confirm(r)
  <2> DEFINE n == [Refetch(r) EXCEPT !.confirmed = Snapshot(r)]
  <2>1. /\ sub[r].step = "confirming" /\ sub' = [sub EXCEPT ![r] = n]
        /\ UNCHANGED <<token, generation, sessionVars, signedFor, request, written>>
    BY <1>5 DEF Confirm, At, authVars
  <2>2. Snapshot(r) \in Snapshots
    BY <1>2 DEF Snapshot, Snapshots, Captured, Scopes
  <2>3. /\ Refetch(r) \in Captured /\ Refetch(r).step = "fetching" /\ Refetch(r).told = "nothing"
        /\ Refetch(r).kind = sub[r].kind /\ Refetch(r).scope = sub[r].scope
        /\ Refetch(r).about = sub[r].about
    BY <1>2, <1>3, RefetchIs
  <2>4. n \in Captured /\ n.step = "fetching" /\ n.told = "nothing" /\ n.kind = sub[r].kind
        /\ n.scope = sub[r].scope /\ n.about = sub[r].about /\ n.confirmed = Snapshot(r)
    BY <2>2, <2>3 DEF Captured
  <2> HIDE DEF n
  <2> QED
    BY <2>1, <2>4, WindowKeeps DEF WindowMoves
<1>6. CASE AskForToken(r)
  <2> DEFINE n == [sub[r] EXCEPT !.step = "establishing"]
  <2>1. /\ sub[r].step = "fetching" /\ sub' = [sub EXCEPT ![r] = n]
        /\ UNCHANGED <<token, generation, sessionVars, signedFor, request, written>>
    BY <1>6 DEF AskForToken, At, authVars
  <2>2. n \in Captured /\ n.step = "establishing" /\ n.told = "nothing" /\ n.kind = sub[r].kind
        /\ n.scope = sub[r].scope /\ n.about = sub[r].about /\ n.confirmed = sub[r].confirmed
    BY <1>2, <1>3 DEF Captured, Steps
  <2> HIDE DEF n
  <2>3. WindowMoves(r, n)
    BY <1>3, <2>1, <2>2 DEF WindowMoves
  <2> QED
    BY <2>2, <2>3, WindowKeeps
<1>7. CASE GiveUp(r)
  <2>1. /\ sub[r].step = "posting" /\ sub' = [sub EXCEPT ![r] = Ended(r, "error")]
        /\ UNCHANGED <<token, generation, sessionVars, signedFor, request, written>>
    BY <1>7 DEF GiveUp, At, authVars
  <2>2. "error" \in Tellings
    BY DEF Tellings
  <2>3. Ended(r, "error") \in Captured /\ WindowMoves(r, Ended(r, "error"))
    BY <1>2, <2>1, <2>2, EndedIs DEF WindowMoves
  <2> QED
    BY <2>3, WindowKeeps
<1>8. ASSUME NEW code \in {401, 503}, ProviderFails(r, code) PROVE ServiceInv'
  <2>1. /\ sub[r].step \in {"fetching", "establishing", "issuing"}
        /\ sub' = [sub EXCEPT ![r] = Shown(r, code)]
        /\ UNCHANGED <<token, generation, sessionVars, signedFor, request, written>>
    BY <1>8 DEF ProviderFails, authVars
  <2>2. \/ Shown(r, code).step = "fetching" /\ Shown(r, code).told = "nothing"
        \/ Shown(r, code).step = "over" /\ Shown(r, code).told = "error"
    BY <1>2, <1>3, ShownIs DEF Tellings
  <2>3. Shown(r, code) \in Captured /\ WindowMoves(r, Shown(r, code))
    BY <1>2, <1>3, <2>1, <2>2, ShownIs DEF WindowMoves
  <2> QED
    BY <2>3, WindowKeeps
<1> QED
  BY <1>4, <1>5, <1>6, <1>7, <1>8

(* A window that posts with a token it holds.                              *)
LEMMA FetchKeeps ==
  ASSUME ServiceInv, NEW r \in Submissions, NEW j \in TokenIds, FetchHeld(r, j)
  PROVE  ServiceInv'
<1> DEFINE n == [sub[r] EXCEPT !.step = "posting"]
           m == [at |-> "route", token |-> j]
<1>1. sub[r].step = "fetching" /\ j \in Issued
  BY DEF FetchHeld, At
<1>2. ServiceTyped /\ sub[r] \in Captured /\ sub[r] # Fresh /\ RequestVerified(r) /\ Receipt(r)
  BY <1>1, SubmissionKnown DEF ServiceInv
<1>3. written[r] = NoToken /\ sub[r].told = "nothing" /\ sub[r].confirmed = Snapshot(r)
  BY <1>1, <1>2 DEF RequestVerified
<1>4. n \in Captured /\ n.step = "posting" /\ n.told = "nothing" /\ n.kind = sub[r].kind
      /\ n.scope = sub[r].scope /\ n.about = sub[r].about /\ n.confirmed = sub[r].confirmed
  BY <1>2, <1>3 DEF Captured, Steps
<1>5. m \in Requests /\ m.at = "route" /\ m.token = j /\ m # NoRequest
  BY DEF Requests, NoRequest
<1>6. sub' = [sub EXCEPT ![r] = n] /\ request' = [request EXCEPT ![r] = m]
  BY DEF FetchHeld, Posted
<1> HIDE DEF n, m
<1>7. Moves(r, n, m) /\ SameCapture(r, n)
  BY <1>4, <1>6 DEF FetchHeld, Moves, SameCapture, authVars
<1>8. sub'[r] = n /\ request'[r] = m /\ written'[r] = NoToken
  BY <1>2, <1>3, <1>4, <1>5, <1>7, MoveLasts DEF Moves
<1>9. RequestVerified(r)' /\ Receipt(r)'
  <2>1. Issued' = Issued
    BY <1>7 DEF Moves, Issued
  <2> QED
    BY <1>1, <1>2, <1>3, <1>4, <1>5, <1>8, <2>1 DEF RequestVerified, Receipt, Snapshot
<1> QED
  BY <1>4, <1>5, <1>7, <1>9, MoveKeeps

----------------------------------------------------------------------------
(* The routes.                                                             *)

LEMMA EstablishKnownKeeps ==
  ASSUME ServiceInv, NEW r \in Submissions, EstablishKnown(r)
  PROVE  ServiceInv'
<1> DEFINE more == [sub[r] EXCEPT !.step = "issuing"]
<1>1. sub[r].step = "establishing"
  BY DEF EstablishKnown, At
<1>2. sub[r] \in Captured /\ RequestVerified(r) /\ sub[r].told = "nothing"
      /\ sub[r].confirmed = Snapshot(r)
  BY <1>1, SubmissionKnown DEF RequestVerified
<1>3. PICK n \in {more, Ended(r, "error")} : sub' = [sub EXCEPT ![r] = n]
  <2>1. ServiceTyped
    BY DEF ServiceInv
  <2>2. sub' = [sub EXCEPT ![r] = more] \/ sub' = [sub EXCEPT ![r] = Ended(r, "error")]
    BY <2>1 DEF EstablishKnown, ServiceTyped
  <2> QED
    BY <2>2
<1>4. more \in Captured /\ more.step = "issuing" /\ more.told = "nothing"
      /\ more.kind = sub[r].kind /\ more.scope = sub[r].scope /\ more.about = sub[r].about
      /\ more.confirmed = sub[r].confirmed
  BY <1>2 DEF Captured, Steps
<1> HIDE DEF more
<1>5. "error" \in Tellings
  BY DEF Tellings
<1>6. n \in Captured /\ WindowMoves(r, n)
  <2>1. UNCHANGED <<token, generation, sessionVars, signedFor, request, written>>
    BY DEF EstablishKnown, authVars
  <2> QED
    BY <1>1, <1>2, <1>3, <1>4, <1>5, <2>1, EndedIs DEF WindowMoves
<1> QED
  BY <1>6, WindowKeeps

(* The session that is established is one nobody holds, so that nothing is *)
(* in it.                                                                  *)
LEMMA EstablishNewKeeps ==
  ASSUME ServiceInv, TypeOK, NEW r \in Submissions, EstablishNew(r)
  PROVE  ServiceInv'
<1> DEFINE n == [sub[r] EXCEPT !.step = "issuing"]
           t == sub[r].scope.session
           h == Holder(sub[r].scope)
<1>1. /\ ServiceTyped /\ RequestsVerified /\ TokensSigned /\ EntriesOwned /\ EntriesConfirmed
      /\ ReceiptsAreTrue
  BY DEF ServiceInv
<1>2. sub[r].step = "establishing"
  BY DEF EstablishNew, At
<1>3. sub[r] \in Captured /\ sub[r] # Fresh /\ RequestVerified(r) /\ Receipt(r)
      /\ sub[r].told = "nothing" /\ written[r] = NoToken /\ sub[r].confirmed = Snapshot(r)
  BY <1>2, SubmissionKnown DEF RequestVerified
<1>4. n \in Captured /\ n.step = "issuing" /\ n.told = "nothing"
      /\ n.kind = sub[r].kind /\ n.scope = sub[r].scope /\ n.about = sub[r].about
      /\ n.confirmed = sub[r].confirmed
  BY <1>3 DEF Captured, Steps
<1>5. t \in Sessions /\ h \in [owner : Owners, gen : 1..MaxGeneration] /\ h # NoHolder
  BY <1>3, NamesAssumption DEF Captured, Scopes, Holder, TypeOK
<1>6. /\ holder[t] = NoHolder /\ phase[t] = "none"
      /\ sub' = [sub EXCEPT ![r] = n] /\ holder' = [holder EXCEPT ![t] = h]
      /\ phase' = [phase EXCEPT ![t] = "open"]
      /\ UNCHANGED <<token, generation, entries, signedFor, request, written>>
  BY DEF EstablishNew, Ledger!Open, authVars
<1> HIDE DEF n, t, h
<1>7. sub'[r] = n /\ \A q \in Submissions \ {r} : sub'[q] = sub[q]
  BY <1>1, <1>6 DEF ServiceTyped
<1>8. n # Fresh
  BY <1>4 DEF Fresh
<1>9. Lasting /\ Others(r)
  <2>1. \A q \in Submissions : sub[q] # Fresh =>
          /\ sub'[q] # Fresh /\ sub'[q].kind = sub[q].kind
          /\ sub'[q].scope = sub[q].scope /\ sub'[q].about = sub[q].about
          /\ sub[q].step # "confirming" => sub'[q].confirmed = sub[q].confirmed
    BY <1>4, <1>7, <1>8
  <2> QED
    BY <1>6, <1>7, <2>1 DEF Lasting, Others, Issued
<1>10. RequestsVerified'
  <2>1. request[r] = NoRequest
    BY <1>2, <1>3 DEF RequestVerified
  <2>2. RequestVerified(r)'
    BY <1>3, <1>4, <1>6, <1>7, <2>1 DEF RequestVerified, NoRequest, Snapshot
  <2> QED
    BY <1>1, <1>6, <1>9, <2>2, RequestsStay
<1>11. ReceiptsAreTrue'
  <2>1. Receipt(r)'
    BY <1>4, <1>7 DEF Receipt
  <2> QED
    BY <1>1, <1>9, <2>1, ReceiptsStay
<1>12. Shrinking /\ \A s \in Sessions : OwnedSession(s)'
  <2>1. ASSUME NEW s \in Sessions
        PROVE  /\ entries'[s] \subseteq entries[s] /\ OwnedSession(s)'
               /\ entries'[s] # {} => holder'[s] = holder[s]
    <3>1. CASE s = t
      BY <1>1, <1>5, <1>6, <3>1 DEF ServiceTyped, EntriesOwned, OwnedSession
    <3>2. CASE s # t
      BY <1>1, <1>6, <3>2 DEF ServiceTyped, EntriesOwned, OwnedSession
    <3> QED
      BY <3>1, <3>2
  <2> QED
    BY <2>1 DEF Shrinking
<1>13. EntriesOwned' /\ EntriesConfirmed'
  BY <1>1, <1>9, <1>12, EntriesStay
<1>14. TokensSigned' /\ ServiceTyped'
  <2>1. /\ sub' \in [Submissions -> {Fresh} \cup Captured]
        /\ holder' \in [Sessions -> [owner : Owners, gen : 1..MaxGeneration] \cup {NoHolder}]
        /\ phase' \in [Sessions -> {"none", "open", "closed"}]
    BY <1>1, <1>4, <1>5, <1>6 DEF ServiceTyped
  <2> QED
    BY <1>1, <1>6, <2>1 DEF TokensSigned, ServiceTyped, Issued
<1> QED
  BY <1>10, <1>11, <1>13, <1>14 DEF ServiceInv

(* A window that posts with a token that was signed for it.                *)
LEMMA GrantKeeps ==
  ASSUME ServiceInv, TypeOK, NEW r \in Submissions, NEW j \in TokenIds, NEW caps \in Grants,
         Grant(r, j, caps)
  PROVE  ServiceInv'
<1> DEFINE n == [sub[r] EXCEPT !.step = "posting"]
           m == [at |-> "route", token |-> j]
           c == [iat |-> Epoch(clock), exp |-> Epoch(clock + TTLTicks),
                 told |-> ToldExpiry(clock), gen |-> generation, caps |-> caps]
<1>1. /\ ServiceTyped /\ RequestsVerified /\ TokensSigned /\ EntriesOwned /\ EntriesConfirmed
      /\ ReceiptsAreTrue
  BY DEF ServiceInv
<1>2. sub[r].step = "issuing"
  BY DEF Grant, At
<1>3. sub[r] \in Captured /\ sub[r] # Fresh /\ RequestVerified(r) /\ Receipt(r)
      /\ sub[r].told = "nothing" /\ written[r] = NoToken /\ sub[r].confirmed = Snapshot(r)
  BY <1>2, SubmissionKnown DEF RequestVerified
<1>4. n \in Captured /\ n.step = "posting" /\ n.told = "nothing" /\ n # Fresh
      /\ n.kind = sub[r].kind /\ n.scope = sub[r].scope /\ n.about = sub[r].about
      /\ n.confirmed = sub[r].confirmed
  BY <1>3 DEF Captured, Steps, Fresh
<1>5. m \in Requests /\ m.at = "route" /\ m.token = j /\ m # NoRequest
  BY DEF Requests, NoRequest
<1>6. c \in Claims /\ c # NoToken
  <2>1. clock \in Nat /\ clock + TTLTicks \in Nat
    BY TicksTyped, ClockAssumption DEF TypeOK, Time
  <2>2. Epoch(clock) \in Nat /\ Epoch(clock + TTLTicks) \in Nat /\ ToldExpiry(clock) \in Nat
    BY <2>1, EpochTyped DEF ToldExpiry
  <2>3. caps \in SUBSET Capabilities /\ generation \in 1..MaxGeneration
    BY ServiceAssumption DEF TypeOK
  <2> QED
    BY <2>2, <2>3, NoTokenAssumption DEF Claims
<1>7. /\ sub' = [sub EXCEPT ![r] = n] /\ request' = [request EXCEPT ![r] = m]
      /\ token[j] = NoToken /\ token' = [token EXCEPT ![j] = c]
      /\ signedFor' = [signedFor EXCEPT ![j] = sub[r].scope]
      /\ UNCHANGED <<generation, holder, phase, entries, written>>
  BY DEF Grant, Posted, Issue, sessionVars, ledgerVars
<1> HIDE DEF n, m, c
<1>8. sub'[r] = n /\ request'[r] = m
      /\ \A q \in Submissions \ {r} : sub'[q] = sub[q] /\ request'[q] = request[q]
  BY <1>1, <1>7 DEF ServiceTyped
<1>9. /\ token'[j] = c /\ signedFor'[j] = sub[r].scope /\ j \in Issued'
      /\ \A i \in TokenIds \ {j} : token'[i] = token[i] /\ signedFor'[i] = signedFor[i]
  BY <1>1, <1>6, <1>7 DEF TypeOK, ServiceTyped, Issued
<1>10. Lasting /\ Others(r)
  <2>1. \A q \in Submissions : sub[q] # Fresh =>
          /\ sub'[q] # Fresh /\ sub'[q].kind = sub[q].kind
          /\ sub'[q].scope = sub[q].scope /\ sub'[q].about = sub[q].about
          /\ sub[q].step # "confirming" => sub'[q].confirmed = sub[q].confirmed
    BY <1>4, <1>8
  <2>2. \A i \in Issued : i \in Issued' /\ token'[i] = token[i] /\ signedFor'[i] = signedFor[i]
    BY <1>7, <1>9 DEF Issued
  <2> QED
    BY <1>7, <1>8, <2>1, <2>2 DEF Lasting, Others
<1>11. RequestsVerified'
  <2>1. RequestVerified(r)'
    BY <1>3, <1>4, <1>5, <1>7, <1>8, <1>9 DEF RequestVerified, Snapshot
  <2> QED
    BY <1>1, <1>7, <1>10, <2>1, RequestsStay
<1>12. ReceiptsAreTrue'
  <2>1. Receipt(r)'
    BY <1>4, <1>8 DEF Receipt
  <2> QED
    BY <1>1, <1>10, <2>1, ReceiptsStay
<1>13. Shrinking /\ \A s \in Sessions : OwnedSession(s)'
  BY <1>1, <1>7 DEF Shrinking, OwnedSession, EntriesOwned
<1>14. EntriesOwned' /\ EntriesConfirmed'
  BY <1>1, <1>10, <1>13, EntriesStay
<1>15. TokensSigned'
  <2>1. sub[r].scope \in Scopes
    BY <1>3 DEF Captured
  <2> QED
    BY <1>1, <1>9, <2>1 DEF TokensSigned, Issued
<1>16. ServiceTyped'
  <2>1. sub[r].scope \in Scopes
    BY <1>3 DEF Captured
  <2>2. sub' \in [Submissions -> {Fresh} \cup Captured]
    BY <1>1, <1>4, <1>7 DEF ServiceTyped
  <2>3. request' \in [Submissions -> Requests]
    BY <1>1, <1>5, <1>7 DEF ServiceTyped, Requests
  <2>4. signedFor' \in [TokenIds -> Scopes \cup {NoScope}]
    BY <1>1, <1>7, <2>1 DEF ServiceTyped
  <2> QED
    BY <1>1, <1>7, <2>2, <2>3, <2>4 DEF ServiceTyped, Requests
<1> QED
  BY <1>11, <1>12, <1>14, <1>15, <1>16 DEF ServiceInv

(* What is verified is remembered with the request: the claims name its    *)
(* session, its capability and the running process.                        *)
LEMMA VerifyKeeps ==
  ASSUME ServiceInv, TypeOK, NEW r \in Submissions, NEW d \in 0..MaxDrift, Verify(r, d)
  PROVE  ServiceInv'
<1> DEFINE j == request[r].token
<1>1. request[r].at = "route" /\ request[r] # NoRequest
  BY DEF Verify, NoRequest
<1>2. ServiceTyped /\ RequestsVerified
  BY DEF ServiceInv
<1>3. sub[r].step \in {"posting", "over"} /\ j \in Issued /\ written[r] = NoToken
      /\ sub[r].told \in {"nothing", "error"}
  BY <1>1, <1>2 DEF RequestsVerified, RequestVerified
<1>4. sub[r] \in Captured /\ sub[r] # Fresh /\ RequestVerified(r) /\ Receipt(r)
  BY <1>3, SubmissionKnown
<1>5. UNCHANGED <<token, generation, sessionVars, signedFor, written>>
  BY DEF Verify, VerifyDenied, VerifyUnavailable, VerifyChecked
<1>6. ASSUME NEW code \in {401, 403, 503}, Answer(r, code) PROVE ServiceInv'
  BY <1>1, <1>5, <1>6, AnswerKeeps
<1>7. ASSUME VerifyChecked(j, sub[r].kind, d), sub[r].kind \in token[j].caps, SameSession(r),
             request' = [request EXCEPT ![r].at = "handler"], UNCHANGED sub
      PROVE  ServiceInv'
  <2> DEFINE m == [at |-> "handler", token |-> j]
  <2>1. request[r] \in [at : {"route", "handler"}, token : TokenIds]
    BY <1>1, <1>2 DEF ServiceTyped
  <2>2. m \in Requests /\ m # NoRequest /\ m.at = "handler" /\ m.token = j
    BY <1>3 DEF Requests, NoRequest, Issued
  <2>3. request' = [request EXCEPT ![r] = m]
    <3>1. [request[r] EXCEPT !.at = "handler"] = m
      BY <2>1
    <3> QED
      BY <1>7, <3>1
  <2> HIDE DEF m
  <2>4. Moves(r, sub[r], m) /\ SameCapture(r, sub[r])
    BY <1>2, <1>5, <1>7, <2>3 DEF Moves, SameCapture, ServiceTyped
  <2>5. sub'[r] = sub[r] /\ request'[r] = m /\ written'[r] = written[r]
    BY <1>2, <1>4, <1>5, <2>2, <2>4, MoveLasts
  <2>6. token[j].gen = generation
    BY <1>7 DEF VerifyChecked, Decodes, GenerationValid
  <2>7. SameSession(r)'
    BY <1>5, <1>7, <2>2, <2>5 DEF SameSession
  <2>8. RequestVerified(r)'
    <3>1. j \in Issued'
      BY <1>3, <1>5 DEF Issued
    <3> QED
      BY <1>1, <1>3, <1>4, <1>5, <1>7, <2>2, <2>5, <2>6, <2>7, <3>1 DEF RequestVerified, Snapshot
  <2>9. Receipt(r)'
    BY <1>3, <2>5 DEF Receipt
  <2> QED
    BY <1>4, <2>2, <2>4, <2>8, <2>9, MoveKeeps
<1> QED
  BY <1>6, <1>7 DEF Verify

----------------------------------------------------------------------------
(* The handlers, with what was verified before.                            *)

(* What a handler knows of its request.                                    *)
LEMMA HandlerKnows ==
  ASSUME ServiceInv, NEW r \in Submissions, request[r].at = "handler"
  PROVE  LET j == request[r].token
         IN  /\ request[r] # NoRequest /\ j \in Issued /\ j \in TokenIds
             /\ sub[r] \in Captured /\ sub[r] # Fresh /\ sub[r].step \in {"posting", "over"}
             /\ sub[r].told \in {"nothing", "error"}
             /\ sub[r].step = "posting" => sub[r].told = "nothing"
             /\ written[r] = NoToken
             /\ sub[r].kind \in token[j].caps /\ token[j].gen = generation
             /\ Claimed(r) \in Scopes /\ Claimed(r) = signedFor[j]
             /\ Claimed(r).session = sub[r].scope.session
             /\ sub[r].kind = Write => sub[r].about \in Sequences
             /\ sub[r].confirmed = Snapshot(r)
<1>1. request[r] # NoRequest
  BY DEF NoRequest
<1>2. ServiceTyped /\ RequestVerified(r) /\ TokensSigned
  BY DEF ServiceInv, RequestsVerified
<1>3. sub[r].step \in {"posting", "over"} /\ request[r].token \in Issued
  BY <1>1, <1>2 DEF RequestVerified
<1>4. sub[r] \in Captured /\ sub[r] # Fresh
  BY <1>2, <1>3, CapturedWhenStepped
<1> QED
  BY <1>1, <1>2, <1>3, <1>4 DEF RequestVerified, TokensSigned, Claimed, SameSession, Issued

(* An entry of the session asked for is one that was stored for it.        *)
LEMMA EntryIsSold ==
  ASSUME ServiceInv, NEW r \in Submissions, NEW s \in Sessions, sub[r].scope.session = s,
         NEW e \in entries[s]
  PROVE  /\ e.run \in Submissions /\ e.req = e.run /\ e.run \in Stored
         /\ e.seq = sub[e.run].about
         /\ sub[r].about \in {e.run, e.seq} => SoldAs(r, sub[r].about) # {}
<1>1. ServiceTyped /\ EntriesOwned /\ EntriesConfirmed
  BY DEF ServiceInv
<1>2. Confirmed(s, e)
  BY <1>1, ConfirmedByOne
<1>3. e.run \in Submissions
  BY <1>1 DEF ServiceTyped, Entries
<1>4. e.run \in Stored
  BY <1>2, <1>3, NamesAssumption DEF Confirmed, Stored, Issued
<1>5. sub[r].about \in {e.run, e.seq} => e.run \in SoldAs(r, sub[r].about)
  BY <1>2, <1>3, <1>4 DEF SoldAs, Confirmed
<1> QED
  BY <1>2, <1>3, <1>4, <1>5 DEF Confirmed

LEMMA AnsweredKeeps ==
  ASSUME ServiceInv, NEW r \in Submissions,
         Conflict(r) \/ SessionRejected(r) \/ Coach(r) \/ CallFails(r)
  PROVE  ServiceInv'
<1> DEFINE s == Claimed(r).session
<1>1. request[r].at = "handler"
  BY DEF Conflict, SessionRejected, Coach, CallFails
<1>2. /\ request[r] # NoRequest /\ written[r] = NoToken
      /\ s \in Sessions /\ sub[r].scope.session = s
  BY <1>1, HandlerKnows DEF Scopes
<1>3. UNCHANGED <<token, generation, sessionVars, signedFor, written>>
  BY DEF Conflict, SessionRejected, Coach, CallFails, authVars
<1>4. CASE Conflict(r)
  <2>1. PICK f \in entries[s] : Ledger!Collide(Row(r), f)
    BY <1>4 DEF Conflict, Collides
  <2>2. /\ f.run \in Submissions /\ f.req = f.run /\ f.run \in Stored
        /\ sub[r].about \in {f.run, f.seq} => SoldAs(r, sub[r].about) # {}
    BY <1>2, <2>1, EntryIsSold
  <2>3. f.run # r
    BY <1>2, <2>2 DEF Stored
  <2>4. SoldAs(r, sub[r].about) # {}
    BY <2>1, <2>2, <2>3 DEF Ledger!Collide, Row
  <2>5. Answer(r, 409)
    BY <1>4 DEF Conflict
  <2> QED
    BY <1>2, <1>3, <2>4, <2>5, AnswerKeeps
<1>5. CASE SessionRejected(r)
  <2>1. Answer(r, 403) \/ Answer(r, 410)
    BY <1>5 DEF SessionRejected
  <2> QED
    BY <1>2, <1>3, <2>1, AnswerKeeps
<1>6. CASE Coach(r)
  <2>1. CASE \E e \in entries[s] : e.run = sub[r].about
    <3>1. Answer(r, 200) /\ sub[r].kind = Explain
      BY <1>6, <2>1 DEF Coach
    <3>2. SoldAs(r, sub[r].about) # {}
      BY <1>2, <2>1, EntryIsSold
    <3> QED
      BY <1>2, <1>3, <3>1, <3>2, AnswerKeeps
  <2>2. CASE ~\E e \in entries[s] : e.run = sub[r].about
    <3>1. Answer(r, 410)
      BY <1>6, <2>2 DEF Coach
    <3> QED
      BY <1>2, <1>3, <3>1, AnswerKeeps
  <2> QED
    BY <2>1, <2>2
<1>7. CASE CallFails(r)
  <2>1. Answer(r, 503)
    BY <1>7 DEF CallFails
  <2> QED
    BY <1>2, <1>3, <2>1, AnswerKeeps
<1> QED
  BY <1>4, <1>5, <1>6, <1>7

(* A snapshot that is stored was confirmed for the session it goes to, and *)
(* whoever holds the session is who its token was signed for.              *)
LEMMA PersistKeeps ==
  ASSUME ServiceInv, NEW r \in Submissions, Persist(r)
  PROVE  ServiceInv'
<1> DEFINE j == request[r].token
           s == Claimed(r).session
           e == Row(r)
           n == IF At(r, "posting") THEN Shown(r, 200) ELSE sub[r]
<1>1. /\ ServiceTyped /\ RequestsVerified /\ TokensSigned /\ EntriesOwned /\ EntriesConfirmed
      /\ ReceiptsAreTrue
  BY DEF ServiceInv
<1>2. request[r].at = "handler" /\ sub[r].kind = Write
  BY DEF Persist
<1>3. /\ j \in Issued /\ j \in TokenIds /\ written[r] = NoToken /\ request[r] # NoRequest
      /\ sub[r] \in Captured /\ sub[r] # Fresh /\ sub[r].step \in {"posting", "over"}
      /\ sub[r].told \in {"nothing", "error"}
      /\ Write \in token[j].caps /\ token[j].gen = generation
      /\ s \in Sessions /\ s = sub[r].scope.session /\ Claimed(r) = signedFor[j]
      /\ sub[r].about \in Sequences
      /\ sub[r].confirmed = [kind |-> Write, session |-> s, about |-> sub[r].about]
  BY <1>2, HandlerKnows DEF Scopes, Snapshot
<1>4. /\ holder[s] = [owner |-> signedFor[j].owner, gen |-> token[j].gen]
      /\ phase[s] = "open"
      /\ entries' = [entries EXCEPT ![s] = @ \cup {e}]
      /\ written' = [written EXCEPT ![r] = j]
      /\ UNCHANGED <<token, generation, phase, holder, signedFor>>
  BY <1>3 DEF Persist, Admitted, HeldBy, Holder, Ledger!Append, authVars
<1>5. /\ n \in Captured /\ n.step \in {"over"} /\ n.told \in {"nothing", "error", "saved"}
      /\ n.kind = Write /\ n.scope = sub[r].scope /\ n.about = sub[r].about
      /\ n.confirmed = sub[r].confirmed
  <2>1. CASE At(r, "posting")
    <3>1. Shown(r, 200) = Ended(r, "saved") /\ "saved" \in Tellings
      BY <1>2, NamesAssumption, SMT DEF Shown, Tellings
    <3> QED
      BY <1>2, <1>3, <2>1, <3>1, EndedIs
  <2>2. CASE ~At(r, "posting")
    BY <1>2, <1>3, <2>2 DEF At
  <2> QED
    BY <2>1, <2>2
<1>6. e = [run |-> r, seq |-> sub[r].about, req |-> r]
  BY DEF Row
<1>7. sub' = [sub EXCEPT ![r] = n] /\ request' = [request EXCEPT ![r] = NoRequest]
  BY <1>1 DEF Persist, Answer, ServiceTyped
<1> HIDE DEF n, e, j, s
<1>8. /\ sub'[r] = n /\ request'[r] = NoRequest /\ written'[r] = j
      /\ \A q \in Submissions \ {r} :
           sub'[q] = sub[q] /\ request'[q] = request[q] /\ written'[q] = written[q]
  BY <1>1, <1>4, <1>7 DEF ServiceTyped
<1>9. n # Fresh /\ j # NoToken
  BY <1>3, <1>5, NamesAssumption DEF Fresh
<1>10. Lasting /\ Others(r)
  <2>1. \A q \in Submissions : sub[q] # Fresh =>
          /\ sub'[q] # Fresh /\ sub'[q].kind = sub[q].kind
          /\ sub'[q].scope = sub[q].scope /\ sub'[q].about = sub[q].about
          /\ sub[q].step # "confirming" => sub'[q].confirmed = sub[q].confirmed
    BY <1>2, <1>3, <1>5, <1>8, <1>9
  <2>2. \A q \in Submissions : q \in Stored => written'[q] = written[q]
    BY <1>3, <1>8 DEF Stored
  <2> QED
    BY <1>4, <1>8, <2>1, <2>2 DEF Lasting, Others, Issued
<1>11. RequestsVerified'
  <2>1. RequestVerified(r)'
    BY <1>3, <1>5, <1>8 DEF RequestVerified, NoRequest
  <2> QED
    BY <1>1, <1>4, <1>10, <2>1, RequestsStay
<1>12. ReceiptsAreTrue'
  <2>1. Receipt(r)'
    BY <1>5, <1>8, <1>9 DEF Receipt, Stored
  <2> QED
    BY <1>1, <1>10, <2>1, ReceiptsStay
<1>13. EntriesOwned' /\ EntriesConfirmed'
  <2>1. ASSUME NEW t \in Sessions PROVE OwnedSession(t)'
    <3>1. t # s => entries'[t] = entries[t]
      BY <1>1, <1>4 DEF ServiceTyped
    <3> QED
      BY <1>1, <1>4, <3>1 DEF OwnedSession, EntriesOwned
  <2>2. ASSUME NEW t \in Sessions, NEW f \in entries'[t] PROVE Confirmed(t, f)'
    <3>1. CASE f \in entries[t]
      <4>1. Confirmed(t, f)
        BY <1>1, <3>1, ConfirmedByOne
      <4> QED
        BY <1>1, <1>4, <1>10, <3>1, <4>1, ConfirmedLasts
    <3>2. CASE f \notin entries[t]
      <4>1. t = s /\ f = e
        BY <1>1, <1>3, <1>4, <3>2 DEF ServiceTyped
      <4>2. e.run = r /\ e.req = r /\ e.seq = sub[r].about
        BY <1>6
      <4>3. j \in Issued'
        BY <1>3, <1>4 DEF Issued
      <4> QED
        BY <1>3, <1>4, <1>5, <1>8, <1>9, <4>1, <4>2, <4>3 DEF Confirmed
    <3> QED
      BY <3>1, <3>2
  <2> QED
    BY <2>1, <2>2, ConfirmedNext
<1>14. TokensSigned' /\ ServiceTyped'
  <2>1. e \in Entries
    BY <1>3, <1>6 DEF Entries
  <2>2. entries' \in [Sessions -> SUBSET Entries]
    BY <1>1, <1>3, <1>4, <2>1 DEF ServiceTyped
  <2>3. /\ sub' \in [Submissions -> {Fresh} \cup Captured]
        /\ request' \in [Submissions -> Requests]
        /\ written' \in [Submissions -> TokenIds \cup {NoToken}]
    BY <1>1, <1>3, <1>4, <1>5, <1>7 DEF ServiceTyped, Requests
  <2> QED
    BY <1>1, <1>4, <2>2, <2>3 DEF TokensSigned, ServiceTyped, Issued, Requests
<1> QED
  BY <1>11, <1>12, <1>13, <1>14 DEF ServiceInv

----------------------------------------------------------------------------
(* What goes on around the requests.                                       *)

LEMMA RestartKeeps ==
  ASSUME ServiceInv, RestartService
  PROVE  ServiceInv'
<1>1. /\ ServiceTyped /\ RequestsVerified /\ TokensSigned /\ EntriesOwned /\ EntriesConfirmed
      /\ ReceiptsAreTrue
  BY DEF ServiceInv
<1>2. /\ UNCHANGED <<token, phase, entries, holder, signedFor, written>>
      /\ \A q \in Submissions :
           /\ request'[q] = NoRequest
           /\ sub'[q] = IF sub[q].step \in {"establishing", "issuing", "posting"}
                        THEN Ended(q, "error") ELSE sub[q]
      /\ request' = [q \in Submissions |-> NoRequest]
      /\ sub' = [q \in Submissions |-> sub'[q]]
  BY DEF RestartService, Restart, sessionVars, ledgerVars
<1>3. ASSUME NEW q \in Submissions
      PROVE  \/ sub'[q] = sub[q] /\ sub[q].step # "posting"
             \/ /\ sub[q] \in Captured /\ sub[q] # Fresh
                /\ sub'[q] \in Captured /\ sub'[q] # Fresh /\ sub'[q].step = "over"
                /\ sub'[q].told = "error" /\ sub'[q].kind = sub[q].kind
                /\ sub'[q].scope = sub[q].scope /\ sub'[q].about = sub[q].about
                /\ sub'[q].confirmed = sub[q].confirmed
  <2>1. CASE sub[q].step \in {"establishing", "issuing", "posting"}
    <3>1. sub[q] \in Captured /\ sub[q] # Fresh /\ "error" \in Tellings
      BY <1>1, <2>1, CapturedWhenStepped DEF Tellings
    <3>2. sub'[q] = Ended(q, "error")
      BY <1>2, <2>1
    <3>3. Ended(q, "error") # Fresh
      BY <3>1, EndedIs DEF Fresh
    <3> QED
      BY <3>1, <3>2, <3>3, EndedIs
  <2>2. CASE sub[q].step \notin {"establishing", "issuing", "posting"}
    BY <1>2, <2>2
  <2> QED
    BY <2>1, <2>2
<1>4. \A q \in Submissions : sub[q] # Fresh =>
        /\ sub'[q] # Fresh /\ sub'[q].kind = sub[q].kind
        /\ sub'[q].scope = sub[q].scope /\ sub'[q].about = sub[q].about
        /\ sub[q].step # "confirming" => sub'[q].confirmed = sub[q].confirmed
  BY <1>3
<1>5. Lasting
  BY <1>2, <1>4 DEF Lasting, Issued
<1>6. ASSUME NEW q \in Submissions PROVE RequestVerified(q)'
  <2>1. RequestVerified(q)
    BY <1>1 DEF RequestsVerified
  <2>2. request'[q] = NoRequest /\ written'[q] = written[q]
    BY <1>2
  <2>3. CASE sub'[q] = sub[q] /\ sub[q].step # "posting"
    BY <2>1, <2>2, <2>3 DEF RequestVerified, NoRequest, Snapshot
  <2>4. CASE ~(sub'[q] = sub[q] /\ sub[q].step # "posting")
    BY <1>3, <2>1, <2>2, <2>4 DEF RequestVerified, NoRequest, Snapshot
  <2> QED
    BY <2>3, <2>4
<1>7. ASSUME NEW q \in Submissions, sub'[q] # Fresh PROVE Receipt(q)'
  <2>1. CASE sub'[q] = sub[q]
    <3>1. sub[q] # Fresh /\ Receipt(q)
      BY <1>1, <1>7, <2>1, ReceiptsByOne
    <3> QED
      BY <1>1, <1>2, <1>5, <2>1, <3>1, ReceiptLasts
  <2>2. CASE sub'[q] # sub[q]
    BY <1>3, <2>2 DEF Receipt
  <2> QED
    BY <2>1, <2>2
<1>8. RequestsVerified' /\ ReceiptsAreTrue'
  <2>1. RequestsVerified'
    BY <1>6 DEF RequestsVerified
  <2>2. ReceiptsAreTrue'
    BY <1>7 DEF ReceiptsAreTrue, Receipt, SoldAs
  <2> QED
    BY <2>1, <2>2
<1>9. Shrinking /\ \A s \in Sessions : OwnedSession(s)'
  BY <1>1, <1>2 DEF Shrinking, OwnedSession, EntriesOwned
<1>10. EntriesOwned' /\ EntriesConfirmed'
  BY <1>1, <1>5, <1>9, EntriesStay
<1>11. TokensSigned' /\ ServiceTyped'
  <2>1. sub' \in [Submissions -> {Fresh} \cup Captured]
    <3>1. \A q \in Submissions : sub'[q] \in {Fresh} \cup Captured
      BY <1>1, <1>3 DEF ServiceTyped
    <3> QED
      BY <1>2, <3>1
  <2>2. request' \in [Submissions -> Requests]
    BY <1>2 DEF Requests
  <2> QED
    BY <1>1, <1>2, <2>1, <2>2 DEF TokensSigned, ServiceTyped, Issued, Requests
<1> QED
  BY <1>8, <1>10, <1>11 DEF ServiceInv

(* A session that ends or is forgotten takes its entries along.            *)
LEMMA SessionGoneKeeps ==
  ASSUME ServiceInv, NEW t \in Sessions, CloseSession(t) \/ ForgetSession(t)
  PROVE  ServiceInv'
<1>1. /\ ServiceTyped /\ RequestsVerified /\ TokensSigned /\ EntriesOwned /\ EntriesConfirmed
      /\ ReceiptsAreTrue
  BY DEF ServiceInv
<1>2. UNCHANGED <<token, generation, signedFor, sub, request, written>>
  BY DEF CloseSession, ForgetSession, authVars
<1>3. ASSUME NEW s \in Sessions, s # t
      PROVE  entries'[s] = entries[s] /\ phase'[s] = phase[s] /\ holder'[s] = holder[s]
  BY <1>1, <1>3 DEF CloseSession, ForgetSession, Ledger!Close, Ledger!Forget, ServiceTyped
<1>4. /\ entries'[t] = {} /\ phase'[t] # "open"
      /\ holder'[t] = NoHolder <=> phase'[t] = "none"
      /\ phase'[t] \in {"none", "closed"}
  <2>1. CASE CloseSession(t)
    <3>1. phase[t] = "open" /\ holder'[t] = holder[t] /\ phase'[t] = "closed" /\ entries'[t] = {}
      BY <2>1 DEF CloseSession, Ledger!Close
    <3> QED
      BY <1>1, <3>1 DEF EntriesOwned
  <2>2. CASE ForgetSession(t)
    BY <1>1, <2>2 DEF ForgetSession, Ledger!Forget, ServiceTyped
  <2> QED
    BY <2>1, <2>2
<1>5. Lasting
  BY <1>2 DEF Lasting, Issued
<1>6. Shrinking
  BY <1>3, <1>4 DEF Shrinking
<1>7. ASSUME NEW s \in Sessions PROVE OwnedSession(s)'
  <2>1. CASE s = t
    BY <1>4, <2>1 DEF OwnedSession
  <2>2. CASE s # t
    BY <1>1, <1>3, <2>2 DEF OwnedSession, EntriesOwned
  <2> QED
    BY <2>1, <2>2
<1>8. EntriesOwned' /\ EntriesConfirmed'
  BY <1>1, <1>5, <1>6, <1>7, EntriesStay
<1>9. RequestsVerified' /\ ReceiptsAreTrue' /\ TokensSigned'
  <2>1. RequestsVerified'
    BY <1>1, <1>2 DEF RequestsVerified, RequestVerified, SameSession, Issued, Snapshot
  <2>2. ReceiptsAreTrue'
    BY <1>1, <1>2 DEF ReceiptsAreTrue, Stored
  <2> QED
    BY <1>1, <1>2, <2>1, <2>2 DEF TokensSigned, Issued
<1>10. ServiceTyped'
  <2>1. /\ phase' = [s \in Sessions |-> phase'[s]]
        /\ entries' = [s \in Sessions |-> entries'[s]]
        /\ holder' = [s \in Sessions |-> holder'[s]]
    BY <1>1 DEF CloseSession, ForgetSession, Ledger!Close, Ledger!Forget, ServiceTyped
  <2>2. ASSUME NEW s \in Sessions
        PROVE  /\ phase'[s] \in {"none", "open", "closed"}
               /\ entries'[s] \in SUBSET Entries
               /\ holder'[s] \in [owner : Owners, gen : 1..MaxGeneration] \cup {NoHolder}
    <3>1. CASE s # t
      BY <1>1, <1>3, <3>1 DEF ServiceTyped
    <3>2. CASE s = t
      <4>1. holder'[t] \in {holder[t], NoHolder}
        BY <1>1 DEF CloseSession, ForgetSession, ServiceTyped
      <4> QED
        BY <1>1, <1>4, <3>2, <4>1 DEF ServiceTyped
    <3> QED
      BY <3>1, <3>2
  <2>3. /\ phase' \in [Sessions -> {"none", "open", "closed"}]
        /\ entries' \in [Sessions -> SUBSET Entries]
        /\ holder' \in [Sessions -> [owner : Owners, gen : 1..MaxGeneration] \cup {NoHolder}]
    BY <2>1, <2>2
  <2> QED
    BY <1>1, <1>2, <2>3 DEF ServiceTyped
<1> QED
  BY <1>8, <1>9, <1>10 DEF ServiceInv

(* Revocations and the clock concern tokens alone.                         *)
LEMMA OutsideKeeps ==
  ASSUME ServiceInv, UNCHANGED <<token, generation, phase, entries, holder, signedFor, sub, request,
                                 written>>
  PROVE  ServiceInv'
<1>1. /\ ServiceTyped /\ RequestsVerified /\ TokensSigned /\ EntriesOwned /\ EntriesConfirmed
      /\ ReceiptsAreTrue
  BY DEF ServiceInv
<1>2. ServiceTyped' /\ TokensSigned' /\ EntriesOwned'
  BY <1>1 DEF ServiceTyped, TokensSigned, EntriesOwned, Issued
<1>3. RequestsVerified'
  BY <1>1 DEF RequestsVerified, RequestVerified, SameSession, Issued, Snapshot
<1>4. EntriesConfirmed'
  BY <1>1 DEF EntriesConfirmed, EntryConfirmed
<1>5. ReceiptsAreTrue'
  BY <1>1 DEF ReceiptsAreTrue, Stored
<1> QED
  BY <1>2, <1>3, <1>4, <1>5 DEF ServiceInv

----------------------------------------------------------------------------
(* The system as a whole.                                                  *)

LEMMA ServiceInitInv == ServiceInit => ServiceInv
<1> SUFFICES ASSUME ServiceInit PROVE ServiceInv
  OBVIOUS
<1>1. /\ \A r \in Submissions : sub[r] = Fresh /\ request[r] = NoRequest /\ written[r] = NoToken
      /\ \A s \in Sessions : holder[s] = NoHolder /\ phase[s] = "none" /\ entries[s] = {}
      /\ Issued = {}
  BY DEF ServiceInit, Ledger!Init, Init, Issued
<1>2. ServiceTyped
  BY DEF ServiceInit, Ledger!Init, ServiceTyped
<1>3. RequestsVerified
  BY <1>1 DEF RequestsVerified, RequestVerified, Fresh, NoRequest
<1>4. TokensSigned /\ EntriesOwned /\ EntriesConfirmed /\ ReceiptsAreTrue
  BY <1>1 DEF TokensSigned, EntriesOwned, EntriesConfirmed, ReceiptsAreTrue
<1> QED
  BY <1>2, <1>3, <1>4 DEF ServiceInv

LEMMA ServiceStepInv == ServiceInv /\ TypeOK /\ [ServiceNext]_serviceVars => ServiceInv'
<1> SUFFICES ASSUME ServiceInv, TypeOK, [ServiceNext]_serviceVars PROVE ServiceInv'
  OBVIOUS
<1>1. CASE UNCHANGED serviceVars
  BY <1>1, OutsideKeeps DEF serviceVars, authVars, sessionVars, ledgerVars
<1>2. ASSUME NEW r \in Submissions, WindowStep(r) PROVE ServiceInv'
  <2>1. CASE \E c \in Clicks : Capture(r, c)
    BY <2>1, CaptureKeeps
  <2>2. CASE Decline(r) \/ Confirm(r) \/ AskForToken(r)
    BY <2>2, InWindowKeeps
  <2>3. CASE \E j \in TokenIds : FetchHeld(r, j)
    BY <2>3, FetchKeeps
  <2> QED
    BY <1>2, <2>1, <2>2, <2>3 DEF WindowStep
<1>3. ASSUME NEW r \in Submissions, RouteStep(r) PROVE ServiceInv'
  <2>1. CASE EstablishNew(r)
    BY <2>1, EstablishNewKeeps
  <2>2. CASE EstablishKnown(r)
    BY <2>2, EstablishKnownKeeps
  <2>3. CASE \E j \in TokenIds, caps \in Grants : Grant(r, j, caps)
    BY <2>3, GrantKeeps
  <2>4. CASE \E d \in 0..MaxDrift : Verify(r, d)
    BY <2>4, VerifyKeeps
  <2>5. CASE Persist(r)
    BY <2>5, PersistKeeps
  <2>6. CASE Conflict(r) \/ SessionRejected(r) \/ Coach(r)
    BY <2>6, AnsweredKeeps
  <2> QED
    BY <1>3, <2>1, <2>2, <2>3, <2>4, <2>5, <2>6 DEF RouteStep
<1>4. CASE TimePasses
  BY <1>4, OutsideKeeps DEF TimePasses, Tick, outsideAuth, sessionVars, ledgerVars
<1>5. CASE Trouble
  <2>1. ASSUME NEW r \in Submissions,
               (\E code \in {401, 503} : ProviderFails(r, code)) \/ GiveUp(r)
        PROVE  ServiceInv'
    BY <2>1, InWindowKeeps
  <2>2. ASSUME NEW r \in Submissions, CallFails(r) PROVE ServiceInv'
    BY <2>2, AnsweredKeeps
  <2>3. ASSUME NEW j \in TokenIds, NEW d \in 0..MaxDrift, RevokeToken(j, d) PROVE ServiceInv'
    BY <2>3, OutsideKeeps DEF RevokeToken, Revoke, outsideAuth, sessionVars, ledgerVars
  <2>4. CASE RevocationsToggle
    BY <2>4, OutsideKeeps DEF RevocationsToggle, Toggle, outsideAuth, sessionVars, ledgerVars
  <2>5. CASE RestartService
    BY <2>5, RestartKeeps
  <2>6. ASSUME NEW s \in Sessions, CloseSession(s) \/ ForgetSession(s) PROVE ServiceInv'
    BY <2>6, SessionGoneKeeps
  <2> QED
    BY <1>5, <2>1, <2>2, <2>3, <2>4, <2>5, <2>6 DEF Trouble
<1> QED
  BY <1>1, <1>2, <1>3, <1>4, <1>5 DEF ServiceNext

LEMMA ServiceInductive == ServiceSpec => [](IndInv /\ ServiceInv)
<1>1. ServiceInit => IndInv /\ ServiceInv
  BY InitInd, ServiceInitInv DEF ServiceInit
<1>2. IndInv /\ ServiceInv /\ [ServiceNext]_serviceVars => (IndInv /\ ServiceInv)'
  BY AuthStep, StepInd, ServiceStepInv DEF IndInv, ServiceInv
<1> QED
  BY <1>1, <1>2, PTL DEF ServiceSpec

(* Each step of the system is one of the ledgers or leaves them alone.     *)
LEMMA LedgerOfService ==
  ServiceInv /\ [ServiceNext]_serviceVars => [Ledger!Next]_(Ledger!vars)
<1> SUFFICES ASSUME ServiceInv, [ServiceNext]_serviceVars
             PROVE  Ledger!Next \/ UNCHANGED ledgerVars
  BY DEF Ledger!vars, ledgerVars
<1>1. ASSUME NEW r \in Submissions, WindowStep(r) PROVE UNCHANGED ledgerVars
  BY <1>1 DEF WindowStep, Capture, Decline, Confirm, FetchHeld, AskForToken, sessionVars
<1>2. ASSUME NEW r \in Submissions, RouteStep(r) PROVE Ledger!Next \/ UNCHANGED ledgerVars
  <2>1. CASE EstablishNew(r)
    <3>1. sub[r].step = "establishing"
      BY <2>1 DEF EstablishNew, At
    <3>2. sub[r].scope.session \in Sessions
      BY <3>1, SubmissionKnown DEF Captured, Scopes
    <3> QED
      BY <2>1, <3>2 DEF EstablishNew, Ledger!Next
  <2>2. CASE Persist(r)
    <3>1. request[r].at = "handler" /\ sub[r].kind = Write
      BY <2>2 DEF Persist
    <3>2. Claimed(r).session \in Sessions /\ Row(r) \in [run : Submissions, seq : Sequences,
                                                         req : Submissions]
      BY <3>1, HandlerKnows DEF Scopes, Row
    <3> QED
      BY <2>2, <3>2 DEF Persist, Ledger!Next
  <2>3. CASE EstablishKnown(r) \/ Conflict(r) \/ SessionRejected(r) \/ Coach(r)
    BY <2>3 DEF EstablishKnown, Conflict, SessionRejected, Coach, sessionVars
  <2>4. CASE \E j \in TokenIds, caps \in Grants : Grant(r, j, caps)
    BY <2>4 DEF Grant, sessionVars
  <2>5. CASE \E d \in 0..MaxDrift : Verify(r, d)
    BY <2>5 DEF Verify, sessionVars
  <2> QED
    BY <1>2, <2>1, <2>2, <2>3, <2>4, <2>5 DEF RouteStep
<1>3. CASE TimePasses
  BY <1>3 DEF TimePasses, outsideAuth, sessionVars
<1>4. CASE Trouble
  <2>1. ASSUME NEW s \in Sessions, CloseSession(s) \/ ForgetSession(s) PROVE Ledger!Next
    BY <2>1 DEF CloseSession, ForgetSession, Ledger!Next
  <2>2. ASSUME NEW r \in Submissions, NEW code, ProviderFails(r, code) \/ GiveUp(r) \/ CallFails(r)
        PROVE  UNCHANGED ledgerVars
    BY <2>2 DEF ProviderFails, GiveUp, CallFails, sessionVars
  <2>3. ASSUME NEW j, NEW d, RevokeToken(j, d) PROVE UNCHANGED ledgerVars
    BY <2>3 DEF RevokeToken, outsideAuth, sessionVars
  <2>4. CASE RevocationsToggle \/ RestartService
    BY <2>4 DEF RevocationsToggle, RestartService, outsideAuth, sessionVars
  <2> QED
    BY <1>4, <2>1, <2>2, <2>3, <2>4 DEF Trouble
<1>5. CASE UNCHANGED serviceVars
  BY <1>5 DEF serviceVars, sessionVars
<1> QED
  BY <1>1, <1>2, <1>3, <1>4, <1>5 DEF ServiceNext

(* The windows, routes and faults together do with tokens what the token   *)
(* service promises and with sessions what the ledgers promise: the system *)
(* implements both components it is composed of.                           *)
THEOREM SystemKeepsItsParts == ServiceSpec => Spec /\ Ledger!Spec
<1>1. ServiceInit => Init /\ Ledger!Init
  BY DEF ServiceInit
<1>2. ServiceInv /\ [ServiceNext]_serviceVars => [Next]_vars
  BY AuthStep DEF ServiceInv
<1> QED
  BY <1>1, <1>2, LedgerOfService, ServiceInductive, PTL DEF ServiceSpec, Spec, Ledger!Spec

(* Whatever is in a session is what was agreed to in a window's dialog,    *)
(* for that session and number, and came under a writing token of whoever  *)
(* holds the session, however long the request waited between its          *)
(* verification and the store; and no request is under way, first or       *)
(* repeated, for a store or for a model, that was not agreed to as it is.  *)
THEOREM WritesAlwaysConfirmed == ServiceSpec => []OnlyConfirmedWrites
<1>1. IndInv /\ ServiceInv => OnlyConfirmedWrites
  BY DEF ServiceInv, RequestsVerified, RequestVerified, EntriesConfirmed, OnlyConfirmedWrites
<1> QED
  BY <1>1, ServiceInductive, PTL

(* What a window tells its user about a submission is so, and stays so.    *)
THEOREM ReceiptsAlwaysTrue == ServiceSpec => []ReceiptsAreTrue
<1>1. IndInv /\ ServiceInv => ReceiptsAreTrue
  BY DEF ServiceInv
<1> QED
  BY <1>1, ServiceInductive, PTL

(* No request of the system is verified with a token whose revocation was  *)
(* acknowledged, in this process or a later one.                           *)
THEOREM SystemRefusesRevoked == ServiceSpec => []RevokedStaysRefused
  BY SystemKeepsItsParts, RevocationHolds, PTL

(* While its process runs, the system honours a token up to the expiry its *)
(* client was told.                                                        *)
THEOREM SystemHonoursTokens == ServiceSpec => []HonouredUntilTold
  BY SystemKeepsItsParts, TokensAlwaysHonoured, PTL
=============================================================================
