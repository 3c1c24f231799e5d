----------------------------- MODULE BridgeAuth -----------------------------
(***************************************************************************)
(* The scoped tokens of the MATLAB bridge:                                 *)
(* features/matlab_bridge/bridge_auth_service.py with its in-memory        *)
(* revocation store.  Issuing, verifying and revoking are synchronous      *)
(* calls of one event loop, so each is one step; verifying and revoking    *)
(* read the clock twice, and time may pass between the two readings.       *)
(* The revocations and the process generation live in memory only.         *)
(***************************************************************************)
EXTENDS Integers

CONSTANTS
  TokenIds,         \* jti values, each used once
  Capabilities,     \* allowed_capabilities
  NoToken,          \* not issued yet
  NoTime,           \* no revocation recorded
  Second,           \* ticks in a second: claims hold whole seconds
  TokenTTL,         \* token_ttl_seconds
  MaxLifetime,      \* max_token_lifetime_seconds
  Skew,             \* clock_skew_seconds
  MaxDrift,         \* most ticks between two clock readings of one call
  MaxClock,         \* bound: the last tick
  MaxGeneration     \* bound: process starts

ASSUME ClockAssumption ==
  /\ Second \in Nat \ {0}
  /\ TokenTTL \in Nat \ {0} /\ MaxLifetime \in Nat /\ Skew \in Nat
  /\ TokenTTL <= MaxLifetime      \* app/config.py refuses anything else
  /\ MaxDrift \in Nat /\ MaxClock \in Nat /\ MaxGeneration \in Nat \ {0}

ASSUME NoneAssumption == NoTime \notin Int

Time == 0..MaxClock

(* The claims of a token, and the expiry its client was told.              *)
Claims == [iat : Nat, exp : Nat, told : Nat, gen : 1..MaxGeneration,
           caps : SUBSET Capabilities]

ASSUME NoTokenAssumption == NoToken \notin Claims

VARIABLES
  clock,
  generation,       \* process_generation of the running process
  available,        \* the revocation store can be asked
  token,            \* token[j]: the claims signed under the identifier j
  revokedUntil,     \* _revoked_until_by_token_id
  everRevoked,      \* revocations ever acknowledged (history)
  verdict           \* the last verification (history)

vars == <<clock, generation, available, token, revokedUntil, everRevoked, verdict>>

Issued == {j \in TokenIds : token[j] # NoToken}

(* _to_epoch and back: the fraction of a second is cut off.                *)
Epoch(t) == (t \div Second) * Second

TTLTicks == TokenTTL * Second
SkewTicks == Skew * Second

(* Mutant: an expired token has no grace.                                  *)
TimesValid_NoSkew(c, now) == c.iat <= now /\ c.exp >= now

(* _validate_times.  nbf equals iat.                                       *)
TimesValid(c, now) ==
  /\ c.iat <= now + SkewTicks
  /\ c.exp >= now - SkewTicks
  /\ c.exp - c.iat <= MaxLifetime * Second
  /\ c.exp > c.iat

(* The process generation compared in _claims_from_payload.                *)
GenerationValid(c) == c.gen = generation

(* _decode_and_validate of a token this service signed.                    *)
Decodes(j, now) ==
  /\ j \in Issued
  /\ GenerationValid(token[j])
  /\ TimesValid(token[j], now)

(* Mutant: a record is dropped at exp, while the skew still admits the     *)
(* token.                                                                  *)
KeptAt_ExpOnly(until, now) == until # NoTime /\ until - SkewTicks >= now

(* A revocation record survives _drop_expired at this reading.             *)
KeptAt(until, now) == until # NoTime /\ until >= now

(* _drop_expired.                                                          *)
Dropped(now) ==
  [j \in TokenIds |-> IF KeptAt(revokedUntil[j], now) THEN revokedUntil[j] ELSE NoTime]

(* is_revoked, after the drop.                                             *)
IsRevoked(j, now) ==
  /\ Dropped(now)[j] # NoTime
  /\ Dropped(now)[j] >= now - SkewTicks

(* What is remembered of a verification: whether it accepted a token whose *)
(* revocation had been acknowledged.                                       *)
Unremarkable == [result |-> "unremarkable"]

Acceptance(j, at) ==
  IF j \in everRevoked THEN [result |-> "accepted", token |-> j, at |-> at]
  ELSE Unremarkable

(* The clock moves from the first to the second reading of a call.         *)
Drift(d) == clock + d <= MaxClock /\ clock' = clock + d

----------------------------------------------------------------------------

(* expires_at of the response.                                             *)
ToldExpiry(now) == now + TTLTicks

(* issue_token.                                                            *)
Issue(j, caps) ==
  /\ token[j] = NoToken
  /\ caps # {}
  /\ token' = [token EXCEPT ![j] =
                 [iat |-> Epoch(clock), exp |-> Epoch(clock + TTLTicks),
                  told |-> ToldExpiry(clock), gen |-> generation, caps |-> caps]]
  /\ UNCHANGED <<clock, generation, available, revokedUntil, everRevoked, verdict>>

(* verify_token: the claims first, the revocation with a later clock, the  *)
(* capability last.                                                        *)
VerifyDenied(j, d) ==
  /\ Drift(d)
  /\ ~Decodes(j, clock)
  /\ verdict' = Unremarkable
  /\ UNCHANGED <<generation, available, token, revokedUntil, everRevoked>>

VerifyUnavailable(j, d) ==
  /\ Drift(d)
  /\ Decodes(j, clock)
  /\ ~available
  /\ verdict' = Unremarkable
  /\ UNCHANGED <<generation, available, token, revokedUntil, everRevoked>>

VerifyChecked(j, cap, d) ==
  /\ Drift(d)
  /\ Decodes(j, clock)
  /\ available
  /\ revokedUntil' = Dropped(clock')
  /\ verdict' = IF IsRevoked(j, clock') \/ cap \notin token[j].caps
                THEN Unremarkable ELSE Acceptance(j, clock')
  /\ UNCHANGED <<generation, available, token, everRevoked>>

(* revoke_token: only a token that still decodes can be revoked; the       *)
(* record lives until exp + skew.                                          *)
Revoke(j, d) ==
  /\ Drift(d)
  /\ Decodes(j, clock)
  /\ available
  /\ revokedUntil' = [Dropped(clock') EXCEPT ![j] = token[j].exp + SkewTicks]
  /\ everRevoked' = everRevoked \cup {j}
  /\ UNCHANGED <<generation, available, token, verdict>>

(* The revocation store goes away and comes back.                          *)
Toggle ==
  /\ available' = ~available
  /\ UNCHANGED <<clock, generation, token, revokedUntil, everRevoked, verdict>>

(* A new process draws a new generation and starts with no revocations.    *)
Restart ==
  /\ generation < MaxGeneration
  /\ generation' = generation + 1
  /\ available' = TRUE
  /\ revokedUntil' = [j \in TokenIds |-> NoTime]
  /\ UNCHANGED <<clock, token, everRevoked, verdict>>

Tick ==
  /\ clock < MaxClock
  /\ clock' = clock + 1
  /\ UNCHANGED <<generation, available, token, revokedUntil, everRevoked, verdict>>

Init ==
  /\ clock = 0
  /\ generation = 1
  /\ available = TRUE
  /\ token = [j \in TokenIds |-> NoToken]
  /\ revokedUntil = [j \in TokenIds |-> NoTime]
  /\ everRevoked = {}
  /\ verdict = Unremarkable

Next ==
  \/ \E j \in TokenIds, caps \in SUBSET Capabilities : Issue(j, caps)
  \/ \E j \in TokenIds, d \in 0..MaxDrift :
       \/ VerifyDenied(j, d)
       \/ VerifyUnavailable(j, d)
       \/ \E cap \in Capabilities : VerifyChecked(j, cap, d)
       \/ Revoke(j, d)
  \/ Toggle
  \/ Restart
  \/ Tick

Spec == Init /\ [][Next]_vars

----------------------------------------------------------------------------

(* Every variable has its type.                                            *)
TypeOK ==
  /\ clock \in Time
  /\ generation \in 1..MaxGeneration
  /\ available \in BOOLEAN
  /\ token \in [TokenIds -> Claims \cup {NoToken}]
  /\ revokedUntil \in [TokenIds -> Nat \cup {NoTime}]
  /\ everRevoked \subseteq TokenIds

AcceptedRevoked == verdict.result = "accepted"

(* Verifications that start after a revocation was acknowledged fail, in   *)
(* this and in every later process, as the contract of task-517 says       *)
(* ("immediate").  The two clock readings of a verification leave one gap,  *)
(* past the last instant at which the token could be accepted at all.      *)
RevokedStaysRefused ==
  AcceptedRevoked => verdict.at > token[verdict.token].exp + SkewTicks

(* While its process runs, a token is honoured up to the expiry its client *)
(* was told, although the claims cut the fraction of the second: the skew  *)
(* makes up for it.                                                        *)
HonouredUntilTold ==
  Skew > 0 =>
    \A j \in Issued :
      token[j].gen = generation /\ clock <= token[j].told => Decodes(j, clock)

(* The record of a revocation is there as long as the token could pass the *)
(* other checks at the current clock.                                      *)
RecordOutlivesToken ==
  \A j \in everRevoked : Decodes(j, clock) => revokedUntil[j] # NoTime
==============================================================================
