------------------------------ MODULE RunLedger ------------------------------
(***************************************************************************)
(* What the run-state store promises, whatever tables and transactions it  *)
(* uses: every session owns a ledger of immutable entries.  A ledger is    *)
(* opened once, grows one entry at a time, never changes or loses an       *)
(* entry while it is open, and is emptied for good when it closes.  The    *)
(* newest entry is always the one with the greatest sequence number.       *)
(***************************************************************************)
EXTENDS Integers

CONSTANTS
  Sessions,   \* the client-chosen session identifiers
  Entry,      \* the entries a ledger may hold
  NoEntry     \* "no newest entry"

VARIABLES
  phase,      \* phase[s] \in {"none", "open", "closed"}
  entries,    \* entries[s]: the ledger of s
  newest      \* newest[s]: an entry of s or NoEntry

vars == <<phase, entries, newest>>

(* Two entries collide when they share the run, the sequence number or the *)
(* HTTP request that brought them.                                         *)
Collide(e, f) == e.run = f.run \/ e.seq = f.seq \/ e.req = f.req

Init ==
  /\ phase   = [s \in Sessions |-> "none"]
  /\ entries = [s \in Sessions |-> {}]
  /\ newest  = [s \in Sessions |-> NoEntry]

Open(s) ==
  /\ phase[s] = "none"
  /\ phase' = [phase EXCEPT ![s] = "open"]
  /\ UNCHANGED <<entries, newest>>

Append(s, e) ==
  /\ phase[s] = "open"
  /\ \A f \in entries[s] : ~Collide(e, f)
  /\ entries' = [entries EXCEPT ![s] = @ \cup {e}]
  /\ newest'  = [newest EXCEPT ![s] =
                   IF \A f \in entries[s] : f.seq < e.seq THEN e ELSE @]
  /\ UNCHANGED phase

(* A set of open ledgers closes at once: the entries are gone for good.    *)
Close(S) ==
  /\ \A s \in S : phase[s] = "open"
  /\ phase'   = [s \in Sessions |-> IF s \in S THEN "closed" ELSE phase[s]]
  /\ entries' = [s \in Sessions |-> IF s \in S THEN {} ELSE entries[s]]
  /\ newest'  = [s \in Sessions |-> IF s \in S THEN NoEntry ELSE newest[s]]

(* A set of sessions is forgotten, open or closed.                         *)
Forget(S) ==
  /\ phase'   = [s \in Sessions |-> IF s \in S THEN "none" ELSE phase[s]]
  /\ entries' = [s \in Sessions |-> IF s \in S THEN {} ELSE entries[s]]
  /\ newest'  = [s \in Sessions |-> IF s \in S THEN NoEntry ELSE newest[s]]

Next ==
  \/ \E s \in Sessions : Open(s)
  \/ \E s \in Sessions, e \in Entry : Append(s, e)
  \/ \E S \in SUBSET Sessions : Close(S) \/ Forget(S)

Spec == Init /\ [][Next]_vars
==============================================================================
