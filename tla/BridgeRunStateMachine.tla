------------------------ MODULE BridgeRunStateMachine ------------------------
(***************************************************************************)
(* The pure decision of core/domain/bridge_run_state_machine.py: what to   *)
(* do with one incoming run snapshot, given the rows the transaction read. *)
(* An optional row is a set with at most one element.                      *)
(***************************************************************************)
EXTENDS Integers

(* Mutant: the HTTP attempt is part of the compared bytes.                 *)
Canonical_WithRequest(r) == <<r.run, r.seq, r.body, r.req>>

(* canonicalize_run_state_request: the bytes compared hold the run, its    *)
(* sequence number and its (already redacted) content, never the HTTP      *)
(* request identifier.  The hash is taken to be collision free.            *)
Canonical(r) == <<r.run, r.seq, r.body>>

SameSnapshot(existing, incoming) == Canonical(existing) = Canonical(incoming)

Verdict(kind, reason) == [kind |-> kind, reason |-> reason]

DecideByRunId(byRun, incoming) ==
  IF \E r \in byRun : SameSnapshot(r, incoming)
  THEN Verdict("idempotent", "none")
  ELSE Verdict("conflict", "run_id_snapshot_conflict")

DecideBySequence(bySeq, incoming) ==
  IF \E r \in bySeq : r.run = incoming.run /\ SameSnapshot(r, incoming)
  THEN Verdict("idempotent", "none")
  ELSE Verdict("conflict", "run_sequence_conflict")

(* Mutant: whatever arrives last becomes current.                          *)
DecideByOrder_LastWins(cur, incoming) == Verdict("current", "none")

(* cur is the row the session's current_run_id points at, if any.          *)
DecideByOrder(cur, incoming) ==
  IF \A r \in cur : incoming.seq > r.seq THEN Verdict("current", "none")
  ELSE IF \A r \in cur : incoming.seq < r.seq THEN Verdict("historical", "none")
  ELSE Verdict("conflict", "current_sequence_invariant_failed")

Decide(sessionStatus, incoming, byRun, bySeq, cur) ==
  IF sessionStatus # "active" THEN Verdict("rejected", "session_not_active")
  ELSE IF byRun # {} THEN DecideByRunId(byRun, incoming)
  ELSE IF bySeq # {} THEN DecideBySequence(bySeq, incoming)
  ELSE DecideByOrder(cur, incoming)
==============================================================================
