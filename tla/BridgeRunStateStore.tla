------------------------- MODULE BridgeRunStateStore -------------------------
(***************************************************************************)
(* The run-state store of the MATLAB bridge:                               *)
(* adapters/storage/sqlite_bridge_run_state_store.py over the two tables   *)
(* bridge_run_state_session and bridge_run_state_run, the sweeper task of  *)
(* features/matlab_bridge/run_state_cleanup_worker.py, the project rows    *)
(* they hang from, and the restarts of the process that owns them.         *)
(*                                                                         *)
(* A store call reads the clock first and only then waits for the SQLite   *)
(* write lock (BEGIN IMMEDIATE), so a call is two steps: it is put in      *)
(* flight with the `now' it read, and later its transaction runs as one    *)
(* atomic step, or fails and rolls back.                                   *)
(***************************************************************************)
EXTENDS Integers, FiniteSets, BridgeRunStateMachine

CONSTANTS
  Users, Projects, Sessions,
  RunIds, RequestIds, Bodies,  \* what a snapshot carries
  MaxSeq,          \* bound: run_sequence is in 0..MaxSeq
  NoRun,           \* current_run_id IS NULL
  NoSnap,          \* the call carries no snapshot
  NoOwner,         \* there is no such row
  TTL,             \* upload_ttl_hours, in clock ticks
  SweepInterval,   \* sweep_interval_seconds
  SafetyMargin,    \* sweep_safety_margin_seconds
  MaxLag,          \* longest time between reading `now' and the commit
  Faults,          \* which faults may happen: subset of {"store", "lock", "outage"}
  MaxInFlight,     \* bound: calls in flight together
  MaxCreation,     \* bound: the last tick at which a project is created
  MaxClock,        \* bound: the last tick
  MaxGeneration    \* bound: process starts

ASSUME TimingAssumption ==
  /\ TTL \in Nat \ {0}
  /\ SweepInterval \in Nat \ {0}
  /\ SafetyMargin \in Nat
  /\ MaxLag \in Nat
  /\ 2 * MaxLag <= SafetyMargin + 1

ASSUME BoundAssumption ==
  /\ MaxSeq \in Nat
  /\ MaxInFlight \in Nat
  /\ MaxCreation \in Nat
  /\ MaxClock \in Nat
  /\ MaxGeneration \in Nat \ {0}

ASSUME NameAssumption ==
  /\ NoRun \notin RunIds
  /\ Faults \subseteq {"store", "lock", "outage"}

Snapshot == [run : RunIds, seq : 0..MaxSeq, req : RequestIds, body : Bodies]

ASSUME NoSnapAssumption == NoSnap \notin Snapshot

Owner == [user : Users, project : Projects, gen : 1..MaxGeneration]

ASSUME NoOwnerAssumption == NoOwner \notin Owner

Call == [kind : {"establish", "access", "persist"}, user : Users,
         project : Projects, session : Sessions, now : 0..MaxClock,
         snap : Snapshot \cup {NoSnap}]

VARIABLES
  clock,
  generation,   \* process_generation of the running (or last) process
  projectRow,   \* projectRow[p] \in {"unborn", "present", "deleted"}
  createdAt,    \* createdAt[p]: project_status_record.created_at
  status,       \* status[s] \in {"absent", "active", "ended", "gone"}
  owner,        \* owner[s]: user, project and process generation of the row
  establishedAt,
  current,      \* current[s]: current_run_id
  rows,         \* rows[s]: the bridge_run_state_run rows of s
  inflight,     \* calls that read their `now' and did not commit yet
  sweeper,      \* the sweeper task: "down", "sleeping", "sweeping", "dead"
  sweeperTime,  \* when it wakes (sleeping) or the `now' it read (sweeping)
  trackRecord   \* history: no sweep has failed and no process has died

storeVars   == <<status, owner, establishedAt, current, rows>>
projectVars == <<projectRow, createdAt>>
sweepVars   == <<sweeper, sweeperTime, trackRecord>>
vars == <<clock, generation, projectVars, storeVars, inflight, sweepVars>>

----------------------------------------------------------------------------
(* The queries the transactions are built from.                            *)

Up == sweeper # "down"

Expiry(p) == createdAt[p] + TTL

(* Mutant: the project is still alive at its very expiry.                  *)
Expired_AtExpiryAlive(p, now) == Expiry(p) < now

(* _is_project_expired, at the `now' the call read.                        *)
Expired(p, now) == Expiry(p) <= now

ActiveOf(p) == {s \in Sessions : status[s] = "active" /\ owner[s].project = p}

(* _reject_scope_mismatch: the row belongs to this user, project and       *)
(* process.  A call dies with its process, so its generation is this one.  *)
InScope(s, user, project) ==
  owner[s] = [user |-> user, project |-> project, gen |-> generation]

(* _require_active_session, once the project is known to be present and    *)
(* not expired.                                                            *)
Admitted(c) == status[c.session] = "active" /\ InScope(c.session, c.user, c.project)

ByRun(s, run) == {r \in rows[s] : r.run = run}
BySeq(s, seq) == {r \in rows[s] : r.seq = seq}
ByRequest(s, req) == {r \in rows[s] : r.req = req}

(* The verdict of persist_run: a request identifier another run already    *)
(* used is refused before the decision is taken.                           *)
PersistVerdict(s, snap) ==
  IF \E r \in ByRequest(s, snap.req) : r.run # snap.run
  THEN Verdict("conflict", "request_id_reuse")
  ELSE Decide(status[s], snap, ByRun(s, snap.run), BySeq(s, snap.seq),
              ByRun(s, current[s]))

(* _mark_session_gone, for every session of S.                             *)
MarkGone(S) ==
  /\ status'  = [s \in Sessions |-> IF s \in S THEN "gone" ELSE status[s]]
  /\ current' = [s \in Sessions |-> IF s \in S THEN NoRun ELSE current[s]]
  /\ rows'    = [s \in Sessions |-> IF s \in S THEN {} ELSE rows[s]]
  /\ UNCHANGED <<owner, establishedAt>>

----------------------------------------------------------------------------
(* Calls.                                                                  *)

Begin(kind, u, p, s, snap) ==
  /\ Up
  /\ Cardinality(inflight) < MaxInFlight
  /\ inflight' = inflight \cup {[kind |-> kind, user |-> u, project |-> p,
                                session |-> s, now |-> clock, snap |-> snap]}
  /\ UNCHANGED <<clock, generation, projectVars, storeVars, sweepVars>>

Finish(c) ==
  /\ c \in inflight
  /\ inflight' = inflight \ {c}
  /\ UNCHANGED <<clock, generation, projectVars, sweepVars>>

(* Every transaction first looks at the project: a missing one rejects,    *)
(* an expired one turns all its active sessions to gone, and that is       *)
(* committed although the call is rejected.                                *)
RejectMissingProject(c) ==
  /\ Finish(c)
  /\ projectRow[c.project] # "present"
  /\ UNCHANGED storeVars

RejectExpiredProject(c) ==
  /\ Finish(c)
  /\ projectRow[c.project] = "present"
  /\ Expired(c.project, c.now)
  /\ MarkGone(ActiveOf(c.project))

LiveProject(c) ==
  /\ projectRow[c.project] = "present"
  /\ ~Expired(c.project, c.now)

Unknown(s) == status[s] = "absent"

(* establish_session of an unknown session.                                *)
EstablishNew(c) ==
  /\ Finish(c)
  /\ c.kind = "establish"
  /\ LiveProject(c)
  /\ Unknown(c.session)
  /\ status' = [status EXCEPT ![c.session] = "active"]
  /\ owner' = [owner EXCEPT ![c.session] =
                 [user |-> c.user, project |-> c.project, gen |-> generation]]
  /\ establishedAt' = [establishedAt EXCEPT ![c.session] = c.now]
  /\ UNCHANGED <<current, rows>>

(* establish_session of a known one: refused when the scope differs or the *)
(* session is terminal; otherwise only updated_at moves.                   *)
EstablishAgain(c) ==
  /\ Finish(c)
  /\ c.kind = "establish"
  /\ LiveProject(c)
  /\ ~Unknown(c.session)
  /\ UNCHANGED storeVars

(* current, read_run_state_for_coaching, read_run_state_window_for_coaching *)
(* and assert_coaching_session_active read, or are refused, and write       *)
(* nothing unless the project expired.                                      *)
Access(c) ==
  /\ Finish(c)
  /\ c.kind = "access"
  /\ LiveProject(c)
  /\ UNCHANGED storeVars

PersistRefused(c) ==
  /\ Finish(c)
  /\ c.kind = "persist"
  /\ LiveProject(c)
  /\ ~Admitted(c)
  /\ UNCHANGED storeVars

(* persist_run: the row is inserted and, when it is the newest, the        *)
(* session points at it, in the same transaction.                          *)
PersistRow(c, kind) ==
  /\ Finish(c)
  /\ c.kind = "persist"
  /\ LiveProject(c)
  /\ Admitted(c)
  /\ PersistVerdict(c.session, c.snap).kind = kind
  /\ rows' = [rows EXCEPT ![c.session] = @ \cup {c.snap}]
  /\ current' = IF kind = "current"
                THEN [current EXCEPT ![c.session] = c.snap.run]
                ELSE current
  /\ UNCHANGED <<status, owner, establishedAt>>

PersistNoWrite(c) ==
  /\ Finish(c)
  /\ c.kind = "persist"
  /\ LiveProject(c)
  /\ Admitted(c)
  /\ PersistVerdict(c.session, c.snap).kind \in {"idempotent", "conflict"}
  /\ UNCHANGED storeVars

(* The lock wait times out (raw aiosqlite.Error) or a statement fails: the *)
(* transaction leaves no trace.                                            *)
CallFails(c) ==
  /\ Finish(c)
  /\ UNCHANGED storeVars

Transaction(c) ==
  \/ RejectMissingProject(c)
  \/ RejectExpiredProject(c)
  \/ EstablishNew(c)
  \/ EstablishAgain(c)
  \/ Access(c)
  \/ PersistRefused(c)
  \/ PersistRow(c, "current")
  \/ PersistRow(c, "historical")
  \/ PersistNoWrite(c)
  \/ CallFails(c)

(* end_session: no look at the project, and a terminal session stays as it *)
(* is.                                                                     *)
EndSession(s) ==
  /\ Up
  /\ status[s] = "active"
  /\ \E u \in Users, p \in Projects : InScope(s, u, p)
  /\ status'  = [status  EXCEPT ![s] = "ended"]
  /\ current' = [current EXCEPT ![s] = NoRun]
  /\ rows'    = [rows    EXCEPT ![s] = {}]
  /\ UNCHANGED <<clock, generation, projectVars, owner, establishedAt, inflight, sweepVars>>

(* Mutant: the run rows do not follow their session.                       *)
DropSessions_NoCascade(S) ==
  /\ status'  = [s \in Sessions |-> IF s \in S THEN "absent" ELSE status[s]]
  /\ UNCHANGED <<current, rows, owner, establishedAt>>

(* Mutant: no foreign key from the session to its project.                 *)
DropSessions_NoForeignKey(S) == UNCHANGED storeVars

(* The rows of S disappear with their runs (ON DELETE CASCADE).            *)
DropSessions(S) ==
  /\ status'  = [s \in Sessions |-> IF s \in S THEN "absent" ELSE status[s]]
  /\ current' = [s \in Sessions |-> IF s \in S THEN NoRun ELSE current[s]]
  /\ rows'    = [s \in Sessions |-> IF s \in S THEN {} ELSE rows[s]]
  /\ owner'   = [s \in Sessions |-> IF s \in S THEN NoOwner ELSE owner[s]]
  /\ establishedAt' = [s \in Sessions |-> IF s \in S THEN 0 ELSE establishedAt[s]]

(* delete_session: by identifier only, whatever the status.                *)
DeleteSession(s) ==
  /\ Up
  /\ status[s] # "absent"
  /\ DropSessions({s})
  /\ UNCHANGED <<clock, generation, projectVars, inflight, sweepVars>>

----------------------------------------------------------------------------
(* Projects: an upload creates a row once; the ingest cleanup worker       *)
(* deletes it strictly after its TTL, with everything that hangs from it.  *)

CreateProject(p) ==
  /\ Up
  /\ projectRow[p] = "unborn"
  /\ clock <= MaxCreation
  /\ projectRow' = [projectRow EXCEPT ![p] = "present"]
  /\ createdAt'  = [createdAt  EXCEPT ![p] = clock]
  /\ UNCHANGED <<clock, generation, storeVars, inflight, sweepVars>>

DeleteProject(p) ==
  /\ Up
  /\ projectRow[p] = "present"
  /\ Expiry(p) < clock
  /\ projectRow' = [projectRow EXCEPT ![p] = "deleted"]
  /\ DropSessions({s \in Sessions : status[s] # "absent" /\ owner[s].project = p})
  /\ UNCHANGED <<clock, generation, createdAt, inflight, sweepVars>>

----------------------------------------------------------------------------
(* The sweeper.                                                            *)

SweepBegin ==
  /\ sweeper = "sleeping"
  /\ sweeperTime <= clock
  /\ sweeper' = "sweeping"
  /\ sweeperTime' = clock
  /\ UNCHANGED <<clock, generation, projectVars, storeVars, inflight, trackRecord>>

(* Time stops at MaxClock; a sleeper that would wake later wakes there.    *)
Sleep ==
  /\ sweeper' = "sleeping"
  /\ sweeperTime' = IF clock + SweepInterval <= MaxClock
                    THEN clock + SweepInterval ELSE MaxClock

(* Mutant: the cutoff forgets the interval until the next sweep.           *)
Swept_NoInterval(now) ==
  {s \in Sessions :
     /\ status[s] = "active"
     /\ Expiry(owner[s].project) <= now + SafetyMargin}

(* sweep_expired_run_state: created_at <= now - ttl + interval + margin.   *)
Swept(now) ==
  {s \in Sessions :
     /\ status[s] = "active"
     /\ Expiry(owner[s].project) <= now + SweepInterval + SafetyMargin}

SweepCommit ==
  /\ sweeper = "sweeping"
  /\ MarkGone(Swept(sweeperTime))
  /\ Sleep
  /\ UNCHANGED <<clock, generation, projectVars, inflight, trackRecord>>

(* A statement fails: StoreError, which run_once swallows.                 *)
SweepStoreError ==
  /\ "store" \in Faults
  /\ sweeper = "sweeping"
  /\ Sleep
  /\ trackRecord' = "failed"
  /\ UNCHANGED <<clock, generation, projectVars, storeVars, inflight>>

(* BEGIN IMMEDIATE times out: it is outside the try, so a raw              *)
(* aiosqlite.Error leaves run_once and ends run_forever.                   *)
SweepLockTimeout ==
  /\ "lock" \in Faults
  /\ sweeper = "sweeping"
  /\ sweeper' = "dead"
  /\ trackRecord' = "failed"
  /\ UNCHANGED <<clock, generation, projectVars, storeVars, inflight, sweeperTime>>

----------------------------------------------------------------------------
(* The process and the clock.                                              *)

Crash ==
  /\ Up
  /\ generation < MaxGeneration
  /\ sweeper' = "down"
  /\ trackRecord' = "failed"
  /\ inflight' = {}
  /\ UNCHANGED <<clock, generation, projectVars, storeVars, sweeperTime>>

Startup ==
  /\ ~Up
  /\ generation' = generation + 1
  /\ sweeper' = "sleeping"
  /\ sweeperTime' = clock
  /\ UNCHANGED <<clock, projectVars, storeVars, inflight, trackRecord>>

(* Time passes.  busy_timeout bounds how long a call may wait for its      *)
(* lock, and the event loop starts a due sweep before it moves on; the     *)
(* process is down across a tick only under an outage.                     *)
Tick ==
  /\ clock < MaxClock
  /\ \A c \in inflight : clock < c.now + MaxLag
  /\ sweeper = "sweeping" => clock < sweeperTime + MaxLag
  /\ sweeper = "sleeping" => clock < sweeperTime
  /\ Up \/ "outage" \in Faults
  /\ clock' = clock + 1
  /\ UNCHANGED <<generation, projectVars, storeVars, inflight, sweepVars>>

Init ==
  /\ clock = 0
  /\ generation = 0
  /\ projectRow = [p \in Projects |-> "unborn"]
  /\ createdAt = [p \in Projects |-> 0]
  /\ status = [s \in Sessions |-> "absent"]
  /\ owner = [s \in Sessions |-> NoOwner]
  /\ establishedAt = [s \in Sessions |-> 0]
  /\ current = [s \in Sessions |-> NoRun]
  /\ rows = [s \in Sessions |-> {}]
  /\ inflight = {}
  /\ sweeper = "down"
  /\ sweeperTime = 0
  /\ trackRecord = "fine"

Next ==
  \/ \E u \in Users, p \in Projects, s \in Sessions :
       \/ \E kind \in {"establish", "access"} : Begin(kind, u, p, s, NoSnap)
       \/ \E snap \in Snapshot : Begin("persist", u, p, s, snap)
  \/ \E c \in inflight : Transaction(c)
  \/ \E s \in Sessions : EndSession(s) \/ DeleteSession(s)
  \/ \E p \in Projects : CreateProject(p) \/ DeleteProject(p)
  \/ SweepBegin \/ SweepCommit \/ SweepStoreError \/ SweepLockTimeout
  \/ Crash \/ Startup
  \/ Tick

Spec == Init /\ [][Next]_vars

(* A call gets the lock or a timeout within busy_timeout, the oldest first;*)
(* the supervisor restarts the process; the event loop runs its tasks; a   *)
(* sweep that keeps being retried does not meet an error every time; the   *)
(* ingest cleanup worker catches every exception and so never stops.       *)
Fairness ==
  /\ WF_vars(\E c \in inflight : (\A d \in inflight : c.now <= d.now) /\ Transaction(c))
  /\ WF_vars(Startup)
  /\ WF_vars(SweepBegin)
  /\ SF_vars(SweepCommit)
  /\ WF_vars(SweepCommit \/ SweepStoreError)
  /\ \A p \in Projects : WF_vars(DeleteProject(p))
  /\ WF_vars(Tick)

FairSpec == Spec /\ Fairness

----------------------------------------------------------------------------
(* Invariants.                                                             *)

(* Every variable has its type.                                            *)
TypeOK ==
  /\ clock \in 0..MaxClock
  /\ generation \in 0..MaxGeneration
  /\ projectRow \in [Projects -> {"unborn", "present", "deleted"}]
  /\ createdAt \in [Projects -> 0..MaxClock]
  /\ status \in [Sessions -> {"absent", "active", "ended", "gone"}]
  /\ owner \in [Sessions -> Owner \cup {NoOwner}]
  /\ establishedAt \in [Sessions -> 0..MaxClock]
  /\ current \in [Sessions -> RunIds \cup {NoRun}]
  /\ rows \in [Sessions -> SUBSET Snapshot]
  /\ inflight \subseteq Call
  /\ sweeper \in {"down", "sleeping", "sweeping", "dead"}
  /\ sweeperTime \in 0..MaxClock
  /\ trackRecord \in {"fine", "failed"}

(* The pointer a session shows as its current run is the row with the      *)
(* greatest sequence number, whatever order the runs arrived in (rule 4 of *)
(* task-518: a late old run is history only), and it is NULL exactly when  *)
(* there is no row: current() never finds "current_run_missing".           *)
CurrentIsNewest ==
  \A s \in Sessions :
    /\ (current[s] = NoRun) <=> (rows[s] = {})
    /\ rows[s] # {} =>
         \E r \in ByRun(s, current[s]) : \A q \in rows[s] : q.seq <= r.seq

(* persist_run never meets the UNIQUE constraints of the run table: its    *)
(* decision has refused every colliding row first, so the IntegrityError   *)
(* branch, which forgets the current run, is dead.                         *)
RowsAreDistinct ==
  \A s \in Sessions : \A r, q \in rows[s] :
    r # q => r.run # q.run /\ r.seq # q.seq /\ r.req # q.req

(* Snapshots live only under active sessions of a present project: ending, *)
(* deleting, expiry and the project cascade leave none behind (rule 7).    *)
OnlyActiveSessionsHoldRuns ==
  \A s \in Sessions :
    rows[s] # {} => /\ status[s] = "active"
                    /\ \E p \in Projects :
                         owner[s].project = p /\ projectRow[p] = "present"

(* What the table is to say of its runs, whatever order they come in.      *)
LedgerWellFormed == CurrentIsNewest /\ RowsAreDistinct /\ OnlyActiveSessionsHoldRuns

(* A client that repeats a stored snapshot under a request identifier it   *)
(* has not used for another run is told "idempotent" (rule 3).             *)
RetryIsIdempotent ==
  \A s \in Sessions : \A r \in rows[s] : \A req \in RequestIds :
    (\A q \in ByRequest(s, req) : q.run = r.run)
      => PersistVerdict(s, [r EXCEPT !.req = req]).kind = "idempotent"

(* A session established early enough before its project's expiry is       *)
(* emptied by the advanced cutoff before the expiry, as long as no sweep   *)
(* has failed and the process has not died.                                *)
EarlySessionsCleared ==
  trackRecord = "fine" => \A s \in Sessions :
    /\ rows[s] # {}
    /\ establishedAt[s] + SweepInterval + SafetyMargin + MaxLag < Expiry(owner[s].project)
    => clock <= Expiry(owner[s].project)

(* The promise of the docs: snapshots are physically gone at the latest    *)
(* when the project's TTL ends.                                            *)
RetentionHardLimit ==
  \A s \in Sessions : rows[s] # {} => clock <= Expiry(owner[s].project)

----------------------------------------------------------------------------
(* Action properties.                                                      *)

(* A row, once stored, stays as it is while its session is active: it      *)
(* disappears only with the whole session's ledger (run rows are never     *)
(* updated).                                                               *)
RowsImmutable ==
  [][\A s \in Sessions :
       status'[s] = "active" /\ status[s] = "active" => rows[s] \subseteq rows'[s]]_vars

(* An ended or gone session never becomes active again: only the deletion  *)
(* of its row ends that state (rule 6).                                    *)
TerminalIsFinal ==
  [][\A s \in Sessions :
       status[s] \in {"ended", "gone"} => status'[s] \in {status[s], "absent"}]_vars

(* A session gains runs only in the process that established it: after a   *)
(* restart the sessions of the old generation are read and written no more.*)
GenerationFence ==
  [][\A s \in Sessions :
       rows'[s] \ rows[s] # {} => owner'[s].gen = generation]_vars

(* Writes stop with the project's expiry, up to the time a call may wait   *)
(* for its lock with the clock it read before.                             *)
NoLateWrites ==
  [][\A s \in Sessions :
       (rows'[s] \ rows[s] # {} \/ (status[s] = "absent" /\ status'[s] = "active"))
         => clock < Expiry(owner'[s].project) + MaxLag]_vars

----------------------------------------------------------------------------
(* Liveness.                                                               *)

(* Whatever faults occur, no session stays active for ever: the sweeper    *)
(* or, when it is dead, the project cleanup ends it.                       *)
EventuallyCleared ==
  \A s \in Sessions : []<>(status[s] # "active")

----------------------------------------------------------------------------
(* The store implements the ledger.                                        *)

Phase(s) ==
  IF status[s] = "absent" THEN "none"
  ELSE IF status[s] = "active" THEN "open"
  ELSE "closed"

Newest(s) == IF current[s] = NoRun THEN NoSnap ELSE CHOOSE r \in rows[s] : r.run = current[s]

Ledger == INSTANCE RunLedger WITH
  Entry   <- Snapshot,
  NoEntry <- NoSnap,
  phase   <- [s \in Sessions |-> Phase(s)],
  entries <- rows,
  newest  <- [s \in Sessions |-> Newest(s)]

(* Seen from outside, the store is a family of append-only ledgers: calls  *)
(* that time out, retries, sweeps and restarts show up as nothing else.    *)
ImplementsLedger == Ledger!Spec
==============================================================================
