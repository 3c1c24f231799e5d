---------------------- MODULE BridgeRunStateStore_proofs ----------------------
(***************************************************************************)
(* Theorems about the run-state store, for any number of sessions, users,  *)
(* projects and snapshots, any timing and any faults.                      *)
(***************************************************************************)
EXTENDS BridgeRunStateStore, TLAPS

(* A process that is up has a generation; one that is down may start       *)
(* again; only a running process has calls in flight, and a persist call   *)
(* carries a snapshot.                                                     *)
ProcessInv ==
  /\ Up => generation >= 1
  /\ ~Up => generation < MaxGeneration /\ inflight = {}
  /\ \A c \in inflight : c.kind = "persist" => c.snap \in Snapshot

(* Sessions that are not active hold nothing; sessions that exist have an  *)
(* owner whose project is still there.                                     *)
SessionInv ==
  \A s \in Sessions :
    /\ status[s] # "active" => rows[s] = {} /\ current[s] = NoRun
    /\ status[s] # "absent" => /\ owner[s] \in Owner
                               /\ projectRow[owner[s].project] = "present"

IndInv ==
  /\ TypeOK
  /\ ProcessInv
  /\ SessionInv
  /\ CurrentIsNewest
  /\ RowsAreDistinct

ActiveSessions == {s \in Sessions : status[s] = "active"}

(* All a step may do to the two tables.                                    *)
StoreStep ==
  \/ UNCHANGED storeVars
  \/ \E S \in SUBSET ActiveSessions : MarkGone(S)
  \/ \E c \in inflight : EstablishNew(c)
  \/ \E c \in inflight : PersistRow(c, "current") \/ PersistRow(c, "historical")
  \/ \E s \in Sessions : EndSession(s)
  \/ \E S \in SUBSET Sessions : DropSessions(S)

LEMMA StepIsStoreStep == [Next]_vars => StoreStep
<1> SUFFICES ASSUME [Next]_vars PROVE StoreStep
  OBVIOUS
<1>1. CASE UNCHANGED vars
  BY <1>1 DEF vars, StoreStep
<1>2. ASSUME NEW u \in Users, NEW p \in Projects, NEW s \in Sessions,
             NEW kind, NEW snap, Begin(kind, u, p, s, snap)
      PROVE  StoreStep
  BY <1>2 DEF Begin, StoreStep
<1>3. ASSUME NEW c \in inflight, Transaction(c)
      PROVE  StoreStep
  <2>1. CASE RejectExpiredProject(c)
    BY <2>1 DEF RejectExpiredProject, StoreStep, ActiveSessions, ActiveOf
  <2>2. CASE EstablishNew(c)
    BY <2>2 DEF StoreStep
  <2>3. CASE PersistRow(c, "current") \/ PersistRow(c, "historical")
    BY <2>3 DEF StoreStep
  <2> QED
    BY <1>3, <2>1, <2>2, <2>3 DEF Transaction, StoreStep, RejectMissingProject,
       EstablishAgain, Access, PersistRefused, PersistNoWrite, CallFails
<1>4. ASSUME NEW s \in Sessions, EndSession(s) \/ DeleteSession(s)
      PROVE  StoreStep
  BY <1>4 DEF DeleteSession, StoreStep
<1>5. ASSUME NEW p \in Projects, CreateProject(p) \/ DeleteProject(p)
      PROVE  StoreStep
  <2>1. CASE CreateProject(p)
    BY <2>1 DEF CreateProject, StoreStep
  <2>2. CASE DeleteProject(p)
    BY <2>2 DEF DeleteProject, StoreStep
  <2> QED
    BY <1>5, <2>1, <2>2
<1>6. CASE SweepCommit
  BY <1>6 DEF SweepCommit, Swept, StoreStep, ActiveSessions
<1>7. CASE SweepBegin \/ SweepStoreError \/ SweepLockTimeout \/ Crash \/ Startup \/ Tick
  BY <1>7 DEF SweepBegin, SweepStoreError, SweepLockTimeout, Crash, Startup, Tick, StoreStep
<1> QED
  BY <1>1, <1>2, <1>3, <1>4, <1>5, <1>6, <1>7 DEF Next

(* Every variable keeps its type, and the process its phase.               *)
LEMMA TypeInit == Init => TypeOK /\ ProcessInv
  BY TimingAssumption, BoundAssumption
  DEF Init, TypeOK, ProcessInv, Up

LEMMA TypeStep == TypeOK /\ ProcessInv /\ [Next]_vars => (TypeOK /\ ProcessInv)'
<1> SUFFICES ASSUME TypeOK, ProcessInv, [Next]_vars
             PROVE  (TypeOK /\ ProcessInv)'
  OBVIOUS
<1> USE TimingAssumption, BoundAssumption
<1>1. CASE UNCHANGED vars
  BY <1>1 DEF vars, storeVars, projectVars, sweepVars, TypeOK, ProcessInv, Up
<1>2. ASSUME NEW u \in Users, NEW p \in Projects, NEW s \in Sessions,
             NEW kind \in {"establish", "access", "persist"},
             NEW snap \in Snapshot \cup {NoSnap},
             kind = "persist" => snap \in Snapshot,
             Begin(kind, u, p, s, snap)
      PROVE  (TypeOK /\ ProcessInv)'
  <2> DEFINE c == [kind |-> kind, user |-> u, project |-> p, session |-> s,
                   now |-> clock, snap |-> snap]
  <2>1. c \in Call
    BY DEF Call, TypeOK
  <2>2. inflight' = inflight \cup {c} /\ Up
    BY <1>2 DEF Begin
  <2>3. c.kind = kind /\ c.snap = snap
    OBVIOUS
  <2> HIDE DEF c
  <2>4. TypeOK'
    BY <1>2, <2>1, <2>2 DEF Begin, TypeOK, storeVars, projectVars, sweepVars
  <2>5. ProcessInv'
    BY <1>2, <2>2, <2>3 DEF Begin, ProcessInv, Up, sweepVars
  <2> QED
    BY <2>4, <2>5
<1>3. ASSUME NEW c \in inflight, Transaction(c)
      PROVE  (TypeOK /\ ProcessInv)'
  <2>1. Finish(c) /\ (\/ UNCHANGED storeVars
                      \/ \E S \in SUBSET ActiveSessions : MarkGone(S)
                      \/ EstablishNew(c)
                      \/ PersistRow(c, "current") \/ PersistRow(c, "historical"))
    BY <1>3 DEF Transaction, RejectMissingProject, RejectExpiredProject, EstablishNew,
       EstablishAgain, Access, PersistRefused, PersistRow, PersistNoWrite, CallFails,
       ActiveSessions, ActiveOf
  <2>2. c \in Call /\ Up
    BY DEF TypeOK, ProcessInv
  <2>3. ProcessInv'
    BY <2>1, <2>2 DEF Finish, ProcessInv, Up, sweepVars
  <2>4. CASE UNCHANGED storeVars
    BY <2>1, <2>3, <2>4 DEF Finish, TypeOK, storeVars, projectVars, sweepVars
  <2>5. CASE \E S \in SUBSET ActiveSessions : MarkGone(S)
    BY <2>1, <2>3, <2>5 DEF Finish, MarkGone, TypeOK, projectVars, sweepVars
  <2>6. CASE EstablishNew(c)
    <3>1. c.session \in Sessions /\ c.now \in 0..MaxClock
      BY <2>2 DEF Call
    <3>2. [user |-> c.user, project |-> c.project, gen |-> generation] \in Owner
      BY <2>2 DEF Call, Owner, TypeOK, ProcessInv
    <3> QED
      BY <2>1, <2>3, <2>6, <3>1, <3>2 DEF EstablishNew, Finish, TypeOK, projectVars, sweepVars
  <2>7. CASE PersistRow(c, "current") \/ PersistRow(c, "historical")
    <3>1. c.snap \in Snapshot /\ c.session \in Sessions
      BY <2>2, <2>7 DEF Call, ProcessInv, PersistRow
    <3>2. c.snap.run \in RunIds
      BY <3>1 DEF Snapshot
    <3>3. UNCHANGED <<clock, generation, projectRow, createdAt, sweeper, sweeperTime,
                      trackRecord, status, owner, establishedAt>> /\ inflight' = inflight \ {c}
      BY <2>1, <2>7 DEF PersistRow, Finish, projectVars, sweepVars
    <3>4. rows' = [rows EXCEPT ![c.session] = @ \cup {c.snap}]
      BY <2>7 DEF PersistRow
    <3>5. current' = current \/ current' = [current EXCEPT ![c.session] = c.snap.run]
      BY <2>7 DEF PersistRow
    <3>6. rows' \in [Sessions -> SUBSET Snapshot]
      BY <3>1, <3>4 DEF TypeOK
    <3>7. current' \in [Sessions -> RunIds \cup {NoRun}]
      BY <3>1, <3>2, <3>5 DEF TypeOK
    <3> QED
      BY <2>3, <3>3, <3>6, <3>7 DEF TypeOK
  <2> QED
    BY <2>1, <2>3, <2>4, <2>5, <2>6, <2>7
<1>4. ASSUME NEW s \in Sessions, EndSession(s) \/ DeleteSession(s)
      PROVE  (TypeOK /\ ProcessInv)'
  BY <1>4 DEF EndSession, DeleteSession, DropSessions, TypeOK, ProcessInv, Up,
     projectVars, sweepVars
<1>5. ASSUME NEW p \in Projects, CreateProject(p) \/ DeleteProject(p)
      PROVE  (TypeOK /\ ProcessInv)'
  BY <1>5 DEF CreateProject, DeleteProject, DropSessions, TypeOK, ProcessInv, Up,
     storeVars, sweepVars
<1>6. CASE SweepCommit
  BY <1>6 DEF SweepCommit, Sleep, MarkGone, TypeOK, ProcessInv, Up, projectVars
<1>7. CASE SweepBegin \/ SweepStoreError \/ SweepLockTimeout
  BY <1>7 DEF SweepBegin, SweepStoreError, SweepLockTimeout, Sleep, TypeOK, ProcessInv,
     Up, projectVars, storeVars
<1>8. CASE Crash \/ Startup
  BY <1>8 DEF Crash, Startup, TypeOK, ProcessInv, Up, projectVars, storeVars
<1>9. CASE Tick
  BY <1>9 DEF Tick, TypeOK, ProcessInv, Up, projectVars, storeVars, sweepVars
<1> QED
  BY <1>1, <1>2, <1>3, <1>4, <1>5, <1>6, <1>7, <1>8, <1>9 DEF Next

(* What a verdict to write tells about the rows: no key of the new row is  *)
(* taken; "current" means it is above the newest row, "historical" that    *)
(* the newest row is above it.                                             *)
LEMMA VerdictToWrite ==
  ASSUME NEW s, NEW snap, NEW kind \in {"current", "historical"},
         PersistVerdict(s, snap).kind = kind
  PROVE  /\ ByRun(s, snap.run) = {}
         /\ BySeq(s, snap.seq) = {}
         /\ ByRequest(s, snap.req) = {}
         /\ kind = "current" => \A r \in ByRun(s, current[s]) : snap.seq > r.seq
         /\ kind = "historical" => /\ ByRun(s, current[s]) # {}
                                   /\ \A r \in ByRun(s, current[s]) : snap.seq < r.seq
<1> DEFINE d == Decide(status[s], snap, ByRun(s, snap.run), BySeq(s, snap.seq),
                       ByRun(s, current[s]))
<1>1. /\ ~ \E r \in ByRequest(s, snap.req) : r.run # snap.run
      /\ d.kind = kind
  BY DEF PersistVerdict, Verdict
<1>2. ByRun(s, snap.run) = {} /\ BySeq(s, snap.seq) = {}
  BY <1>1 DEF Decide, DecideByRunId, DecideBySequence, Verdict
<1>3. ByRequest(s, snap.req) = {}
  BY <1>1, <1>2 DEF ByRequest, ByRun
<1>4. DecideByOrder(ByRun(s, current[s]), snap).kind = kind
  BY <1>1, <1>2 DEF Decide, Verdict
<1>5. kind = "current" => \A r \in ByRun(s, current[s]) : snap.seq > r.seq
  BY <1>4 DEF DecideByOrder, Verdict
<1>6. kind = "historical" => /\ ByRun(s, current[s]) # {}
                             /\ \A r \in ByRun(s, current[s]) : snap.seq < r.seq
  BY <1>4 DEF DecideByOrder, Verdict
<1> QED
  BY <1>2, <1>3, <1>5, <1>6

(* What the inductive invariant says of the tables is preserved by each    *)
(* kind of step on them.  All of it reads the tables and the projects      *)
(* only.                                                                   *)
LEMMA SessionInit == Init => SessionInv /\ CurrentIsNewest /\ RowsAreDistinct
  BY DEF Init, SessionInv, CurrentIsNewest, RowsAreDistinct, ByRun

LEMMA SessionStep == IndInv /\ [Next]_vars => SessionInv'
<1> SUFFICES ASSUME IndInv, [Next]_vars PROVE SessionInv'
  OBVIOUS
<1>1. CASE UNCHANGED vars
  BY <1>1 DEF vars, storeVars, projectVars, IndInv, SessionInv
<1>2. CASE \E p \in Projects : DeleteProject(p)
  <2>1. PICK p \in Projects : DeleteProject(p)
    BY <1>2
  <2> DEFINE S == {s \in Sessions : status[s] # "absent" /\ owner[s].project = p}
  <2>2. projectRow' = [projectRow EXCEPT ![p] = "deleted"] /\ DropSessions(S)
    BY <2>1 DEF DeleteProject
  <2> QED
    BY <2>2 DEF DropSessions, IndInv, TypeOK, SessionInv, Owner
<1>3. CASE \E p \in Projects : CreateProject(p)
  BY <1>3 DEF CreateProject, storeVars, IndInv, TypeOK, SessionInv, Owner
<1>4. CASE projectRow' = projectRow /\ StoreStep
  <2>1. CASE UNCHANGED storeVars
    BY <1>4, <2>1 DEF storeVars, IndInv, SessionInv
  <2>2. CASE \E S \in SUBSET ActiveSessions : MarkGone(S)
    BY <1>4, <2>2 DEF MarkGone, ActiveSessions, IndInv, TypeOK, SessionInv
  <2>3. ASSUME NEW c \in inflight, EstablishNew(c)
        PROVE  SessionInv'
    <3>1. c \in Call /\ Up
      BY DEF IndInv, TypeOK, ProcessInv
    <3> DEFINE o == [user |-> c.user, project |-> c.project, gen |-> generation]
    <3>2. o \in Owner /\ c.session \in Sessions
      BY <3>1 DEF Call, Owner, IndInv, TypeOK, ProcessInv
    <3>3. projectRow[o.project] = "present"
      BY <2>3 DEF EstablishNew, LiveProject
    <3>4. owner' = [owner EXCEPT ![c.session] = o]
      BY <2>3 DEF EstablishNew
    <3> HIDE DEF o
    <3> QED
      BY <1>4, <2>3, <3>2, <3>3, <3>4 DEF EstablishNew, Unknown, IndInv, TypeOK, SessionInv
  <2>4. ASSUME NEW c \in inflight, NEW k, PersistRow(c, k)
        PROVE  SessionInv'
    <3>1. c.session \in Sessions
      BY DEF IndInv, TypeOK, Call
    <3>2. status[c.session] = "active"
      BY <2>4 DEF PersistRow, Admitted
    <3>3. /\ UNCHANGED <<status, owner>>
          /\ \A s \in Sessions : s # c.session => rows'[s] = rows[s] /\ current'[s] = current[s]
      BY <2>4, <3>1 DEF PersistRow, IndInv, TypeOK
    <3> QED
      BY <1>4, <3>2, <3>3 DEF IndInv, SessionInv
  <2>5. CASE \E s \in Sessions : EndSession(s)
    BY <1>4, <2>5 DEF EndSession, IndInv, TypeOK, SessionInv
  <2>6. CASE \E S \in SUBSET Sessions : DropSessions(S)
    BY <1>4, <2>6 DEF DropSessions, IndInv, TypeOK, SessionInv
  <2> QED
    BY <1>4, <2>1, <2>2, <2>3, <2>4, <2>5, <2>6 DEF StoreStep
<1>5. (\E p \in Projects : CreateProject(p) \/ DeleteProject(p)) \/ projectRow' = projectRow
  BY DEF Next, vars, projectVars, Begin, Transaction, RejectMissingProject,
     RejectExpiredProject, EstablishNew, EstablishAgain, Access, PersistRefused, PersistRow,
     PersistNoWrite, CallFails, Finish, EndSession, DeleteSession, SweepBegin, SweepCommit,
     SweepStoreError, SweepLockTimeout, Crash, Startup, Tick
<1> QED
  BY <1>2, <1>3, <1>4, <1>5, StepIsStoreStep

(* The pointer and the keys, through the one step that adds a row and the  *)
(* steps that empty whole sessions.                                        *)
LEMMA KeysStep == IndInv /\ [Next]_vars => CurrentIsNewest' /\ RowsAreDistinct'
<1> SUFFICES ASSUME IndInv, [Next]_vars PROVE CurrentIsNewest' /\ RowsAreDistinct'
  OBVIOUS
<1>1. CASE UNCHANGED storeVars
  BY <1>1 DEF storeVars, IndInv, CurrentIsNewest, RowsAreDistinct, ByRun
<1>2. ASSUME NEW S \in SUBSET Sessions,
             rows' = [s \in Sessions |-> IF s \in S THEN {} ELSE rows[s]],
             current' = [s \in Sessions |-> IF s \in S THEN NoRun ELSE current[s]]
      PROVE  CurrentIsNewest' /\ RowsAreDistinct'
  BY <1>2 DEF IndInv, CurrentIsNewest, RowsAreDistinct, ByRun
<1>3. CASE \E S \in SUBSET ActiveSessions : MarkGone(S)
  BY <1>2, <1>3 DEF MarkGone, ActiveSessions
<1>4. CASE \E S \in SUBSET Sessions : DropSessions(S)
  BY <1>2, <1>4 DEF DropSessions
<1>5. ASSUME NEW e \in Sessions, EndSession(e)
      PROVE  CurrentIsNewest' /\ RowsAreDistinct'
  <2>1. /\ rows' = [s \in Sessions |-> IF s \in {e} THEN {} ELSE rows[s]]
        /\ current' = [s \in Sessions |-> IF s \in {e} THEN NoRun ELSE current[s]]
    BY <1>5 DEF EndSession, IndInv, TypeOK
  <2> QED
    BY <1>2, <2>1
<1>6. ASSUME NEW c \in inflight, EstablishNew(c)
      PROVE  CurrentIsNewest' /\ RowsAreDistinct'
  BY <1>6 DEF EstablishNew, IndInv, CurrentIsNewest, RowsAreDistinct, ByRun
<1>7. ASSUME NEW c \in inflight, NEW k \in {"current", "historical"}, PersistRow(c, k)
      PROVE  CurrentIsNewest' /\ RowsAreDistinct'
  <2> DEFINE t == c.session
             n == c.snap
  <2>1. t \in Sessions /\ n \in Snapshot /\ n.run \in RunIds /\ n.seq \in Nat
    BY <1>7, BoundAssumption DEF IndInv, TypeOK, ProcessInv, Call, PersistRow, Snapshot
  <2>2. /\ ByRun(t, n.run) = {} /\ BySeq(t, n.seq) = {} /\ ByRequest(t, n.req) = {}
        /\ k = "current" => \A r \in ByRun(t, current[t]) : n.seq > r.seq
        /\ k = "historical" => /\ ByRun(t, current[t]) # {}
                               /\ \A r \in ByRun(t, current[t]) : n.seq < r.seq
    BY <1>7, VerdictToWrite DEF PersistRow
  <2>3. rows' = [rows EXCEPT ![t] = @ \cup {n}]
    BY <1>7 DEF PersistRow
  <2>4. current' = IF k = "current" THEN [current EXCEPT ![t] = n.run] ELSE current
    BY <1>7 DEF PersistRow
  <2>5. \A s \in Sessions : \A r \in rows[s] : r.seq \in Nat
    BY BoundAssumption DEF IndInv, TypeOK, Snapshot
  <2> HIDE DEF t, n
  <2>6. RowsAreDistinct'
    BY <2>1, <2>2, <2>3 DEF IndInv, TypeOK, RowsAreDistinct, ByRun, BySeq, ByRequest
  <2>7. ASSUME NEW s \in Sessions, s # t
        PROVE  /\ (current[s] = NoRun <=> rows[s] = {})'
               /\ (rows[s] # {} =>
                     \E r \in ByRun(s, current[s]) : \A q \in rows[s] : q.seq <= r.seq)'
    <3>1. rows'[s] = rows[s] /\ current'[s] = current[s]
      BY <2>1, <2>3, <2>4, <2>7 DEF IndInv, TypeOK
    <3> QED
      BY <3>1 DEF IndInv, CurrentIsNewest, ByRun
  <2>8. rows'[t] = rows[t] \cup {n}
    BY <2>1, <2>3 DEF IndInv, TypeOK
  <2>9. CASE k = "current"
    <3>1. current'[t] = n.run
      BY <2>1, <2>4, <2>9 DEF IndInv, TypeOK
    <3>2. \A q \in rows[t] : q.seq <= n.seq
      BY <2>1, <2>2, <2>5, <2>9 DEF IndInv, CurrentIsNewest, ByRun
    <3>3. n \in ByRun(t, current[t])' /\ \A q \in rows'[t] : q.seq <= n.seq
      BY <2>1, <2>8, <3>1, <3>2 DEF ByRun
    <3>4. current'[t] # NoRun
      BY <2>1, <3>1, NameAssumption
    <3> QED
      BY <2>6, <2>7, <2>8, <3>3, <3>4 DEF CurrentIsNewest
  <2>10. CASE k = "historical"
    <3>1. current'[t] = current[t]
      BY <2>4, <2>10
    <3>2. PICK r \in ByRun(t, current[t]) : \A q \in rows[t] : q.seq <= r.seq
      BY <2>1, <2>2, <2>10 DEF IndInv, CurrentIsNewest, ByRun
    <3>3. n.seq <= r.seq
      BY <2>1, <2>2, <2>5, <2>10, <3>2 DEF ByRun
    <3>4. r \in ByRun(t, current[t])' /\ \A q \in rows'[t] : q.seq <= r.seq
      BY <2>8, <3>1, <3>2, <3>3 DEF ByRun
    <3>5. current'[t] # NoRun
      BY <2>1, <3>1, <3>2 DEF IndInv, CurrentIsNewest, ByRun
    <3> QED
      BY <2>6, <2>7, <2>8, <3>4, <3>5 DEF CurrentIsNewest
  <2> QED
    BY <2>9, <2>10
<1> QED
  BY <1>1, <1>3, <1>4, <1>5, <1>6, <1>7, StepIsStoreStep DEF StoreStep

LEMMA Inductive == Spec => []IndInv
<1>1. Init => IndInv
  BY TypeInit, SessionInit DEF IndInv
<1>2. IndInv /\ [Next]_vars => IndInv'
  BY TypeStep, SessionStep, KeysStep DEF IndInv
<1> QED
  BY <1>1, <1>2, PTL DEF Spec

(* The store's variables always have their types.                          *)
THEOREM TypeCorrect == Spec => []TypeOK
<1>1. IndInv => TypeOK
  BY DEF IndInv
<1> QED
  BY <1>1, Inductive, PTL

(* In whatever order the snapshots of a session arrive and however often   *)
(* they are repeated, current_run_id names the run with the greatest       *)
(* sequence number, and is NULL only without runs.                         *)
THEOREM CurrentIsAlwaysNewest == Spec => []CurrentIsNewest
<1>1. IndInv => CurrentIsNewest
  BY DEF IndInv
<1> QED
  BY <1>1, Inductive, PTL

(* No two rows of a session ever share a run, a sequence number or a       *)
(* request identifier, so persist_run never sees an IntegrityError.        *)
THEOREM RowsAlwaysDistinct == Spec => []RowsAreDistinct
<1>1. IndInv => RowsAreDistinct
  BY DEF IndInv
<1> QED
  BY <1>1, Inductive, PTL

(* Run rows exist only under an active session of a project that is still  *)
(* there.                                                                  *)
THEOREM RunsOnlyWhileActive == Spec => []OnlyActiveSessionsHoldRuns
<1>1. IndInv => OnlyActiveSessionsHoldRuns
  BY DEF IndInv, SessionInv, OnlyActiveSessionsHoldRuns, Owner
<1> QED
  BY <1>1, Inductive, PTL

(* The run rows are well formed: newest current, distinct, and only under  *)
(* active sessions.                                                        *)
THEOREM LedgerAlwaysWellFormed == Spec => []LedgerWellFormed
<1> QED
  BY CurrentIsAlwaysNewest, RowsAlwaysDistinct, RunsOnlyWhileActive, PTL DEF LedgerWellFormed

(* Repeating a stored snapshot, under its own request identifier or a new  *)
(* one, is told "idempotent" whatever else the session holds.              *)
THEOREM RetriesAlwaysIdempotent == Spec => []RetryIsIdempotent
<1>1. IndInv => RetryIsIdempotent
  <2> SUFFICES ASSUME IndInv, NEW s \in Sessions, NEW r \in rows[s], NEW req \in RequestIds,
                      \A q \in ByRequest(s, req) : q.run = r.run
               PROVE  PersistVerdict(s, [r EXCEPT !.req = req]).kind = "idempotent"
    BY DEF RetryIsIdempotent
  <2> DEFINE again == [r EXCEPT !.req = req]
  <2>1. r \in Snapshot
    BY DEF IndInv, TypeOK
  <2>2. again.run = r.run /\ again.seq = r.seq /\ again.body = r.body /\ again.req = req
    BY <2>1 DEF Snapshot
  <2>3. status[s] = "active"
    BY DEF IndInv, SessionInv
  <2>4. r \in ByRun(s, again.run)
    BY <2>2 DEF ByRun
  <2>5. SameSnapshot(r, again)
    BY <2>2 DEF SameSnapshot, Canonical
  <2>6. Decide(status[s], again, ByRun(s, again.run), BySeq(s, again.seq),
               ByRun(s, current[s])) = Verdict("idempotent", "none")
    BY <2>3, <2>4, <2>5 DEF Decide, DecideByRunId
  <2>7. ~\E q \in ByRequest(s, again.req) : q.run # again.run
    BY <2>2
  <2> QED
    BY <2>6, <2>7 DEF PersistVerdict, Verdict
<1> QED
  BY <1>1, Inductive, PTL


(* A stored row is never changed or dropped while its session is active.   *)
THEOREM RowsNeverChange == Spec => RowsImmutable
<1> DEFINE Safe == \A s \in Sessions :
              status'[s] = "active" /\ status[s] = "active" => rows[s] \subseteq rows'[s]
<1>1. IndInv /\ [Next]_vars => [Safe]_vars
  <2> SUFFICES ASSUME IndInv, [Next]_vars PROVE Safe
    OBVIOUS
  <2> USE DEF IndInv, TypeOK
  <2>1. CASE UNCHANGED storeVars
    BY <2>1 DEF storeVars
  <2>2. CASE \E S \in SUBSET ActiveSessions : MarkGone(S)
    BY <2>2 DEF MarkGone
  <2>3. CASE \E c \in inflight : EstablishNew(c)
    BY <2>3 DEF EstablishNew
  <2>4. CASE \E c \in inflight : PersistRow(c, "current") \/ PersistRow(c, "historical")
    BY <2>4 DEF PersistRow
  <2>5. CASE \E s \in Sessions : EndSession(s)
    BY <2>5 DEF EndSession
  <2>6. CASE \E S \in SUBSET Sessions : DropSessions(S)
    BY <2>6 DEF DropSessions
  <2> QED
    BY <2>1, <2>2, <2>3, <2>4, <2>5, <2>6, StepIsStoreStep DEF StoreStep
<1> QED
  BY <1>1, Inductive, PTL DEF Spec, RowsImmutable

(* Only the deletion of its row takes a session out of a terminal state.   *)
THEOREM TerminalStaysFinal == Spec => TerminalIsFinal
<1> DEFINE Safe == \A s \in Sessions :
              status[s] \in {"ended", "gone"} => status'[s] \in {status[s], "absent"}
<1>1. IndInv /\ [Next]_vars => [Safe]_vars
  <2> SUFFICES ASSUME IndInv, [Next]_vars PROVE Safe
    OBVIOUS
  <2> USE DEF IndInv, TypeOK
  <2>1. CASE UNCHANGED storeVars
    BY <2>1 DEF storeVars
  <2>2. CASE \E S \in SUBSET ActiveSessions : MarkGone(S)
    BY <2>2 DEF MarkGone, ActiveSessions
  <2>3. CASE \E c \in inflight : EstablishNew(c)
    BY <2>3 DEF EstablishNew, Unknown
  <2>4. CASE \E c \in inflight : PersistRow(c, "current") \/ PersistRow(c, "historical")
    BY <2>4 DEF PersistRow
  <2>5. CASE \E s \in Sessions : EndSession(s)
    BY <2>5 DEF EndSession
  <2>6. CASE \E S \in SUBSET Sessions : DropSessions(S)
    BY <2>6 DEF DropSessions
  <2> QED
    BY <2>1, <2>2, <2>3, <2>4, <2>5, <2>6, StepIsStoreStep DEF StoreStep
<1> QED
  BY <1>1, Inductive, PTL DEF Spec, TerminalIsFinal

(* Only the process that established a session ever adds a run to it.      *)
THEOREM OldGenerationsFenced == Spec => GenerationFence
<1> DEFINE Safe == \A s \in Sessions : rows'[s] \ rows[s] # {} => owner'[s].gen = generation
<1>1. IndInv /\ [Next]_vars => [Safe]_vars
  <2> SUFFICES ASSUME IndInv, [Next]_vars PROVE Safe
    OBVIOUS
  <2> USE DEF IndInv, TypeOK
  <2>1. CASE UNCHANGED storeVars
    BY <2>1 DEF storeVars
  <2>2. CASE \E S \in SUBSET ActiveSessions : MarkGone(S)
    BY <2>2 DEF MarkGone
  <2>3. CASE \E c \in inflight : EstablishNew(c)
    BY <2>3 DEF EstablishNew
  <2>4. CASE \E c \in inflight : PersistRow(c, "current") \/ PersistRow(c, "historical")
    BY <2>4 DEF PersistRow, Admitted, InScope
  <2>5. CASE \E s \in Sessions : EndSession(s)
    BY <2>5 DEF EndSession
  <2>6. CASE \E S \in SUBSET Sessions : DropSessions(S)
    BY <2>6 DEF DropSessions
  <2> QED
    BY <2>1, <2>2, <2>3, <2>4, <2>5, <2>6, StepIsStoreStep DEF StoreStep
<1> QED
  BY <1>1, Inductive, PTL DEF Spec, GenerationFence

(* A call commits at most MaxLag after the clock it read, a sweep judges   *)
(* with a clock that is not ahead.                                         *)
TimeInv ==
  /\ \A c \in inflight : c.now <= clock /\ clock <= c.now + MaxLag
  /\ sweeper = "sweeping" => sweeperTime <= clock

LEMMA TimeStep == IndInv /\ TimeInv /\ [Next]_vars => TimeInv'
<1> SUFFICES ASSUME IndInv, TimeInv, [Next]_vars PROVE TimeInv'
  OBVIOUS
<1> USE TimingAssumption, BoundAssumption
<1>1. CASE Tick
  <2>1. clock \in Nat /\ clock' = clock + 1
    BY <1>1 DEF Tick, IndInv, TypeOK
  <2>2. \A c \in inflight : c.now \in Nat
    BY DEF IndInv, TypeOK, Call
  <2>3. sweeperTime \in Nat
    BY DEF IndInv, TypeOK
  <2> QED
    BY <1>1, <2>1, <2>2, <2>3 DEF Tick, TimeInv, sweepVars
<1>2. ASSUME NEW u \in Users, NEW p \in Projects, NEW s \in Sessions,
             NEW kind, NEW snap, Begin(kind, u, p, s, snap)
      PROVE  TimeInv'
  BY <1>2 DEF Begin, TimeInv, IndInv, TypeOK, sweepVars
<1>3. CASE \E c \in inflight : Transaction(c)
  BY <1>3 DEF Transaction, RejectMissingProject, RejectExpiredProject, EstablishNew,
     EstablishAgain, Access, PersistRefused, PersistRow, PersistNoWrite, CallFails,
     Finish, TimeInv, sweepVars
<1>4. CASE UNCHANGED vars \/ \E s \in Sessions : EndSession(s) \/ DeleteSession(s)
  BY <1>4 DEF vars, EndSession, DeleteSession, TimeInv, sweepVars
<1>5. CASE \E p \in Projects : CreateProject(p) \/ DeleteProject(p)
  BY <1>5 DEF CreateProject, DeleteProject, TimeInv, sweepVars
<1>6. CASE SweepBegin \/ SweepCommit \/ SweepStoreError \/ SweepLockTimeout \/ Crash \/ Startup
  BY <1>6 DEF SweepBegin, SweepCommit, SweepStoreError, SweepLockTimeout, Sleep, Crash,
     Startup, TimeInv, IndInv, TypeOK
<1> QED
  BY <1>1, <1>2, <1>3, <1>4, <1>5, <1>6 DEF Next

LEMMA TimeAlways == Spec => []TimeInv
<1>1. Init => TimeInv
  BY DEF Init, TimeInv
<1> QED
  BY <1>1, TimeStep, Inductive, PTL DEF Spec

(* No run is stored and no session opened later than a lock wait after the *)
(* expiry of the project.                                                  *)
THEOREM WritesStopAtExpiry == Spec => NoLateWrites
<1> DEFINE Safe == \A s \in Sessions :
              (rows'[s] \ rows[s] # {} \/ (status[s] = "absent" /\ status'[s] = "active"))
                => clock < Expiry(owner'[s].project) + MaxLag
<1>1. IndInv /\ TimeInv /\ [Next]_vars => [Safe]_vars
  <2> SUFFICES ASSUME IndInv, TimeInv, [Next]_vars PROVE Safe
    OBVIOUS
  <2>1. ASSUME NEW c \in inflight, LiveProject(c)
        PROVE  clock < Expiry(c.project) + MaxLag
    <3>1. c.now < Expiry(c.project) /\ clock <= c.now + MaxLag /\ c.project \in Projects
      BY <2>1, TimingAssumption DEF LiveProject, Expired, Expiry, TimeInv, IndInv, TypeOK, Call
    <3>2. clock \in Nat /\ c.now \in Nat /\ Expiry(c.project) \in Nat
      BY <3>1, TimingAssumption, BoundAssumption DEF IndInv, TypeOK, Call, Expiry
    <3> QED
      BY <3>1, <3>2, TimingAssumption
  <2>2. CASE \E c \in inflight : EstablishNew(c)
    <3>1. PICK c \in inflight : EstablishNew(c)
      BY <2>2
    <3>2. c.session \in Sessions
      BY DEF IndInv, TypeOK, Call
    <3>3. clock < Expiry(c.project) + MaxLag
      BY <2>1, <3>1 DEF EstablishNew
    <3>4. owner'[c.session].project = c.project
      BY <3>1, <3>2 DEF EstablishNew, IndInv, TypeOK
    <3>5. \A s \in Sessions : s # c.session => status'[s] = status[s]
      BY <3>1, <3>2 DEF EstablishNew, IndInv, TypeOK
    <3> QED
      BY <3>1, <3>3, <3>4, <3>5 DEF EstablishNew
  <2>3. CASE \E c \in inflight : PersistRow(c, "current") \/ PersistRow(c, "historical")
    <3>1. PICK c \in inflight : PersistRow(c, "current") \/ PersistRow(c, "historical")
      BY <2>3
    <3>2. /\ LiveProject(c) /\ Admitted(c)
          /\ rows' = [rows EXCEPT ![c.session] = @ \cup {c.snap}]
          /\ UNCHANGED <<status, owner>>
      BY <3>1 DEF PersistRow
    <3>3. owner'[c.session].project = c.project /\ clock < Expiry(c.project) + MaxLag
      BY <2>1, <3>2 DEF Admitted, InScope
    <3> QED
      BY <3>2, <3>3 DEF IndInv, TypeOK
  <2>4. CASE UNCHANGED storeVars
    BY <2>4 DEF storeVars, IndInv, TypeOK
  <2>5. CASE \E S \in SUBSET ActiveSessions : MarkGone(S)
    BY <2>5 DEF MarkGone, ActiveSessions
  <2>6. CASE \E s \in Sessions : EndSession(s)
    BY <2>6 DEF EndSession, IndInv, TypeOK
  <2>7. CASE \E S \in SUBSET Sessions : DropSessions(S)
    BY <2>7 DEF DropSessions, IndInv, TypeOK
  <2> QED
    BY <2>2, <2>3, <2>4, <2>5, <2>6, <2>7, StepIsStoreStep DEF StoreStep
<1> QED
  BY <1>1, TimeAlways, Inductive, PTL DEF Spec, NoLateWrites

(* In one process whose sweeps all succeed, the next sweep is never later  *)
(* than an interval away, and it reaches every session that was            *)
(* established early, before its project's expiry.                         *)
Early(s) ==
  establishedAt[s] + SweepInterval + SafetyMargin + MaxLag < Expiry(owner[s].project)

Reached(s) == sweeperTime + SafetyMargin < Expiry(owner[s].project) + MaxLag

SweepInv ==
  /\ sweeper # "dead"
  /\ sweeper = "down" => \A s \in Sessions : status[s] # "active"
  /\ sweeper = "sleeping" => clock <= sweeperTime /\ sweeperTime <= clock + SweepInterval
  /\ sweeper = "sweeping" => sweeperTime <= clock /\ clock <= sweeperTime + MaxLag
  /\ \A s \in Sessions : status[s] = "active" /\ Early(s) => Reached(s)

(* A session that is active after a step was so before it, unchanged, or   *)
(* has just been established.                                              *)
LEMMA ActiveAfterStep ==
  ASSUME IndInv, [Next]_vars, NEW s \in Sessions, status'[s] = "active"
  PROVE  \/ /\ status[s] = "active"
            /\ owner'[s] = owner[s] /\ establishedAt'[s] = establishedAt[s]
         \/ \E c \in inflight : c.session = s /\ EstablishNew(c)
<1>1. CASE UNCHANGED storeVars
  BY <1>1 DEF storeVars
<1>2. CASE \E S \in SUBSET ActiveSessions : MarkGone(S)
  BY <1>2 DEF MarkGone
<1>3. ASSUME NEW c \in inflight, EstablishNew(c)
      PROVE  \/ /\ status[s] = "active"
                /\ owner'[s] = owner[s] /\ establishedAt'[s] = establishedAt[s]
             \/ c.session = s
  BY <1>3 DEF EstablishNew, IndInv, TypeOK, Call
<1>4. CASE \E c \in inflight : PersistRow(c, "current") \/ PersistRow(c, "historical")
  BY <1>4 DEF PersistRow
<1>5. CASE \E t \in Sessions : EndSession(t)
  BY <1>5 DEF EndSession, IndInv, TypeOK
<1>6. CASE \E S \in SUBSET Sessions : DropSessions(S)
  BY <1>6 DEF DropSessions, IndInv, TypeOK
<1> QED
  BY <1>1, <1>2, <1>3, <1>4, <1>5, <1>6, StepIsStoreStep DEF StoreStep

(* The expiry of a present project never moves.                            *)
LEMMA ExpiryStays ==
  ASSUME IndInv, [Next]_vars, NEW p \in Projects, projectRow[p] = "present"
  PROVE  Expiry(p)' = Expiry(p)
<1>1. CASE \E q \in Projects : CreateProject(q)
  BY <1>1 DEF CreateProject, Expiry, IndInv, TypeOK
<1>2. CASE createdAt' = createdAt
  BY <1>2 DEF Expiry
<1>3. ASSUME ~ \E q \in Projects : CreateProject(q) PROVE createdAt' = createdAt
  BY <1>3 DEF Next, vars, projectVars, Begin, Transaction, RejectMissingProject,
     RejectExpiredProject, EstablishNew, EstablishAgain, Access, PersistRefused, PersistRow,
     PersistNoWrite, CallFails, Finish, EndSession, DeleteSession, DeleteProject, SweepBegin,
     SweepCommit, SweepStoreError, SweepLockTimeout, Crash, Startup, Tick
<1> QED
  BY <1>1, <1>2, <1>3

LEMMA EarlyTyped ==
  ASSUME IndInv, NEW s \in Sessions, status[s] = "active"
  PROVE  /\ owner[s].project \in Projects
         /\ projectRow[owner[s].project] = "present"
         /\ Expiry(owner[s].project) \in Nat
         /\ establishedAt[s] \in Nat /\ clock \in Nat /\ sweeperTime \in Nat
  BY TimingAssumption, BoundAssumption DEF IndInv, TypeOK, SessionInv, Owner, Expiry

(* A session that is established while the sweeper works is early only if  *)
(* the next sweep comes in time for it.                                    *)
LEMMA EstablishedReached ==
  ASSUME IndInv, TimeInv, SweepInv, NEW c \in inflight, EstablishNew(c), IndInv'
  PROVE  Early(c.session)' => Reached(c.session)'
<1> DEFINE s == c.session
<1>1. s \in Sessions /\ c.now \in Nat
  BY BoundAssumption DEF IndInv, TypeOK, Call
<1>2. status'[s] = "active" /\ establishedAt'[s] = c.now
      /\ sweeperTime' = sweeperTime /\ clock' = clock
  BY <1>1 DEF EstablishNew, Finish, IndInv, TypeOK, sweepVars
<1>3. (owner[s].project \in Projects /\ Expiry(owner[s].project) \in Nat)'
  <2>1. owner'[s] \in Owner'
    BY <1>1, <1>2 DEF IndInv, SessionInv
  <2> QED
    BY <1>1, <2>1, TimingAssumption, BoundAssumption DEF IndInv, TypeOK, Owner, Expiry
<1>4. clock \in Nat /\ sweeperTime \in Nat
  BY BoundAssumption DEF IndInv, TypeOK
<1>5. sweeper \in {"sleeping", "sweeping"}
  BY DEF IndInv, TypeOK, ProcessInv, SweepInv, Up
<1>6. clock <= c.now + MaxLag /\ sweeperTime <= clock + SweepInterval
  BY <1>4, <1>5, TimingAssumption DEF TimeInv, SweepInv
<1> HIDE DEF s
<1>7. (establishedAt[s] + SweepInterval + SafetyMargin + MaxLag < Expiry(owner[s].project))'
        => (sweeperTime + SafetyMargin < Expiry(owner[s].project) + MaxLag)'
  <2> DEFINE e == Expiry(owner[s].project)'
  <2>1. e \in Nat
    BY <1>3
  <2> HIDE DEF e
  <2>2. c.now + SweepInterval + SafetyMargin + MaxLag < e => sweeperTime + SafetyMargin < e + MaxLag
    BY <1>1, <1>4, <1>6, <2>1, TimingAssumption
  <2> QED
    BY <1>2, <2>2 DEF e
<1> QED
  BY <1>7 DEF Early, Reached, s

(* What is left to show of a step that establishes nothing: the sweeper is *)
(* where it should be, and its next look reaches what stays active.        *)
LEMMA KeptReached ==
  ASSUME IndInv, [Next]_vars, SweepInv, sweeperTime' <= sweeperTime,
         sweeperTime' \in Nat, NEW s \in Sessions,
         status[s] = "active", owner'[s] = owner[s], establishedAt'[s] = establishedAt[s]
  PROVE  Early(s)' => Reached(s)'
<1>1. Expiry(owner[s].project)' = Expiry(owner[s].project)
  <2>1. Expiry(owner[s].project)' = (createdAt'[owner[s].project]) + TTL
    BY DEF Expiry
  <2>2. createdAt'[owner[s].project] + TTL = createdAt[owner[s].project] + TTL
    BY EarlyTyped, ExpiryStays DEF Expiry
  <2> QED
    BY <2>1, <2>2 DEF Expiry
<1>2. Early(s)' => Early(s)
  BY <1>1 DEF Early
<1>3. Reached(s) => Reached(s)'
  BY <1>1, EarlyTyped, TimingAssumption DEF Reached
<1> QED
  BY <1>2, <1>3 DEF SweepInv

LEMMA SweepStep ==
  IndInv /\ IndInv' /\ TimeInv /\ (trackRecord = "fine" => SweepInv) /\ [Next]_vars
    => (trackRecord = "fine" => SweepInv)'
<1> SUFFICES ASSUME IndInv, IndInv', TimeInv, trackRecord = "fine" => SweepInv, [Next]_vars,
                    trackRecord' = "fine"
             PROVE  SweepInv'
  OBVIOUS
<1>s. trackRecord = "fine"
  <2>1. ASSUME NEW c \in inflight, Transaction(c) PROVE trackRecord' = trackRecord
    BY <2>1 DEF Transaction, RejectMissingProject, RejectExpiredProject, EstablishNew,
       EstablishAgain, Access, PersistRefused, PersistRow, PersistNoWrite, CallFails, Finish,
       sweepVars
  <2>2. ASSUME NEW kind, NEW u, NEW p, NEW s, NEW snap, Begin(kind, u, p, s, snap)
        PROVE  trackRecord' = trackRecord
    BY <2>2 DEF Begin, sweepVars
  <2>3. CASE \/ \E s \in Sessions : EndSession(s) \/ DeleteSession(s)
             \/ \E p \in Projects : CreateProject(p) \/ DeleteProject(p)
             \/ UNCHANGED vars \/ Tick
    BY <2>3 DEF EndSession, DeleteSession, CreateProject, DeleteProject, Tick, vars, sweepVars
  <2>4. CASE \/ SweepBegin \/ SweepCommit \/ SweepStoreError \/ SweepLockTimeout
             \/ Crash \/ Startup
    BY <2>4 DEF SweepBegin, SweepCommit, SweepStoreError, SweepLockTimeout, Crash, Startup
  <2> QED
    BY <2>1, <2>2, <2>3, <2>4 DEF Next
<1>i. SweepInv
  BY <1>s
<1> USE TimingAssumption, BoundAssumption
<1>t. clock \in Nat /\ sweeperTime \in Nat /\ clock' \in Nat /\ sweeperTime' \in Nat
      /\ clock <= MaxClock
  BY DEF IndInv, TypeOK
<1> DEFINE Machine == /\ sweeper # "dead"
                      /\ sweeper = "sleeping" => clock <= sweeperTime
                                                 /\ sweeperTime <= clock + SweepInterval
                      /\ sweeper = "sweeping" => sweeperTime <= clock
                                                 /\ clock <= sweeperTime + MaxLag
           Kept == \A s \in Sessions : status'[s] = "active" =>
                     status[s] = "active" /\ owner'[s] = owner[s]
                       /\ establishedAt'[s] = establishedAt[s]
<1>k. ASSUME Machine', Kept, sweeperTime' <= sweeperTime,
             sweeper' = "down" => sweeper = "down"
      PROVE  SweepInv'
  BY <1>i, <1>k, <1>t, KeptReached DEF SweepInv
<1>e. \/ Kept \/ \E c \in inflight : EstablishNew(c)
  BY ActiveAfterStep
<1>1. CASE \E c \in inflight : EstablishNew(c)
  <2>1. PICK c \in inflight : EstablishNew(c)
    BY <1>1
  <2>2. sweeper' = sweeper /\ sweeperTime' = sweeperTime /\ clock' = clock
    BY <2>1 DEF EstablishNew, Finish, sweepVars
  <2>3. sweeper # "down"
    BY DEF IndInv, ProcessInv, Up
  <2>4. ASSUME NEW s \in Sessions, status'[s] = "active", Early(s)' PROVE Reached(s)'
    <3>1. CASE s = c.session
      BY <2>1, <2>4, <3>1, <1>i, EstablishedReached
    <3>2. CASE s # c.session
      <4>1. status[s] = "active" /\ owner'[s] = owner[s] /\ establishedAt'[s] = establishedAt[s]
        BY <2>1, <2>4, <3>2 DEF EstablishNew, IndInv, TypeOK
      <4> QED
        BY <2>2, <2>4, <4>1, <1>t, <1>i, KeptReached
    <3> QED
      BY <3>1, <3>2
  <2> QED
    BY <1>i, <2>2, <2>3, <2>4 DEF SweepInv
<1>2. CASE Tick
  <2>1. Machine'
    BY <1>i, <1>2, <1>t DEF Tick, SweepInv, sweepVars
  <2>2. Kept /\ sweeperTime' <= sweeperTime /\ sweeper' = sweeper
    BY <1>2, <1>t DEF Tick, storeVars, sweepVars
  <2>3. sweeper' = "down" => sweeper = "down"
    BY <2>2
  <2> QED
    BY <2>1, <2>2, <2>3, <1>k
<1>3. CASE SweepBegin
  <2>1. Machine' /\ sweeper' # "down"
    BY <1>3, <1>t DEF SweepBegin
  <2>2. Kept /\ sweeperTime' <= sweeperTime
    BY <1>i, <1>3, <1>t DEF SweepBegin, storeVars, SweepInv
  <2> QED
    BY <2>1, <2>2, <1>k
<1>4. CASE SweepCommit
  <2>1. Machine' /\ sweeper' = "sleeping" /\ sweeperTime' <= clock + SweepInterval
    BY <1>4, <1>t DEF SweepCommit, Sleep
  <2>2. sweeperTime' <= sweeperTime + MaxLag + SweepInterval
    BY <1>i, <1>4, <1>t, <2>1 DEF SweepCommit, SweepInv
  <2>3. ASSUME NEW s \in Sessions, status'[s] = "active" PROVE Reached(s)'
    <3>1. status[s] = "active" /\ s \notin Swept(sweeperTime)
      BY <1>4, <2>3 DEF SweepCommit, MarkGone
    <3>2. sweeperTime + SweepInterval + SafetyMargin < Expiry(owner[s].project)
      BY <3>1, <1>t, EarlyTyped DEF Swept
    <3>3. sweeperTime' + SafetyMargin < Expiry(owner[s].project) + MaxLag
      BY <2>2, <3>1, <3>2, <1>t, EarlyTyped
    <3>4. createdAt' = createdAt /\ owner' = owner
      BY <1>4 DEF SweepCommit, MarkGone, projectVars
    <3> QED
      BY <3>3, <3>4 DEF Reached, Expiry
  <2> QED
    BY <1>i, <2>1, <2>3 DEF SweepInv
<1>5. CASE Startup
  <2>1. Machine' /\ sweeper' # "down"
    BY <1>5, <1>t DEF Startup
  <2>2. \A s \in Sessions : status'[s] # "active"
    BY <1>i, <1>5 DEF Startup, Up, SweepInv, storeVars
  <2> QED
    BY <1>i, <2>1, <2>2 DEF SweepInv
<1>6. CASE SweepStoreError \/ SweepLockTimeout \/ Crash
  BY <1>6 DEF SweepStoreError, SweepLockTimeout, Crash
<1>7. ASSUME UNCHANGED <<sweepVars, clock>>, Kept PROVE SweepInv'
  <2>1. sweeperTime' = sweeperTime /\ sweeper' = sweeper /\ clock' = clock
    BY <1>7 DEF sweepVars
  <2>2. Machine'
    BY <1>i, <2>1 DEF SweepInv
  <2> QED
    BY <1>7, <2>1, <2>2, <1>k, <1>t
<1>8. \/ UNCHANGED <<sweepVars, clock>> \/ Tick \/ SweepBegin \/ SweepCommit \/ Startup
      \/ SweepStoreError \/ SweepLockTimeout \/ Crash
  <2>1. ASSUME NEW c \in inflight, Transaction(c) PROVE UNCHANGED <<sweepVars, clock>>
    BY <2>1 DEF Transaction, RejectMissingProject, RejectExpiredProject, EstablishNew,
       EstablishAgain, Access, PersistRefused, PersistRow, PersistNoWrite, CallFails, Finish,
       sweepVars
  <2>2. ASSUME NEW kind, NEW u, NEW p, NEW s, NEW snap, Begin(kind, u, p, s, snap)
        PROVE  UNCHANGED <<sweepVars, clock>>
    BY <2>2 DEF Begin, sweepVars
  <2>3. CASE \/ \E s \in Sessions : EndSession(s) \/ DeleteSession(s)
             \/ \E p \in Projects : CreateProject(p) \/ DeleteProject(p)
             \/ UNCHANGED vars
    BY <2>3 DEF EndSession, DeleteSession, CreateProject, DeleteProject, vars, sweepVars
  <2> QED
    BY <2>1, <2>2, <2>3 DEF Next
<1> QED
  BY <1>e, <1>1, <1>2, <1>3, <1>4, <1>5, <1>6, <1>7, <1>8

(* As long as every sweep succeeds in one process, what was established    *)
(* early enough is emptied before its project expires, whatever the        *)
(* interval, the margin and the lag.                                       *)
THEOREM EarlyAlwaysCleared == Spec => []EarlySessionsCleared
<1>1. Init => (trackRecord = "fine" => SweepInv)
  BY DEF Init, SweepInv
<1>2. IndInv /\ TimeInv /\ (trackRecord = "fine" => SweepInv) => EarlySessionsCleared
  <2> SUFFICES ASSUME IndInv, SweepInv, NEW s \in Sessions, rows[s] # {}, Early(s)
               PROVE  clock <= Expiry(owner[s].project)
    BY DEF EarlySessionsCleared, Early
  <2>1. status[s] = "active" /\ Reached(s)
    BY DEF IndInv, SessionInv, SweepInv
  <2>2. \/ clock <= sweeperTime
        \/ clock <= sweeperTime + MaxLag
    BY <2>1 DEF SweepInv, IndInv, TypeOK
  <2> QED
    BY <2>1, <2>2, EarlyTyped, TimingAssumption DEF Reached
<1> QED
  BY <1>1, <1>2, SweepStep, TimeAlways, Inductive, PTL DEF Spec

----------------------------------------------------------------------------
(* The run-state store implements the ledgers of RunLedger.                *)

(* The newest entry of a session depends only on its rows and its pointer. *)
LEMMA NewestIsRow ==
  ASSUME IndInv, NEW s \in Sessions, NEW r \in rows[s], r.run = current[s]
  PROVE  Newest(s) = r
<1>1. current[s] # NoRun
  BY NameAssumption, BoundAssumption DEF IndInv, TypeOK, Snapshot, CurrentIsNewest
<1>2. \A q \in rows[s] : q.run = current[s] => q = r
  BY DEF IndInv, RowsAreDistinct
<1> QED
  BY <1>1, <1>2 DEF Newest

LEMMA LedgerInit == Init => Ledger!Init
  BY DEF Init, Ledger!Init, Phase, Newest

(* Emptying a set of sessions shows in the ledger as the same emptying.    *)
LEMMA EmptiedNewest ==
  ASSUME IndInv, NEW S \in SUBSET Sessions,
         rows' = [s \in Sessions |-> IF s \in S THEN {} ELSE rows[s]],
         current' = [s \in Sessions |-> IF s \in S THEN NoRun ELSE current[s]]
  PROVE  [s \in Sessions |-> Newest(s)]'
           = [s \in Sessions |-> IF s \in S THEN NoSnap
                                 ELSE [t \in Sessions |-> Newest(t)][s]]
<1>1. ASSUME NEW s \in Sessions
      PROVE  Newest(s)' = IF s \in S THEN NoSnap ELSE Newest(s)
  <2>1. CASE s \in S
    <3>1. current'[s] = NoRun
      BY <2>1
    <3> QED
      BY <2>1, <3>1 DEF Newest
  <2>2. CASE s \notin S
    <3>1. current'[s] = current[s] /\ rows'[s] = rows[s]
      BY <2>2
    <3> QED
      BY <2>2, <3>1 DEF Newest
  <2> QED
    BY <2>1, <2>2
<1> QED
  BY <1>1

LEMMA LedgerStep ==
  IndInv /\ IndInv' /\ [Next]_vars => [Ledger!Next]_(Ledger!vars)
<1> SUFFICES ASSUME IndInv, IndInv', [Next]_vars
             PROVE  [Ledger!Next]_(Ledger!vars)
  OBVIOUS
<1> DEFINE phase   == [s \in Sessions |-> Phase(s)]
           entries == rows
           newest  == [s \in Sessions |-> Newest(s)]
<1>1. CASE UNCHANGED storeVars
  BY <1>1 DEF storeVars, Ledger!vars, Phase, Newest
<1>2. ASSUME NEW S \in SUBSET ActiveSessions, MarkGone(S)
      PROVE  Ledger!Close(S)
  <2>1. newest' = [s \in Sessions |-> IF s \in S THEN NoSnap ELSE newest[s]]
    BY <1>2, EmptiedNewest DEF MarkGone, ActiveSessions
  <2>2. phase' = [s \in Sessions |-> IF s \in S THEN "closed" ELSE phase[s]]
    BY <1>2 DEF MarkGone, Phase
  <2>3. \A s \in S : phase[s] = "open"
    BY DEF Phase, ActiveSessions
  <2> QED
    BY <1>2, <2>1, <2>2, <2>3 DEF MarkGone, Ledger!Close
<1>3. ASSUME NEW e \in Sessions, EndSession(e)
      PROVE  Ledger!Close({e})
  <2>1. /\ rows' = [s \in Sessions |-> IF s \in {e} THEN {} ELSE rows[s]]
        /\ current' = [s \in Sessions |-> IF s \in {e} THEN NoRun ELSE current[s]]
        /\ status' = [s \in Sessions |-> IF s \in {e} THEN "ended" ELSE status[s]]
        /\ status[e] = "active"
    BY <1>3 DEF EndSession, IndInv, TypeOK
  <2>2. newest' = [s \in Sessions |-> IF s \in {e} THEN NoSnap ELSE newest[s]]
    BY <2>1, EmptiedNewest
  <2>3. phase' = [s \in Sessions |-> IF s \in {e} THEN "closed" ELSE phase[s]]
    BY <2>1 DEF Phase
  <2> QED
    BY <2>1, <2>2, <2>3 DEF Phase, Ledger!Close
<1>4. ASSUME NEW S \in SUBSET Sessions, DropSessions(S)
      PROVE  Ledger!Forget(S)
  <2>1. newest' = [s \in Sessions |-> IF s \in S THEN NoSnap ELSE newest[s]]
    BY <1>4, EmptiedNewest DEF DropSessions
  <2>2. phase' = [s \in Sessions |-> IF s \in S THEN "none" ELSE phase[s]]
    BY <1>4 DEF DropSessions, Phase
  <2> QED
    BY <1>4, <2>1, <2>2 DEF DropSessions, Ledger!Forget
<1>5. ASSUME NEW c \in inflight, EstablishNew(c)
      PROVE  c.session \in Sessions /\ Ledger!Open(c.session)
  <2>1. c.session \in Sessions
    BY DEF IndInv, TypeOK, Call
  <2>2. /\ status' = [status EXCEPT ![c.session] = "active"]
        /\ status[c.session] = "absent"
        /\ UNCHANGED <<current, rows>>
    BY <1>5 DEF EstablishNew, Unknown
  <2>3. newest' = newest
    BY <2>2 DEF Newest
  <2>4. phase' = [phase EXCEPT ![c.session] = "open"]
    BY <2>1, <2>2 DEF Phase, IndInv, TypeOK
  <2> QED
    BY <2>1, <2>2, <2>3, <2>4 DEF Phase, Ledger!Open
<1>6. ASSUME NEW c \in inflight, NEW k \in {"current", "historical"}, PersistRow(c, k)
      PROVE  c.session \in Sessions /\ c.snap \in Snapshot /\ Ledger!Append(c.session, c.snap)
  <2> DEFINE t == c.session
             n == c.snap
  <2>1. t \in Sessions /\ n \in Snapshot /\ n.seq \in Nat
    BY <1>6, BoundAssumption DEF IndInv, TypeOK, ProcessInv, Call, PersistRow, Snapshot
  <2>2. /\ ByRun(t, n.run) = {} /\ BySeq(t, n.seq) = {} /\ ByRequest(t, n.req) = {}
        /\ k = "current" => \A r \in ByRun(t, current[t]) : n.seq > r.seq
        /\ k = "historical" => /\ ByRun(t, current[t]) # {}
                               /\ \A r \in ByRun(t, current[t]) : n.seq < r.seq
    BY <1>6, VerdictToWrite DEF PersistRow
  <2>3. /\ rows' = [rows EXCEPT ![t] = @ \cup {n}]
        /\ current' = IF k = "current" THEN [current EXCEPT ![t] = n.run] ELSE current
        /\ status' = status
        /\ status[t] = "active"
    BY <1>6 DEF PersistRow, Admitted
  <2>4. \A r \in rows[t] : r.seq \in Nat
    BY <2>1, BoundAssumption DEF IndInv, TypeOK, Snapshot
  <2> HIDE DEF t, n
  <2>5. phase[t] = "open" /\ phase' = phase
    BY <2>1, <2>3 DEF Phase
  <2>6. \A f \in entries[t] : ~Ledger!Collide(n, f)
    BY <2>2 DEF Ledger!Collide, ByRun, BySeq, ByRequest
  <2>7. /\ entries' = [entries EXCEPT ![t] = @ \cup {n}]
        /\ n \in rows'[t]
    BY <2>1, <2>3 DEF IndInv, TypeOK
  <2>8. newest' = [newest EXCEPT ![t] =
                     IF \A f \in entries[t] : f.seq < n.seq THEN n ELSE @]
    <3>1. \A s \in Sessions : s # t => Newest(s)' = Newest(s)
      BY <2>1, <2>3 DEF Newest, IndInv, TypeOK
    <3>2. CASE k = "current"
      <4>1. current'[t] = n.run
        BY <2>1, <2>3, <3>2 DEF IndInv, TypeOK
      <4>2. Newest(t)' = n
        <5>1. current'[t] # NoRun
          BY <2>1, <4>1, NameAssumption DEF Snapshot
        <5>2. \A q \in rows'[t] : q.run = current'[t] => q = n
          BY <2>1, <2>7, <4>1 DEF IndInv, RowsAreDistinct
        <5> QED
          BY <2>7, <4>1, <5>1, <5>2 DEF Newest
      <4>3. \A f \in entries[t] : f.seq < n.seq
        BY <2>1, <2>2, <2>4, <3>2 DEF IndInv, CurrentIsNewest, ByRun
      <4> QED
        BY <2>1, <3>1, <4>2, <4>3
    <3>3. CASE k = "historical"
      <4>1. PICK r \in rows[t] : r.run = current[t] /\ n.seq < r.seq
        BY <2>2, <3>3 DEF ByRun
      <4>2. Newest(t) = r
        BY <2>1, <4>1, NewestIsRow
      <4>3. r \in rows'[t] /\ current'[t] = r.run /\ current[t] # NoRun
        BY <2>1, <2>3, <3>3, <4>1 DEF IndInv, TypeOK, CurrentIsNewest, Snapshot
      <4>4. Newest(t)' = r
        <5>1. \A q \in rows'[t] : q.run = current'[t] => q = r
          BY <2>1, <4>3 DEF IndInv, RowsAreDistinct
        <5>2. current'[t] # NoRun
          BY <4>1, <4>3
        <5> QED
          BY <4>3, <5>1, <5>2 DEF Newest
      <4>5. ~ (r.seq < n.seq)
        BY <2>1, <2>4, <4>1
      <4> QED
        BY <2>1, <3>1, <4>1, <4>2, <4>4, <4>5
    <3> QED
      BY <3>2, <3>3
  <2> QED
    BY <2>1, <2>5, <2>6, <2>7, <2>8 DEF Ledger!Append, t, n
<1> QED
  <2>1. CASE \E S \in SUBSET ActiveSessions : MarkGone(S)
    BY <1>2, <2>1 DEF Ledger!Next, ActiveSessions
  <2>2. CASE \E s \in Sessions : EndSession(s)
    BY <1>3, <2>2 DEF Ledger!Next
  <2>3. CASE \E S \in SUBSET Sessions : DropSessions(S)
    BY <1>4, <2>3 DEF Ledger!Next
  <2>4. CASE \E c \in inflight : EstablishNew(c)
    BY <1>5, <2>4 DEF Ledger!Next
  <2>5. CASE \E c \in inflight : PersistRow(c, "current") \/ PersistRow(c, "historical")
    BY <1>6, <2>5 DEF Ledger!Next
  <2> QED
    BY <1>1, <2>1, <2>2, <2>3, <2>4, <2>5, StepIsStoreStep DEF StoreStep

(* Every behaviour of the store, with its lagging calls, faults, sweeps    *)
(* and restarts, is a behaviour of the append-only ledgers.                *)
THEOREM StoreImplementsLedger == Spec => ImplementsLedger
<1> QED
  BY LedgerInit, LedgerStep, Inductive, PTL DEF Spec, ImplementsLedger, Ledger!Spec
==============================================================================
