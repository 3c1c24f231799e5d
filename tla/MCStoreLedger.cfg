\* Two owners and two sessions in a process that restarts; colliding snapshots in every order;
\* expiry, sweeps and deletions at any point.
CONSTANTS
  Users = {u1, u2}
  Projects = {p1}
  Sessions = {s1, s2}
  RunIds = {r1, r2}
  RequestIds = {q1, q2}
  Bodies = {b1}
  MaxSeq = 1
  NoRun = NoRun
  NoSnap = NoSnap
  NoOwner = NoOwner
  TTL = 2
  SweepInterval = 1
  SafetyMargin = 0
  MaxLag = 0
  Faults = {"outage"}
  MaxInFlight = 1
  MaxCreation = 0
  MaxClock = 3
  MaxGeneration = 2
SPECIFICATION Spec
SYMMETRY Symmetry
INVARIANTS LedgerWellFormed RetryIsIdempotent
PROPERTIES ImplementsLedger
CHECK_DEADLOCK FALSE
