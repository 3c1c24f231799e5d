\* The advanced cutoff against the project's expiry, with calls and sweeps that lag; every fault,
\* under fairness.
CONSTANTS
  Users = {u1}
  Projects = {p1}
  Sessions = {s1}
  RunIds = {r1}
  RequestIds = {q1}
  Bodies = {b1}
  MaxSeq = 0
  NoRun = NoRun
  NoSnap = NoSnap
  NoOwner = NoOwner
  TTL = 6
  SweepInterval = 2
  SafetyMargin = 1
  MaxLag = 1
  Faults = {"store", "lock", "outage"}
  MaxInFlight = 2
  MaxCreation = 1
  MaxClock = 9
  MaxGeneration = 2
SPECIFICATION FairSpec
INVARIANTS EarlySessionsCleared
PROPERTIES NoLateWrites EventuallyCleared
CHECK_DEADLOCK FALSE
