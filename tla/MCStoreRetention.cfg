\* No fault at all: the physical retention limit of the docs.
CONSTANTS
  Users = {u1}
  Projects = {p1}
  Sessions = {s1}
  RunIds = {r1}
  RequestIds = {q1}
  Bodies = {b1}
  MaxSeq = 0
  NoRun = NoRun
  NoSnap = NoSnap
  NoOwner = NoOwner
  TTL = 4
  SweepInterval = 2
  SafetyMargin = 1
  MaxLag = 0
  Faults = {}
  MaxInFlight = 1
  MaxCreation = 1
  MaxClock = 6
  MaxGeneration = 1
SPECIFICATION Spec
INVARIANTS RetentionHardLimit
CHECK_DEADLOCK FALSE
