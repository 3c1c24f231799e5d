\* The thread of the probe, then of requests, and the thread of the close.
CONSTANTS
  Threads = {probe, close}
  Prober = probe
  Closer = close
  NoThread = NoThread
SPECIFICATION FairSpec
INVARIANTS
  OneCallAtATime
  AttachedSurvives
  NoSilentLeftover
PROPERTIES
  BrokenStaysBroken
  WaitsEnd
CHECK_DEADLOCK FALSE
