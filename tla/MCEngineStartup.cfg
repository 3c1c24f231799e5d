\* The service starts and MATLAB hangs after it was attested.
CONSTANTS
  Threads = {probe, close}
  Prober = probe
  Closer = close
  NoThread = NoThread
SPECIFICATION FairSpec
PROPERTY
  StartupEnds
CHECK_DEADLOCK FALSE
