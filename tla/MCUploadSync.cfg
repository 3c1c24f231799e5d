CONSTANTS
  Papers = {p1}
  Clients = {c1}
  NoOne = NoOne
  Modes = {"sync"}
  Weather = {FALSE}
SPECIFICATION Spec

INVARIANT SyncUploadEndsSettled
