\* One paper, uploaded either way, and two clients; histories with and without faults.
CONSTANTS
  Papers = {p1}
  Clients = {c1, c2}
  NoOne = NoOne
  Modes = {"sync", "async"}
  Weather = {TRUE, FALSE}
SPECIFICATION FairSpec

INVARIANTS
  BundleConsistent
  WaitingIsWorkedOn
  FilesStayWhileRead
PROPERTIES
  ExpiredStaysGone
  UploadsSettle
