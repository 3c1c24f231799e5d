\* Many archives uploaded alone; three requests for teaching units, two for the
\* overview with a question, two questions to two projects; one fault.
CONSTANTS
  Projects <- MCProjects
  Sessions <- MCSessions
  UnitKeys <- MCUnitKeys
  Archives <- MCArchives
  Limits <- MCLimits
  MaxSections = 3
  ShortHeader = 4
  Learners <- MCLearners
  UnitTargets <- MCTargets
  MaxRetries = 3
  Readers <- MCReaders
  Replies <- MCReplies
  MaxAttempts = 2
  MaxListed <- MCListed
  Askers <- MCAskers
  MaxHits = 1
  Workloads <- MCWorkloads
SPECIFICATION Spec
CHECK_DEADLOCK FALSE

INVARIANTS
  IndexMatchesTheFiles
  EveryNodeIsContained
  EveryGenerationHasOneOwner
  PrerequisitesExist
  OverviewIsGrounded
  AnswersAreGrounded
PROPERTIES
  ReadyUnitsStay
  EverythingEnds
