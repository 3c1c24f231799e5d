\* Three requests on one session, one of them an orphan at most; the provider may hang for ever.
CONSTANTS
  Requests = {r1, r2, r3}
  Sessions = {s1}
  NoSlot = NoSlot
  NoSession = NoSession
  TTL = 1
  Deadline = 1
  OrphanLimit = 1
  MaxClock = 2
SPECIFICATION FairCoachingSpec
INVARIANTS SlotsAccountForAttempts OverlapOnlyAfterTTL
PROPERTIES EndedSessionsGetNothing AnsweredAndFreed
CHECK_DEADLOCK FALSE
