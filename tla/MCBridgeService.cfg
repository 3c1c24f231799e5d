\* Two submissions, two sessions; half-second ticks, tokens of one second, a skew of one.
CONSTANTS
  TokenIds = {j1, j2}
  Capabilities = {write, explain}
  Write = write
  Explain = explain
  NoToken = NoToken
  NoTime = NoTime
  Second = 2
  TokenTTL = 1
  MaxLifetime = 2
  Skew = 1
  MaxDrift = 1
  MaxClock = 5
  MaxGeneration = 2
  r1 = r1
  r2 = r2
  Submissions = {r1, r2}
  o1 = o1
  o2 = o2
  s1 = s1
  s2 = s2
  Owners = {o1, o2}
  Sessions = {s1, s2}
  Sequences = {1}
  Clicks <- MCClicks
  Grants <- MCGrants
  NoEntry = NoEntry
  NoHolder = NoHolder
  NoScope = NoScope
  MaxTrouble = 2
SPECIFICATION ServiceSpec
SYMMETRY Symmetry
INVARIANTS RevokedStaysRefused HonouredUntilTold OnlyConfirmedWrites ReceiptsAreTrue
CHECK_DEADLOCK FALSE
