SPECIFICATION SerialSpec
CONSTANTS
  Packs = {p1}
  Platforms = {q1}
  Assets = {a1}
  Missing = Missing
  Keys = {k1}
  NoKey = NoKey
  None = None
  Requests = {r1}
  Idle = Idle
  Forever = Forever
  Grants = {1, Forever}
  DefaultTTL = 1
  MaxTTL = 2
  MaxVersions = 2
  MaxTime = 0
  MaxPrint = 1
  MaxTokens = 1
\* The clock and the numbers are capped: the packs may come to rest.
CHECK_DEADLOCK FALSE
PROPERTIES BlockedRefusesAlways
