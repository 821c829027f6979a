SPECIFICATION FairSpec
CONSTANTS
  NoKey = NoKey
  Nobody = Nobody
  Failed = Failed
  Keys = {k1, k2}
  Requests = {r1, r2}
  Editors = {e1}
  Capacity = 1
  MaxEdits = 1
  MayFail = TRUE
  MayDisable = TRUE
INVARIANTS OneFlightPerKey HitsAreCurrent
PROPERTIES EveryRequestAnswered
