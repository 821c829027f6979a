SPECIFICATION Spec
CONSTANTS
  NoKey = NoKey
  Nobody = Nobody
  Failed = Failed
  Keys = {k1}
  Requests = {r1, r2}
  Editors = {e1}
  Capacity = 1
  MaxEdits = 1
  MayFail = FALSE
  MayDisable = FALSE
INVARIANTS FreshAfterEdit
