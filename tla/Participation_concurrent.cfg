SPECIFICATION Spec
CONSTANTS
  Visitors = {v1, v2}
  NoVisitor = NoVisitor
  StartKeys = {k1}
  Contents = {x1}
  Refs = {f1}
  NoRef = NoRef
  Requests = {r1, r2}
  Idle = Idle
  HasReserver = TRUE
  MayAbort = TRUE
  HandoffTTL = 1
  Grace = 1
  Retentions = {}
  WindowEnd = 1
  MaxTime = 0
  MaxAttempts = 1
  MaxCredentials = 2
SYMMETRY Interchangeable
\* The bounds on rows and time are used up: the system may come to rest.
CHECK_DEADLOCK FALSE
INVARIANTS SingleUse HandoffBindsAttempt ConfirmedIsHonest
