SPECIFICATION FairSpec
CONSTANTS
  Visitors = {v1, v2}
  NoVisitor = NoVisitor
  StartKeys = {k1}
  Contents = {x1}
  Refs = {f1, f2}
  NoRef = NoRef
  Requests = {r1}
  Idle = Idle
  HasReserver = TRUE
  MayAbort = FALSE
  HandoffTTL = 1
  Grace = 0
  Retentions = {0}
  WindowEnd = 1
  MaxTime = 2
  MaxAttempts = 2
  MaxCredentials = 2
\* The bounds on rows and time are used up: the system may come to rest.
CHECK_DEADLOCK FALSE
PROPERTIES HandoffCompletes
