SPECIFICATION Spec
CONSTANTS
  p1 = p1
  p2 = p2
  s1 = s1
  c1 = c1
  c2 = c2
  Participations = {p1, p2}
  Slots = {s1}
  Campaigns = {c1}
  Stores = {st1}
  AnyStore = AnyStore
  Idle = Idle
  NoOwner = NoOwner
  Facts = {f1}
  FactCampaign <- MCFactCampaign
  Events = {e1, e2, e3, e4}
  Requests = {}
  BatchInputs <- GrantInputs
  MaxBatches = 2
  TTLs = {1}
  MaxTime = 2
  MaxLag = 1
SYMMETRY Interchangeable
\* Events are consumed and the clock is capped: the ledger may come to rest.
CHECK_DEADLOCK FALSE
INVARIANTS TypeOK TrailAgreesWithStatus GrantedOnce FactFundsOneBenefit
PROPERTIES ImplementsPromise
