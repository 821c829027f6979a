SPECIFICATION Spec
CONSTANTS
  None = None
  Idle = Idle
  r1 = r1
  r2 = r2
  c1 = c1
  c2 = c2
  a1 = a1
  a2 = a2
  x1 = x1
  x2 = x2
  y1 = y1
  y2 = y2
  Requests = {r1, r2}
  MaxTime = 1
  Campaigns = {c1, c2}
  Shops = {s1}
  Tags = {t1}
  Groups = {g1}
  Aliases = {a1, a2}
  Desks = {"campaigns", "tags", "touchpoints"}
  MaxLinks = 2
  MaxTags = 1
  MaxStage = 1
  MaxCached = 1
  Kinds = {"wifi"}
  Hosts = {"a.example", "b.example", "base.example"}
  Base = "base.example"
  Guests = {guest}
  Editors = {editor}
  MaxChanges = 2
  Contacts = {phone}
  Addresses = {ip}
  Notices = {"v1"}
  CurrentNotice = "v1"
  Assets = {asset1}
  Caps = {0, 1}
  Burst = 2
  Window = 1
  DayLength = 1
  MaxLeads = 3
  MaxHandled = 1
  Facts = {f1}
  Copies = {y1, y2}
  Accounts = {x1, x2}
  Proofs = {p1}
  MaxRule = 2
  Windows <- MCWindows
  JumpRows <- MCJumpRows
  ReturnRows <- MCReturnRows
  Registries <- MCRegistries
  Stamps <- MCStamps
SYMMETRY Interchangeable
\* The clocks and numbers are capped: the components may come to rest.
CHECK_DEADLOCK FALSE
INVARIANTS CachedRowsDecideAlike CardsLand OfferedWasOpen CapOverrunIsBounded
           ConsentIsForWhatIsShown VersionIsOneRule
