SPECIFICATION Spec
CONSTANTS
  None = None
  Idle = Idle
  Requests = {r1, r2}
  MaxTime = 1
  MaxVersion = 2
  r1 = r1
  r2 = r2
  q1 = q1
  q2 = q2
  a1 = a1
  Packs = {p1}
  Platforms = {q1, q2}
  Missing = Missing
  ReturnKeys = {k1}
  NoKey = NoKey
  Grants = {1, Forever}
  Forever = Forever
  DefaultTTL = 1
  MaxTTL = 2
  MaxVersions = 2
  MaxPrint = 1
  MaxTokens = 1
  Routes = {route}
  Tenant = Tenant
  Anyone = Anyone
  Editors = {e1, e2}
  MaxTrail = 4
  MaxDay = 1
  Assets = {a1, a2}
  Uploads = {u1}
  Media = {"image", "video"}
  Pools = {pool}
  Draws = {draw}
  Templates = {t1}
  Shops = {s1}
  Unbound = Unbound
  MaxItems = 2
  MaxHash = 1
  d1 = d1
  d2 = d2
  d3 = d3
  d4 = d4
  MaxPosts = 3
  Agents = {g1}
  Principals = {g1, g2}
  MaxRelations = 2
  PackAssets <- MCPackAssets
  Records <- MCRecords
  Seeds <- MCSeeds
  Contents <- MCContents
  Drafts <- MCDrafts
  videos <- MCVideos
  activityOf <- MCActivityOf
  expiryOf <- MCExpiryOf
  wireOf <- MCWireOf
  Patches <- MCPatches
SYMMETRY Interchangeable
\* The clocks and numbers are capped: the components may come to rest.
CHECK_DEADLOCK FALSE
INVARIANTS AdoptedWasCurrent SupersededIsRetired PinnedWasChecked TrailsReplay
           OneAnswerPerDraw PinsResolve ToldIsPosted IssuedUnderActive
