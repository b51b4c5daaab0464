SPECIFICATION Spec
CONSTANTS
  Requests = {r1, r2}
  PerHour = 2
  MaxAttempts = 1
  Cooldown = 1
  Ttl = 1
  Hour = 2
  MaxTicks = 2
  MaxMessages = 2
  Commissions = {c1, c2}
  PayoutIds = {o1, o2}
  MaxDecisions = 3
  CacheTtl = 2
  MaxWrites = 2
  MaxClock = 3
  Sites = {s1, s2}
  NoSite = NoSite
  MaxUpdates = 3
  Deliveries = {d1, d2}
  NoDelivery = NoDelivery
  Categories = {k1, k2}
  Images = {i1}
  Variations = {x1}
  CategoriesOf <- MCCategoriesOf
  ImagesOf <- MCImagesOf
  VariationsOf <- MCVariationsOf
  MaxVersion = 2
  MaxWork = 3
  Jobs = {j1, j2}
  NoJob = NoJob
SYMMETRY Symmetry
INVARIANTS
  ChildrenMatch
  ProcessedIsApplied
  CodesAreLimited
  UnreadIsTruthful
  NeverOverdrawn
  HitIsRecent
  OneSiteEach
  EditsKeepThePost
CHECK_DEADLOCK FALSE
