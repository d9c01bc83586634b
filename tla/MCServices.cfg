SPECIFICATION ServicesSpec
CONSTANTS
  Subjects = {"transfers", "broker", "limiter", "migrations", "upgrade"}
  Ids = {i1, i2}
  Calls = {c1, c2}
  NoId = NoId
  MaxBytes = 2
  TTL = 1
  MaxTime = 1
  Capabilities = {g1, g2, g3}
  NoCapability = NoCapability
  Holders = {h1, h2, h3}
  MaxActiveGrants = 2
  Keys = {k1, k2}
  Clients = {d1, d2}
  Requests = 2
  Window = 4
  Grain = 2
  Error = 1
  MaxKeys = 1
  MaxNow = 4
  Versions = {1, 2, 3, 4}
  NoTransaction = {2}
  NoDown = {4}
  Operators = {o1, o2}
  MaxBatch = 3
  MaxDrift = 1
  MaxTurns = 2
  MaxStrays = 1
  Catalogs <- MCCatalogs
  Created <- MCCreated
  Targets <- MCTargets
  Platforms <- MCPlatforms
  Published <- MCPublished
SYMMETRY Symmetry
CHECK_DEADLOCK FALSE
INVARIANTS FilesAccountedFor GoneIsFinal GrantsAccountedFor BudgetHonest HistoryKept UpgradeReportsTruth PlanIsSound
