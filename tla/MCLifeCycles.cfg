SPECIFICATION LifeCyclesSpec
CONSTANTS
  Subjects = {"embedded", "container", "session"}
  Ids = {a}
  NoId = NoId
  Closers = {c1, c2}
  MaxRequests = 1
  MaxFrames = 2
  N = 2
  Bootable = {2}
  Terminable = {1, 2}
  Honest = {2}
  Budget = 2
  Grace = 1
  MaxTime = 3
  Callback = callback
  Host = host
  s1 = s1
  s2 = s2
  s3 = s3
  Services = {s1, s2, s3}
  Configurations <- Plans
  Resolvers = {t1, t2}
  Scopes = {x}
  NoScope = NoScope
  Cycles = FALSE
  MaxResolutions = 1
  MaxEdits = 2
  NoBuild = NoBuild
CHECK_DEADLOCK FALSE
INVARIANTS RequestsFindProviders PullsInOrder CloseReportsTermination SharedOnceWithinScope NoChildOutlivesSession
PROPERTIES CloseEnds AcyclicResolutionsEnd LatestSourcesRun
