SPECIFICATION StreamsSpec
CONSTANTS
  Subjects = {"server", "subscription"}
  Ids = {a, b}
  NoId = NoId
  RequestIds = {a, b}
  Tokens = {t}
  MaxRequests = 2
  MaxConcurrent = 2
  MaxPending = 1
  Window = 2
  MaxFrames = 3
  Capacity = 2
  WireWindow = 1
  MaxReconnects = 1
  MaxEvents = 3
  MaxEpochs = 2
  MaxLosses = 2
CHECK_DEADLOCK FALSE
INVARIANTS RegistryAgrees CreditsConserved FramesInOrder DeliversInOrder
PROPERTIES ServeEnds EventsArrive
