SPECIFICATION ServerSpec
CONSTANTS
  Subjects = {"server"}
  Ids = {a}
  NoId = NoId
  RequestIds = {NoId}
  Tokens = {t}
  MaxRequests = 1
  MaxConcurrent = 1
  MaxPending = 1
  Window = 1
  MaxFrames = 2
  Capacity = 1
  WireWindow = 1
  MaxReconnects = 0
  MaxEvents = 0
  MaxEpochs = 1
  MaxLosses = 0
CHECK_DEADLOCK FALSE
PROPERTY ServeReturns
