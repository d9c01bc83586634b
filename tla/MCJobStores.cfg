SPECIFICATION StoresSpec
CONSTANTS
  Backends = {"file", "sql", "redis"}
  Jobs = {1, 2}
  NoJob = NoJob
  Tokens = {t1, t2, t3}
  NoToken = NoToken
  MaxTime = 1
  MaxResets = 2
  Lease = 1
  MaxJobs = 2
  MaxLog = 5
  MaxCrashes = 1
  WriteErrors = FALSE
  Garbled = Garbled
  Nothing = Nothing
  Callers = {c1, c2}
  RecoveryBatch = 1
SYMMETRY Symmetry
CHECK_DEADLOCK FALSE
INVARIANTS OneHolder KeysAgree
PROPERTIES ImplementsJobStore MissMeansChanged TakeoverAfterExpiry RecoveryFaithful
