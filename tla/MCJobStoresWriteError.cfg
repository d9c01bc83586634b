SPECIFICATION StoresSpec
CONSTANTS
  Backends = {"file"}
  Jobs = {1, 2}
  NoJob = NoJob
  Tokens = {t1, t2}
  NoToken = NoToken
  MaxTime = 1
  MaxResets = 2
  Lease = 1
  MaxJobs = 2
  MaxLog = 5
  MaxCrashes = 1
  WriteErrors = TRUE
  Garbled = Garbled
  Nothing = Nothing
  Callers = {c1, c2}
  RecoveryBatch = 1
CHECK_DEADLOCK FALSE
INVARIANT AcknowledgedJobsSurvive
