SPECIFICATION StoresSpec
CONSTANTS
  Backends = {"redis"}
  Tasks = {n1, n2}
  NoTask = NoTask
  Tokens = {t1, t2, t3}
  NoToken = NoToken
  MaxTime = 3
  MaxRounds = 2
  Lease = 1
  MaxTasks = 2
  MaxLog = 5
  MaxCrashes = 1
  Nothing = Nothing
  Callers = {c1, c2}
  Resolution = 2
SYMMETRY Symmetry
CHECK_DEADLOCK FALSE
INVARIANT AssignedReachesCaller
