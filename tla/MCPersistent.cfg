SPECIFICATION PersistentSpec
CONSTANTS
  p1 = p1
  p2 = p2
  w1 = w1
  w2 = w2
  late = late
  l1 = l1
  l2 = l2
  n1 = n1
  Jobs = {late}
  Tokens = {t1, t2, t3, t4, t5, t6}
  NoToken = NoToken
  NoReservation = NoReservation
  MaxTime = 7
  MaxResets = 2
  Lease = 1
  Processes = {p1, p2}
  Workers = {w1, w2}
  Home <- MCHome
  Caller <- MCCaller
  ReadyAt <- MCReadyAt
  Runnable = {late}
  MaxAttempts = 2
  Backoff = 1
  MaxFaults = 2
  Tasks = {n1}
  Loops = {l1, l2}
  LoopHome <- MCLoopHome
  TaskOf <- MCTaskOf
  LastTime = 15
  MaxRounds = 2
  TaskLease = 2
  Delays = {2}
  Ending = {n1}
CHECK_DEADLOCK FALSE
INVARIANTS DeliveriesFenced LeavesOnlyWhenDone
PROPERTIES JobsSettle OccurrencesFenced OccurrencesEnd
