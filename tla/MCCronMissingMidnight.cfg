SPECIFICATION CronFairSpec
CONSTANTS
  Subjects = {"cron"}
  parent = parent
  child = child
  delayed2 = delayed2
  delayed = delayed
  Jobs = {parent, child, delayed, delayed2}
  NoJob = NoJob
  Workers = {w1}
  Stoppers = {s1, s2}
  Capacity = 1
  MaxAttempts = 2
  ReadyAt <- MCReadyAt
  Parent <- MCParent
  MaxTime = 1
  name = name
  Names = {name}
  Handles = {h1, h2}
  NameOf <- MCNameOf
  Intervals = {1}
  SchedulerTime = 3
  MaxChanges = 1
  NoHandle = NoHandle
  MinutesPerHour = 2
  HoursPerDay = 3
  DaysPerWeek = 3
  MonthsPerYear = 2
  SearchMinutes = 36
  MonthLengths <- MCMonthLengths
  Entries <- MCEntries
  west = west
  east = east
  island = island
  Locations = {west, east, island}
  Offset <- MCOffset
  SearchFrom <- MCSearchFrom
CHECK_DEADLOCK FALSE
PROPERTIES SearchEnds
