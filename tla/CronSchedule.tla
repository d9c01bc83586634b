----------------------------- MODULE CronSchedule -----------------------------
(***************************************************************************)
(* Cron expressions (backend/framework/scheduler_cron.go): what the five   *)
(* fields allow, and the search of `next` for the next occurrence, one     *)
(* action per turn of its loop.  The calendar's sizes are parameters.  An  *)
(* instant counts the minutes from the first day of a year, and so does a  *)
(* wall time, which a location's offset sets apart from the instant: the   *)
(* loop's variable is an instant, the fields are those of its wall time,   *)
(* and the jumps go through the wall time and back, as time.Date does.     *)
(* Names of months and weekdays are numbers already.                       *)
(***************************************************************************)
EXTENDS Integers, Sequences, SequencesExt, FiniteSets

CONSTANTS
  MinutesPerHour, HoursPerDay, DaysPerWeek,
  MonthLengths,      \* the months of the years, as a sequence of lengths
  MonthsPerYear,
  SearchMinutes,     \* cronSearchYears, in minutes
  Entries,           \* the field texts that are tried, by field
  Locations,
  Offset,            \* the zone data: each location's offset at each instant
  SearchFrom         \* the times at which a search begins

\* A list item: "*", a range or a value, with a step (0: no step given).
Items == [kind : {"star", "range", "value"}, from : Nat, to : Nat, step : Nat]

VARIABLES
  text,       \* the expression: five fields, each a set of list items
  location,
  after,      \* `after`, truncated to its minute
  candidate,  \* the loop variable
  found       \* "searching", "found" or "none"

cronVars == <<text, location, after, candidate, found>>

-----------------------------------------------------------------------------
\* The calendar: what Month, Day, Weekday, Hour and Minute say of a wall time.
MinutesPerDay == MinutesPerHour * HoursPerDay
DaysBefore[m \in 1 .. Len(MonthLengths) + 1] == IF m = 1 THEN 0 ELSE DaysBefore[m - 1] + MonthLengths[m - 1]
MonthIndex(w) ==
  CHOOSE m \in 1 .. Len(MonthLengths) :
    DaysBefore[m] <= w \div MinutesPerDay /\ w \div MinutesPerDay < DaysBefore[m + 1]
Month(w) == 1 + ((MonthIndex(w) - 1) % MonthsPerYear)
Day(w) == 1 + w \div MinutesPerDay - DaysBefore[MonthIndex(w)]
Weekday(w) == (w \div MinutesPerDay) % DaysPerWeek
Hour(w) == (w \div MinutesPerHour) % HoursPerDay
Minute(w) == w % MinutesPerHour
Horizon == DaysBefore[Len(MonthLengths) + 1] * MinutesPerDay
Midnights == {d * MinutesPerDay : d \in 0 .. DaysBefore[Len(MonthLengths) + 1]}
LongestMonth == CHOOSE n \in Range(MonthLengths) : \A k \in Range(MonthLengths) : k <= n

\* The wall time of an instant (In), and the instant of a wall time (time.Date): with
\* the offset in force if the wall time were UTC, or, when that one is not in force at
\* the instant it gives, with the offset of that instant.  A wall time that the clocks
\* leave out gets one of the offsets around the gap, and the wall time of the result
\* is another one: before the gap in the west, after it in the east.
Instants == 0 .. Horizon - 1
WallOf(z, t) == t + z[t]
Local(t) == WallOf(Offset[location], t)
Date(w) == w - Offset[location][w - Offset[location][w]]

\* What is assumed of a location's offsets: there is one change in six days at the
\* most; none within an hour of the wall clock; none sets a midnight back before
\* itself; and one that leaves a midnight out begins its gap there and leaves out one
\* day at the most.
ZoneOK(z) ==
  /\ z \in [Instants -> 1 - MinutesPerDay .. MinutesPerDay - 1]
  /\ \A t \in Instants : t + 6 * MinutesPerDay \in Instants =>
       \E change \in t .. t + 6 * MinutesPerDay + 1 : \A u \in t .. t + 6 * MinutesPerDay :
         z[u] = IF u < change THEN z[t] ELSE z[t + 6 * MinutesPerDay]
  /\ \A t, u \in Instants : t <= u /\ u - t < MinutesPerHour - Minute(WallOf(z, t)) => z[u] = z[t]
  /\ \A t, u \in Instants : t <= u => \A m \in Midnights : m <= WallOf(z, t) => m <= WallOf(z, u)
  /\ \A t \in Instants : t + 1 \in Instants =>
       /\ WallOf(z, t + 1) <= WallOf(z, t) + 1 + MinutesPerDay
       /\ \A m \in Midnights : WallOf(z, t) < m /\ m < WallOf(z, t + 1) => m = WallOf(z, t) + 1

\* A search begins where the zone data around all it can look at are known.
Earliest == 6 * MinutesPerDay
Latest == Horizon - SearchMinutes - MinutesPerDay * LongestMonth - 7 * MinutesPerDay

ASSUME CronAssumption ==
  /\ {MinutesPerHour, HoursPerDay, DaysPerWeek, MonthsPerYear, SearchMinutes} \subseteq Nat \ {0}
  /\ MonthLengths \in Seq(Nat \ {0}) /\ MonthLengths # <<>>
  /\ Entries \in [{"minute", "hour", "day", "month", "weekday"} -> SUBSET SUBSET Items]
  /\ \A l \in Locations : ZoneOK(Offset[l])
  /\ SearchFrom \subseteq Earliest .. Latest

\* parseCronValue and the errors of parseCronField: values outside the field and
\* reversed ranges are refused.
Accepted(i, minimum, maximum) ==
  /\ i.kind # "star" => i.from \in minimum .. maximum
  /\ i.kind = "range" => i.to \in i.from .. maximum

\* parseCronField: the union of a list's items; a value with a step runs to the
\* field's maximum.
First(i, minimum) == IF i.kind = "star" THEN minimum ELSE i.from
Final(i, maximum) ==
  CASE i.kind = "star" \/ (i.kind = "value" /\ i.step > 0) -> maximum
    [] i.kind = "range" -> i.to
    [] OTHER -> i.from
Step(i) == IF i.step = 0 THEN 1 ELSE i.step
parseCronField(items, minimum, maximum) ==
  {x \in minimum .. maximum :
     \E i \in items : First(i, minimum) <= x /\ x <= Final(i, maximum) /\ (x - First(i, minimum)) % Step(i) = 0}
allowsEvery(field, minimum, maximum) == minimum .. maximum \subseteq field

\* parseCronExpression: Sunday is 0 and DaysPerWeek (7).
Parses(expression) ==
  /\ \A i \in expression.minute : Accepted(i, 0, MinutesPerHour - 1)
  /\ \A i \in expression.hour : Accepted(i, 0, HoursPerDay - 1)
  /\ \A i \in expression.day : Accepted(i, 1, LongestMonth)
  /\ \A i \in expression.month : Accepted(i, 1, MonthsPerYear)
  /\ \A i \in expression.weekday : Accepted(i, 0, DaysPerWeek)
Fields ==
  LET weekdays == parseCronField(text.weekday, 0, DaysPerWeek)
      days == parseCronField(text.day, 1, LongestMonth)
      folded == (weekdays \cup (IF DaysPerWeek \in weekdays THEN {0} ELSE {})) \ {DaysPerWeek}
  IN [minutes |-> parseCronField(text.minute, 0, MinutesPerHour - 1),
      hours |-> parseCronField(text.hour, 0, HoursPerDay - 1),
      days |-> days,
      months |-> parseCronField(text.month, 1, MonthsPerYear),
      weekdays |-> folded,
      dayWildcard |-> allowsEvery(days, 1, LongestMonth),
      weekdayWildcard |-> allowsEvery(folded, 0, DaysPerWeek - 1)]

matchesDay(w) ==
  LET f == Fields IN
  IF f.dayWildcard THEN Weekday(w) \in f.weekdays
  ELSE IF f.weekdayWildcard THEN Day(w) \in f.days
  ELSE Day(w) \in f.days \/ Weekday(w) \in f.weekdays

-----------------------------------------------------------------------------
\* next: from the minute after, skip to the next month, day, hour or minute.
CronInit ==
  /\ text \in [minute : Entries.minute, hour : Entries.hour, day : Entries.day,
               month : Entries.month, weekday : Entries.weekday]
  /\ Parses(text)
  /\ location \in Locations /\ after \in SearchFrom
  /\ candidate = after + 1 /\ found = "searching"

\* The limit is cronSearchYears later on the wall (AddDate).
Limit == Date(Local(after + 1) + SearchMinutes)
InLimit == found = "searching" /\ candidate <= Limit
Skip(to) == candidate' = to /\ UNCHANGED <<text, location, after, found>>

\* Mutant: the next month is looked for from the candidate's day on.
SkipMonthFromDay ==
  Skip(Date(Local(candidate) + MonthLengths[MonthIndex(Local(candidate))] * MinutesPerDay))
NextMonth(w) == DaysBefore[MonthIndex(w) + 1] * MinutesPerDay
NextDay(w) == (w \div MinutesPerDay + 1) * MinutesPerDay
SkipMonth == Skip(Date(NextMonth(Local(candidate))))
SkipDay == Skip(Date(NextDay(Local(candidate))))
SkipHour == Skip(candidate + MinutesPerHour - Minute(Local(candidate)))

MonthMatches == Month(Local(candidate)) \in Fields.months
DayMatches == matchesDay(Local(candidate))
HourMatches == Hour(Local(candidate)) \in Fields.hours
SearchMonth == InLimit /\ ~ MonthMatches /\ SkipMonth
SearchDay == InLimit /\ MonthMatches /\ ~ DayMatches /\ SkipDay
SearchHour == InLimit /\ MonthMatches /\ DayMatches /\ ~ HourMatches /\ SkipHour
SearchMinute ==
  /\ InLimit /\ MonthMatches /\ DayMatches /\ HourMatches
  /\ IF Minute(Local(candidate)) \in Fields.minutes
     THEN found' = "found" /\ UNCHANGED <<text, location, after, candidate>>
     ELSE Skip(candidate + 1)
GivesUp ==
  /\ found = "searching" /\ candidate > Limit
  /\ found' = "none" /\ UNCHANGED <<text, location, after, candidate>>

\* The task runs at the occurrence and asks for the one after it (nextDelay).
RunsTask ==
  /\ found = "found" /\ candidate <= Latest
  /\ after' = candidate /\ candidate' = candidate + 1 /\ found' = "searching"
  /\ UNCHANGED <<text, location>>

CronNext == SearchMonth \/ SearchDay \/ SearchHour \/ SearchMinute \/ GivesUp \/ RunsTask

-----------------------------------------------------------------------------
\* A wall time is an occurrence, read off the expression's items alone: minute,
\* hour, month and day all match, where the two day fields are alternatives
\* unless one of them leaves every day in.
Among(x, minimum, maximum, items) ==
  \E i \in items, k \in 0 .. x :
    CASE i.kind = "star" -> x = minimum + k * Step(i) /\ x <= maximum
      [] i.kind = "range" -> x = i.from + k * Step(i) /\ x <= i.to
      [] OTHER -> x = i.from + k * i.step /\ x <= maximum
Occurs(w) ==
  LET dayOK(x) == Among(x, 1, LongestMonth, text.day)
      weekdayOK(x) == \E y \in {x, x + DaysPerWeek} : Among(y, 0, DaysPerWeek, text.weekday)
      anyDay == \A x \in 1 .. LongestMonth : dayOK(x)
      anyWeekday == \A x \in 0 .. DaysPerWeek - 1 : weekdayOK(x)
  IN /\ Among(Minute(w), 0, MinutesPerHour - 1, text.minute)
     /\ Among(Hour(w), 0, HoursPerDay - 1, text.hour)
     /\ Among(Month(w), 1, MonthsPerYear, text.month)
     /\ \/ anyDay /\ weekdayOK(Weekday(w))
        \/ anyWeekday /\ dayOK(Day(w))
        \/ ~ anyDay /\ ~ anyWeekday /\ (dayOK(Day(w)) \/ weekdayOK(Weekday(w)))

\* The search jumps over no occurrence, unless the clocks, set back, show its wall time
\* again at or after the candidate; what it returns is an occurrence after the time it
\* was asked for; and it gives up only if none is left within the years it searches.
ComesAgain(t, from) == \E u \in from .. Horizon - 1 : Local(u) = Local(t)
NextOccurrence ==
  /\ \A t \in after + 1 .. candidate - 1 : Occurs(Local(t)) => ComesAgain(t, candidate)
  /\ found = "found" => Occurs(Local(candidate)) /\ candidate > after
  /\ found = "none" => \A t \in after + 1 .. Limit : Occurs(Local(t)) => ComesAgain(t, Limit + 1)

\* The loop of cronExpression.next ends: it finds an occurrence or gives up at the
\* limit (ARCHITECTURE: "Cron loops calculate their next wall-clock occurrence from a
\* five-field expression and the configured Scheduler time zone").
SearchEnds == found = "searching" ~> found # "searching"
=============================================================================
