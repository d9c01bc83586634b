----------------------------- MODULE MCInProcess -----------------------------
(***************************************************************************)
(* TLC instances of the work an application does in its own process: the   *)
(* in-memory queue, the scheduler, and the cron expressions that give a    *)
(* task its delays.  A behaviour is of one of them; the others rest.       *)
(*   queue      an immediate job whose handler dispatches another one, and *)
(*              two delayed jobs, through channels of capacity 1           *)
(*   scheduler  two handles that use one name in turn, which a registered  *)
(*              task may have, too                                         *)
(*   cron       expressions that combine stars, values, ranges and steps   *)
(*              on a small calendar with a short month in one year only,   *)
(*              in locations whose clocks are set forward and back         *)
(***************************************************************************)
EXTENDS JobQueue, CronSchedule

CONSTANTS
  Subjects,
  parent, child, delayed, delayed2,
  name,
  west, east, island,
  Names, Handles, NameOf, Intervals, SchedulerTime, MaxChanges, NoHandle   \* Scheduler

VARIABLES
  subject,
  schedulerState, taskNames, dynamic, waited, fixed, at, cancelled, interval, revision,
  trigger, wake, local, timer, schedulerNow, base, owed

scheduler ==
  <<schedulerState, taskNames, dynamic, waited, fixed, at, cancelled, interval, revision,
    trigger, wake, local, timer, schedulerNow, base, owed>>

MCReadyAt == [j \in Jobs |-> IF j \in {delayed, delayed2} THEN 1 ELSE 0]
MCParent == [j \in Jobs |-> IF j = child THEN parent ELSE NoJob]
MCNameOf == [h \in Handles |-> name]

Tasks ==
  INSTANCE Scheduler
    WITH state <- schedulerState, now <- schedulerNow, MaxTime <- SchedulerTime

\* Field texts: *, */2, 1, 1-2, 1/2 and 0,1, of which the last weekday, 3, is a
\* Sunday like 0; and the texts 3 and 2-1, which no field of minutes accepts.
Text(kind, from, to, step) == {[kind |-> kind, from |-> from, to |-> to, step |-> step]}
Every == Text("star", 0, 0, 0)
Only(x) == Text("value", x, x, 0)
MCEntries ==
  [minute  |-> {Every, Only(1), Only(3), Text("range", 2, 1, 0)},
   hour    |-> {Every, Text("star", 0, 0, 2)},
   day     |-> {Every, Only(3), Text("range", 1, 2, 0), Text("value", 1, 1, 2)},
   month   |-> {Every, Only(2)},
   weekday |-> {Every, Only(3), Text("range", 1, 2, 0), Text("value", 0, 0, 2), Only(0) \cup Only(1)}]
MCMonthLengths == <<3, 2, 3, 2, 3, 3, 3, 2, 3, 2, 3, 3>>

\* In the west and in the east the clocks skip the first hour of day 9; a week later
\* they repeat the last hour of a day in the west, and the first one in the east.  The
\* island changes sides of the date line and skips day 9.
Shifted(offset, by, from, until) ==
  [t \in Instants |-> IF from <= t /\ t < until THEN offset + by ELSE offset]
MCOffset ==
  (west :> Shifted(-4, 2, 58, 98)) @@ (east :> Shifted(2, 2, 52, 94)) @@ (island :> Shifted(-4, 6, 58, Horizon))
MCSearchFrom == {t \in Earliest .. Latest : t % 5 = 0}

ASSUME InProcessAssumption ==
  /\ Subjects \subseteq {"queue", "scheduler", "cron"}
  /\ Tasks!SchedulerAssumption

\* At rest, any expression will do.
CronRests ==
  /\ text = [field \in {"minute", "hour", "day", "month", "weekday"} |-> Every]
  /\ location = west /\ after = 40

InProcessInit ==
  /\ subject \in Subjects
  /\ Init /\ Tasks!Init /\ CronInit
  /\ subject # "cron" => CronRests

InProcessNext ==
  /\ UNCHANGED subject
  /\ \/ subject = "queue" /\ Next /\ UNCHANGED <<scheduler, cronVars>>
     \/ subject = "scheduler" /\ Tasks!Next /\ UNCHANGED <<vars, cronVars>>
     \/ subject = "cron" /\ CronNext /\ UNCHANGED <<vars, scheduler>>

InProcessSpec == InProcessInit /\ [][InProcessNext]_<<subject, vars, scheduler, cronVars>>

\* The goroutine that computes a task's next run is not stopped.
CronFairSpec == InProcessSpec /\ WF_cronVars(CronNext)

-----------------------------------------------------------------------------
\* JobQueue: with fair goroutines every accepted job is handled, with and without a
\* shutdown, and a shutdown that began ends: with full channels, delayed jobs and
\* handlers that dispatch jobs themselves; each job is handled by one worker.
QueueDrains ==
  subject = "queue" /\ Fairness =>
    AcceptedIsHandled /\ ShutdownCompletes /\ []DrainedWhenStopped

\* Scheduler: two invocations under one name never overlap, and one that no trigger
\* asked for waits its whole delay.
InvocationsApart == []Tasks!NoOverlap /\ Tasks!DelayRespected

\* Scheduler: with fair goroutines an accepted trigger is followed by an invocation
\* that begins after it, unless the handle is stopped.
TriggerHonoured == subject = "scheduler" /\ Tasks!Fairness => Tasks!TriggerHonoured
=============================================================================
