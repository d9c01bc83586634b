---------------------------- MODULE MCPersistent ----------------------------
(***************************************************************************)
(* TLC instances of the two services whose processes share a store.  A     *)
(* behaviour is of one of them; the other rests.                           *)
(*   queue      the persistent queue.  Every worker has a process of its   *)
(*              own, so that a crash takes one of them and not the other.  *)
(*   scheduler  the persistent scheduler: two processes with a loop each   *)
(*              for the same task, which compete for its occurrences.      *)
(***************************************************************************)
EXTENDS PersistentJobQueue

CONSTANTS
  p1, p2, w1, w2, late,   \* late: the job with a later delivery time
  l1, l2, n1,
  Tasks, Loops, LoopHome, TaskOf, LastTime, MaxRounds, TaskLease, Delays, Ending

VARIABLES
  subject,
  schedule, claims, finished, round, clock, scheduler, place, deadline, begun, reading,
  planned, claim, mishaps, ended, returned

MCHome == [w \in Workers |-> IF w = w1 THEN p1 ELSE p2]
MCCaller == [j \in Jobs |-> p1]
MCReadyAt == [j \in Jobs |-> IF j = late THEN 1 ELSE 0]
MCLoopHome == [l \in Loops |-> IF l = l1 THEN p1 ELSE p2]
MCTaskOf == [l \in Loops |-> n1]

Timed == INSTANCE PersistentScheduler WITH
  MaxTime <- LastTime, Lease <- TaskLease, Home <- LoopHome,
  record <- schedule, issued <- claims, now <- clock, proc <- scheduler, at <- place,
  seen <- reading, held <- claim, faults <- mishaps

timed == <<schedule, claims, finished, round, clock, scheduler, place, deadline, begun, reading,
           planned, claim, mishaps, ended, returned>>

ASSUME PersistentServicesAssumption == Timed!PersistentSchedulerAssumption

PersistentInit == subject \in {"queue", "scheduler"} /\ Init /\ Timed!Init

PersistentNext ==
  /\ UNCHANGED subject
  /\ \/ subject = "queue" /\ Next /\ UNCHANGED timed
     \/ subject = "scheduler" /\ Timed!Next /\ UNCHANGED vars

PersistentSpec == PersistentInit /\ [][PersistentNext]_<<subject, vars, timed>>

\* The fairness of the persistent scheduler.
TimedFairness ==
  /\ WF_timed(Timed!Tick)
  /\ \A l \in Loops : WF_timed(Timed!Loop(l)) /\ WF_timed(Timed!InitializeTask(l))
  /\ \A p \in Processes : WF_timed(Timed!Starting(p)) /\ WF_timed(Timed!finishShutdown(p))

-----------------------------------------------------------------------------
\* PersistentJobQueue: every accepted job is settled in the end, through crashes,
\* lost answers and polls: completed or failed, or forgotten.
JobsSettle == subject = "queue" /\ Fairness => Settles

\* PersistentScheduler: two processes run one occurrence only after a lease ran out,
\* it is never run early, and what was missed is skipped.
OccurrencesFenced == Timed!OccurrencesFenced

\* PersistentScheduler: every stored occurrence is completed in the end, through
\* crashes, lost answers, failed completions and tasks that outlive their leases,
\* unless its schedule has run out.
OccurrencesEnd == subject = "scheduler" /\ TimedFairness => Timed!OccurrencesComplete
=============================================================================
