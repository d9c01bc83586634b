------------------------- MODULE PersistentScheduler -------------------------
(***************************************************************************)
(* Scheduler with a SchedulerStore: processes that share one store, each   *)
(* with one loop per task (runPersistentTaskLoop), their starts, crashes   *)
(* and graceful shutdowns.  The store is the contract SchedulerStore.      *)
(*                                                                         *)
(* A start reads the clock once and initializes one task after the other   *)
(* with that reading.  A loop reads the state, sleeps until the occurrence *)
(* or the lease it saw has come, reads the clock, reserves with that       *)
(* reading, runs the task, reads the clock again to plan the next run, and *)
(* completes the reservation with that plan.  Other loops, the clock and a *)
(* crash may come between any two of these: a plan may be old when it      *)
(* reaches the store.  Tasks may run past their leases.                    *)
(***************************************************************************)
EXTENDS Integers

CONSTANTS
  Tasks, Tokens, NoToken, MaxTime, MaxRounds, Lease,   \* as in SchedulerStore
  Processes,    \* schedulers, one per operating-system process
  Loops,        \* the goroutines of all processes
  Home,         \* the process of each loop
  TaskOf,       \* the task of each loop
  Delays,       \* what nextDelay may return: one value for a fixed delay,
                \* several for a cron expression
  Ending,       \* tasks whose schedule may run out of occurrences
  MaxFaults,    \* crashes, shutdowns, store errors, slow starts and leases that
                \* run out in a loop's hands: bounds the model
  NoReservation

VARIABLES
  record, issued, finished, round,   \* the store
  now,
  proc,      \* state of each scheduler, or "down" before a start and after a crash
  at,        \* where each loop is
  deadline,  \* when the sleep of a loop ends
  begun,     \* the clock reading of a process that is starting
  seen,      \* the clock reading a loop reserves or completes with
  planned,   \* the next run a loop completes with
  held,      \* the reservation a loop works on
  faults,
  ended,     \* history: when the task of a loop returned
  returned   \* history: when the run of a task that was completed last returned

store == <<record, issued, finished, round>>
loop == <<at, deadline, seen, planned, held>>
vars == <<record, issued, finished, round, now, proc, begun, at, deadline, seen, planned,
          held, faults, ended, returned>>

Store == INSTANCE SchedulerStore

PersistentSchedulerAssumption ==
  /\ Store!SchedulerStoreAssumption
  /\ Home \in [Loops -> Processes]
  /\ TaskOf \in [Loops -> Tasks]
  /\ Delays \subseteq Nat \ {0} /\ Delays # {}
  /\ Ending \subseteq Tasks
  /\ MaxFaults \in Nat

LoopsOf(p) == {l \in Loops : Home[l] = p}

Stopping(l) == proc[Home[l]] # "running"   \* stopping closed, workerCtx done

Init ==
  /\ Store!Init
  /\ now = 1
  /\ proc = [p \in Processes |-> "down"]
  /\ at = [l \in Loops |-> "off"]
  /\ deadline = [l \in Loops |-> 0]
  /\ begun = [p \in Processes |-> 0]
  /\ seen = [l \in Loops |-> 0]
  /\ planned = [l \in Loops |-> 0]
  /\ held = [l \in Loops |-> NoReservation]
  /\ faults = 0
  /\ ended = [l \in Loops |-> 0]
  /\ returned = [n \in Tasks |-> 0]

LoopGoto(l, place) == at' = [at EXCEPT ![l] = place]
Fault == faults < MaxFaults /\ faults' = faults + 1

\* Bounds the model: a task that was completed MaxRounds times rests.
Resting(n) == round[n] >= MaxRounds

\* Random in the code; which unused token is taken makes no difference.
FreshToken == CHOOSE token \in Tokens : token \notin Store!UsedTokens

-----------------------------------------------------------------------------
(***************************************************************************)
(* runPersistentTaskLoop                                                   *)
(***************************************************************************)
CheckStopping(l) ==
  /\ at[l] = "loop"
  /\ LoopGoto(l, IF Stopping(l) THEN "exited" ELSE "state")
  /\ UNCHANGED <<now, proc, begun, deadline, seen, planned, held, faults, ended, returned>>
  /\ UNCHANGED store

\* A live lease is slept out, otherwise the occurrence is waited for.
SleepUntil(rec) == IF rec.until > now THEN rec.until ELSE rec.next

\* The loop goes on to sleep, leaves because the context is done, or polls
\* after an error of the store.
State(l) ==
  /\ at[l] = "state"
  /\ \/ /\ ~Stopping(l)
        /\ LoopGoto(l, "sleeping")
        /\ deadline' = [deadline EXCEPT ![l] = SleepUntil(record[TaskOf[l]])]
        /\ UNCHANGED faults
     \/ Stopping(l) /\ LoopGoto(l, "exited") /\ UNCHANGED <<deadline, faults>>
     \/ Fault /\ LoopGoto(l, "polling") /\ UNCHANGED deadline
  /\ UNCHANGED <<now, proc, begun, seen, planned, held, ended, returned>> /\ UNCHANGED store

\* waitForPersistentTask, and the clock reading for Reserve.
Wake(l) ==
  /\ at[l] = "sleeping"
  /\ \/ Stopping(l) /\ LoopGoto(l, "exited") /\ UNCHANGED seen
     \/ /\ deadline[l] <= now
        /\ ~Resting(TaskOf[l])
        /\ LoopGoto(l, "reserve") /\ seen' = [seen EXCEPT ![l] = now]
  /\ deadline' = [deadline EXCEPT ![l] = 0]
  /\ UNCHANGED <<now, proc, begun, planned, held, faults, ended, returned>> /\ UNCHANGED store

Reserve(l) ==
  /\ at[l] = "reserve" /\ ~Stopping(l)
  /\ Tokens # Store!UsedTokens   \* bounds the model
  /\ Store!Reserve(TaskOf[l], seen[l], FreshToken)
  /\ held' = [held EXCEPT ![l] = Store!Granted(TaskOf[l], seen[l], FreshToken)]
  /\ LoopGoto(l, "running")
  /\ seen' = [seen EXCEPT ![l] = 0]
  /\ UNCHANGED <<now, proc, begun, deadline, planned, faults, ended, returned>>

\* The store grants the reservation and the answer is lost: the connection
\* breaks, or Shutdown cancels the call.
ReserveLost(l) ==
  /\ at[l] = "reserve"
  /\ IF Stopping(l) THEN UNCHANGED faults ELSE Fault
  /\ Tokens # Store!UsedTokens   \* bounds the model
  /\ Store!Reserve(TaskOf[l], seen[l], FreshToken)
  /\ LoopGoto(l, IF Stopping(l) THEN "exited" ELSE "polling")
  /\ seen' = [seen EXCEPT ![l] = 0]
  /\ UNCHANGED <<now, proc, begun, deadline, planned, held, ended, returned>>

\* Not due, reserved by somebody else, or the context is done.
ReserveRefused(l) ==
  /\ at[l] = "reserve"
  /\ Stopping(l) \/ ~Store!Due(TaskOf[l], seen[l])
  /\ LoopGoto(l, IF Stopping(l) THEN "exited" ELSE "polling")
  /\ seen' = [seen EXCEPT ![l] = 0]
  /\ UNCHANGED <<now, proc, begun, deadline, planned, held, faults, ended, returned>>
  /\ UNCHANGED store

Poll(l) ==
  /\ at[l] = "polling"
  /\ LoopGoto(l, IF Stopping(l) THEN "exited" ELSE "loop")
  /\ UNCHANGED <<now, proc, begun, deadline, seen, planned, held, faults, ended, returned>>
  /\ UNCHANGED store

PlansNext(l, reading) ==
  /\ \E delay \in Delays :
       /\ reading + delay <= MaxTime   \* bounds the model
       /\ planned' = [planned EXCEPT ![l] = reading + delay]
  /\ seen' = [seen EXCEPT ![l] = reading]

\* Mutant: the clock is read when the task is started, not when it returns.
TaskReturnsToOldReading(l) ==
  /\ at[l] = "running"
  /\ PlansNext(l, held[l].at)
  /\ ended' = [ended EXCEPT ![l] = now]
  /\ LoopGoto(l, "completing")
  /\ UNCHANGED <<now, proc, begun, deadline, held, faults, returned>> /\ UNCHANGED store

\* The task returns, with or without an error; the next run is planned from a
\* clock reading made now.
TaskReturns(l) ==
  /\ at[l] = "running"
  /\ PlansNext(l, now)
  /\ ended' = [ended EXCEPT ![l] = now]
  /\ LoopGoto(l, "completing")
  /\ UNCHANGED <<now, proc, begun, deadline, held, faults, returned>> /\ UNCHANGED store

\* The reservation is completed with that plan, refused because it is not the
\* stored one any more, or the store fails.  The last two are only reported.
Complete(l) ==
  /\ at[l] = "completing"
  /\ \/ /\ Store!Complete(held[l], planned[l], seen[l])
        /\ returned' = [returned EXCEPT ![TaskOf[l]] = ended[l]]
        /\ UNCHANGED faults
     \/ ~Store!Holds(held[l]) /\ UNCHANGED <<faults, returned>> /\ UNCHANGED store
     \/ Fault /\ UNCHANGED returned /\ UNCHANGED store
  /\ LoopGoto(l, "loop")
  /\ held' = [held EXCEPT ![l] = NoReservation]
  /\ seen' = [seen EXCEPT ![l] = 0]
  /\ planned' = [planned EXCEPT ![l] = 0]
  /\ ended' = [ended EXCEPT ![l] = 0]
  /\ UNCHANGED <<now, proc, begun, deadline>>

\* nextDelay finds no further occurrence: the loop ends, its lease stays.
NoNextRun(l) ==
  /\ at[l] = "running"
  /\ TaskOf[l] \in Ending
  /\ LoopGoto(l, "exited")
  /\ held' = [held EXCEPT ![l] = NoReservation]
  /\ UNCHANGED <<now, proc, begun, deadline, seen, planned, faults, ended, returned>>
  /\ UNCHANGED store

Loop(l) ==
  \/ CheckStopping(l) \/ State(l) \/ Wake(l) \/ Reserve(l)
  \/ ReserveRefused(l) \/ Poll(l) \/ TaskReturns(l) \/ Complete(l)

-----------------------------------------------------------------------------
(***************************************************************************)
(* Processes                                                               *)
(***************************************************************************)

\* Start and initializePersistentTasks under the scheduler's mutex: the one clock
\* reading, then the tasks.
Start(p) ==
  /\ proc[p] \in {"down", "stopped"}   \* a new process after a stop
  /\ proc' = [proc EXCEPT ![p] = "starting"]
  /\ begun' = [begun EXCEPT ![p] = now]
  /\ at' = [l \in Loops |-> IF l \in LoopsOf(p) THEN "listed" ELSE at[l]]
  /\ UNCHANGED <<now, deadline, seen, planned, held, faults, ended, returned>> /\ UNCHANGED store

\* Store.Initialize: a task that the store knows keeps its record.
InitializedFor(l) ==
  \/ \E delay \in Delays : Store!Initialize(TaskOf[l], begun[Home[l]] + delay)
  \/ record[TaskOf[l]].next # 0 /\ UNCHANGED store

InitializeTask(l) ==
  /\ at[l] = "listed"
  /\ InitializedFor(l)
  /\ LoopGoto(l, "runnable")
  /\ UNCHANGED <<now, proc, begun, deadline, seen, planned, held, faults, ended, returned>>

\* nextDelay finds no occurrence after the reading: the task gets no loop.
SkipTask(l) ==
  /\ at[l] = "listed"
  /\ TaskOf[l] \in Ending
  /\ LoopGoto(l, "off")
  /\ UNCHANGED <<now, proc, begun, deadline, seen, planned, held, faults, ended, returned>>
  /\ UNCHANGED store

\* Initialize fails for one of the tasks, whether the store has done it or not; the
\* tasks before it stay initialized.
StartFails(p) ==
  /\ proc[p] = "starting"
  /\ Fault
  /\ \E l \in LoopsOf(p) : at[l] = "listed" /\ (InitializedFor(l) \/ UNCHANGED store)
  /\ proc' = [proc EXCEPT ![p] = "down"]
  /\ begun' = [begun EXCEPT ![p] = 0]
  /\ at' = [l \in Loops |-> IF l \in LoopsOf(p) THEN "off" ELSE at[l]]
  /\ UNCHANGED <<now, deadline, seen, planned, held, ended, returned>>

\* The loops of the runnable tasks are started.
StartRunners(p) ==
  /\ proc[p] = "starting"
  /\ \A l \in LoopsOf(p) : at[l] # "listed"
  /\ proc' = [proc EXCEPT ![p] = "running"]
  /\ begun' = [begun EXCEPT ![p] = 0]
  /\ at' = [l \in Loops |-> IF l \in LoopsOf(p) /\ at[l] = "runnable" THEN "loop" ELSE at[l]]
  /\ UNCHANGED <<now, deadline, seen, planned, held, faults, ended, returned>> /\ UNCHANGED store

Starting(p) == Start(p) \/ StartRunners(p)

Shutdown(p) ==
  /\ proc[p] = "running"
  /\ Fault
  /\ proc' = [proc EXCEPT ![p] = "stopping"]
  /\ UNCHANGED <<now, begun, ended, returned>> /\ UNCHANGED store /\ UNCHANGED loop

\* runners.Wait has returned.
finishShutdown(p) ==
  /\ proc[p] = "stopping"
  /\ \A l \in LoopsOf(p) : at[l] \in {"exited", "off"}
  /\ proc' = [proc EXCEPT ![p] = "stopped"]
  /\ UNCHANGED <<now, begun, faults, ended, returned>> /\ UNCHANGED store /\ UNCHANGED loop

Crash(p) ==
  /\ proc[p] \in {"starting", "running", "stopping"}
  /\ Fault
  /\ proc' = [proc EXCEPT ![p] = "down"]
  /\ at' = [l \in Loops |-> IF l \in LoopsOf(p) THEN "off" ELSE at[l]]
  /\ begun' = [begun EXCEPT ![p] = 0]
  /\ deadline' = [l \in Loops |-> IF l \in LoopsOf(p) THEN 0 ELSE deadline[l]]
  /\ seen' = [l \in Loops |-> IF l \in LoopsOf(p) THEN 0 ELSE seen[l]]
  /\ planned' = [l \in Loops |-> IF l \in LoopsOf(p) THEN 0 ELSE planned[l]]
  /\ ended' = [l \in Loops |-> IF l \in LoopsOf(p) THEN 0 ELSE ended[l]]
  /\ held' = [l \in Loops |-> IF l \in LoopsOf(p) THEN NoReservation ELSE held[l]]
  /\ UNCHANGED <<now, returned>> /\ UNCHANGED store

\* Initialize of a task that the store does not know has not come through yet.
StartingSlowly == \E l \in Loops : at[l] = "listed" /\ record[TaskOf[l]].next = 0

\* Time passes while an occurrence, a lease, a sleep or a first Initialize lies ahead.
\* It is one of the faults when that Initialize is slow, or when a lease runs out
\* before its task is completed.
Tick ==
  /\ now < MaxTime
  /\ \/ \E n \in Tasks : ~Resting(n) /\ (record[n].next > now \/ record[n].until > now)
     \/ \E l \in Loops : deadline[l] > now
     \/ StartingSlowly
  /\ IF StartingSlowly \/ \E l \in Loops : held[l] # NoReservation /\ held[l].until = now + 1
     THEN Fault ELSE UNCHANGED faults
  /\ now' = now + 1
  /\ UNCHANGED <<proc, begun, ended, returned>> /\ UNCHANGED store /\ UNCHANGED loop

Next ==
  \/ \E l \in Loops : Loop(l) \/ ReserveLost(l) \/ NoNextRun(l)
  \/ \E l \in Loops : InitializeTask(l) \/ SkipTask(l)
  \/ \E p \in Processes :
       Starting(p) \/ StartFails(p) \/ Shutdown(p) \/ finishShutdown(p) \/ Crash(p)
  \/ Tick

(***************************************************************************)
(* Loops go on, tasks return, a process that is down is started again and  *)
(* time passes.  Crashes, shutdowns and store errors need not happen.      *)
(***************************************************************************)
Fairness ==
  /\ WF_vars(Tick)
  /\ \A l \in Loops : WF_vars(Loop(l)) /\ WF_vars(InitializeTask(l))
  /\ \A p \in Processes : WF_vars(Starting(p)) /\ WF_vars(finishShutdown(p))

Spec == Init /\ [][Next]_vars
FairSpec == Spec /\ Fairness

-----------------------------------------------------------------------------
(***************************************************************************)
(* Properties                                                              *)
(***************************************************************************)

\* The task of the loop is running, or has returned and is not completed yet.
Working(l) == at[l] \in {"running", "completing"}

\* A running task is alone with its occurrence until its lease ends: it holds
\* the stored reservation, no other loop of any process works on the task under a
\* live lease, and nobody completes the occurrence under its hands (GUIDE:
\* "allow only one contender to claim each occurrence").
LeaseProtects ==
  \A l \in Loops :
    (Working(l) /\ held[l].until > now)
    => /\ record[held[l].task].token = held[l].token
       /\ record[held[l].task].next = held[l].next
       /\ \A m \in Loops \ {l} :
            Working(m) /\ TaskOf[m] = TaskOf[l] => held[m].until <= now

\* No occurrence is run before its time.
RunsOnTime == \A l \in Loops : at[l] = "running" => held[l].next <= now

\* No occurrence that came due before the last completed run returned is waited for
\* or run, however late the plan for the next one reached the store; a loop whose
\* lease ran out may still be with an older one.
MissedSkipped ==
  /\ \A n \in Tasks : round[n] > 0 => record[n].next > returned[n]
  /\ \A l \in Loops : Working(l) =>
       held[l].next > returned[TaskOf[l]] \/ held[l].round < round[TaskOf[l]]

\* However long the schedulers were down or a store call took, one overdue
\* occurrence runs and the missed ones are skipped (GUIDE: "does not replay every
\* missed cron tick"): the stored occurrence only moves forward, to one later than
\* the end of the run it follows.  The plan may have come due itself before it is
\* stored.
SkipsMissedRuns ==
  /\ [](RunsOnTime /\ MissedSkipped)
  /\ [][\A n \in Tasks : record'[n].next >= record[n].next]_vars

\* Every stored occurrence is completed in the end, through crashes, lost
\* answers, failed completions and tasks that outlive their leases, unless its
\* schedule has run out.
RanOut(n) ==
  \E l \in Loops : TaskOf[l] = n /\ at[l] \in {"exited", "off"} /\ ~Stopping(l)
OccurrencesComplete ==
  \A n \in Tasks : \A k \in 0..(MaxRounds - 1) :
    record[n].next # 0 /\ round[n] = k ~> round[n] > k \/ RanOut(n)

\* One occurrence, one run: two processes run it only after a lease ran out, it is
\* never run early, and what was missed is skipped.
OccurrencesFenced == []LeaseProtects /\ SkipsMissedRuns
=============================================================================
