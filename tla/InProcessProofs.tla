--------------------------- MODULE InProcessProofs ---------------------------
(***************************************************************************)
(* The shutdown protocol of the in-memory queue, for any number of jobs,   *)
(* workers, Shutdown callers and any capacity; the invocations of the      *)
(* scheduler, for any number of tasks, handles and intervals; and the      *)
(* search for a cron expression's next occurrence, for any calendar and in *)
(* any location whose clocks keep the rules of ZoneOK.                     *)
(***************************************************************************)
EXTENDS MCInProcess, WellFoundedInduction, TLAPS

\* Every step keeps the order of the shutdown: dispatch calls end, then the
\* scheduler, then the channel is closed, then the workers exit.
LEMMA StepKeepsOrder == ShutdownOrder /\ [Next]_vars => ShutdownOrder'
<1> SUFFICES ASSUME ShutdownOrder, [Next]_vars
             PROVE  ShutdownOrder'
  OBVIOUS
<1> USE QueueAssumption
    DEF ShutdownOrder, Settled, Dispatching, Stopping, Places, Goto,
        dispatchVars, schedulerVars, workerVars, shutdownVars
<1>1. ASSUME Start PROVE ShutdownOrder'
  BY <1>1 DEF Start
<1>2. ASSUME NEW j \in Jobs, Prepare(j)
      PROVE  ShutdownOrder'
  BY <1>2 DEF Prepare
<1>3. ASSUME NEW j \in Jobs, SendReady(j)
      PROVE  ShutdownOrder'
  BY <1>3 DEF SendReady
<1>4. ASSUME NEW j \in Jobs, AcquireSlot(j)
      PROVE  ShutdownOrder'
  BY <1>4 DEF AcquireSlot
<1>5. ASSUME NEW j \in Jobs, SendScheduled(j)
      PROVE  ShutdownOrder'
  BY <1>5 DEF SendScheduled
<1>6. ASSUME NEW j \in Jobs, DispatchStopped(j)
      PROVE  ShutdownOrder'
  BY <1>6 DEF DispatchStopped
<1>7. ASSUME NEW j \in Jobs, DispatchCancelled(j)
      PROVE  ShutdownOrder'
  BY <1>7 DEF DispatchCancelled
<1>8. ASSUME ScheduleReceive
      PROVE  ShutdownOrder'
  BY <1>8 DEF ScheduleReceive
<1>9. ASSUME ScheduleTimer
      PROVE  ShutdownOrder'
  BY <1>9 DEF ScheduleTimer, Pop
<1>10. ASSUME ScheduleStop
      PROVE  ShutdownOrder'
  BY <1>10 DEF ScheduleStop
<1>11. ASSUME DrainEmpty
      PROVE  ShutdownOrder'
  BY <1>11 DEF DrainEmpty
<1>12. ASSUME DrainPop
      PROVE  ShutdownOrder'
  BY <1>12 DEF DrainPop, Pop
<1>13. ASSUME ScheduleDone
      PROVE  ShutdownOrder'
  BY <1>13 DEF ScheduleDone
<1>14. ASSUME promoteScheduledJob
      PROVE  ShutdownOrder'
  BY <1>14 DEF promoteScheduledJob
<1>15. ASSUME NEW w \in Workers, Take(w)
      PROVE  ShutdownOrder'
  BY <1>15 DEF Take, Idle
<1>16. ASSUME NEW w \in Workers, AttemptSucceeds(w)
      PROVE  ShutdownOrder'
  BY <1>16 DEF AttemptSucceeds, Returns, Ended
<1>17. ASSUME NEW w \in Workers, AttemptFails(w)
      PROVE  ShutdownOrder'
  <2>1. CASE attempt[w] < MaxAttempts
    BY <1>17, <2>1 DEF AttemptFails
  <2>2. CASE ~(attempt[w] < MaxAttempts)
    <3>1. /\ Ended(w, "failed")
          /\ UNCHANGED <<state, ready, scheduled, exited, starts, now>>
          /\ UNCHANGED dispatchVars /\ UNCHANGED schedulerVars
          /\ UNCHANGED shutdownVars
      BY <1>17, <2>2, Zenon DEF AttemptFails
    <3>2. QED
      BY <3>1 DEF Ended
  <2>3. QED
    BY <2>1, <2>2
<1>18. ASSUME NEW w \in Workers, WorkerExit(w)
      PROVE  ShutdownOrder'
  BY <1>18 DEF WorkerExit, Idle
<1>19. ASSUME NEW s \in Stoppers, ShutdownCollecting(s)
      PROVE  ShutdownOrder'
  BY <1>19 DEF ShutdownCollecting, StopperGoto
<1>20. ASSUME NEW s \in Stoppers, ShutdownRunning(s)
      PROVE  ShutdownOrder'
  BY <1>20 DEF ShutdownRunning, StopperGoto
<1>21. ASSUME NEW s \in Stoppers, ShutdownAgain(s)
      PROVE  ShutdownOrder'
  BY <1>21 DEF ShutdownAgain, StopperGoto
<1>22. ASSUME NEW s \in Stoppers, ShutdownDispatched(s)
      PROVE  ShutdownOrder'
  BY <1>22 DEF ShutdownDispatched, StopperGoto
<1>23. ASSUME NEW s \in Stoppers, ShutdownReturns(s)
      PROVE  ShutdownOrder'
  <2>1. CASE state = "stopped"
    BY <1>23, <2>1 DEF ShutdownReturns, StopperGoto
  <2>2. CASE state # "stopped"
    BY <1>23, <2>2 DEF ShutdownReturns, StopperGoto
  <2>3. QED
    BY <2>1, <2>2
<1>24. ASSUME CloseJobs
      PROVE  ShutdownOrder'
  BY <1>24 DEF CloseJobs
<1>25. ASSUME Stopped
      PROVE  ShutdownOrder'
  BY <1>25 DEF Stopped
<1>26. ASSUME Tick
      PROVE  ShutdownOrder'
  BY <1>26 DEF Tick
<1>27. CASE UNCHANGED vars
  BY <1>27 DEF vars
<1>28. QED
  BY <1>1, <1>2, <1>3, <1>4, <1>5, <1>6, <1>7, <1>8, <1>9, <1>10, <1>11, <1>12, <1>13, <1>14, <1>15, <1>16, <1>17, <1>18, <1>19, <1>20, <1>21, <1>22, <1>23, <1>24, <1>25, <1>26, <1>27
  DEF Next, Dispatch, Schedule, Worker, Shutdown

\* For every queue: the channel jobs is never closed while a dispatch call or
\* the scheduler could still send on it, and a Shutdown call that returns
\* success leaves no handler running.
THEOREM ShutdownSafe == Spec => [](NoSendOnClosed /\ ReturnedMeansStopped)
<1>1. Init => ShutdownOrder
  BY QueueAssumption DEF Init, ShutdownOrder, Settled, Dispatching, Stopping, Places
<1>2. ShutdownOrder => NoSendOnClosed /\ ReturnedMeansStopped
  BY DEF ShutdownOrder, NoSendOnClosed, ReturnedMeansStopped, Settled
<1>3. QED
  BY <1>1, <1>2, StepKeepsOrder, PTL DEF Spec
-----------------------------------------------------------------------------
(***************************************************************************)
(* Scheduler: what handles and names know of each other                    *)
(***************************************************************************)
RunnerPlaces ==
  {"none", "top", "arm", "waiting", "fired", "due", "invoking", "leaving", "deleting", "closing", "done"}

SchedulerTypeOK ==
  /\ schedulerNow \in Nat /\ taskNames \subseteq Names
  /\ dynamic \in [Names -> Handles \cup {NoHandle}]
  /\ fixed \in [Names -> {"none", "registered", "loop", "waiting", "fired", "invoking", "exited"}]
  /\ at \in [Handles -> RunnerPlaces]
  /\ interval \in [Handles -> Nat] /\ revision \in [Handles -> Nat]
  /\ trigger \in [Handles -> BOOLEAN]
  /\ local \in [Handles -> [interval : Nat, revision : Nat, trigger : BOOLEAN]]
  /\ timer \in [Handles -> Nat] /\ base \in [Handles -> Nat]

\* From StartTask until its runner has deleted it a handle owns its name.
Owns(h) == at[h] \notin {"none", "closing", "done"}
OwnersNamed == \A h \in Handles : Owns(h) => NameOf[h] \in taskNames /\ dynamic[NameOf[h]] = h

\* A name is free, a handle's or a registered task's.
NamesApart ==
  \A n \in Names :
    /\ n \notin taskNames => dynamic[n] = NoHandle
    /\ fixed[n] # "none" => n \in taskNames /\ dynamic[n] = NoHandle

\* Unless the interval was changed since it was read, the timer is set for the whole of
\* it, counted from the last completion or change.
DelayInv(h) ==
  /\ base[h] <= schedulerNow
  /\ local[h].revision <= revision[h]
  /\ at[h] \in {"arm", "waiting", "fired"} /\ local[h].revision = revision[h] =>
       /\ local[h].interval = interval[h]
       /\ at[h] = "waiting" => timer[h] >= base[h] + interval[h]
       /\ at[h] = "fired" => schedulerNow >= base[h] + interval[h]

SchedulerInv ==
  /\ SchedulerTypeOK /\ OwnersNamed /\ NamesApart
  /\ \A h \in Handles : DelayInv(h)

\* What a step may do to an invocation that no trigger asked for (DelayRespected).
DelayStep ==
  \A h \in Handles :
    at[h] = "fired" /\ at'[h] = "due" /\ ~trigger[h] => schedulerNow >= base[h] + interval[h]

\* Registration, the loops of registered tasks and Shutdown leave the handles alone.
LEMMA FixedSteps ==
  ASSUME SchedulerInv,
         \/ \E n \in Names : Tasks!registerTask(n) \/ Tasks!runTaskLoop(n)
         \/ Tasks!Start \/ Tasks!ShutdownCollecting \/ Tasks!Shutdown \/ Tasks!WaitReturns
         \/ Tasks!finishShutdown
  PROVE  SchedulerInv' /\ DelayStep
<1>1. UNCHANGED <<dynamic, at, interval, revision, trigger, local, timer, base, schedulerNow>>
  BY DEF Tasks!registerTask, Tasks!runTaskLoop, Tasks!Start, Tasks!ShutdownCollecting, Tasks!Shutdown,
         Tasks!WaitReturns, Tasks!finishShutdown, Tasks!handle, Tasks!runner, Tasks!history
<1>2. /\ fixed' \in [Names -> {"none", "registered", "loop", "waiting", "fired", "invoking", "exited"}]
      /\ taskNames \subseteq taskNames' /\ taskNames' \subseteq Names
      /\ \A n \in Names : fixed[n] = "none" /\ fixed'[n] # "none" => n \notin taskNames /\ n \in taskNames'
  BY DEF SchedulerInv, SchedulerTypeOK, NamesApart,
         Tasks!registerTask, Tasks!runTaskLoop, Tasks!Start, Tasks!ShutdownCollecting, Tasks!Shutdown,
         Tasks!WaitReturns, Tasks!finishShutdown
<1>3. SchedulerTypeOK'
  BY <1>1, <1>2 DEF SchedulerInv, SchedulerTypeOK
<1>4. OwnersNamed' /\ NamesApart'
  BY <1>1, <1>2 DEF SchedulerInv, OwnersNamed, NamesApart, Owns
<1>5. \A h \in Handles : DelayInv(h)'
  BY <1>1 DEF SchedulerInv, DelayInv
<1>6. DelayStep
  BY <1>1 DEF DelayStep
<1>7. QED
  BY <1>3, <1>4, <1>5, <1>6 DEF SchedulerInv

\* What a step on one handle needs to show.
LEMMA HandleStep ==
  ASSUME SchedulerInv, SchedulerTypeOK', NEW h \in Handles, schedulerNow' = schedulerNow, fixed' = fixed,
         \A g \in Handles \ {h} :
           /\ at'[g] = at[g] /\ interval'[g] = interval[g] /\ revision'[g] = revision[g]
           /\ local'[g] = local[g] /\ timer'[g] = timer[g] /\ base'[g] = base[g],
         DelayInv(h)',
         \/ taskNames' = taskNames /\ dynamic' = dynamic /\ (Owns(h)' => Owns(h))
         \/ /\ NameOf[h] \notin taskNames
            /\ taskNames' = taskNames \cup {NameOf[h]} /\ dynamic' = [dynamic EXCEPT ![NameOf[h]] = h]
         \/ /\ Owns(h) /\ ~Owns(h)'
            /\ taskNames' = taskNames \ {NameOf[h]} /\ dynamic' = [dynamic EXCEPT ![NameOf[h]] = NoHandle]
  PROVE  SchedulerInv'
<1>1. \A g \in Handles : NameOf[g] \in Names
  BY InProcessAssumption DEF Tasks!SchedulerAssumption
<1>2. \A g \in Handles : DelayInv(g)'
  BY DEF SchedulerInv, DelayInv
<1>3. \A g \in Handles \ {h} : Owns(g)' <=> Owns(g)
  BY DEF Owns
<1>4. CASE taskNames' = taskNames /\ dynamic' = dynamic /\ (Owns(h)' => Owns(h))
  BY <1>2, <1>3, <1>4 DEF SchedulerInv, OwnersNamed, NamesApart
<1>5. CASE /\ NameOf[h] \notin taskNames
           /\ taskNames' = taskNames \cup {NameOf[h]} /\ dynamic' = [dynamic EXCEPT ![NameOf[h]] = h]
  <2>1. /\ dynamic'[NameOf[h]] = h
        /\ \A n \in Names \ {NameOf[h]} : dynamic'[n] = dynamic[n] /\ (n \in taskNames' <=> n \in taskNames)
    BY <1>1, <1>5 DEF SchedulerInv, SchedulerTypeOK
  <2>2. OwnersNamed'
    BY <1>1, <1>3, <1>5, <2>1 DEF SchedulerInv, OwnersNamed
  <2>3. NamesApart'
    BY <1>1, <1>5, <2>1 DEF SchedulerInv, NamesApart
  <2>4. QED
    BY <1>2, <2>2, <2>3 DEF SchedulerInv
<1>6. CASE /\ Owns(h) /\ ~Owns(h)'
           /\ taskNames' = taskNames \ {NameOf[h]} /\ dynamic' = [dynamic EXCEPT ![NameOf[h]] = NoHandle]
  <2>1. /\ dynamic'[NameOf[h]] = NoHandle /\ dynamic[NameOf[h]] = h
        /\ \A n \in Names \ {NameOf[h]} : dynamic'[n] = dynamic[n] /\ (n \in taskNames' <=> n \in taskNames)
    BY <1>1, <1>6 DEF SchedulerInv, SchedulerTypeOK, OwnersNamed
  <2>2. OwnersNamed'
    BY <1>1, <1>3, <1>6, <2>1 DEF SchedulerInv, OwnersNamed
  <2>3. NamesApart'
    <3>1. h # NoHandle
      BY InProcessAssumption DEF Tasks!SchedulerAssumption
    <3>2. QED
      BY <1>1, <1>6, <2>1, <3>1 DEF SchedulerInv, NamesApart
  <2>4. QED
    BY <1>2, <2>2, <2>3 DEF SchedulerInv
<1>7. QED
  BY <1>4, <1>5, <1>6
\* What a step on the handle h leaves alone.
OthersKept(h) ==
  /\ schedulerNow' = schedulerNow /\ fixed' = fixed
  /\ \A g \in Handles \ {h} :
       /\ at'[g] = at[g] /\ interval'[g] = interval[g] /\ revision'[g] = revision[g]
       /\ local'[g] = local[g] /\ timer'[g] = timer[g] /\ base'[g] = base[g]

\* Stop and TriggerNow do not touch what the runner waits for.
LEMMA Signals ==
  ASSUME SchedulerInv, NEW h \in Handles, Tasks!Stop(h) \/ Tasks!TriggerNow(h)
  PROVE  SchedulerInv' /\ DelayStep
<1> USE DEF Tasks!Stop, Tasks!TriggerNow, Tasks!notify, Tasks!Goto, Tasks!handle, Tasks!runner, Tasks!history
<1>1. SchedulerTypeOK' /\ OthersKept(h)
  BY DEF SchedulerInv, SchedulerTypeOK, OthersKept, RunnerPlaces
<1>2. DelayInv(h)'
  BY DEF SchedulerInv, SchedulerTypeOK, DelayInv
<1>3. taskNames' = taskNames /\ dynamic' = dynamic /\ (Owns(h)' => Owns(h))
  BY DEF SchedulerInv, SchedulerTypeOK, Owns
<1>4. DelayStep
  BY <1>1 DEF SchedulerInv, SchedulerTypeOK, DelayStep, OthersKept
<1>5. QED
  BY <1>1, <1>2, <1>3, <1>4, HandleStep DEF OthersKept

\* A change of the interval is a revision that the runner has not read.
LEMMA Changes ==
  ASSUME SchedulerInv, NEW h \in Handles, NEW delay \in Intervals, Tasks!SetInterval(h, delay)
  PROVE  SchedulerInv' /\ DelayStep
<1> USE InProcessAssumption DEF Tasks!SchedulerAssumption, Tasks!SetInterval, Tasks!notify, Tasks!Goto, Tasks!handle, Tasks!runner, Tasks!history
<1>1. SchedulerTypeOK' /\ OthersKept(h)
  BY DEF SchedulerInv, SchedulerTypeOK, OthersKept, RunnerPlaces
<1>2. DelayInv(h)'
  BY DEF SchedulerInv, SchedulerTypeOK, DelayInv
<1>3. taskNames' = taskNames /\ dynamic' = dynamic /\ (Owns(h)' => Owns(h))
  BY DEF SchedulerInv, SchedulerTypeOK, Owns
<1>4. DelayStep
  BY <1>1 DEF SchedulerInv, SchedulerTypeOK, DelayStep, OthersKept
<1>5. QED
  BY <1>1, <1>2, <1>3, <1>4, HandleStep DEF OthersKept

\* The runner reads the interval and sets its timer.
LEMMA Reads ==
  ASSUME SchedulerInv, NEW h \in Handles, Tasks!Top(h) \/ Tasks!Arm(h)
  PROVE  SchedulerInv' /\ DelayStep
<1> USE DEF Tasks!Top, Tasks!Read, Tasks!Arm, Tasks!Goto, Tasks!handle, Tasks!runner, Tasks!history
<1>1. SchedulerTypeOK' /\ OthersKept(h)
  <2>1. CASE Tasks!Top(h)
    <3>1. Tasks!Read(h) \in [interval : Nat, revision : Nat, trigger : BOOLEAN]
      BY DEF SchedulerInv, SchedulerTypeOK
    <3>2. local' \in [Handles -> [interval : Nat, revision : Nat, trigger : BOOLEAN]]
      BY <2>1, <3>1 DEF SchedulerInv, SchedulerTypeOK
    <3>3. at' \in [Handles -> RunnerPlaces] /\ trigger' \in [Handles -> BOOLEAN]
      BY <2>1 DEF SchedulerInv, SchedulerTypeOK, RunnerPlaces
    <3>4. QED
      BY <2>1, <3>2, <3>3 DEF SchedulerInv, SchedulerTypeOK, OthersKept
  <2>2. CASE Tasks!Arm(h)
    <3>1. at' \in [Handles -> RunnerPlaces]
      BY <2>2 DEF SchedulerInv, SchedulerTypeOK, RunnerPlaces
    <3>2. timer' \in [Handles -> Nat]
      BY <2>2 DEF SchedulerInv, SchedulerTypeOK
    <3>3. QED
      BY <2>2, <3>1, <3>2 DEF SchedulerInv, SchedulerTypeOK, OthersKept
  <2>3. QED
    BY <2>1, <2>2
<1>2. DelayInv(h)'
  BY DEF SchedulerInv, SchedulerTypeOK, DelayInv
<1>3. taskNames' = taskNames /\ dynamic' = dynamic /\ (Owns(h)' => Owns(h))
  BY DEF SchedulerInv, SchedulerTypeOK, Owns
<1>4. DelayStep
  BY <1>1 DEF SchedulerInv, SchedulerTypeOK, DelayStep, OthersKept
<1>5. QED
  BY <1>1, <1>2, <1>3, <1>4, HandleStep DEF OthersKept

\* The select, and the section after the timer.
LEMMA Wakes ==
  ASSUME SchedulerInv, NEW h \in Handles, Tasks!Select(h) \/ Tasks!Fired(h)
  PROVE  SchedulerInv' /\ DelayStep
<1> USE DEF Tasks!Select, Tasks!Fired, Tasks!Changed, Tasks!Goto, Tasks!handle, Tasks!runner, Tasks!history
<1>1. SchedulerTypeOK' /\ OthersKept(h)
  <2>1. at' \in [Handles -> RunnerPlaces] /\ \A g \in Handles \ {h} : at'[g] = at[g]
    BY DEF SchedulerInv, SchedulerTypeOK, RunnerPlaces
  <2>2. timer' \in [Handles -> Nat] /\ \A g \in Handles \ {h} : timer'[g] = timer[g]
    BY DEF SchedulerInv, SchedulerTypeOK
  <2>3. trigger' \in [Handles -> BOOLEAN]
    BY DEF SchedulerInv, SchedulerTypeOK
  <2>4. UNCHANGED <<schedulerNow, fixed, taskNames, dynamic, interval, revision, local, base>>
    OBVIOUS
  <2>5. QED
    BY <2>1, <2>2, <2>3, <2>4 DEF SchedulerInv, SchedulerTypeOK, OthersKept
<1>2. DelayInv(h)'
  BY DEF SchedulerInv, SchedulerTypeOK, DelayInv
<1>3. taskNames' = taskNames /\ dynamic' = dynamic /\ (Owns(h)' => Owns(h))
  BY DEF SchedulerInv, SchedulerTypeOK, Owns
<1>4. DelayStep
  BY <1>1 DEF SchedulerInv, SchedulerTypeOK, DelayStep, OthersKept, DelayInv
<1>5. QED
  BY <1>1, <1>2, <1>3, <1>4, HandleStep DEF OthersKept

\* The invocation.
LEMMA Invokes ==
  ASSUME SchedulerInv, NEW h \in Handles, Tasks!Invoke(h) \/ Tasks!Return(h)
  PROVE  SchedulerInv' /\ DelayStep
<1> USE DEF Tasks!Invoke, Tasks!Return, Tasks!Nothing, Tasks!Goto, Tasks!handle, Tasks!runner, Tasks!history
<1>1. SchedulerTypeOK' /\ OthersKept(h)
  <2>1. at' \in [Handles -> RunnerPlaces] /\ \A g \in Handles \ {h} : at'[g] = at[g]
    BY DEF SchedulerInv, SchedulerTypeOK, RunnerPlaces
  <2>2. /\ local' \in [Handles -> [interval : Nat, revision : Nat, trigger : BOOLEAN]]
        /\ \A g \in Handles \ {h} : local'[g] = local[g]
    <3>1. PICK r : r = Tasks!Nothing
      OBVIOUS
    <3>2. r \in [interval : Nat, revision : Nat, trigger : BOOLEAN]
      BY <3>1
    <3>3. CASE Tasks!Invoke(h)
      <4>1. local' = [local EXCEPT ![h] = r]
        BY <3>1, <3>3
      <4>2. QED
        BY <3>2, <4>1 DEF SchedulerInv, SchedulerTypeOK
    <3>4. CASE Tasks!Return(h)
      <4>1. local' = local
        BY <3>4
      <4>2. QED
        BY <4>1 DEF SchedulerInv, SchedulerTypeOK
    <3>5. QED
      BY <3>3, <3>4
  <2>3. base' \in [Handles -> Nat] /\ \A g \in Handles \ {h} : base'[g] = base[g]
    BY DEF SchedulerInv, SchedulerTypeOK
  <2>4. UNCHANGED <<schedulerNow, fixed, taskNames, dynamic, interval, revision, trigger, timer>>
    OBVIOUS
  <2>5. QED
    BY <2>1, <2>2, <2>3, <2>4 DEF SchedulerInv, SchedulerTypeOK, OthersKept
<1>2. DelayInv(h)'
  BY DEF SchedulerInv, SchedulerTypeOK, DelayInv
<1>3. taskNames' = taskNames /\ dynamic' = dynamic /\ (Owns(h)' => Owns(h))
  BY DEF SchedulerInv, SchedulerTypeOK, Owns
<1>4. DelayStep
  BY <1>1 DEF SchedulerInv, SchedulerTypeOK, DelayStep, OthersKept
<1>5. QED
  BY <1>1, <1>2, <1>3, <1>4, HandleStep DEF OthersKept

\* The runner ends.
LEMMA Leaves ==
  ASSUME SchedulerInv, NEW h \in Handles, Tasks!Leave(h) \/ Tasks!CloseDone(h)
  PROVE  SchedulerInv' /\ DelayStep
<1> USE DEF Tasks!Leave, Tasks!CloseDone, Tasks!Goto, Tasks!handle, Tasks!runner, Tasks!history
<1>1. SchedulerTypeOK' /\ OthersKept(h)
  BY DEF SchedulerInv, SchedulerTypeOK, OthersKept, RunnerPlaces
<1>2. DelayInv(h)'
  BY DEF SchedulerInv, SchedulerTypeOK, DelayInv
<1>3. taskNames' = taskNames /\ dynamic' = dynamic /\ (Owns(h)' => Owns(h))
  BY DEF SchedulerInv, SchedulerTypeOK, Owns
<1>4. DelayStep
  BY <1>1 DEF SchedulerInv, SchedulerTypeOK, DelayStep, OthersKept
<1>5. QED
  BY <1>1, <1>2, <1>3, <1>4, HandleStep DEF OthersKept

\* The name is given back.
LEMMA Deletes ==
  ASSUME SchedulerInv, NEW h \in Handles, Tasks!Delete(h)
  PROVE  SchedulerInv' /\ DelayStep
<1> USE DEF Tasks!Delete, Tasks!Goto, Tasks!handle, Tasks!runner, Tasks!history
<1>1. SchedulerTypeOK' /\ OthersKept(h)
  BY DEF SchedulerInv, SchedulerTypeOK, OthersKept, RunnerPlaces
<1>2. DelayInv(h)'
  BY DEF SchedulerInv, SchedulerTypeOK, DelayInv
<1>3. /\ Owns(h) /\ ~Owns(h)'
      /\ taskNames' = taskNames \ {NameOf[h]} /\ dynamic' = [dynamic EXCEPT ![NameOf[h]] = NoHandle]
  BY DEF SchedulerInv, SchedulerTypeOK, Owns
<1>4. DelayStep
  BY <1>1 DEF SchedulerInv, SchedulerTypeOK, DelayStep, OthersKept
<1>5. QED
  BY <1>1, <1>2, <1>3, <1>4, HandleStep DEF OthersKept

\* A handle starts under a free name.
LEMMA Starts ==
  ASSUME SchedulerInv, NEW h \in Handles, NEW delay \in Intervals, Tasks!StartTask(h, delay)
  PROVE  SchedulerInv' /\ DelayStep
<1> USE InProcessAssumption DEF Tasks!SchedulerAssumption, Tasks!StartTask, Tasks!MayStart, Tasks!Goto, Tasks!handle, Tasks!runner, Tasks!history
<1>1. SchedulerTypeOK' /\ OthersKept(h)
  <2>1. NameOf[h] \in Names /\ delay \in Nat
    OBVIOUS
  <2>2. at' \in [Handles -> RunnerPlaces] /\ \A g \in Handles \ {h} : at'[g] = at[g]
    BY DEF SchedulerInv, SchedulerTypeOK, RunnerPlaces
  <2>3. taskNames' \subseteq Names /\ dynamic' \in [Names -> Handles \cup {NoHandle}]
    BY <2>1 DEF SchedulerInv, SchedulerTypeOK
  <2>4. /\ base' \in [Handles -> Nat] /\ interval' \in [Handles -> Nat]
        /\ \A g \in Handles \ {h} : base'[g] = base[g] /\ interval'[g] = interval[g]
    BY <2>1 DEF SchedulerInv, SchedulerTypeOK
  <2>5. UNCHANGED <<schedulerNow, fixed, local, revision, trigger, timer>>
    OBVIOUS
  <2>6. QED
    BY <2>2, <2>3, <2>4, <2>5 DEF SchedulerInv, SchedulerTypeOK, OthersKept
<1>2. DelayInv(h)'
  BY DEF SchedulerInv, SchedulerTypeOK, DelayInv
<1>3. /\ NameOf[h] \notin taskNames
      /\ taskNames' = taskNames \cup {NameOf[h]} /\ dynamic' = [dynamic EXCEPT ![NameOf[h]] = h]
  BY DEF SchedulerInv, SchedulerTypeOK, Owns
<1>4. DelayStep
  BY <1>1 DEF SchedulerInv, SchedulerTypeOK, DelayStep, OthersKept
<1>5. QED
  BY <1>1, <1>2, <1>3, <1>4, HandleStep DEF OthersKept

\* Time passes.
LEMMA TimePasses ==
  ASSUME SchedulerInv, Tasks!Tick
  PROVE  SchedulerInv' /\ DelayStep
<1>1. /\ UNCHANGED <<dynamic, taskNames, fixed, at, interval, revision, trigger, local, timer, base>>
      /\ schedulerNow \in Nat /\ schedulerNow' = schedulerNow + 1
  BY DEF Tasks!Tick, Tasks!handle, Tasks!runner, Tasks!history, SchedulerInv, SchedulerTypeOK
<1>2. SchedulerTypeOK' /\ OwnersNamed' /\ NamesApart'
  BY <1>1 DEF SchedulerInv, SchedulerTypeOK, OwnersNamed, NamesApart, Owns
<1>3. \A h \in Handles : DelayInv(h)'
  BY <1>1 DEF SchedulerInv, SchedulerTypeOK, DelayInv
<1>4. QED
  BY <1>1, <1>2, <1>3 DEF SchedulerInv, DelayStep

\* What every step keeps.
LEMMA StepKeepsScheduler ==
  ASSUME SchedulerInv, [Tasks!Next]_(Tasks!vars)
  PROVE  SchedulerInv' /\ (DelayStep \/ UNCHANGED Tasks!vars)
<1>1. CASE UNCHANGED Tasks!vars
  BY <1>1 DEF Tasks!vars, SchedulerInv, SchedulerTypeOK, OwnersNamed, NamesApart, Owns, DelayInv
<1>2. CASE Tasks!Next
  BY <1>2, FixedSteps, Signals, Changes, Reads, Wakes, Invokes, Leaves, Deletes, Starts, TimePasses
  DEF Tasks!Next, Tasks!runDynamicTask
<1>3. QED
  BY <1>1, <1>2

\* The inductive invariant of the scheduler: who owns which name, and what the timer of a
\* runner is set for.
THEOREM SchedulerInvariant == Tasks!Spec => []SchedulerInv
<1>1. Tasks!Init => SchedulerInv
  <2>1. SUFFICES ASSUME Tasks!Init  PROVE SchedulerInv
    OBVIOUS
  <2>2. SchedulerTypeOK
    BY <2>1 DEF Tasks!Init, Tasks!Nothing, SchedulerTypeOK, RunnerPlaces
  <2>3. OwnersNamed /\ NamesApart
    BY <2>1 DEF Tasks!Init, OwnersNamed, NamesApart, Owns
  <2>4. \A h \in Handles : DelayInv(h)
    BY <2>1 DEF Tasks!Init, Tasks!Nothing, DelayInv
  <2>5. QED
    BY <2>2, <2>3, <2>4 DEF SchedulerInv
<1>2. SchedulerInv /\ [Tasks!Next]_(Tasks!vars) => SchedulerInv'
  BY StepKeepsScheduler
<1>3. QED
  BY <1>1, <1>2, PTL DEF Tasks!Spec

\* Two invocations under one name never overlap, and one that no trigger asked for waits
\* its whole delay, also when SetInterval meets the timer.
THEOREM InvocationsCorrect == Tasks!Spec => InvocationsApart
<1>1. SchedulerInv => Tasks!NoOverlap
  <2>1. SUFFICES ASSUME SchedulerInv  PROVE Tasks!NoOverlap
    OBVIOUS
  <2>2. \A h \in Handles : NameOf[h] \in Names /\ h # NoHandle
    BY InProcessAssumption DEF Tasks!SchedulerAssumption
  <2>3. \A h \in Handles : at[h] = "invoking" => dynamic[NameOf[h]] = h
    BY <2>1 DEF SchedulerInv, OwnersNamed, Owns
  <2>4. \A n \in Names : fixed[n] = "invoking" => dynamic[n] = NoHandle
    BY <2>1 DEF SchedulerInv, NamesApart
  <2>5. QED
    BY <2>2, <2>3, <2>4 DEF Tasks!NoOverlap
<1>2. SchedulerInv /\ [Tasks!Next]_(Tasks!vars) => [DelayStep]_(Tasks!vars)
  BY StepKeepsScheduler
<1>3. QED
  BY <1>1, <1>2, SchedulerInvariant, PTL DEF Tasks!Spec, InvocationsApart, Tasks!DelayRespected, DelayStep

(***************************************************************************)
(* CronSchedule: the search jumps over no occurrence, for any calendar,    *)
(* any expression and any location whose offsets are as ZoneOK says.       *)
(***************************************************************************)
CronSpec == CronInit /\ [][CronNext]_cronVars

\* A set of natural numbers that is not empty has a least member.
LEMMA Least ==
  ASSUME NEW S \in SUBSET Nat, S # {}
  PROVE  \E m \in S : \A n \in S : m <= n
<1>1. IsWellFoundedOn({ss \in Nat \X Nat : ss[1] < ss[2]}, Nat)
  BY NatLessThanWellFounded DEF OpToRel
<1>2. PICK R : R = {ss \in Nat \X Nat : ss[1] < ss[2]} /\ IsWellFoundedOn(R, Nat)
  BY <1>1
<1>3. PICK m \in S : \A n \in S : ~(<<n, m>> \in R)
  BY <1>2, WFMin
<1>4. \A n \in S : ~(n < m)
  <2>1. \A n \in Nat, k \in Nat : n < k => <<n, k>> \in R
    BY <1>2
  <2>2. QED
    BY <1>3, <2>1
<1>5. QED
  BY <1>4

\* Quotient and remainder, whatever the divisor.
LEMMA Divides ==
  ASSUME NEW n \in Nat, NEW d \in Nat \ {0}
  PROVE  /\ n \div d \in Nat /\ n % d \in 0 .. d - 1 /\ n % d \in Nat
         /\ d * (n \div d) \in Nat /\ n = d * (n \div d) + (n % d)
<1>1. PICK q : q = n \div d
  OBVIOUS
<1>2. q \in Nat /\ n % d \in 0 .. d - 1 /\ n = d * q + (n % d)
  BY <1>1
<1>3. d * q \in Nat
  BY <1>2
<1>4. QED
  BY <1>1, <1>2, <1>3

\* A product grows by the factor's step.
LEMMA NextMultiple ==
  ASSUME NEW a \in Int, NEW b \in Int
  PROVE  a * b \in Int /\ b * a = a * b /\ (a + 1) * b = a * b + b /\ b * (a + 1) = a * b + b
OBVIOUS

\* A product is monotone in each factor.
LEMMA Multiples ==
  ASSUME NEW a \in Int, NEW b \in Int, NEW d \in Nat, a <= b
  PROVE  a * d <= b * d /\ a * d \in Int /\ b * d \in Int
OBVIOUS

\* The quotient of everything between two multiples lies between them.
LEMMA QuotientBetween ==
  ASSUME NEW n \in Nat, NEW d \in Nat \ {0}, NEW low \in Nat, NEW high \in Nat, low * d <= n, n < high * d
  PROVE  low <= n \div d /\ n \div d < high
<1>1. PICK q \in Nat, r \in Nat, p \in Nat : q = n \div d /\ r = n % d /\ p = d * q /\ n = p + r /\ r < d
  <2>1. n \div d \in Nat /\ n % d \in 0 .. d - 1 /\ d * (n \div d) \in Nat /\ n = d * (n \div d) + (n % d)
    BY Divides
  <2>2. QED
    BY <2>1
<1>2. p = q * d
  BY <1>1, NextMultiple
<1>3. ASSUME q < low PROVE FALSE
  <2>1. (q + 1) * d <= low * d /\ (q + 1) * d \in Int /\ low * d \in Int
    BY <1>3, Multiples
  <2>2. (q + 1) * d = p + d
    BY <1>2, NextMultiple
  <2>3. QED
    BY <1>1, <2>1, <2>2
<1>4. ASSUME high <= q PROVE FALSE
  <2>1. high * d <= q * d /\ high * d \in Int
    BY <1>4, Multiples
  <2>2. QED
    BY <1>1, <1>2, <2>1
<1>5. QED
  BY <1>1, <1>3, <1>4

\* So all numbers from n to the next multiple have n's quotient.
LEMMA SameQuotient ==
  ASSUME NEW n \in Nat, NEW d \in Nat \ {0}, NEW t \in Nat, n <= t, t < (n \div d + 1) * d
  PROVE  t \div d = n \div d
<1>1. PICK q \in Nat : q = n \div d
  BY Divides
<1>2. q * d <= n
  BY <1>1, Divides, NextMultiple
<1>3. q * d \in Int
  BY NextMultiple
<1>4. q * d <= t
  BY <1>2, <1>3
<1>5. q <= t \div d /\ t \div d < q + 1 /\ t \div d \in Nat
  BY <1>1, <1>4, QuotientBetween, Divides
<1>6. QED
  BY <1>1, <1>5

\* The sizes of the calendar.
LEMMA CalendarSizes ==
  /\ MinutesPerHour \in Nat \ {0} /\ HoursPerDay \in Nat \ {0} /\ DaysPerWeek \in Nat \ {0}
  /\ MonthsPerYear \in Nat \ {0} /\ SearchMinutes \in Nat \ {0} /\ MinutesPerDay \in Nat \ {0}
  /\ Len(MonthLengths) \in Nat \ {0}
  /\ \A m \in 1 .. Len(MonthLengths) : MonthLengths[m] \in Nat \ {0}
<1>1. /\ MinutesPerHour \in Nat \ {0} /\ HoursPerDay \in Nat \ {0} /\ DaysPerWeek \in Nat \ {0}
      /\ MonthsPerYear \in Nat \ {0} /\ SearchMinutes \in Nat \ {0}
  BY CronAssumption
<1>2. \A a \in Nat \ {0}, b \in Nat \ {0} : a * b \in Nat \ {0}
  OBVIOUS
<1>3. MinutesPerDay \in Nat \ {0}
  BY <1>1, <1>2 DEF MinutesPerDay
<1>4. Len(MonthLengths) \in Nat \ {0} /\ \A m \in 1 .. Len(MonthLengths) : MonthLengths[m] \in Nat \ {0}
  BY CronAssumption
<1>5. QED
  BY <1>1, <1>3, <1>4

\* f counts the days before each of the first n months.
Counts(n, f) == f = [m \in 1 .. n |-> IF m = 1 THEN 0 ELSE f[m - 1] + MonthLengths[m - 1]]

\* Such a count exists, as far as the calendar goes.
LEMMA CountExists ==
  ASSUME NEW len \in Nat
  PROVE  \E f : Counts(len, f)
<1>1. PICK T : T = {n \in Nat : ~ \E f : Counts(n, f)}
  OBVIOUS
<1>2. SUFFICES ASSUME T # {}  PROVE FALSE
  BY <1>1
<1>3. T \in SUBSET Nat
  BY <1>1
<1>4. PICK n \in T : \A k \in T : n <= k
  BY <1>2, <1>3, Least
<1>5. n \in Nat /\ ~ \E f : Counts(n, f)
  BY <1>1, <1>4
<1>6. CASE n = 0
  <2>1. PICK f : f = [m \in 1 .. 0 |-> 0]
    OBVIOUS
  <2>2. Counts(0, f)
    BY <2>1 DEF Counts
  <2>3. QED
    BY <1>5, <1>6, <2>2
<1>7. CASE n # 0
  <2>1. n - 1 \in Nat /\ n - 1 \notin T
    BY <1>4, <1>5, <1>7
  <2>2. PICK g : Counts(n - 1, g)
    BY <1>1, <2>1
  <2>3. PICK last : last = IF n = 1 THEN 0 ELSE g[n - 1] + MonthLengths[n - 1]
    OBVIOUS
  <2>4. PICK f : f = [m \in 1 .. n |-> IF m = n THEN last ELSE g[m]]
    OBVIOUS
  <2>5. ASSUME NEW m \in 1 .. n  PROVE f[m] = IF m = 1 THEN 0 ELSE f[m - 1] + MonthLengths[m - 1]
    <3>1. m # 1 => m - 1 \in 1 .. n /\ m - 1 # n /\ f[m - 1] = g[m - 1]
      BY <1>5, <2>4
    <3>2. CASE m = n
      BY <2>3, <2>4, <3>1, <3>2
    <3>3. CASE m # n
      <4>1. m \in 1 .. n - 1 /\ f[m] = g[m]
        BY <1>5, <2>4, <3>3
      <4>2. g[m] = IF m = 1 THEN 0 ELSE g[m - 1] + MonthLengths[m - 1]
        BY <2>2, <4>1 DEF Counts
      <4>3. QED
        BY <3>1, <4>1, <4>2
    <3>4. QED
      BY <3>2, <3>3
  <2>6. Counts(n, f)
    <3>1. f = [m \in 1 .. n |-> f[m]]
      BY <2>4
    <3>2. QED
      BY <2>5, <3>1 DEF Counts
  <2>7. QED
    BY <1>5, <2>6
<1>8. QED
  BY <1>6, <1>7

\* The days before a month: none before the first, and each month adds its own.
LEMMA DaysAdd ==
  /\ DaysBefore[1] = 0
  /\ \A m \in 1 .. Len(MonthLengths) : DaysBefore[m + 1] = DaysBefore[m] + MonthLengths[m]
<1>1. Counts(Len(MonthLengths) + 1, DaysBefore)
  <2>1. \E f : Counts(Len(MonthLengths) + 1, f)
    BY CountExists, CalendarSizes
  <2>2. QED
    BY <2>1 DEF Counts, DaysBefore
<1>2. \A m \in 1 .. Len(MonthLengths) + 1 : DaysBefore[m] = IF m = 1 THEN 0 ELSE DaysBefore[m - 1] + MonthLengths[m - 1]
  BY <1>1 DEF Counts
<1>3. DaysBefore[1] = 0
  BY <1>2, CalendarSizes
<1>4. ASSUME NEW m \in 1 .. Len(MonthLengths) PROVE DaysBefore[m + 1] = DaysBefore[m] + MonthLengths[m]
  <2>1. m + 1 \in 1 .. Len(MonthLengths) + 1 /\ m + 1 # 1 /\ (m + 1) - 1 = m
    BY CalendarSizes
  <2>2. QED
    BY <1>2, <2>1
<1>5. QED
  BY <1>3, <1>4

\* Later months have more days before them.
LEMMA DaysGrow ==
  /\ \A m \in 1 .. Len(MonthLengths) + 1 : DaysBefore[m] \in Nat
  /\ \A m \in 1 .. Len(MonthLengths) + 1 : \A k \in 1 .. m : DaysBefore[k] <= DaysBefore[m]
<1>1. PICK T : T = {m \in 1 .. Len(MonthLengths) + 1 :
                      ~(DaysBefore[m] \in Nat /\ \A k \in 1 .. m : DaysBefore[k] <= DaysBefore[m])}
  OBVIOUS
<1>2. SUFFICES ASSUME T # {}  PROVE FALSE
  BY <1>1
<1>3. T \in SUBSET Nat
  BY <1>1
<1>4. PICK m \in T : \A k \in T : m <= k
  BY <1>2, <1>3, Least
<1>5. m \in 1 .. Len(MonthLengths) + 1 /\ ~(DaysBefore[m] \in Nat /\ \A k \in 1 .. m : DaysBefore[k] <= DaysBefore[m])
  BY <1>1, <1>4
<1>6. CASE m = 1
  BY <1>5, <1>6, DaysAdd
<1>7. CASE m # 1
  <2>1. m - 1 \in 1 .. Len(MonthLengths) /\ m - 1 \notin T
    BY <1>4, <1>5, <1>7, CalendarSizes
  <2>2. DaysBefore[m - 1] \in Nat /\ \A k \in 1 .. m - 1 : DaysBefore[k] <= DaysBefore[m - 1]
    BY <1>1, <2>1, CalendarSizes
  <2>3. (m - 1) + 1 = m
    BY <1>5
  <2>4. DaysBefore[m] = DaysBefore[m - 1] + MonthLengths[m - 1] /\ MonthLengths[m - 1] \in Nat
    BY <2>1, <2>3, DaysAdd, CalendarSizes
  <2>5. DaysBefore[m] \in Nat /\ DaysBefore[m - 1] <= DaysBefore[m]
    BY <2>2, <2>4
  <2>6. ASSUME NEW k \in 1 .. m PROVE DaysBefore[k] <= DaysBefore[m]
    <3>1. CASE k = m
      BY <2>5, <3>1
    <3>2. CASE k # m
      <4>1. k \in 1 .. m - 1
        BY <1>5, <3>2
      <4>2. k \in 1 .. Len(MonthLengths) + 1 /\ k < m /\ k \notin T
        BY <1>4, <1>5, <4>1
      <4>3. DaysBefore[k] \in Nat
        BY <1>1, <4>2
      <4>4. QED
        BY <2>2, <2>5, <4>1, <4>3
    <3>3. QED
      BY <3>1, <3>2
  <2>7. QED
    BY <1>5, <2>5, <2>6
<1>8. QED
  BY <1>6, <1>7

\* One of the first n months is the longest of them.
LEMMA LongestExists ==
  ASSUME NEW len \in 1 .. Len(MonthLengths)
  PROVE  \E m \in 1 .. len : \A k \in 1 .. len : MonthLengths[k] <= MonthLengths[m]
<1> DEFINE Topped(n) == \E m \in 1 .. n : \A k \in 1 .. n : MonthLengths[k] <= MonthLengths[m]
<1>1. PICK T : T = {n \in 1 .. Len(MonthLengths) : ~ Topped(n)}
  OBVIOUS
<1>2. SUFFICES ASSUME T # {}  PROVE FALSE
  BY <1>1
<1>3. T \in SUBSET Nat
  BY <1>1
<1>4. PICK n \in T : \A k \in T : n <= k
  BY <1>2, <1>3, Least
<1>5. n \in 1 .. Len(MonthLengths) /\ ~ Topped(n)
  BY <1>1, <1>4
<1>6. CASE n = 1
  BY <1>5, <1>6, CalendarSizes
<1>7. CASE n # 1
  <2>1. n - 1 \in 1 .. Len(MonthLengths) /\ n - 1 \notin T
    BY <1>4, <1>5, <1>7, CalendarSizes
  <2>2. PICK m \in 1 .. n - 1 : \A k \in 1 .. n - 1 : MonthLengths[k] <= MonthLengths[m]
    BY <1>1, <2>1
  <2>3. \A k \in 1 .. n : k \in 1 .. Len(MonthLengths) /\ (k = n \/ k \in 1 .. n - 1)
    BY <1>5, CalendarSizes
  <2>4. \A k \in 1 .. n : MonthLengths[k] \in Nat
    BY <2>3, CalendarSizes
  <2>5. MonthLengths[m] \in Nat /\ MonthLengths[n] \in Nat /\ m \in 1 .. n /\ n \in 1 .. n
    <3>1. m \in 1 .. n /\ n \in 1 .. n
      BY <1>5, <2>2
    <3>2. QED
      BY <2>4, <3>1
  <2>6. CASE MonthLengths[n] <= MonthLengths[m]
    BY <1>5, <2>2, <2>3, <2>5, <2>6
  <2>7. CASE MonthLengths[m] <= MonthLengths[n]
    <3>1. \A k \in 1 .. n : MonthLengths[k] <= MonthLengths[n]
      BY <2>2, <2>3, <2>4, <2>5, <2>7
    <3>2. QED
      BY <1>5, <2>5, <3>1
  <2>8. QED
    BY <2>5, <2>6, <2>7
<1>8. QED
  BY <1>6, <1>7

\* LongestMonth bounds every month.
LEMMA LongestIs ==
  /\ LongestMonth \in Nat \ {0}
  /\ \A m \in 1 .. Len(MonthLengths) : MonthLengths[m] <= LongestMonth
<1>1. DOMAIN MonthLengths = 1 .. Len(MonthLengths)
  BY CronAssumption
<1>2. \A n \in Range(MonthLengths) : \E m \in 1 .. Len(MonthLengths) : n = MonthLengths[m]
  BY <1>1 DEF Range
<1>3. \A m \in 1 .. Len(MonthLengths) : MonthLengths[m] \in Range(MonthLengths)
  BY <1>1 DEF Range
<1>4. PICK m \in 1 .. Len(MonthLengths) : \A k \in 1 .. Len(MonthLengths) : MonthLengths[k] <= MonthLengths[m]
  <2>1. Len(MonthLengths) \in 1 .. Len(MonthLengths)
    BY CalendarSizes
  <2>2. QED
    BY <2>1, LongestExists
<1>5. \E n \in Range(MonthLengths) : \A k \in Range(MonthLengths) : k <= n
  BY <1>2, <1>3, <1>4
<1>6. LongestMonth \in Range(MonthLengths) /\ \A k \in Range(MonthLengths) : k <= LongestMonth
  BY <1>5 DEF LongestMonth
<1>7. QED
  BY <1>2, <1>3, <1>6, CalendarSizes

\* The day of t lies in its month, which is the only one.
LEMMA MonthFound ==
  ASSUME NEW t \in Nat, t < Horizon
  PROVE  /\ MonthIndex(t) \in 1 .. Len(MonthLengths)
         /\ DaysBefore[MonthIndex(t)] <= t \div MinutesPerDay
         /\ t \div MinutesPerDay < DaysBefore[MonthIndex(t) + 1]
<1>1. PICK n \in Nat : n = Len(MonthLengths) /\ n >= 1
  BY CalendarSizes
<1>2. PICK d \in Nat : d = t \div MinutesPerDay
  BY Divides, CalendarSizes
<1>3. d < DaysBefore[n + 1]
  <2>1. DaysBefore[n + 1] \in Nat /\ t < DaysBefore[n + 1] * MinutesPerDay
    BY <1>1, DaysGrow DEF Horizon
  <2>2. 0 * MinutesPerDay <= t
    BY CalendarSizes
  <2>3. QED
    BY <1>2, <2>1, <2>2, QuotientBetween, CalendarSizes
<1>4. PICK T : T = {k \in 1 .. n + 1 : d < DaysBefore[k]}
  OBVIOUS
<1>5. T \in SUBSET Nat /\ T # {}
  BY <1>1, <1>3, <1>4
<1>6. PICK k \in T : \A j \in T : k <= j
  BY <1>5, Least
<1>7. k \in 1 .. n + 1 /\ d < DaysBefore[k] /\ k # 1
  BY <1>2, <1>4, <1>6, DaysAdd
<1>8. k - 1 \in 1 .. n /\ k - 1 \notin T /\ (k - 1) + 1 = k
  BY <1>1, <1>6, <1>7
<1>9. DaysBefore[k - 1] <= d
  <2>1. k - 1 \in 1 .. n + 1 /\ DaysBefore[k - 1] \in Nat
    BY <1>1, <1>8, DaysGrow
  <2>2. QED
    BY <1>2, <1>4, <1>8, <2>1
<1>10. \E m \in 1 .. Len(MonthLengths) : DaysBefore[m] <= t \div MinutesPerDay /\ t \div MinutesPerDay < DaysBefore[m + 1]
  BY <1>1, <1>2, <1>7, <1>8, <1>9
<1>11. QED
  BY <1>10 DEF MonthIndex

\* Two times with the days of one month have the same MonthIndex.
LEMMA MonthUnique ==
  ASSUME NEW t \in Nat, t < Horizon, NEW m \in 1 .. Len(MonthLengths),
         DaysBefore[m] <= t \div MinutesPerDay, t \div MinutesPerDay < DaysBefore[m + 1]
  PROVE  MonthIndex(t) = m
<1>1. PICK d \in Nat, n \in Nat : d = t \div MinutesPerDay /\ n = Len(MonthLengths)
  BY Divides, CalendarSizes
<1>2. PICK k \in 1 .. n : k = MonthIndex(t) /\ DaysBefore[k] <= d /\ d < DaysBefore[k + 1]
  BY <1>1, MonthFound
<1>3. k \in 1 .. n + 1 /\ k + 1 \in 1 .. n + 1 /\ m \in 1 .. n + 1 /\ m + 1 \in 1 .. n + 1
  BY <1>1
<1>4. DaysBefore[k] \in Nat /\ DaysBefore[k + 1] \in Nat /\ DaysBefore[m] \in Nat /\ DaysBefore[m + 1] \in Nat
  BY <1>1, <1>3, DaysGrow
<1>5. ASSUME k < m PROVE FALSE
  <2>1. k + 1 \in 1 .. m
    BY <1>3, <1>5
  <2>2. DaysBefore[k + 1] <= DaysBefore[m]
    BY <1>1, <1>3, <2>1, DaysGrow
  <2>3. QED
    BY <1>1, <1>2, <1>4, <2>2
<1>6. ASSUME m < k PROVE FALSE
  <2>1. m + 1 \in 1 .. k
    BY <1>3, <1>6
  <2>2. DaysBefore[m + 1] <= DaysBefore[k]
    BY <1>1, <1>3, <2>1, DaysGrow
  <2>3. QED
    BY <1>1, <1>2, <1>4, <2>2
<1>7. QED
  BY <1>2, <1>3, <1>5, <1>6

\* What the calendar says of a time is a value of the field it is compared with.
LEMMA CalendarRanges ==
  ASSUME NEW t \in Nat, t < Horizon
  PROVE  /\ Minute(t) \in 0 .. MinutesPerHour - 1 /\ Hour(t) \in 0 .. HoursPerDay - 1
         /\ Weekday(t) \in 0 .. DaysPerWeek - 1 /\ Month(t) \in 1 .. MonthsPerYear
         /\ Day(t) \in 1 .. LongestMonth
<1>1. Minute(t) \in 0 .. MinutesPerHour - 1
  BY Divides, CalendarSizes DEF Minute
<1>2. Hour(t) \in 0 .. HoursPerDay - 1
  <2>1. t \div MinutesPerHour \in Nat
    BY Divides, CalendarSizes
  <2>2. QED
    BY <2>1, Divides, CalendarSizes DEF Hour
<1>3. Weekday(t) \in 0 .. DaysPerWeek - 1 /\ t \div MinutesPerDay \in Nat
  <2>1. t \div MinutesPerDay \in Nat
    BY Divides, CalendarSizes
  <2>2. QED
    BY <2>1, Divides, CalendarSizes DEF Weekday
<1>4. PICK m \in 1 .. Len(MonthLengths) :
        m = MonthIndex(t) /\ DaysBefore[m] <= t \div MinutesPerDay /\ t \div MinutesPerDay < DaysBefore[m + 1]
  BY MonthFound
<1>5. Month(t) \in 1 .. MonthsPerYear
  <2>1. m - 1 \in Nat
    BY <1>4, CalendarSizes
  <2>2. (m - 1) % MonthsPerYear \in 0 .. MonthsPerYear - 1
    BY <2>1, Divides, CalendarSizes
  <2>3. QED
    BY <1>4, <2>2, CalendarSizes DEF Month
<1>6. Day(t) \in 1 .. LongestMonth
  <2>1. DaysBefore[m] \in Nat /\ DaysBefore[m + 1] = DaysBefore[m] + MonthLengths[m]
    BY <1>4, DaysGrow, DaysAdd, CalendarSizes
  <2>2. MonthLengths[m] \in Nat /\ MonthLengths[m] <= LongestMonth /\ LongestMonth \in Nat
    BY <1>4, LongestIs, CalendarSizes
  <2>3. QED
    BY <1>3, <1>4, <2>1, <2>2 DEF Day
<1>7. QED
  BY <1>1, <1>2, <1>3, <1>5, <1>6

\* Up to the next full hour the hour is the same.
LEMMA SameHour ==
  ASSUME NEW n \in Nat, NEW t \in Nat, n <= t, t < n + MinutesPerHour - Minute(n)
  PROVE  Hour(t) = Hour(n)
<1>1. PICK q \in Nat, r \in Nat, p \in Nat :
        q = n \div MinutesPerHour /\ r = n % MinutesPerHour /\ p = MinutesPerHour * q /\ n = p + r
  <2>1. /\ n \div MinutesPerHour \in Nat /\ n % MinutesPerHour \in Nat
        /\ MinutesPerHour * (n \div MinutesPerHour) \in Nat
        /\ n = MinutesPerHour * (n \div MinutesPerHour) + (n % MinutesPerHour)
    BY Divides, CalendarSizes
  <2>2. QED
    BY <2>1
<1>2. (q + 1) * MinutesPerHour = p + MinutesPerHour
  BY <1>1, NextMultiple, CalendarSizes
<1>3. t < (q + 1) * MinutesPerHour
  BY <1>1, <1>2, CalendarSizes DEF Minute
<1>4. t \div MinutesPerHour = n \div MinutesPerHour
  BY <1>1, <1>3, SameQuotient, CalendarSizes
<1>5. QED
  BY <1>4 DEF Hour

\* The loop of parseCronField reaches x from a by steps of s.
LEMMA ReachedBySteps ==
  ASSUME NEW a \in Nat, NEW x \in Nat, NEW s \in Nat \ {0}, a <= x
  PROVE  (x - a) % s = 0 <=> \E k \in 0 .. x : x = a + k * s
<1>1. PICK n \in Nat : n = x - a
  OBVIOUS
<1>2. PICK q \in Nat, r \in Nat, p \in Nat : q = n \div s /\ r = n % s /\ p = s * q /\ n = p + r
  <2>1. n \div s \in Nat /\ n % s \in Nat /\ s * (n \div s) \in Nat /\ n = s * (n \div s) + (n % s)
    BY Divides
  <2>2. QED
    BY <2>1
<1>3. ASSUME r = 0 PROVE \E k \in 0 .. x : x = a + k * s
  <2>1. p = q * s /\ 1 * q <= s * q /\ s * q \in Int
    BY <1>2, NextMultiple, Multiples
  <2>2. q \in 0 .. x /\ x = a + q * s
    BY <1>1, <1>2, <1>3, <2>1
  <2>3. QED
    BY <2>2
<1>4. ASSUME NEW k \in 0 .. x, x = a + k * s PROVE r = 0
  <2>1. k \in Nat /\ k * s \in Int /\ (k + 1) * s = k * s + s
    BY NextMultiple
  <2>2. n = k * s
    BY <1>1, <1>4, <2>1
  <2>3. k * s <= n /\ n < (k + 1) * s
    BY <2>1, <2>2
  <2>4. q = k
    <3>1. k <= n \div s /\ n \div s < k + 1
      BY <2>1, <2>3, QuotientBetween
    <3>2. QED
      BY <1>2, <2>1, <3>1
  <2>5. p = k * s
    BY <1>2, <2>4, NextMultiple
  <2>6. QED
    BY <1>2, <2>1, <2>2, <2>5
<1>5. QED
  BY <1>1, <1>2, <1>3, <1>4

\* An item that is accepted allows what it says.
ItemAllows(i, x, minimum, maximum) ==
  First(i, minimum) <= x /\ x <= Final(i, maximum) /\ (x - First(i, minimum)) % Step(i) = 0
ItemSays(i, k, x, minimum, maximum) ==
  CASE i.kind = "star" -> x = minimum + k * Step(i) /\ x <= maximum
    [] i.kind = "range" -> x = i.from + k * Step(i) /\ x <= i.to
    [] OTHER -> x = i.from + k * i.step /\ x <= maximum
LEMMA ItemAgrees ==
  ASSUME NEW i \in Items, NEW minimum \in Nat, NEW maximum \in Nat, Accepted(i, minimum, maximum),
         NEW x \in minimum .. maximum
  PROVE  ItemAllows(i, x, minimum, maximum) <=> \E k \in 0 .. x : ItemSays(i, k, x, minimum, maximum)
<1>1. /\ i.kind \in {"star", "range", "value"} /\ i.from \in Nat /\ i.to \in Nat /\ i.step \in Nat
      /\ Step(i) \in Nat \ {0} /\ x \in Nat
  BY DEF Items, Step
<1>2. ASSUME NEW a \in Nat
      PROVE  /\ a <= x => ((x - a) % Step(i) = 0 <=> \E k \in 0 .. x : x = a + k * Step(i))
             /\ \A k \in 0 .. x : x = a + k * Step(i) => a <= x
  <2>1. \A k \in 0 .. x : k * Step(i) \in Int /\ 0 * Step(i) <= k * Step(i)
    BY <1>1, Multiples
  <2>2. 0 * Step(i) = 0
    BY <1>1
  <2>3. \A k \in 0 .. x : x = a + k * Step(i) => a <= x
    BY <1>1, <2>1, <2>2
  <2>4. QED
    BY <1>1, <2>3, ReachedBySteps
<1>3. CASE i.kind = "star"
  <2>1. First(i, minimum) = minimum /\ Final(i, maximum) = maximum
    BY <1>3 DEF First, Final
  <2>2. \A k \in 0 .. x : ItemSays(i, k, x, minimum, maximum) <=> x = minimum + k * Step(i)
    BY <1>3 DEF ItemSays
  <2>3. minimum <= x /\ x <= maximum
    OBVIOUS
  <2>4. QED
    BY <1>2, <2>1, <2>2, <2>3 DEF ItemAllows
<1>4. CASE i.kind = "range"
  <2>1. First(i, minimum) = i.from /\ Final(i, maximum) = i.to
    BY <1>4 DEF First, Final
  <2>2. \A k \in 0 .. x : ItemSays(i, k, x, minimum, maximum) <=> x = i.from + k * Step(i) /\ x <= i.to
    BY <1>4 DEF ItemSays
  <2>3. QED
    BY <1>1, <1>2, <2>1, <2>2 DEF ItemAllows
<1>5. CASE i.kind = "value" /\ i.step > 0
  <2>1. First(i, minimum) = i.from /\ Final(i, maximum) = maximum /\ Step(i) = i.step
    BY <1>1, <1>5 DEF First, Final, Step
  <2>2. \A k \in 0 .. x : ItemSays(i, k, x, minimum, maximum) <=> x = i.from + k * Step(i)
    BY <1>5, <2>1 DEF ItemSays
  <2>3. x <= maximum
    OBVIOUS
  <2>4. QED
    BY <1>1, <1>2, <2>1, <2>2, <2>3 DEF ItemAllows
<1>6. CASE i.kind = "value" /\ i.step = 0
  <2>1. First(i, minimum) = i.from /\ Final(i, maximum) = i.from /\ Step(i) = 1
    BY <1>6 DEF First, Final, Step
  <2>2. \A k \in 0 .. x : ItemSays(i, k, x, minimum, maximum) <=> x = i.from
    BY <1>1, <1>6 DEF ItemSays
  <2>3. ItemAllows(i, x, minimum, maximum) <=> x = i.from
    <3>1. ASSUME x = i.from PROVE (x - i.from) % 1 = 0
      <4>1. x - i.from = 0
        BY <1>1, <3>1
      <4>2. 0 % 1 = 0
        OBVIOUS
      <4>3. QED
        BY <4>1, <4>2
    <3>2. QED
      BY <1>1, <2>1, <3>1 DEF ItemAllows
  <2>4. 0 \in 0 .. x
    BY <1>1
  <2>5. QED
    BY <2>2, <2>3, <2>4
<1>7. QED
  BY <1>1, <1>3, <1>4, <1>5, <1>6

\* parseCronField allows the values that are among the items.
LEMMA FieldAgrees ==
  ASSUME NEW items \in SUBSET Items, NEW minimum \in Nat, NEW maximum \in Nat,
         \A i \in items : Accepted(i, minimum, maximum), NEW x \in minimum .. maximum
  PROVE  x \in parseCronField(items, minimum, maximum) <=> Among(x, minimum, maximum, items)
<1>1. x \in parseCronField(items, minimum, maximum) <=> \E i \in items : ItemAllows(i, x, minimum, maximum)
  BY DEF parseCronField, ItemAllows
<1>2. Among(x, minimum, maximum, items) <=> \E i \in items : \E k \in 0 .. x : ItemSays(i, k, x, minimum, maximum)
  BY DEF Among, ItemSays
<1>3. \A i \in items : ItemAllows(i, x, minimum, maximum) <=> \E k \in 0 .. x : ItemSays(i, k, x, minimum, maximum)
  BY ItemAgrees
<1>4. QED
  BY <1>1, <1>2, <1>3

\* Nothing above the field's maximum is among its items.
LEMMA NoneBeyond ==
  ASSUME NEW items \in SUBSET Items, NEW minimum \in Nat, NEW maximum \in Nat,
         \A i \in items : Accepted(i, minimum, maximum), NEW x \in Nat, x > maximum
  PROVE  ~ Among(x, minimum, maximum, items)
<1>1. SUFFICES ASSUME NEW i \in items, NEW k \in 0 .. x, ItemSays(i, k, x, minimum, maximum) PROVE FALSE
  BY DEF Among, ItemSays
<1>2. i.kind \in {"star", "range", "value"} /\ i.to \in Nat
  BY DEF Items
<1>3. CASE i.kind = "range"
  <2>1. x <= i.to
    BY <1>1, <1>3 DEF ItemSays
  <2>2. i.to <= maximum
    <3>1. i.from \in Nat /\ i.to \in i.from .. maximum
      BY <1>3 DEF Items, Accepted
    <3>2. QED
      BY <3>1
  <2>3. QED
    BY <1>2, <2>1, <2>2
<1>4. CASE i.kind = "star"
  BY <1>1, <1>4 DEF ItemSays
<1>5. CASE i.kind = "value"
  BY <1>1, <1>5 DEF ItemSays
<1>6. QED
  BY <1>2, <1>3, <1>4, <1>5

\* The expression has been parsed.
Parsed ==
  /\ text \in [minute : SUBSET Items, hour : SUBSET Items, day : SUBSET Items,
               month : SUBSET Items, weekday : SUBSET Items]
  /\ Parses(text)

Weekdays == parseCronField(text.weekday, 0, DaysPerWeek)
Folded == (Weekdays \cup (IF DaysPerWeek \in Weekdays THEN {0} ELSE {})) \ {DaysPerWeek}
WeekdayAmong(x) == \E y \in {x, x + DaysPerWeek} : Among(y, 0, DaysPerWeek, text.weekday)
DayAmong(x) == Among(x, 1, LongestMonth, text.day)

\* Folding Sunday's second number loses no weekday and adds none.
LEMMA FoldedAgrees ==
  ASSUME Parsed, NEW x \in 0 .. DaysPerWeek - 1
  PROVE  x \in Folded <=> WeekdayAmong(x)
<1>1. text.weekday \in SUBSET Items /\ \A i \in text.weekday : Accepted(i, 0, DaysPerWeek)
  BY DEF Parsed, Parses
<1>2. DaysPerWeek \in Nat /\ DaysPerWeek # 0 /\ x \in Nat /\ x < DaysPerWeek
  BY CalendarSizes
<1>3. \A y \in 0 .. DaysPerWeek : y \in Weekdays <=> Among(y, 0, DaysPerWeek, text.weekday)
  BY <1>1, <1>2, FieldAgrees DEF Weekdays
<1>4. x \in 0 .. DaysPerWeek /\ DaysPerWeek \in 0 .. DaysPerWeek /\ 0 + DaysPerWeek = DaysPerWeek
  BY <1>2
<1>5. x # 0 => ~ Among(x + DaysPerWeek, 0, DaysPerWeek, text.weekday)
  <2>1. x # 0 => x + DaysPerWeek \in Nat /\ x + DaysPerWeek > DaysPerWeek
    BY <1>2
  <2>2. QED
    BY <1>1, <1>2, <2>1, NoneBeyond
<1>6. x \in Folded <=> x \in Weekdays \/ (x = 0 /\ DaysPerWeek \in Weekdays)
  BY <1>2 DEF Folded
<1>7. QED
  BY <1>3, <1>4, <1>5, <1>6 DEF WeekdayAmong

\* What Fields holds.
LEMMA FieldsAre ==
  /\ Fields.minutes = parseCronField(text.minute, 0, MinutesPerHour - 1)
  /\ Fields.hours = parseCronField(text.hour, 0, HoursPerDay - 1)
  /\ Fields.days = parseCronField(text.day, 1, LongestMonth)
  /\ Fields.months = parseCronField(text.month, 1, MonthsPerYear)
  /\ Fields.weekdays = Folded
  /\ Fields.dayWildcard = (1 .. LongestMonth \subseteq parseCronField(text.day, 1, LongestMonth))
  /\ Fields.weekdayWildcard = (0 .. DaysPerWeek - 1 \subseteq Folded)
BY Zenon DEF Fields, Folded, Weekdays, allowsEvery

\* The two day fields decide as the expression says.
LEMMA DayAgrees ==
  ASSUME Parsed, NEW t \in Nat, t < Horizon
  PROVE  matchesDay(t) <=>
           \/ (\A x \in 1 .. LongestMonth : DayAmong(x)) /\ WeekdayAmong(Weekday(t))
           \/ (\A x \in 0 .. DaysPerWeek - 1 : WeekdayAmong(x)) /\ DayAmong(Day(t))
           \/ /\ ~ \A x \in 1 .. LongestMonth : DayAmong(x)
              /\ ~ \A x \in 0 .. DaysPerWeek - 1 : WeekdayAmong(x)
              /\ DayAmong(Day(t)) \/ WeekdayAmong(Weekday(t))
<1>1. PICK days : days = parseCronField(text.day, 1, LongestMonth)
  OBVIOUS
<1>2. \A x \in 1 .. LongestMonth : x \in days <=> DayAmong(x)
  <2>1. text.day \in SUBSET Items /\ \A i \in text.day : Accepted(i, 1, LongestMonth)
    BY DEF Parsed, Parses
  <2>2. QED
    BY <1>1, <2>1, FieldAgrees, LongestIs DEF DayAmong
<1>3. \A x \in 0 .. DaysPerWeek - 1 : x \in Folded <=> WeekdayAmong(x)
  BY FoldedAgrees
<1>4. Weekday(t) \in 0 .. DaysPerWeek - 1 /\ Day(t) \in 1 .. LongestMonth
  BY CalendarRanges
<1>5. matchesDay(t) <=>
        IF 1 .. LongestMonth \subseteq days THEN Weekday(t) \in Folded
        ELSE IF 0 .. DaysPerWeek - 1 \subseteq Folded THEN Day(t) \in days
        ELSE Day(t) \in days \/ Weekday(t) \in Folded
  BY <1>1, FieldsAre DEF matchesDay
<1>6. 1 .. LongestMonth \subseteq days <=> \A x \in 1 .. LongestMonth : DayAmong(x)
  BY <1>2
<1>7. 0 .. DaysPerWeek - 1 \subseteq Folded <=> \A x \in 0 .. DaysPerWeek - 1 : WeekdayAmong(x)
  BY <1>3
<1>8. QED
  BY <1>2, <1>3, <1>4, <1>5, <1>6, <1>7

\* What the loop of next tests is what the expression says.
LEMMA OccursIs ==
  ASSUME Parsed, NEW t \in Nat, t < Horizon
  PROVE  Occurs(t) <=> /\ Month(t) \in Fields.months /\ matchesDay(t)
                       /\ Hour(t) \in Fields.hours /\ Minute(t) \in Fields.minutes
<1>1. /\ Minute(t) \in 0 .. MinutesPerHour - 1 /\ Hour(t) \in 0 .. HoursPerDay - 1
      /\ Month(t) \in 1 .. MonthsPerYear
  BY CalendarRanges
<1>2. /\ MinutesPerHour - 1 \in Nat /\ HoursPerDay - 1 \in Nat /\ MonthsPerYear \in Nat
      /\ text.minute \in SUBSET Items /\ text.hour \in SUBSET Items /\ text.month \in SUBSET Items
      /\ \A i \in text.minute : Accepted(i, 0, MinutesPerHour - 1)
      /\ \A i \in text.hour : Accepted(i, 0, HoursPerDay - 1)
      /\ \A i \in text.month : Accepted(i, 1, MonthsPerYear)
  BY CalendarSizes DEF Parsed, Parses
<1>3. Minute(t) \in Fields.minutes <=> Among(Minute(t), 0, MinutesPerHour - 1, text.minute)
  BY <1>1, <1>2, FieldAgrees, FieldsAre
<1>4. Hour(t) \in Fields.hours <=> Among(Hour(t), 0, HoursPerDay - 1, text.hour)
  BY <1>1, <1>2, FieldAgrees, FieldsAre
<1>5. Month(t) \in Fields.months <=> Among(Month(t), 1, MonthsPerYear, text.month)
  BY <1>1, <1>2, FieldAgrees, FieldsAre
<1>6. Occurs(t) <=> /\ Among(Minute(t), 0, MinutesPerHour - 1, text.minute)
                    /\ Among(Hour(t), 0, HoursPerDay - 1, text.hour)
                    /\ Among(Month(t), 1, MonthsPerYear, text.month)
                    /\ matchesDay(t)
  BY DayAgrees DEF Occurs, DayAmong, WeekdayAmong
<1>7. QED
  BY <1>3, <1>4, <1>5, <1>6

\* The sizes of the calendar in minutes.
LEMMA CalendarMinutes ==
  /\ Horizon \in Nat /\ MinutesPerDay * LongestMonth \in Nat /\ Latest \in Int
  /\ MinutesPerHour <= MinutesPerDay /\ MinutesPerDay <= MinutesPerDay * LongestMonth
<1>1. \A a \in Nat, b \in Nat : a * b \in Nat
  OBVIOUS
<1>2. Horizon \in Nat
  <2>1. DaysBefore[Len(MonthLengths) + 1] \in Nat
    BY DaysGrow, CalendarSizes
  <2>2. QED
    BY <1>1, <2>1, CalendarSizes DEF Horizon
<1>3. MinutesPerDay * LongestMonth \in Nat
  BY <1>1, CalendarSizes, LongestIs
<1>4. MinutesPerHour <= MinutesPerDay /\ MinutesPerDay <= MinutesPerDay * LongestMonth
  <2>1. 1 <= HoursPerDay /\ 1 <= LongestMonth /\ HoursPerDay \in Int /\ LongestMonth \in Int
    BY CalendarSizes, LongestIs
  <2>2. 1 * MinutesPerHour <= HoursPerDay * MinutesPerHour /\ 1 * MinutesPerDay <= LongestMonth * MinutesPerDay
    BY <2>1, Multiples, CalendarSizes
  <2>3. HoursPerDay * MinutesPerHour = MinutesPerDay
    BY NextMultiple, CalendarSizes DEF MinutesPerDay
  <2>4. LongestMonth * MinutesPerDay = MinutesPerDay * LongestMonth
    BY NextMultiple, CalendarSizes, LongestIs
  <2>5. QED
    BY <2>2, <2>3, <2>4, CalendarSizes
<1>5. Latest \in Int
  BY <1>2, <1>3, CalendarSizes DEF Latest
<1>6. QED
  BY <1>2, <1>3, <1>4, <1>5

\* The midnights `low` and `high` enclose the wall time w, with all the wall times that
\* have its month, or its day.
Encloses(w, low, high) ==
  /\ low \in Midnights /\ high \in Midnights /\ low \in Nat /\ high \in Nat
  /\ low <= w /\ w < high /\ low + MinutesPerDay <= high /\ high <= w + MinutesPerDay * LongestMonth

\* A month begins and ends at midnights.
LEMMA MonthEnclosed ==
  ASSUME NEW w \in Nat, w < Horizon
  PROVE  \E low : /\ Encloses(w, low, NextMonth(w))
                  /\ \A x \in Nat : low <= x /\ x < NextMonth(w) =>
                       x < Horizon /\ Month(x) = Month(w) /\ NextMonth(x) = NextMonth(w)
<1>1. PICK m \in 1 .. Len(MonthLengths) :
        m = MonthIndex(w) /\ DaysBefore[m] <= w \div MinutesPerDay /\ w \div MinutesPerDay < DaysBefore[m + 1]
  BY MonthFound
<1>2. m \in 1 .. Len(MonthLengths) + 1 /\ m + 1 \in 1 .. Len(MonthLengths) + 1
  BY <1>1, CalendarSizes
<1>3. PICK a \in Nat, b \in Nat, all \in Nat :
        a = DaysBefore[m] /\ b = DaysBefore[m + 1] /\ all = DaysBefore[Len(MonthLengths) + 1]
  <2>1. DaysBefore[m] \in Nat /\ DaysBefore[m + 1] \in Nat
    BY <1>2, DaysGrow
  <2>2. DaysBefore[Len(MonthLengths) + 1] \in Nat
    BY DaysGrow, CalendarSizes
  <2>3. QED
    BY <2>1, <2>2
<1>4. b <= all /\ a <= all
  <2>1. b <= all
    BY <1>2, <1>3, DaysGrow, CalendarSizes
  <2>2. a <= all
    BY <1>2, <1>3, DaysGrow, CalendarSizes
  <2>3. QED
    BY <2>1, <2>2
<1>5. PICK long \in Nat \ {0} : long = MonthLengths[m] /\ b = a + long /\ long <= LongestMonth
  <2>1. MonthLengths[m] \in Nat \ {0} /\ DaysBefore[m + 1] = DaysBefore[m] + MonthLengths[m]
    BY DaysAdd, CalendarSizes
  <2>2. MonthLengths[m] <= LongestMonth
    BY LongestIs
  <2>3. QED
    BY <1>3, <2>1, <2>2
<1>6. PICK q \in Nat, r \in Nat, p \in Nat :
        q = w \div MinutesPerDay /\ p = q * MinutesPerDay /\ w = p + r /\ r < MinutesPerDay
  <2>1. /\ w \div MinutesPerDay \in Nat /\ w % MinutesPerDay \in 0 .. MinutesPerDay - 1 /\ w % MinutesPerDay \in Nat
        /\ MinutesPerDay * (w \div MinutesPerDay) \in Nat
        /\ w = MinutesPerDay * (w \div MinutesPerDay) + (w % MinutesPerDay)
    BY Divides, CalendarSizes
  <2>2. MinutesPerDay * (w \div MinutesPerDay) = (w \div MinutesPerDay) * MinutesPerDay
    BY <2>1, NextMultiple, CalendarSizes
  <2>3. w % MinutesPerDay < MinutesPerDay
    BY <2>1, CalendarSizes
  <2>4. QED
    BY <2>1, <2>2, <2>3
<1>7. PICK low \in Nat, high \in Nat : low = a * MinutesPerDay /\ high = b * MinutesPerDay
  <2>1. \A x \in Nat, y \in Nat : x * y \in Nat
    OBVIOUS
  <2>2. QED
    BY <2>1, CalendarSizes
<1>8. high = NextMonth(w)
  BY <1>1, <1>3, <1>7 DEF NextMonth
<1>9. low <= w
  <2>1. a * MinutesPerDay <= q * MinutesPerDay
    BY <1>1, <1>3, <1>6, Multiples, CalendarSizes
  <2>2. QED
    BY <1>6, <1>7, <2>1
<1>10. w < high
  <2>1. (q + 1) * MinutesPerDay <= b * MinutesPerDay
    <3>1. q + 1 \in Int /\ b \in Int /\ q + 1 <= b /\ MinutesPerDay \in Nat
      BY <1>1, <1>3, <1>6, CalendarSizes
    <3>2. QED
      BY <3>1, Multiples
  <2>2. (q + 1) * MinutesPerDay = p + MinutesPerDay
    BY <1>6, NextMultiple, CalendarSizes
  <2>3. QED
    BY <1>6, <1>7, <2>1, <2>2, CalendarSizes
<1>11. low + MinutesPerDay <= high
  <2>1. (a + 1) * MinutesPerDay <= b * MinutesPerDay
    <3>1. a + 1 \in Int /\ b \in Int /\ a + 1 <= b /\ MinutesPerDay \in Nat
      BY <1>3, <1>5, CalendarSizes
    <3>2. QED
      BY <3>1, Multiples
  <2>2. (a + 1) * MinutesPerDay = a * MinutesPerDay + MinutesPerDay
    BY NextMultiple, CalendarSizes
  <2>3. QED
    BY <1>7, <2>1, <2>2, CalendarSizes
<1>12. high <= w + MinutesPerDay * LongestMonth
  <2>1. long * MinutesPerDay <= LongestMonth * MinutesPerDay /\ long * MinutesPerDay \in Int /\ LongestMonth * MinutesPerDay \in Int
    BY <1>5, Multiples, LongestIs, CalendarSizes
  <2>2. LongestMonth * MinutesPerDay = MinutesPerDay * LongestMonth
    BY NextMultiple, CalendarSizes, LongestIs
  <2>3. \A x \in Nat, y \in Nat, d \in Nat : (x + y) * d = x * d + y * d
    OBVIOUS
  <2>4. b * MinutesPerDay = a * MinutesPerDay + long * MinutesPerDay
    BY <1>5, <2>3, CalendarSizes
  <2>5. QED
    BY <1>7, <1>9, <2>1, <2>2, <2>4, CalendarMinutes
<1>13. low \in Midnights /\ high \in Midnights
  <2>1. a \in 0 .. all /\ b \in 0 .. all
    BY <1>4
  <2>2. QED
    BY <1>3, <1>7, <2>1 DEF Midnights
<1>14. ASSUME NEW x \in Nat, low <= x, x < high
       PROVE  x < Horizon /\ MonthIndex(x) = m
  <2>1. x < Horizon
    <3>1. b * MinutesPerDay <= all * MinutesPerDay /\ all * MinutesPerDay \in Int
      BY <1>4, Multiples, CalendarSizes
    <3>2. QED
      BY <1>3, <1>7, <1>14, <3>1 DEF Horizon
  <2>2. a <= x \div MinutesPerDay /\ x \div MinutesPerDay < b
    BY <1>7, <1>14, QuotientBetween, CalendarSizes
  <2>3. QED
    BY <1>3, <2>1, <2>2, MonthUnique
<1>15. Encloses(w, low, NextMonth(w))
  BY <1>8, <1>9, <1>10, <1>11, <1>12, <1>13 DEF Encloses
<1>16. QED
  BY <1>1, <1>8, <1>14, <1>15 DEF Month, NextMonth

\* So does a day.
LEMMA DayEnclosed ==
  ASSUME NEW w \in Nat, w < Horizon
  PROVE  \E low : /\ Encloses(w, low, NextDay(w))
                  /\ \A x \in Nat : low <= x /\ x < NextDay(w) =>
                       /\ x < Horizon /\ Month(x) = Month(w) /\ Day(x) = Day(w) /\ Weekday(x) = Weekday(w)
                       /\ NextDay(x) = NextDay(w)
<1>1. PICK q \in Nat, r \in Nat, p \in Nat :
        q = w \div MinutesPerDay /\ p = q * MinutesPerDay /\ w = p + r /\ r < MinutesPerDay
  <2>1. /\ w \div MinutesPerDay \in Nat /\ w % MinutesPerDay \in 0 .. MinutesPerDay - 1 /\ w % MinutesPerDay \in Nat
        /\ MinutesPerDay * (w \div MinutesPerDay) \in Nat
        /\ w = MinutesPerDay * (w \div MinutesPerDay) + (w % MinutesPerDay)
    BY Divides, CalendarSizes
  <2>2. MinutesPerDay * (w \div MinutesPerDay) = (w \div MinutesPerDay) * MinutesPerDay
    BY <2>1, NextMultiple, CalendarSizes
  <2>3. w % MinutesPerDay < MinutesPerDay
    BY <2>1, CalendarSizes
  <2>4. QED
    BY <2>1, <2>2, <2>3
<1>2. PICK all \in Nat : all = DaysBefore[Len(MonthLengths) + 1]
  BY DaysGrow, CalendarSizes
<1>3. q < all
  <2>1. 0 * MinutesPerDay <= w /\ w < all * MinutesPerDay
    BY <1>2, CalendarSizes DEF Horizon
  <2>2. QED
    BY <1>1, <1>2, <2>1, QuotientBetween, CalendarSizes
<1>4. NextDay(w) = p + MinutesPerDay /\ NextDay(w) = (q + 1) * MinutesPerDay
  BY <1>1, NextMultiple, CalendarSizes DEF NextDay
<1>5. p \in Midnights /\ NextDay(w) \in Midnights
  <2>1. q \in 0 .. all /\ q + 1 \in 0 .. all
    BY <1>3
  <2>2. QED
    BY <1>1, <1>2, <1>4, <2>1 DEF Midnights
<1>6. Encloses(w, p, NextDay(w))
  <2>1. NextDay(w) \in Nat /\ p <= w /\ w < NextDay(w) /\ p + MinutesPerDay <= NextDay(w)
    BY <1>1, <1>4, CalendarSizes
  <2>2. NextDay(w) <= w + MinutesPerDay * LongestMonth
    BY <1>1, <1>4, CalendarSizes, CalendarMinutes
  <2>3. QED
    BY <1>5, <2>1, <2>2 DEF Encloses
<1>7. ASSUME NEW x \in Nat, p <= x, x < NextDay(w)
      PROVE  x < Horizon /\ x \div MinutesPerDay = w \div MinutesPerDay
  <2>1. q <= x \div MinutesPerDay /\ x \div MinutesPerDay < q + 1 /\ x \div MinutesPerDay \in Nat
    <3>1. q * MinutesPerDay <= x /\ x < (q + 1) * MinutesPerDay /\ q + 1 \in Nat
      BY <1>1, <1>4, <1>7
    <3>2. q <= x \div MinutesPerDay /\ x \div MinutesPerDay < q + 1
      BY <3>1, QuotientBetween, CalendarSizes
    <3>3. x \div MinutesPerDay \in Nat
      BY Divides, CalendarSizes
    <3>4. QED
      BY <3>2, <3>3
  <2>2. x \div MinutesPerDay = q
    BY <2>1
  <2>3. (q + 1) * MinutesPerDay <= all * MinutesPerDay /\ (q + 1) * MinutesPerDay \in Int /\ all * MinutesPerDay \in Int
    BY <1>3, Multiples, CalendarSizes
  <2>4. QED
    BY <1>1, <1>2, <1>4, <1>7, <2>2, <2>3 DEF Horizon
<1>8. ASSUME NEW x \in Nat, x \div MinutesPerDay = w \div MinutesPerDay
      PROVE  Month(x) = Month(w) /\ Day(x) = Day(w) /\ Weekday(x) = Weekday(w) /\ NextDay(x) = NextDay(w)
  <2>1. MonthIndex(x) = MonthIndex(w)
    BY <1>8 DEF MonthIndex
  <2>2. QED
    BY <1>8, <2>1 DEF Month, Day, Weekday, NextDay
<1>9. QED
  BY <1>6, <1>7, <1>8

\* What time.Date makes of a midnight around which the zone's offset changes once.
\* Every wall time it jumps over lies before the midnight or comes again; if it leads
\* back, it leads to the day before the midnight, which does not exist.
LEMMA DateOfMidnight ==
  ASSUME location \in Locations, NEW c \in Instants, NEW low, NEW high,
         Encloses(Local(c), low, high), 3 * MinutesPerDay <= high, high + 3 * MinutesPerDay < Horizon
  PROVE  /\ Date(high) \in Instants /\ high - MinutesPerDay < Date(high) /\ Date(high) < high + MinutesPerDay
         /\ \A v \in Instants : c <= v /\ v < Date(high) =>
              low <= Local(v) /\ (Local(v) < high \/ ComesAgain(v, Date(high)))
         /\ Date(high) <= c => high - MinutesPerDay <= Local(Date(high)) /\ Local(Date(high)) < high
         /\ (\E u \in Instants : Local(u) = high) => c < Date(high)
<1>1. PICK z, D, H : z = Offset[location] /\ D = MinutesPerDay /\ H = Horizon
  OBVIOUS
<1>2. D \in Nat \ {0} /\ H \in Nat /\ Instants = 0 .. H - 1
  BY <1>1, CalendarSizes, CalendarMinutes DEF Instants
<1>3. /\ low \in Nat /\ high \in Nat /\ low \in Midnights /\ high \in Midnights
      /\ low + D <= high /\ 3 * D <= high /\ high + 3 * D < H
  BY <1>1 DEF Encloses
<1>4. ZoneOK(z)
  BY <1>1, CronAssumption
<1>5. \A t \in Instants : z[t] \in Int /\ 0 - D < z[t] /\ z[t] < D
  <2>1. z \in [Instants -> 1 - D .. D - 1]
    BY <1>1, <1>4 DEF ZoneOK
  <2>2. QED
    BY <1>2, <2>1
<1>6. \A t \in Instants : Local(t) = t + z[t] /\ Local(t) \in Int
  BY <1>1, <1>2, <1>5 DEF Local, WallOf
<1>6a. PICK a, b, moment :
        /\ a \in Int /\ b \in Int /\ moment \in Int
        /\ \A u \in high - 3 * D .. high + 3 * D : z[u] = IF u < moment THEN a ELSE b
  <2>1. PICK t \in Instants : t = high - 3 * D /\ t + 6 * D \in Instants /\ t + 6 * D = high + 3 * D
    BY <1>2, <1>3
  <2>2. PICK change \in t .. t + 6 * D + 1 :
          \A u \in t .. t + 6 * D : z[u] = IF u < change THEN z[t] ELSE z[t + 6 * D]
    BY <1>1, <1>4, <2>1 DEF ZoneOK
  <2>3. PICK old \in Int, new \in Int : old = z[t] /\ new = z[t + 6 * D]
    BY <1>5, <2>1
  <2>4. change \in Int /\ t .. t + 6 * D = high - 3 * D .. high + 3 * D
    BY <1>2, <2>1
  <2>5. \A u \in high - 3 * D .. high + 3 * D : z[u] = IF u < change THEN old ELSE new
    BY <2>2, <2>3, <2>4
  <2>6. old \in Int /\ new \in Int /\ change \in Int
    BY <2>3, <2>4
  <2>7. QED
    BY <2>5, <2>6, Zenon
<1>7. PICK o1 \in Int, o2 \in Int, T \in Int : o1 = a /\ o2 = b /\ T = moment
  BY <1>6a
<1>8. \A u \in Int : high - 3 * D <= u /\ u <= high + 3 * D => u \in Instants /\ z[u] = IF u < T THEN o1 ELSE o2
  BY <1>2, <1>3, <1>6a, <1>7
<1>9. PICK s \in Int, r \in Int : s = high - z[high] /\ r = high - z[s] /\ r = Date(high)
  <2>1. high \in Instants /\ z[high] \in Int /\ 0 - D < z[high] /\ z[high] < D
    BY <1>2, <1>3, <1>5
  <2>2. PICK s \in Int : s = high - z[high] /\ s \in Instants
    BY <1>2, <1>3, <2>1
  <2>3. z[s] \in Int
    BY <1>5, <2>2
  <2>4. Date(high) = high - z[s]
    BY <1>1, <2>2 DEF Date
  <2>5. QED
    BY <1>3, <2>2, <2>3, <2>4
<1>10. /\ high \in Instants /\ s \in Instants /\ r \in Instants
       /\ high - D < s /\ s < high + D /\ high - D < r /\ r < high + D
  <2>1. high \in Instants /\ 0 - D < z[high] /\ z[high] < D /\ z[high] \in Int
    BY <1>2, <1>3, <1>5
  <2>2. high - D < s /\ s < high + D /\ s \in Instants
    BY <1>2, <1>3, <1>9, <2>1
  <2>3. z[s] \in Int /\ 0 - D < z[s] /\ z[s] < D
    BY <1>5, <2>2
  <2>4. QED
    BY <1>2, <1>3, <1>9, <2>1, <2>2, <2>3
<1>11. /\ z[high] = IF high < T THEN o1 ELSE o2
       /\ z[s] = IF s < T THEN o1 ELSE o2
       /\ z[r] = IF r < T THEN o1 ELSE o2
  BY <1>2, <1>3, <1>8, <1>10
<1>12. c \in Int /\ Local(c) \in Int /\ low <= Local(c) /\ Local(c) < high
  BY <1>2, <1>6 DEF Encloses
<1>13. \A t \in Instants, u \in Instants : \A m \in Midnights : t <= u /\ m <= Local(t) => m <= Local(u)
  BY <1>1, <1>4 DEF ZoneOK, Local
<1>14. ASSUME NEW v \in Instants, c <= v, v < r
       PROVE  low <= Local(v) /\ (Local(v) < high \/ ComesAgain(v, r))
  <2>1. low <= Local(v)
    BY <1>3, <1>12, <1>13, <1>14
  <2>2. ASSUME high <= Local(v) PROVE ComesAgain(v, r)
    <3>1. v \in Int /\ Local(v) = v + z[v] /\ z[v] \in Int /\ high - D < v /\ v < high + D
      BY <1>2, <1>3, <1>5, <1>6, <1>10, <1>14, <2>2
    <3>2. z[v] = IF v < T THEN o1 ELSE o2
      BY <1>2, <1>3, <1>8, <3>1
    <3>3. CASE s < T
      <4>1. r = high - o1 /\ T <= v /\ z[v] = o2
        BY <1>2, <1>3, <1>9, <1>11, <1>14, <2>2, <3>1, <3>2, <3>3
      <4>2. T <= high /\ s = high - o2
        BY <1>9, <1>10, <1>11, <1>14, <3>1, <3>3, <4>1
      <4>3. T + o1 < high /\ high < T + o2
        BY <1>3, <1>9, <1>14, <3>1, <3>3, <4>1, <4>2
      <4>4. T - 1 \in Instants /\ T \in Instants /\ z[T - 1] = o1 /\ z[T] = o2
        <5>1. high - 3 * D <= T - 1 /\ T <= high + 3 * D
          BY <1>2, <1>3, <1>10, <3>1, <3>3, <4>1
        <5>2. QED
          BY <1>2, <1>3, <1>8, <5>1
      <4>5. PICK t \in Instants : t = T - 1 /\ t + 1 = T
        BY <4>4
      <4>6. \A m \in Midnights : Local(t) < m /\ m < Local(t + 1) => m = Local(t) + 1
        BY <1>1, <1>4, <4>4, <4>5 DEF ZoneOK, Local
      <4>7. Local(t) = T - 1 + o1 /\ Local(t + 1) = T + o2
        BY <1>6, <4>4, <4>5
      <4>8. QED
        BY <1>3, <4>3, <4>6, <4>7
    <3>4. CASE T <= s
      <4>1. r = high - o2 /\ v < T /\ z[v] = o1 /\ o2 < o1
        BY <1>2, <1>3, <1>9, <1>11, <1>14, <2>2, <3>1, <3>2, <3>4
      <4>2. T <= high /\ s = r
        BY <1>9, <1>10, <1>11, <2>2, <3>1, <3>4, <4>1
      <4>3. PICK u \in Int : u = v + o1 - o2
        BY <3>1
      <4>4. r <= u /\ T <= u
        BY <1>3, <2>2, <3>1, <3>4, <4>1, <4>2, <4>3
      <4>5. o1 < D /\ 0 - D < o2
        BY <1>5, <1>10, <1>11, <3>1, <3>4, <4>1
      <4>6. high - 3 * D <= u /\ u <= high + 3 * D
        BY <1>2, <1>3, <1>10, <3>1, <4>3, <4>4, <4>5
      <4>7. u \in Instants /\ z[u] = o2
        BY <1>8, <4>4, <4>6
      <4>8. u \in r .. H - 1 /\ Local(u) = Local(v)
        BY <1>2, <1>6, <3>1, <4>1, <4>3, <4>4, <4>7
      <4>9. QED
        BY <1>1, <4>8 DEF ComesAgain
    <3>5. QED
      BY <3>3, <3>4
  <2>3. QED
    BY <1>3, <1>6, <1>14, <2>1, <2>2
<1>15. ASSUME r <= c PROVE high - D <= Local(r) /\ Local(r) < high
  <2>1. Local(r) = r + z[r] /\ Local(r) \in Int /\ Local(r) < high
    BY <1>3, <1>6, <1>10, <1>12, <1>13, <1>15
  <2>2. CASE z[r] = z[s]
    <3>1. z[s] \in Int /\ r + z[s] = high
      BY <1>3, <1>5, <1>9, <1>10
    <3>2. QED
      BY <1>3, <2>1, <2>2, <3>1
  <2>3. CASE z[r] # z[s] /\ r < T
    <3>1. T <= s /\ z[r] = o1 /\ z[s] = o2 /\ r = high - o2
      BY <1>9, <1>10, <1>11, <2>3
    <3>2. T - 1 \in Instants /\ T \in Instants /\ z[T - 1] = o1 /\ z[T] = o2
      <4>1. high - 3 * D <= T - 1 /\ T <= high + 3 * D
        BY <1>2, <1>3, <1>10, <2>3, <3>1
      <4>2. QED
        BY <1>2, <1>3, <1>8, <4>1
    <3>3. PICK t \in Instants : t = T - 1 /\ t + 1 = T
      BY <3>2
    <3>4. Local(t + 1) <= Local(t) + 1 + D
      BY <1>1, <1>4, <3>2, <3>3 DEF ZoneOK, Local
    <3>5. Local(t) = T - 1 + o1 /\ Local(t + 1) = T + o2
      BY <1>6, <3>2, <3>3
    <3>6. o2 <= o1 + D
      BY <1>2, <3>4, <3>5
    <3>7. QED
      BY <1>2, <1>3, <2>1, <3>1, <3>6
  <2>4. CASE z[r] # z[s] /\ T <= r
    <3>1. s < T /\ z[r] = o2 /\ z[s] = o1 /\ r = high - o1
      BY <1>9, <1>10, <1>11, <2>4
    <3>2. QED
      BY <1>9, <1>10, <1>11, <1>3, <2>1, <2>4, <3>1
  <2>5. QED
    BY <1>10, <1>2, <2>2, <2>3, <2>4
<1>16. ASSUME NEW u \in Instants, Local(u) = high PROVE c < r
  <2>1. u \in Int /\ u + z[u] = high /\ z[u] \in Int /\ 0 - D < z[u] /\ z[u] < D
    BY <1>2, <1>5, <1>6, <1>16
  <2>2. z[u] = IF u < T THEN o1 ELSE o2
    BY <1>2, <1>3, <1>8, <2>1
  <2>3. r + z[r] = high
    BY <1>3, <1>9, <1>11, <2>1, <2>2
  <2>4. high <= Local(r)
    BY <1>6, <1>10, <2>3
  <2>5. QED
    BY <1>2, <1>3, <1>6, <1>10, <1>12, <1>13, <2>4
<1>17. QED
  BY <1>1, <1>9, <1>10, <1>14, <1>15, <1>16

\* The turn at instant c leads to c again: the midnight it jumps to does not exist, and
\* time.Date makes of it an instant of the same month or day.
StuckAt(c) ==
  \/ Month(Local(c)) \notin Fields.months /\ Date(NextMonth(Local(c))) = c
  \/ /\ Month(Local(c)) \in Fields.months /\ ~ matchesDay(Local(c))
     /\ Date(NextDay(Local(c))) = c

\* The search is where the zone data are known, and after the time it began at, unless
\* it was led back behind it, where it stays.
CronIInv ==
  /\ Parsed /\ location \in Locations /\ after \in Earliest .. Latest /\ candidate \in Int
  /\ candidate > after \/ (StuckAt(candidate) /\ candidate > after - 2 * MinutesPerDay)
  /\ found \in {"searching", "found", "none"}
  /\ NextOccurrence

\* An instant and its wall time are less than a day apart.
LEMMA WallNear ==
  ASSUME location \in Locations, NEW t \in Instants
  PROVE  /\ Offset[location][t] \in Int /\ Local(t) = t + Offset[location][t]
         /\ 0 - MinutesPerDay < Offset[location][t] /\ Offset[location][t] < MinutesPerDay
         /\ t \in Nat /\ Local(t) \in Int /\ t - MinutesPerDay < Local(t) /\ Local(t) < t + MinutesPerDay
<1>1. Offset[location] \in [Instants -> 1 - MinutesPerDay .. MinutesPerDay - 1]
  BY CronAssumption DEF ZoneOK
<1>2. PICK o \in Int : o = Offset[location][t] /\ 0 - MinutesPerDay < o /\ o < MinutesPerDay
  BY <1>1, CalendarSizes
<1>3. t \in Nat /\ Local(t) = t + o
  BY <1>2, CalendarMinutes DEF Instants, Local, WallOf
<1>4. QED
  BY <1>2, <1>3, CalendarSizes

\* The limit of the search lies within the calendar, and so does all around it.
LEMMA LimitIs ==
  ASSUME location \in Locations, after \in Earliest .. Latest
  PROVE  Limit \in Int /\ Limit < after + 1 + SearchMinutes + 2 * MinutesPerDay
<1>1. PICK D, H, Y, p : D = MinutesPerDay /\ H = Horizon /\ Y = SearchMinutes /\ p = MinutesPerDay * LongestMonth
  OBVIOUS
<1>2. D \in Nat \ {0} /\ H \in Nat /\ Y \in Nat /\ p \in Nat /\ Instants = 0 .. H - 1 /\ D <= p
  BY <1>1, CalendarSizes, CalendarMinutes DEF Instants
<1>3. after \in Int /\ 6 * D <= after /\ after <= H - Y - p - 7 * D
  <2>1. Earliest = 6 * D /\ Latest = H - Y - p - 7 * D
    BY <1>1 DEF Earliest, Latest
  <2>2. QED
    BY <1>2, <2>1
<1>4. PICK t \in Instants : t = after + 1
  BY <1>2, <1>3
<1>5. PICK w \in Int : w = Local(after + 1) + Y /\ w < after + 1 + D + Y /\ after + 1 - D < w
  <2>1. Local(t) \in Int /\ t - D < Local(t) /\ Local(t) < t + D
    BY <1>1, WallNear
  <2>2. QED
    BY <1>2, <1>3, <1>4, <2>1
<1>6. w \in Instants
  BY <1>2, <1>3, <1>5
<1>7. PICK s \in Int : s = w - Offset[location][w] /\ s < w + D /\ w - D < s
  <2>1. Offset[location][w] \in Int /\ 0 - D < Offset[location][w] /\ Offset[location][w] < D
    BY <1>1, <1>6, WallNear
  <2>2. QED
    BY <1>2, <2>1
<1>8. s \in Instants
  <2>1. after + 1 - 2 * D < s /\ s < after + 1 + 2 * D + Y
    BY <1>2, <1>3, <1>5, <1>7
  <2>2. QED
    BY <1>2, <1>3, <1>7, <2>1
<1>9. Offset[location][s] \in Int /\ 0 - D < Offset[location][s]
  BY <1>1, <1>8, WallNear
<1>10. Limit = w - Offset[location][s]
  BY <1>1, <1>5, <1>7 DEF Limit, Date
<1>11. Limit \in Int /\ Limit < w + D
  BY <1>2, <1>9, <1>10
<1>12. QED
  BY <1>1, <1>2, <1>3, <1>5, <1>11

\* Up to its limit the search keeps so far from the ends of the calendar that what
\* DateOfMidnight needs holds of the next month and of the next day.
LEMMA WithinCalendar ==
  ASSUME CronIInv, candidate <= Limit
  PROVE  /\ candidate \in Instants /\ candidate + MinutesPerHour \in Instants /\ Local(candidate) \in Nat
         /\ 3 * MinutesPerDay <= Local(candidate) /\ candidate - MinutesPerDay < Local(candidate)
         /\ Local(candidate) + MinutesPerDay * LongestMonth + 3 * MinutesPerDay < Horizon
<1>1. PICK D, H, Y, p : D = MinutesPerDay /\ H = Horizon /\ Y = SearchMinutes /\ p = MinutesPerDay * LongestMonth
  OBVIOUS
<1>2. /\ D \in Nat \ {0} /\ H \in Nat /\ Y \in Nat /\ p \in Nat /\ Instants = 0 .. H - 1 /\ D <= p
      /\ MinutesPerHour \in Nat /\ MinutesPerHour <= D
  BY <1>1, CalendarSizes, CalendarMinutes DEF Instants
<1>3. /\ after \in Int /\ 6 * D <= after /\ after <= H - Y - p - 7 * D
      /\ candidate \in Int /\ candidate > after - 2 * D /\ location \in Locations
  <2>1. Earliest = 6 * D /\ Latest = H - Y - p - 7 * D
    BY <1>1 DEF Earliest, Latest
  <2>2. QED
    BY <1>1, <1>2, <2>1 DEF CronIInv
<1>4. candidate < after + 1 + Y + 2 * D
  <2>1. Limit \in Int /\ Limit < after + 1 + Y + 2 * D
    BY <1>1, LimitIs DEF CronIInv
  <2>2. QED
    BY <1>2, <1>3, <2>1
<1>5. candidate \in Instants /\ candidate + MinutesPerHour \in Instants
  BY <1>2, <1>3, <1>4
<1>6. Local(candidate) \in Int /\ candidate - D < Local(candidate) /\ Local(candidate) < candidate + D
  BY <1>1, <1>3, <1>5, WallNear
<1>7. QED
  BY <1>1, <1>2, <1>3, <1>4, <1>5, <1>6

\* While the expression and the location stay, so does all that is read off them.
LEMMA ReadingsStay ==
  ASSUME text' = text, location' = location, NEW t
  PROVE  /\ Local(t)' = Local(t) /\ (Occurs(Local(t))' <=> Occurs(Local(t)))
         /\ (StuckAt(t)' <=> StuckAt(t))
         /\ Parsed => Parsed'
<1>1. Local(t)' = Local(t)
  BY DEF Local
<1>2. Occurs(Local(t))' <=> Occurs(Local(t))
  BY DEF Occurs, Local
<1>3. StuckAt(t)' <=> StuckAt(t)
  BY DEF StuckAt, Local, Date, Fields, matchesDay
<1>4. Parsed => Parsed'
  BY DEF Parsed, Parses
<1>5. QED
  BY <1>1, <1>2, <1>3, <1>4

\* A jump over wall times that are no occurrences, or that come again, keeps the
\* invariant, if it leads on or to where the search stays.
LEMMA JumpKeeps ==
  ASSUME CronIInv, InLimit, NEW to \in Instants, Skip(to),
         \A t \in Instants : candidate <= t /\ t < to /\ Occurs(Local(t)) => ComesAgain(t, to),
         candidate < to \/ (StuckAt(to) /\ to > after - 2 * MinutesPerDay),
         candidate < to => candidate > after
  PROVE  CronIInv'
<1>1. candidate' = to /\ text' = text /\ location' = location /\ after' = after /\ found' = found /\ found = "searching"
  BY DEF Skip, InLimit
<1>2. candidate \in Instants /\ after \in Nat /\ candidate \in Int /\ to \in Int /\ Horizon \in Nat /\ Instants = 0 .. Horizon - 1
  <2>1. candidate \in Instants
    BY WithinCalendar DEF InLimit
  <2>2. after \in Nat
    BY CalendarSizes, CalendarMinutes DEF CronIInv, Earliest
  <2>3. QED
    BY <2>1, <2>2, CalendarMinutes DEF Instants
<1>3. ASSUME NEW t \in after + 1 .. to - 1, Occurs(Local(t)) PROVE ComesAgain(t, to)
  <2>1. t \in Instants /\ t \in Int
    BY <1>2
  <2>2. CASE candidate <= t
    BY <1>2, <1>3, <2>1, <2>2
  <2>3. CASE t < candidate
    <3>1. t \in after + 1 .. candidate - 1
      BY <1>2, <1>3, <2>1, <2>3
    <3>2. PICK u \in candidate .. Horizon - 1 : Local(u) = Local(t)
      BY <1>3, <3>1 DEF CronIInv, NextOccurrence, ComesAgain
    <3>3. CASE to <= u
      <4>1. u \in to .. Horizon - 1
        BY <1>2, <3>3
      <4>2. QED
        BY <3>2, <4>1 DEF ComesAgain
    <3>4. CASE u < to
      <4>1. u \in Instants /\ candidate <= u /\ Occurs(Local(u))
        BY <1>2, <1>3, <3>2
      <4>2. ComesAgain(u, to)
        BY <3>4, <4>1
      <4>3. QED
        BY <3>2, <4>2 DEF ComesAgain
    <3>5. QED
      BY <1>2, <3>3, <3>4
  <2>4. QED
    BY <1>2, <2>1, <2>2, <2>3
<1>4. \A t, from : ComesAgain(t, from)' <=> ComesAgain(t, from)
  BY <1>1, ReadingsStay DEF ComesAgain
<1>5. NextOccurrence'
  <2>1. \A t \in after + 1 .. to - 1 : Occurs(Local(t))' => ComesAgain(t, to)'
    BY <1>1, <1>3, <1>4, ReadingsStay
  <2>2. QED
    BY <1>1, <2>1 DEF NextOccurrence
<1>6. to > after \/ (StuckAt(to) /\ to > after - 2 * MinutesPerDay)
  BY <1>2
<1>7. QED
  BY <1>1, <1>2, <1>5, <1>6, ReadingsStay DEF CronIInv, Earliest, Latest

\* The midnight m is on the clocks of the location.
Shown(m) == \E u \in Instants : Local(u) = m

\* A turn that jumps to the midnight at the end of a month or of a day without an
\* occurrence keeps the invariant, and leads on if the midnight exists.
LEMMA MidnightTurn ==
  ASSUME CronIInv, InLimit, NEW low, NEW high, Encloses(Local(candidate), low, high), Skip(Date(high)),
         \A x \in Nat : low <= x /\ x < high => ~ Occurs(x),
         \A t \in Instants : Local(t) \in Nat /\ low <= Local(t) /\ Local(t) < high /\ Date(high) = t => StuckAt(t),
         StuckAt(candidate) => Date(high) = candidate
  PROVE  CronIInv' /\ (Shown(high) => candidate < candidate')
<1>1. /\ candidate \in Instants /\ candidate \in Nat /\ Local(candidate) \in Nat /\ location \in Locations
      /\ 3 * MinutesPerDay <= Local(candidate) /\ candidate - MinutesPerDay < Local(candidate)
      /\ Local(candidate) + MinutesPerDay * LongestMonth + 3 * MinutesPerDay < Horizon
  BY WithinCalendar, WallNear DEF InLimit, CronIInv
<1>2. /\ low \in Nat /\ high \in Nat /\ Local(candidate) < high /\ low + MinutesPerDay <= high
      /\ high <= Local(candidate) + MinutesPerDay * LongestMonth /\ MinutesPerDay \in Nat
      /\ MinutesPerDay * LongestMonth \in Nat /\ Horizon \in Nat
  BY CalendarSizes, CalendarMinutes DEF Encloses
<1>3. 3 * MinutesPerDay <= high /\ high + 3 * MinutesPerDay < Horizon
  BY <1>1, <1>2
<1>4. PICK to \in Instants : to = Date(high)
  BY <1>1, <1>3, DateOfMidnight
<1>5. /\ high - MinutesPerDay < to /\ to \in Nat
      /\ \A v \in Instants : candidate <= v /\ v < to => low <= Local(v) /\ (Local(v) < high \/ ComesAgain(v, to))
      /\ to <= candidate => high - MinutesPerDay <= Local(to) /\ Local(to) < high
      /\ Shown(high) => candidate < to
  <2>1. to \in Nat
    BY <1>1, WallNear
  <2>2. QED
    BY <1>1, <1>3, <1>4, <2>1, DateOfMidnight DEF Shown
<1>6. ASSUME NEW t \in Instants, candidate <= t, t < to, Occurs(Local(t)) PROVE ComesAgain(t, to)
  <2>1. Local(t) \in Int /\ low <= Local(t) /\ (Local(t) < high \/ ComesAgain(t, to))
    BY <1>1, <1>5, <1>6, WallNear
  <2>2. Local(t) \in Nat
    BY <1>2, <2>1
  <2>3. QED
    BY <1>6, <2>1, <2>2
<1>7. CASE candidate < to
  <2>1. candidate > after
    <3>1. ~ StuckAt(candidate)
      BY <1>1, <1>4, <1>7
    <3>2. QED
      BY <3>1 DEF CronIInv
  <2>2. candidate' = to
    BY <1>4 DEF Skip
  <2>3. QED
    BY <1>4, <1>6, <1>7, <2>1, <2>2, JumpKeeps
<1>8. CASE to <= candidate
  <2>1. Local(to) \in Int /\ high - MinutesPerDay <= Local(to) /\ Local(to) < high
    BY <1>1, <1>5, <1>8, WallNear
  <2>2. Local(to) \in Nat /\ low <= Local(to)
    BY <1>2, <2>1
  <2>3. StuckAt(to)
    BY <1>4, <2>1, <2>2
  <2>4. to > after - 2 * MinutesPerDay
    <3>1. after \in Int
      BY CalendarSizes, CalendarMinutes DEF CronIInv, Earliest
    <3>2. CASE candidate > after
      BY <1>1, <1>2, <1>5, <3>1, <3>2
    <3>3. CASE ~(candidate > after)
      BY <1>4, <3>3 DEF CronIInv
    <3>4. QED
      BY <3>2, <3>3
  <2>5. ~(candidate < to)
    BY <1>1, <1>5, <1>8
  <2>6. CronIInv'
    BY <1>4, <1>6, <2>3, <2>4, <2>5, JumpKeeps
  <2>7. QED
    BY <1>5, <2>5, <2>6
<1>9. QED
  BY <1>1, <1>5, <1>7, <1>8

\* What a turn jumps to: the next month or the next day.
JumpsTo == IF MonthMatches THEN NextDay(Local(candidate)) ELSE NextMonth(Local(candidate))

\* Each turn of the loop keeps the invariant, and goes on unless the midnight it jumps
\* to does not exist.
LEMMA SearchKeeps ==
  ASSUME CronIInv, SearchMonth \/ SearchDay \/ SearchHour \/ (SearchMinute /\ found' = "searching")
  PROVE  CronIInv' /\ (Shown(JumpsTo) \/ SearchHour \/ SearchMinute => candidate < candidate')
<1>1. PICK w \in Nat : w = Local(candidate)
  <2>1. InLimit
    BY DEF SearchMonth, SearchDay, SearchHour, SearchMinute
  <2>2. QED
    BY <2>1, WithinCalendar DEF InLimit
<1>2. /\ InLimit /\ candidate \in Instants /\ candidate \in Nat /\ location \in Locations /\ Parsed
      /\ candidate + MinutesPerHour \in Instants /\ w < Horizon
  <2>1. InLimit
    BY DEF SearchMonth, SearchDay, SearchHour, SearchMinute
  <2>2. /\ candidate \in Instants /\ candidate + MinutesPerHour \in Instants
        /\ w + MinutesPerDay * LongestMonth + 3 * MinutesPerDay < Horizon
    BY <1>1, <2>1, WithinCalendar DEF InLimit
  <2>3. w < Horizon
    BY <2>2, CalendarSizes, CalendarMinutes
  <2>4. location \in Locations /\ Parsed
    BY DEF CronIInv
  <2>5. QED
    BY <2>1, <2>2, <2>3, <2>4, WallNear
<1>3. CASE SearchMonth
  <2>1. PICK low : /\ Encloses(w, low, NextMonth(w))
                   /\ \A x \in Nat : low <= x /\ x < NextMonth(w) =>
                        x < Horizon /\ Month(x) = Month(w) /\ NextMonth(x) = NextMonth(w)
    BY <1>2, MonthEnclosed
  <2>2. Month(w) \notin Fields.months /\ Skip(Date(NextMonth(w))) /\ JumpsTo = NextMonth(w)
    BY <1>1, <1>3 DEF SearchMonth, MonthMatches, SkipMonth, JumpsTo
  <2>3. \A x \in Nat : low <= x /\ x < NextMonth(w) => ~ Occurs(x)
    BY <1>2, <2>1, <2>2, OccursIs
  <2>4. \A t \in Instants : Local(t) \in Nat /\ low <= Local(t) /\ Local(t) < NextMonth(w) /\ Date(NextMonth(w)) = t => StuckAt(t)
    BY <2>1, <2>2 DEF StuckAt
  <2>5. StuckAt(candidate) => Date(NextMonth(w)) = candidate
    BY <1>1, <2>2 DEF StuckAt
  <2>6. CronIInv' /\ (Shown(NextMonth(w)) => candidate < candidate')
    BY <1>1, <1>2, <2>1, <2>2, <2>3, <2>4, <2>5, MidnightTurn
  <2>7. ~ SearchHour /\ ~ SearchMinute
    BY <1>3 DEF SearchMonth, SearchHour, SearchMinute
  <2>8. QED
    BY <2>2, <2>6, <2>7
<1>4. CASE SearchDay
  <2>1. PICK low : /\ Encloses(w, low, NextDay(w))
                   /\ \A x \in Nat : low <= x /\ x < NextDay(w) =>
                        /\ x < Horizon /\ Month(x) = Month(w) /\ Day(x) = Day(w) /\ Weekday(x) = Weekday(w)
                        /\ NextDay(x) = NextDay(w)
    BY <1>2, DayEnclosed
  <2>2. /\ Month(w) \in Fields.months /\ ~ matchesDay(w) /\ Skip(Date(NextDay(w)))
        /\ JumpsTo = NextDay(w)
    BY <1>1, <1>4 DEF SearchDay, MonthMatches, DayMatches, SkipDay, JumpsTo
  <2>3. ASSUME NEW x \in Nat, low <= x, x < NextDay(w)
        PROVE  /\ x < Horizon /\ Month(x) \in Fields.months /\ ~ matchesDay(x)
               /\ NextDay(x) = NextDay(w) /\ ~ Occurs(x)
    <3>1. x < Horizon /\ Month(x) = Month(w) /\ NextDay(x) = NextDay(w) /\ Day(x) = Day(w) /\ Weekday(x) = Weekday(w)
      BY <2>1, <2>3
    <3>2. ~ matchesDay(x)
      BY <2>2, <3>1 DEF matchesDay
    <3>3. QED
      BY <1>2, <2>2, <3>1, <3>2, OccursIs
  <2>4. \A t \in Instants : Local(t) \in Nat /\ low <= Local(t) /\ Local(t) < NextDay(w) /\ Date(NextDay(w)) = t => StuckAt(t)
    BY <2>3 DEF StuckAt
  <2>5. StuckAt(candidate) => Date(NextDay(w)) = candidate
    BY <1>1, <2>2 DEF StuckAt
  <2>6. CronIInv' /\ (Shown(NextDay(w)) => candidate < candidate')
    BY <1>1, <1>2, <2>1, <2>2, <2>3, <2>4, <2>5, MidnightTurn
  <2>7. ~ SearchHour /\ ~ SearchMinute
    BY <1>4 DEF SearchDay, SearchHour, SearchMinute
  <2>8. QED
    BY <2>2, <2>6, <2>7
<1>5. ASSUME MonthMatches, DayMatches PROVE candidate > after
  <2>1. ~ StuckAt(candidate)
    BY <1>5 DEF StuckAt, MonthMatches, DayMatches
  <2>2. QED
    BY <2>1 DEF CronIInv
<1>6. CASE SearchHour
  <2>1. PICK minute \in Nat : minute = Minute(w) /\ minute < MinutesPerHour
    <3>1. Minute(w) \in 0 .. MinutesPerHour - 1
      BY <1>2, CalendarRanges
    <3>2. QED
      BY <3>1, CalendarSizes
  <2>2. PICK to \in Instants : to = candidate + MinutesPerHour - minute /\ candidate < to /\ to \in Nat
    <3>1. PICK n \in Nat : n = candidate + MinutesPerHour - minute /\ candidate < n /\ n <= candidate + MinutesPerHour
      BY <1>2, <2>1, CalendarSizes
    <3>2. n \in Instants
      BY <1>2, <3>1, CalendarSizes, CalendarMinutes DEF Instants
    <3>3. QED
      BY <3>1, <3>2
  <2>3. ASSUME NEW t \in Instants, candidate <= t, t < to PROVE ~ Occurs(Local(t))
    <3>1. t \in Nat /\ Offset[location][t] = Offset[location][candidate]
      <4>1. t \in Nat
        BY <1>2, WallNear
      <4>2. t - candidate < MinutesPerHour - minute
        BY <1>2, <2>1, <2>2, <2>3, <4>1, CalendarSizes
      <4>3. minute = Minute(WallOf(Offset[location], candidate))
        BY <1>1, <2>1 DEF Local
      <4>4. QED
        BY <1>2, <2>3, <4>1, <4>2, <4>3, CronAssumption DEF ZoneOK
    <3>2. PICK o \in Int : o = Offset[location][candidate] /\ w = candidate + o /\ Local(t) = t + o
      BY <1>1, <1>2, <3>1, WallNear
    <3>3. PICK x \in Nat : x = Local(t) /\ w <= x /\ x < w + MinutesPerHour - minute
      <4>1. MinutesPerHour \in Nat /\ candidate \in Nat /\ t \in Nat
        BY <1>2, <3>1, CalendarSizes
      <4>2. w <= t + o
        BY <2>3, <3>2, <4>1
      <4>3. t + o < w + MinutesPerHour - minute
        BY <2>2, <2>3, <3>2, <4>1
      <4>4. t + o \in Nat
        BY <3>2, <4>1, <4>2
      <4>5. QED
        BY <3>2, <4>2, <4>3, <4>4
    <3>4. Hour(x) = Hour(w)
      BY <2>1, <3>3, SameHour
    <3>5. Hour(x) \notin Fields.hours
      BY <1>1, <1>6, <3>4 DEF SearchHour, HourMatches
    <3>6. x < Horizon
      <4>1. w + MinutesPerDay * LongestMonth + 3 * MinutesPerDay < Horizon
        BY <1>1, <1>2, WithinCalendar DEF InLimit
      <4>2. QED
        BY <2>1, <3>3, <4>1, CalendarSizes, CalendarMinutes
    <3>7. QED
      BY <1>2, <3>3, <3>5, <3>6, OccursIs
  <2>4. Skip(to) /\ candidate > after
    BY <1>1, <1>5, <1>6, <2>1, <2>2 DEF SearchHour, SkipHour
  <2>5. CronIInv' /\ candidate' = to
    BY <1>2, <2>2, <2>3, <2>4, JumpKeeps DEF Skip
  <2>6. QED
    BY <2>2, <2>5
<1>7. CASE SearchMinute /\ found' = "searching"
  <2>1. Minute(w) \notin Fields.minutes /\ Skip(candidate + 1) /\ candidate > after
    BY <1>1, <1>5, <1>7 DEF SearchMinute
  <2>2. PICK to \in Instants : to = candidate + 1 /\ candidate < to
    BY <1>2, CalendarSizes, CalendarMinutes DEF Instants
  <2>3. ASSUME NEW t \in Instants, candidate <= t, t < to PROVE ~ Occurs(Local(t))
    <3>1. t = candidate
      BY <1>2, <2>2, <2>3, WallNear
    <3>2. QED
      BY <1>1, <1>2, <2>1, <3>1, OccursIs
  <2>4. CronIInv' /\ candidate' = to
    BY <1>2, <2>1, <2>2, <2>3, JumpKeeps DEF Skip
  <2>5. QED
    BY <2>2, <2>4
<1>8. QED
  BY <1>3, <1>4, <1>6, <1>7

\* CronIInv is inductive.
LEMMA CronInductive == CronIInv /\ [CronNext]_cronVars => CronIInv'
<1>1. SUFFICES ASSUME CronIInv, [CronNext]_cronVars PROVE CronIInv'
  OBVIOUS
<1>2. CASE SearchMonth \/ SearchDay \/ SearchHour
  BY <1>1, <1>2, SearchKeeps
<1>3. CASE SearchMinute
  <2>1. CASE Minute(Local(candidate)) \in Fields.minutes
    <3>1. /\ InLimit /\ found' = "found" /\ text' = text /\ location' = location /\ after' = after /\ candidate' = candidate
          /\ MonthMatches /\ DayMatches /\ HourMatches
      BY <1>3, <2>1 DEF SearchMinute
    <3>2. candidate > after
      <4>1. ~ StuckAt(candidate)
        BY <3>1 DEF StuckAt, MonthMatches, DayMatches
      <4>2. QED
        BY <1>1, <4>1 DEF CronIInv
    <3>3. PICK w \in Nat : w = Local(candidate) /\ w < Horizon
      <4>1. Local(candidate) \in Nat /\ Local(candidate) + MinutesPerDay * LongestMonth + 3 * MinutesPerDay < Horizon
        BY <1>1, <3>1, WithinCalendar DEF InLimit
      <4>2. QED
        BY <4>1, CalendarSizes, CalendarMinutes
    <3>4. Occurs(Local(candidate))
      BY <1>1, <2>1, <3>1, <3>3, OccursIs DEF CronIInv, MonthMatches, DayMatches, HourMatches
    <3>5. \A t, from : ComesAgain(t, from)' <=> ComesAgain(t, from)
      BY <3>1, ReadingsStay DEF ComesAgain
    <3>6. Occurs(Local(candidate))'
      <4>1. \A c : Occurs(Local(c))' <=> Occurs(Local(c))
        BY <3>1, ReadingsStay
      <4>2. QED
        BY <3>1, <3>4 DEF Occurs, Local
    <3>7. NextOccurrence'
      <4>1. \A t \in after + 1 .. candidate - 1 : Occurs(Local(t))' => ComesAgain(t, candidate)'
        BY <1>1, <3>1, <3>5, ReadingsStay DEF CronIInv, NextOccurrence
      <4>2. QED
        BY <3>1, <3>2, <3>6, <4>1 DEF NextOccurrence
    <3>8. QED
      BY <1>1, <3>1, <3>2, <3>7, ReadingsStay DEF CronIInv, Earliest, Latest
  <2>2. CASE Minute(Local(candidate)) \notin Fields.minutes
    <3>1. found' = "searching"
      BY <1>3, <2>2 DEF SearchMinute, Skip, InLimit
    <3>2. QED
      BY <1>1, <1>3, <3>1, SearchKeeps
  <2>3. QED
    BY <2>1, <2>2
<1>4. CASE GivesUp
  <2>1. found' = "none" /\ text' = text /\ location' = location /\ after' = after /\ candidate' = candidate /\ candidate > Limit
    BY <1>4 DEF GivesUp
  <2>2. after \in Int /\ candidate \in Int /\ Limit \in Int /\ Horizon \in Int
    BY <1>1, LimitIs, CalendarSizes, CalendarMinutes DEF CronIInv, Earliest
  <2>3. ASSUME NEW t \in after + 1 .. Limit, Occurs(Local(t)) PROVE ComesAgain(t, Limit + 1)
    <3>1. t \in after + 1 .. candidate - 1
      BY <2>1, <2>2, <2>3
    <3>2. PICK u \in candidate .. Horizon - 1 : Local(u) = Local(t)
      BY <1>1, <2>3, <3>1 DEF CronIInv, NextOccurrence, ComesAgain
    <3>3. u \in Limit + 1 .. Horizon - 1
      BY <2>1, <2>2
    <3>4. QED
      BY <3>2, <3>3 DEF ComesAgain
  <2>4. Limit' = Limit
    BY <2>1 DEF Limit, Date, Local
  <2>5. \A t, from : ComesAgain(t, from)' <=> ComesAgain(t, from)
    BY <2>1, ReadingsStay DEF ComesAgain
  <2>6. NextOccurrence'
    <3>1. \A t \in after + 1 .. candidate - 1 : Occurs(Local(t))' => ComesAgain(t, candidate)'
      BY <1>1, <2>1, <2>5, ReadingsStay DEF CronIInv, NextOccurrence
    <3>2. \A t \in after + 1 .. Limit : Occurs(Local(t))' => ComesAgain(t, Limit + 1)'
      BY <2>1, <2>3, <2>4, ReadingsStay DEF ComesAgain
    <3>3. QED
      BY <2>1, <2>4, <3>1, <3>2 DEF NextOccurrence
  <2>7. QED
    BY <1>1, <2>1, <2>6, ReadingsStay DEF CronIInv, Earliest, Latest
<1>5. CASE RunsTask
  <2>1. /\ text' = text /\ location' = location /\ after' = candidate /\ candidate' = candidate + 1
        /\ found' = "searching" /\ candidate <= Latest /\ found = "found"
    BY <1>5 DEF RunsTask
  <2>2. candidate \in Int /\ candidate > after
    BY <1>1, <2>1 DEF CronIInv, NextOccurrence
  <2>3. candidate \in Earliest .. Latest
    <3>1. Earliest \in Int /\ Latest \in Int /\ after \in Int /\ Earliest <= after
      BY <1>1, CalendarSizes, CalendarMinutes DEF CronIInv, Earliest
    <3>2. QED
      BY <2>1, <2>2, <3>1
  <2>4. candidate + 1 .. (candidate + 1) - 1 = {}
    BY <2>2
  <2>5. NextOccurrence'
    BY <2>1, <2>4 DEF NextOccurrence
  <2>6. candidate' > after'
    BY <2>1, <2>2
  <2>7. QED
    BY <1>1, <2>1, <2>2, <2>3, <2>5, <2>6, ReadingsStay DEF CronIInv, Earliest, Latest
<1>6. CASE UNCHANGED cronVars
  <2>1. text' = text /\ location' = location /\ after' = after /\ candidate' = candidate /\ found' = found
    BY <1>6 DEF cronVars
  <2>2. QED
    BY <1>1, <2>1 DEF CronIInv, NextOccurrence, Parsed, Parses, StuckAt, Limit, Date, Local, ComesAgain,
                     Occurs, Fields, matchesDay
<1>7. QED
  BY <1>1, <1>2, <1>3, <1>4, <1>5, <1>6 DEF CronNext

\* A search starts at the minute after.
LEMMA CronStarts == CronInit => CronIInv
<1>1. SUFFICES ASSUME CronInit PROVE CronIInv
  OBVIOUS
<1>2. Parsed
  <2>1. /\ Entries.minute \in SUBSET SUBSET Items /\ Entries.hour \in SUBSET SUBSET Items
        /\ Entries.day \in SUBSET SUBSET Items /\ Entries.month \in SUBSET SUBSET Items
        /\ Entries.weekday \in SUBSET SUBSET Items
    BY CronAssumption
  <2>2. QED
    BY <1>1, <2>1 DEF CronInit, Parsed
<1>3. after \in Earliest .. Latest /\ location \in Locations /\ candidate = after + 1 /\ found = "searching"
  BY <1>1, CronAssumption DEF CronInit
<1>4. after \in Int
  BY <1>3, CalendarSizes, CalendarMinutes DEF Earliest
<1>5. after + 1 .. candidate - 1 = {} /\ candidate \in Int /\ candidate > after
  BY <1>3, <1>4
<1>6. NextOccurrence
  BY <1>3, <1>5 DEF NextOccurrence
<1>7. QED
  BY <1>2, <1>3, <1>5, <1>6 DEF CronIInv

\* cronExpression.next jumps over no occurrence but one whose wall time comes again,
\* returns one that the expression describes, after the time it was asked for, and gives
\* up only if none is left in the years it searches: for every expression that parses,
\* every calendar, the Gregorian one included, and every location whose offsets are as
\* ZoneOK says, those included that leave midnights out.
THEOREM OccurrencesFound == CronSpec => []NextOccurrence
<1>1. CronSpec => []CronIInv
  BY CronStarts, CronInductive, PTL DEF CronSpec
<1>2. CronIInv => NextOccurrence
  BY DEF CronIInv
<1>3. QED
  BY <1>1, <1>2, PTL

\* A turn of the loop that does not end the search advances the candidate, unless it
\* jumps to a midnight that the clocks of the location leave out.
TurnAdvances ==
  found = "searching" /\ found' = "searching" => candidate < candidate' \/ ~ Shown(JumpsTo)

\* The only way for the loop of cronExpression.next not to end is a month or a day jump
\* to a midnight that does not exist in the location: every other turn advances the
\* candidate, and none begins beyond the limit of cronSearchYears.
THEOREM SearchAdvances ==
  CronSpec => [][TurnAdvances /\ (candidate' # candidate => found = "found" \/ candidate <= Limit)]_cronVars
<1>1. CronSpec => []CronIInv
  BY CronStarts, CronInductive, PTL DEF CronSpec
<1>2. ASSUME CronIInv, CronNext
      PROVE  TurnAdvances /\ (candidate' # candidate => found = "found" \/ candidate <= Limit)
  <2>1. CASE SearchMonth \/ SearchDay \/ SearchHour
    BY <1>2, <2>1, SearchKeeps DEF TurnAdvances, SearchMonth, SearchDay, SearchHour, InLimit
  <2>2. CASE SearchMinute
    BY <1>2, <2>2, SearchKeeps DEF TurnAdvances, SearchMinute, InLimit
  <2>3. CASE GivesUp
    BY <2>3 DEF TurnAdvances, GivesUp
  <2>4. CASE RunsTask
    BY <2>4 DEF TurnAdvances, RunsTask
  <2>5. QED
    BY <1>2, <2>1, <2>2, <2>3, <2>4 DEF CronNext
<1>3. QED
  BY <1>1, <1>2, PTL DEF CronSpec

=============================================================================
