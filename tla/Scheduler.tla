------------------------------ MODULE Scheduler ------------------------------
(***************************************************************************)
(* Scheduler without a store: the loops of registered tasks (runTaskLoop)  *)
(* and the tasks that StartTask starts and a ScheduledTaskHandle controls  *)
(* (runDynamicTask), from registration to the end of Shutdown.             *)
(*                                                                         *)
(* Sections under scheduler.mu or handle.mu are one step each; everything  *)
(* else, the select of a waiting runner included, interleaves.  A handle's *)
(* wake channel holds one signal.  The loops of registered tasks wait for  *)
(* an unspecified time, those of handles for their interval.               *)
(***************************************************************************)
EXTENDS Integers

CONSTANTS
  Names,       \* task names
  Handles,     \* the handles StartTask may return, one per successful call
  NameOf,      \* the name each handle is started with
  Intervals,   \* the delays StartTask and SetInterval are called with
  MaxTime,     \* bounds the model
  MaxChanges,  \* calls of SetInterval on one handle: bounds the model
  NoHandle

SchedulerAssumption ==
  /\ NameOf \in [Handles -> Names]
  /\ Intervals \subseteq Nat \ {0}
  /\ {MaxTime, MaxChanges} \subseteq Nat
  /\ NoHandle \notin Handles

VARIABLES
  state,      \* Scheduler.state
  taskNames,  \* Scheduler.taskNames
  dynamic,    \* Scheduler.dynamicTasks
  waited,     \* has runners.Wait returned in finishShutdown?
  fixed,      \* where the loop of each registered task is
  at,         \* where the runner of each handle is
  cancelled,  \* is the handle's context done?
  interval, revision, trigger, wake,   \* the handle's fields
  local,      \* the interval, revision and trigger a runner has read
  timer,      \* when a runner's timer fires
  now,
  base,       \* history: when the current delay of a handle began at the earliest
  owed        \* history: a trigger was accepted and no invocation began since

handle == <<cancelled, interval, revision, trigger, wake>>
runner == <<at, local, timer>>
history == <<base, owed>>
vars == <<state, taskNames, dynamic, waited, fixed, at, cancelled, interval, revision,
          trigger, wake, local, timer, now, base, owed>>

\* What a runner keeps across a wait.
Nothing == [interval |-> 0, revision |-> 0, trigger |-> FALSE]

Init ==
  /\ state = "collecting"
  /\ taskNames = {}
  /\ dynamic = [n \in Names |-> NoHandle]
  /\ waited = FALSE
  /\ fixed = [n \in Names |-> "none"]
  /\ at = [h \in Handles |-> "none"]
  /\ cancelled = [h \in Handles |-> FALSE]
  /\ interval = [h \in Handles |-> 0]
  /\ revision = [h \in Handles |-> 0]
  /\ trigger = [h \in Handles |-> FALSE]
  /\ wake = [h \in Handles |-> FALSE]
  /\ local = [h \in Handles |-> Nothing]
  /\ timer = [h \in Handles |-> 0]
  /\ now = 0
  /\ base = [h \in Handles |-> 0]
  /\ owed = [h \in Handles |-> FALSE]

Goto(h, place) == at' = [at EXCEPT ![h] = place]
Stopping == state \in {"stopping", "stopped"}   \* the stopping channel is closed

-----------------------------------------------------------------------------
(***************************************************************************)
(* Registered tasks                                                        *)
(***************************************************************************)
registerTask(n) ==
  /\ state = "collecting"
  /\ n \notin taskNames
  /\ taskNames' = taskNames \cup {n}
  /\ fixed' = [fixed EXCEPT ![n] = "registered"]
  /\ UNCHANGED <<state, dynamic, waited, now>>
  /\ UNCHANGED handle /\ UNCHANGED runner /\ UNCHANGED history

Start ==
  /\ state = "collecting"
  /\ state' = "running"
  /\ fixed' = [n \in Names |-> IF fixed[n] = "registered" THEN "loop" ELSE fixed[n]]
  /\ UNCHANGED <<taskNames, dynamic, waited, now>>
  /\ UNCHANGED handle /\ UNCHANGED runner /\ UNCHANGED history

\* The places of runTaskLoop: before the first check, in the select with the
\* timer, before the second check and in the task.
runTaskLoop(n) ==
  /\ \/ /\ fixed[n] = "loop"
        /\ fixed' = [fixed EXCEPT ![n] = IF Stopping THEN "exited" ELSE "waiting"]
     \/ /\ fixed[n] = "waiting"
        /\ \/ Stopping /\ fixed' = [fixed EXCEPT ![n] = "exited"]
           \/ fixed' = [fixed EXCEPT ![n] = "fired"]
     \/ /\ fixed[n] = "fired"
        /\ fixed' = [fixed EXCEPT ![n] = IF Stopping THEN "exited" ELSE "invoking"]
     \/ /\ fixed[n] = "invoking"
        /\ fixed' = [fixed EXCEPT ![n] = "loop"]
  /\ UNCHANGED <<state, taskNames, dynamic, waited, now>>
  /\ UNCHANGED handle /\ UNCHANGED runner /\ UNCHANGED history

-----------------------------------------------------------------------------
(***************************************************************************)
(* Handles                                                                 *)
(***************************************************************************)

MayStart(h) ==
  /\ state = "running"
  /\ NameOf[h] \notin taskNames

StartTask(h, delay) ==
  /\ at[h] = "none"
  /\ MayStart(h)
  /\ taskNames' = taskNames \cup {NameOf[h]}
  /\ dynamic' = [dynamic EXCEPT ![NameOf[h]] = h]
  /\ Goto(h, "top")
  /\ interval' = [interval EXCEPT ![h] = delay]
  /\ base' = [base EXCEPT ![h] = now]
  /\ UNCHANGED <<state, waited, fixed, cancelled, revision, trigger, wake, local, timer,
                 now, owed>>

Stop(h) ==
  /\ at[h] # "none"
  /\ cancelled' = [cancelled EXCEPT ![h] = TRUE]
  /\ UNCHANGED <<state, taskNames, dynamic, waited, fixed, interval, revision, trigger,
                 wake, now>>
  /\ UNCHANGED runner /\ UNCHANGED history

\* notify puts a signal in the wake channel unless there is one.
notify(h) == wake' = [wake EXCEPT ![h] = TRUE]

SetInterval(h, delay) ==
  /\ at[h] # "none" /\ ~cancelled[h]
  /\ revision[h] < MaxChanges
  /\ interval' = [interval EXCEPT ![h] = delay]
  /\ revision' = [revision EXCEPT ![h] = @ + 1]
  /\ notify(h)
  /\ base' = [base EXCEPT ![h] = now]
  /\ UNCHANGED <<state, taskNames, dynamic, waited, fixed, cancelled, trigger, now, owed>>
  /\ UNCHANGED runner

TriggerNow(h) ==
  /\ at[h] # "none" /\ ~cancelled[h]
  /\ trigger' = [trigger EXCEPT ![h] = TRUE]
  /\ notify(h)
  /\ owed' = [owed EXCEPT ![h] = TRUE]
  /\ UNCHANGED <<state, taskNames, dynamic, waited, fixed, cancelled, interval, revision,
                 now, base>>
  /\ UNCHANGED runner

-----------------------------------------------------------------------------
(***************************************************************************)
(* runDynamicTask                                                          *)
(***************************************************************************)

\* Mutant: a wake-up takes the trigger with it and waits again.
ReadIgnoringTrigger(h) ==
  [interval |-> interval[h], revision |-> revision[h], trigger |-> FALSE]

\* interval, revision, trigger := ...
Read(h) == [interval |-> interval[h], revision |-> revision[h], trigger |-> trigger[h]]

\* The section under handle.mu at the top of the loop; a trigger skips the wait.
Top(h) ==
  /\ at[h] = "top"
  /\ local' = [local EXCEPT ![h] = Read(h)]
  /\ trigger' = [trigger EXCEPT ![h] = FALSE]
  /\ wake' = [wake EXCEPT ![h] = FALSE]
  /\ Goto(h, IF local'[h].trigger THEN "due" ELSE "arm")
  /\ UNCHANGED <<state, taskNames, dynamic, waited, fixed, cancelled, interval, revision,
                 timer, now>>
  /\ UNCHANGED history

\* The check of the context and NewTimer.
Arm(h) ==
  /\ at[h] = "arm"
  /\ IF cancelled[h]
     THEN Goto(h, "leaving") /\ UNCHANGED timer
     ELSE Goto(h, "waiting") /\ timer' = [timer EXCEPT ![h] = now + local[h].interval]
  /\ UNCHANGED <<state, taskNames, dynamic, waited, fixed, local, now>>
  /\ UNCHANGED handle /\ UNCHANGED history

\* The select: the context, the wake channel or the timer.
Select(h) ==
  /\ at[h] = "waiting"
  /\ \/ cancelled[h] /\ Goto(h, "leaving") /\ UNCHANGED wake
     \/ wake[h] /\ Goto(h, "top") /\ wake' = [wake EXCEPT ![h] = FALSE]
     \/ timer[h] <= now /\ Goto(h, "fired") /\ UNCHANGED wake
  /\ timer' = [timer EXCEPT ![h] = 0]
  /\ UNCHANGED <<state, taskNames, dynamic, waited, fixed, cancelled, interval, revision,
                 trigger, local, now>>
  /\ UNCHANGED history

\* Mutant: a delay that was changed as the timer fired is not waited for.
NeverChanged(h) == FALSE

Changed(h) == local[h].revision # revision[h] /\ ~trigger[h]

\* The section after the timer: a simultaneous trigger is one invocation.
Fired(h) ==
  /\ at[h] = "fired"
  /\ Goto(h, IF Changed(h) THEN "top" ELSE "due")
  /\ trigger' = [trigger EXCEPT ![h] = FALSE]
  /\ wake' = [wake EXCEPT ![h] = FALSE]
  /\ UNCHANGED <<state, taskNames, dynamic, waited, fixed, cancelled, interval, revision,
                 local, timer, now>>
  /\ UNCHANGED history

Invoke(h) ==
  /\ at[h] = "due"
  /\ IF cancelled[h]
     THEN Goto(h, "leaving") /\ UNCHANGED owed
     ELSE Goto(h, "invoking") /\ owed' = [owed EXCEPT ![h] = FALSE]
  /\ local' = [local EXCEPT ![h] = Nothing]
  /\ UNCHANGED <<state, taskNames, dynamic, waited, fixed, timer, now, base>>
  /\ UNCHANGED handle

\* The task returns, with an error, a panic or nil.
Return(h) ==
  /\ at[h] = "invoking"
  /\ Goto(h, "top")
  /\ base' = [base EXCEPT ![h] = now]
  /\ UNCHANGED <<state, taskNames, dynamic, waited, fixed, local, timer, now, owed>>
  /\ UNCHANGED handle

\* The deferred function: cancel; delete under scheduler.mu; close done and
\* runners.Done.
Leave(h) ==
  /\ at[h] = "leaving"
  /\ Goto(h, "deleting")
  /\ cancelled' = [cancelled EXCEPT ![h] = TRUE]
  /\ UNCHANGED <<state, taskNames, dynamic, waited, fixed, interval, revision, trigger,
                 wake, local, timer, now>>
  /\ UNCHANGED history

Delete(h) ==
  /\ at[h] = "deleting"
  /\ Goto(h, "closing")
  /\ dynamic' = [dynamic EXCEPT ![NameOf[h]] = NoHandle]
  /\ taskNames' = taskNames \ {NameOf[h]}
  /\ UNCHANGED <<state, waited, fixed, local, timer, now>>
  /\ UNCHANGED handle /\ UNCHANGED history

CloseDone(h) ==
  /\ at[h] = "closing"
  /\ Goto(h, "done")
  /\ UNCHANGED <<state, taskNames, dynamic, waited, fixed, local, timer, now>>
  /\ UNCHANGED handle /\ UNCHANGED history

runDynamicTask(h) ==
  \/ Top(h) \/ Arm(h) \/ Select(h) \/ Fired(h) \/ Invoke(h) \/ Return(h)
  \/ Leave(h) \/ Delete(h) \/ CloseDone(h)

-----------------------------------------------------------------------------
(***************************************************************************)
(* Shutdown                                                                *)
(***************************************************************************)
ShutdownCollecting ==
  /\ state = "collecting"
  /\ state' = "stopped"
  /\ UNCHANGED <<taskNames, dynamic, waited, fixed, now>>
  /\ UNCHANGED handle /\ UNCHANGED runner /\ UNCHANGED history

Shutdown ==
  /\ state = "running"
  /\ state' = "stopping"
  /\ cancelled' = [h \in Handles |-> cancelled[h] \/ dynamic[NameOf[h]] = h]
  /\ UNCHANGED <<taskNames, dynamic, waited, fixed, interval, revision, trigger, wake, now>>
  /\ UNCHANGED runner /\ UNCHANGED history

\* The wait group counts the loops that Start and StartTask have added.
WaitReturns ==
  /\ state = "stopping" /\ ~waited
  /\ \A n \in Names : fixed[n] \in {"none", "exited"}
  /\ \A h \in Handles : at[h] \in {"none", "done"}
  /\ waited' = TRUE
  /\ UNCHANGED <<state, taskNames, dynamic, fixed, now>>
  /\ UNCHANGED handle /\ UNCHANGED runner /\ UNCHANGED history

finishShutdown ==
  /\ waited /\ state = "stopping"
  /\ state' = "stopped"
  /\ UNCHANGED <<taskNames, dynamic, waited, fixed, now>>
  /\ UNCHANGED handle /\ UNCHANGED runner /\ UNCHANGED history

Tick ==
  /\ now < MaxTime
  /\ \E h \in Handles : at[h] = "waiting" /\ timer[h] > now
  /\ now' = now + 1
  /\ UNCHANGED <<state, taskNames, dynamic, waited, fixed>>
  /\ UNCHANGED handle /\ UNCHANGED runner /\ UNCHANGED history

Next ==
  \/ \E n \in Names : registerTask(n) \/ runTaskLoop(n)
  \/ Start
  \/ \E h \in Handles, delay \in Intervals : StartTask(h, delay) \/ SetInterval(h, delay)
  \/ \E h \in Handles : Stop(h) \/ TriggerNow(h) \/ runDynamicTask(h)
  \/ ShutdownCollecting \/ Shutdown \/ WaitReturns \/ finishShutdown
  \/ Tick

(***************************************************************************)
(* Goroutines go on and tasks return.  Time need not pass: a trigger is    *)
(* honoured however long the interval is.                                  *)
(***************************************************************************)
Fairness ==
  /\ \A n \in Names : WF_vars(runTaskLoop(n))
  /\ \A h \in Handles : WF_vars(runDynamicTask(h))
  /\ WF_vars(WaitReturns) /\ WF_vars(finishShutdown)

Spec == Init /\ [][Next]_vars
FairSpec == Spec /\ Fairness

-----------------------------------------------------------------------------
(***************************************************************************)
(* Properties                                                              *)
(***************************************************************************)

\* Two invocations under one name never overlap, although a name is used again
\* by later handles and Stop does not wait (ARCHITECTURE: "making same-Task
\* overlap impossible").
NoOverlap ==
  \A g, h \in Handles :
    /\ g # h /\ NameOf[g] = NameOf[h] => ~(at[g] = "invoking" /\ at[h] = "invoking")
    /\ ~(at[h] = "invoking" /\ fixed[NameOf[h]] = "invoking")

\* An invocation that no trigger asked for waits its whole delay: at least the
\* interval in force when it is decided, counted from the last completion or
\* the last SetInterval, even if SetInterval meets the timer.
DelayRespected ==
  [][\A h \in Handles :
       at[h] = "fired" /\ at'[h] = "due" /\ ~trigger[h] => now >= base[h] + interval[h]]_vars

\* An accepted TriggerNow is followed by an invocation that begins after it,
\* unless the handle is stopped: the single wake signal and the flag never
\* lose a request between the runner's sections.
TriggerHonoured ==
  \A h \in Handles : owed[h] ~> ~owed[h] \/ cancelled[h]
=============================================================================
