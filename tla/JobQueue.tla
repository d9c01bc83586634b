------------------------------ MODULE JobQueue ------------------------------
(***************************************************************************)
(* The in-memory JobQueue: dispatching goroutines, the delayed-job         *)
(* scheduler, the worker pool and Shutdown.                                *)
(*                                                                         *)
(* Each job stands for one dispatch call with its own goroutine, whose     *)
(* progress is dispatch[j].  A job whose Parent is another job is          *)
(* dispatched by the handler of that job and keeps the handler busy until  *)
(* the call returns.  The WaitGroups dispatches and workers are the sets   *)
(* Dispatching and Working.                                                *)
(***************************************************************************)
EXTENDS Integers, Sequences, FiniteSets

CONSTANTS
  Jobs,         \* dispatched jobs
  NoJob,
  Workers,      \* worker goroutines (JobQueueOptions.Workers)
  Stoppers,     \* callers of Shutdown
  Capacity,     \* JobQueueOptions.Capacity
  MaxAttempts,  \* JobHandlerOptions.MaxAttempts
  ReadyAt,      \* delivery time of each job, 0 for an immediate one
  Parent,       \* the job whose handler dispatches this one, or NoJob
  MaxTime       \* the clock stops here: bounds the model

ASSUME QueueAssumption ==
  /\ NoJob \notin Jobs
  /\ Capacity \in Nat \ {0}
  /\ MaxAttempts \in Nat \ {0}
  /\ MaxTime \in Nat
  /\ ReadyAt \in [Jobs -> 0..MaxTime]
  /\ Parent \in [Jobs -> Jobs \cup {NoJob}]

VARIABLES
  state,         \* jobQueueState
  dispatch,      \* where the dispatch call of each job is
  ready,         \* the channel jobs
  closed,        \* has the channel jobs been closed?
  scheduled,     \* the channel scheduled
  slots,         \* tokens in the channel delayedSlots
  pending,       \* the scheduler's heap, in order of arrival
  holding,       \* the job the scheduler is promoting, or NoJob
  schedule,      \* where the scheduler goroutine is
  scheduleStop,  \* has scheduleStop been closed?
  finisher,      \* where finishShutdown is
  stopper,       \* where each Shutdown call is
  running,       \* the job each worker handles, or NoJob
  attempt,       \* the number of the attempt each worker is making
  exited,        \* workers whose loop has ended
  result,        \* history: how the handling of a job ended
  starts,        \* history: how often a worker took the job
  now

vars == <<state, dispatch, ready, closed, scheduled, slots, pending, holding,
          schedule, scheduleStop, finisher, stopper, running, attempt, exited,
          result, starts, now>>
dispatchVars == <<dispatch, slots>>
schedulerVars == <<pending, holding, schedule>>
workerVars == <<running, attempt, exited, result, starts>>
shutdownVars == <<closed, scheduleStop, finisher, stopper>>

Dispatching == {j \in Jobs : dispatch[j] \in {"sending", "acquiring", "slotted"}}
Stopping == state \in {"stopping", "stopped"}   \* the channel stopping is closed
Idle(w) == running[w] = NoJob /\ w \notin exited

Init ==
  /\ state = "collecting"
  /\ dispatch = [j \in Jobs |-> "new"]
  /\ ready = <<>> /\ closed = FALSE
  /\ scheduled = <<>> /\ slots = 0
  /\ pending = <<>> /\ holding = NoJob /\ schedule = "off"
  /\ scheduleStop = FALSE
  /\ finisher = "off"
  /\ stopper = [s \in Stoppers |-> "idle"]
  /\ running = [w \in Workers |-> NoJob]
  /\ attempt = [w \in Workers |-> 0]
  /\ exited = {}
  /\ result = [j \in Jobs |-> "none"]
  /\ starts = [j \in Jobs |-> 0]
  /\ now = 0

Start ==
  /\ state = "collecting"
  /\ state' = "running"
  /\ schedule' = "loop"
  /\ UNCHANGED <<ready, scheduled, pending, holding, now>>
  /\ UNCHANGED dispatchVars /\ UNCHANGED workerVars /\ UNCHANGED shutdownVars

-----------------------------------------------------------------------------
(***************************************************************************)
(* Dispatch: DispatchJob, DispatchJobAfter and DispatchJobAt               *)
(***************************************************************************)
Goto(j, place) == dispatch' = [dispatch EXCEPT ![j] = place]

\* The caller exists: it is outside the queue or a handler that is running.
Called(j) == Parent[j] = NoJob \/ \E w \in Workers : running[w] = Parent[j]

\* prepareJobDispatch, under the mutex.
Prepare(j) ==
  /\ dispatch[j] = "new"
  /\ Called(j)
  /\ Goto(j, IF state # "running" THEN "rejected"
             ELSE IF ReadyAt[j] > now THEN "acquiring" ELSE "sending")
  /\ UNCHANGED <<state, ready, scheduled, slots, now>>
  /\ UNCHANGED schedulerVars /\ UNCHANGED workerVars /\ UNCHANGED shutdownVars

SendReady(j) ==
  /\ dispatch[j] = "sending"
  /\ Len(ready) < Capacity
  /\ ready' = Append(ready, j)
  /\ Goto(j, "accepted")
  /\ UNCHANGED <<state, scheduled, slots, now>>
  /\ UNCHANGED schedulerVars /\ UNCHANGED workerVars /\ UNCHANGED shutdownVars

AcquireSlot(j) ==
  /\ dispatch[j] = "acquiring"
  /\ slots < Capacity
  /\ slots' = slots + 1
  /\ Goto(j, "slotted")
  /\ UNCHANGED <<state, ready, scheduled, now>>
  /\ UNCHANGED schedulerVars /\ UNCHANGED workerVars /\ UNCHANGED shutdownVars

\* A send with no other case: neither stopping nor the context interrupts it.
SendScheduled(j) ==
  /\ dispatch[j] = "slotted"
  /\ Len(scheduled) < Capacity
  /\ scheduled' = Append(scheduled, j)
  /\ Goto(j, "accepted")
  /\ UNCHANGED <<state, ready, slots, now>>
  /\ UNCHANGED schedulerVars /\ UNCHANGED workerVars /\ UNCHANGED shutdownVars

DispatchStopped(j) ==
  /\ dispatch[j] \in {"sending", "acquiring"}
  /\ Stopping
  /\ Goto(j, "rejected")
  /\ UNCHANGED <<state, ready, scheduled, slots, now>>
  /\ UNCHANGED schedulerVars /\ UNCHANGED workerVars /\ UNCHANGED shutdownVars

\* The context of the caller ends.
DispatchCancelled(j) ==
  /\ dispatch[j] \in {"new", "sending", "acquiring"}
  /\ Called(j)
  /\ Goto(j, "rejected")
  /\ UNCHANGED <<state, ready, scheduled, slots, now>>
  /\ UNCHANGED schedulerVars /\ UNCHANGED workerVars /\ UNCHANGED shutdownVars

-----------------------------------------------------------------------------
(***************************************************************************)
(* The scheduler goroutine                                                 *)
(***************************************************************************)

\* The top of the heap: earliest readyAt, then first come.
Top ==
  CHOOSE i \in DOMAIN pending : \A k \in DOMAIN pending :
    \/ ReadyAt[pending[i]] < ReadyAt[pending[k]]
    \/ ReadyAt[pending[i]] = ReadyAt[pending[k]] /\ i <= k

Without(seq, i) == SubSeq(seq, 1, i - 1) \o SubSeq(seq, i + 1, Len(seq))

ScheduleReceive ==
  /\ schedule \in {"loop", "drain"} /\ holding = NoJob
  /\ scheduled # <<>>
  /\ pending' = Append(pending, Head(scheduled))
  /\ scheduled' = Tail(scheduled)
  /\ UNCHANGED <<state, ready, schedule, holding, now>>
  /\ UNCHANGED dispatchVars /\ UNCHANGED workerVars /\ UNCHANGED shutdownVars

\* Take the top of the heap and start to promote it.
Pop ==
  /\ pending # <<>> /\ holding = NoJob
  /\ holding' = pending[Top]
  /\ pending' = Without(pending, Top)
  /\ UNCHANGED <<state, ready, scheduled, schedule, now>>
  /\ UNCHANGED dispatchVars /\ UNCHANGED workerVars /\ UNCHANGED shutdownVars

ScheduleTimer ==
  /\ schedule = "loop"
  /\ pending # <<>> /\ ReadyAt[pending[Top]] <= now
  /\ Pop

ScheduleStop ==
  /\ schedule = "loop" /\ holding = NoJob
  /\ scheduleStop
  /\ schedule' = "drain"
  /\ UNCHANGED <<state, ready, scheduled, pending, holding, now>>
  /\ UNCHANGED dispatchVars /\ UNCHANGED workerVars /\ UNCHANGED shutdownVars

\* Mutant: the drain goes on to the heap without emptying the channel.
DrainSkipsChannel ==
  /\ schedule = "drain"
  /\ schedule' = "flush"
  /\ UNCHANGED <<state, ready, scheduled, pending, holding, now>>
  /\ UNCHANGED dispatchVars /\ UNCHANGED workerVars /\ UNCHANGED shutdownVars

\* drainScheduledJobs: first the channel, then everything in the heap.
DrainEmpty ==
  /\ schedule = "drain"
  /\ scheduled = <<>>
  /\ schedule' = "flush"
  /\ UNCHANGED <<state, ready, scheduled, pending, holding, now>>
  /\ UNCHANGED dispatchVars /\ UNCHANGED workerVars /\ UNCHANGED shutdownVars

DrainPop ==
  /\ schedule = "flush"
  /\ Pop

\* The scheduler returns and closes scheduleDone.
ScheduleDone ==
  /\ schedule = "flush"
  /\ pending = <<>> /\ holding = NoJob
  /\ schedule' = "done"
  /\ UNCHANGED <<state, ready, scheduled, pending, holding, now>>
  /\ UNCHANGED dispatchVars /\ UNCHANGED workerVars /\ UNCHANGED shutdownVars

promoteScheduledJob ==
  /\ holding # NoJob
  /\ Len(ready) < Capacity
  /\ ready' = Append(ready, holding)
  /\ slots' = slots - 1
  /\ holding' = NoJob
  /\ UNCHANGED <<state, dispatch, scheduled, pending, schedule, now>>
  /\ UNCHANGED workerVars /\ UNCHANGED shutdownVars

Schedule ==
  \/ ScheduleReceive \/ ScheduleTimer \/ ScheduleStop
  \/ DrainEmpty \/ DrainPop \/ ScheduleDone \/ promoteScheduledJob

-----------------------------------------------------------------------------
(***************************************************************************)
(* Workers: work, execute, executeAttempt                                  *)
(***************************************************************************)
Take(w) ==
  /\ state # "collecting"
  /\ Idle(w)
  /\ ready # <<>>
  /\ running' = [running EXCEPT ![w] = Head(ready)]
  /\ attempt' = [attempt EXCEPT ![w] = 1]
  /\ starts' = [starts EXCEPT ![Head(ready)] = @ + 1]
  /\ ready' = Tail(ready)
  /\ UNCHANGED <<state, scheduled, exited, result, now>>
  /\ UNCHANGED dispatchVars /\ UNCHANGED schedulerVars /\ UNCHANGED shutdownVars

\* The handler returns: no dispatch call of its own is still open.
Returns(w) ==
  /\ running[w] # NoJob
  /\ \A j \in Dispatching : Parent[j] # running[w]

Ended(w, how) ==
  /\ result' = [result EXCEPT ![running[w]] = how]
  /\ running' = [running EXCEPT ![w] = NoJob]
  /\ attempt' = [attempt EXCEPT ![w] = 0]

AttemptSucceeds(w) ==
  /\ Returns(w)
  /\ Ended(w, "succeeded")
  /\ UNCHANGED <<state, ready, scheduled, exited, starts, now>>
  /\ UNCHANGED dispatchVars /\ UNCHANGED schedulerVars /\ UNCHANGED shutdownVars

\* An error, a timeout or a recovered panic: retry, or report the failure.
AttemptFails(w) ==
  /\ Returns(w)
  /\ IF attempt[w] < MaxAttempts
     THEN /\ attempt' = [attempt EXCEPT ![w] = @ + 1]
          /\ UNCHANGED <<result, running>>
     ELSE Ended(w, "failed")
  /\ UNCHANGED <<state, ready, scheduled, exited, starts, now>>
  /\ UNCHANGED dispatchVars /\ UNCHANGED schedulerVars /\ UNCHANGED shutdownVars

\* The range over the closed and drained channel ends.
WorkerExit(w) ==
  /\ state # "collecting"
  /\ Idle(w)
  /\ ready = <<>> /\ closed
  /\ exited' = exited \cup {w}
  /\ UNCHANGED <<state, ready, scheduled, running, attempt, result, starts, now>>
  /\ UNCHANGED dispatchVars /\ UNCHANGED schedulerVars /\ UNCHANGED shutdownVars

-----------------------------------------------------------------------------
(***************************************************************************)
(* Shutdown and finishShutdown                                             *)
(***************************************************************************)
StopperGoto(s, place) == stopper' = [stopper EXCEPT ![s] = place]

\* A queue that never ran is stopped at once, all of its channels closed.
ShutdownCollecting(s) ==
  /\ stopper[s] = "idle" /\ state = "collecting"
  /\ state' = "stopped"
  /\ scheduleStop' = TRUE /\ schedule' = "done" /\ closed' = TRUE
  /\ StopperGoto(s, "returned")
  /\ UNCHANGED <<ready, scheduled, pending, holding, finisher, now>>
  /\ UNCHANGED dispatchVars /\ UNCHANGED workerVars

ShutdownRunning(s) ==
  /\ stopper[s] = "idle" /\ state = "running"
  /\ state' = "stopping"
  /\ StopperGoto(s, "draining")
  /\ UNCHANGED <<ready, scheduled, closed, scheduleStop, finisher, now>>
  /\ UNCHANGED dispatchVars /\ UNCHANGED schedulerVars /\ UNCHANGED workerVars

\* A later call joins the shutdown under way, or finds it done.
ShutdownAgain(s) ==
  /\ stopper[s] = "idle" /\ Stopping
  /\ StopperGoto(s, IF state = "stopped" THEN "returned" ELSE "waiting")
  /\ UNCHANGED <<state, ready, scheduled, closed, scheduleStop, finisher, now>>
  /\ UNCHANGED dispatchVars /\ UNCHANGED schedulerVars /\ UNCHANGED workerVars

\* dispatches.Wait returns; the caller stops the scheduler and starts
\* finishShutdown.
ShutdownDispatched(s) ==
  /\ stopper[s] = "draining"
  /\ Dispatching = {}
  /\ scheduleStop' = TRUE
  /\ finisher' = "schedule"
  /\ StopperGoto(s, "waiting")
  /\ UNCHANGED <<state, ready, scheduled, closed, now>>
  /\ UNCHANGED dispatchVars /\ UNCHANGED schedulerVars /\ UNCHANGED workerVars

\* waitForJobQueueShutdown: done, or the context of this caller ends.
ShutdownReturns(s) ==
  /\ stopper[s] = "waiting"
  /\ \/ state = "stopped" /\ StopperGoto(s, "returned")
     \/ StopperGoto(s, "expired")
  /\ UNCHANGED <<state, ready, scheduled, closed, scheduleStop, finisher, now>>
  /\ UNCHANGED dispatchVars /\ UNCHANGED schedulerVars /\ UNCHANGED workerVars

\* Mutant: the channel is closed without waiting for the scheduler.
CloseJobsEarly ==
  /\ finisher = "schedule"
  /\ closed' = TRUE
  /\ finisher' = "workers"
  /\ UNCHANGED <<state, ready, scheduled, scheduleStop, stopper, now>>
  /\ UNCHANGED dispatchVars /\ UNCHANGED schedulerVars /\ UNCHANGED workerVars

CloseJobs ==
  /\ finisher = "schedule"
  /\ schedule = "done"
  /\ closed' = TRUE
  /\ finisher' = "workers"
  /\ UNCHANGED <<state, ready, scheduled, scheduleStop, stopper, now>>
  /\ UNCHANGED dispatchVars /\ UNCHANGED schedulerVars /\ UNCHANGED workerVars

Stopped ==
  /\ finisher = "workers"
  /\ exited = Workers
  /\ state' = "stopped"
  /\ finisher' = "done"
  /\ UNCHANGED <<ready, scheduled, closed, scheduleStop, stopper, now>>
  /\ UNCHANGED dispatchVars /\ UNCHANGED schedulerVars /\ UNCHANGED workerVars

Tick ==
  /\ now < MaxTime
  /\ now' = now + 1
  /\ UNCHANGED <<state, ready, scheduled>>
  /\ UNCHANGED dispatchVars /\ UNCHANGED schedulerVars
  /\ UNCHANGED workerVars /\ UNCHANGED shutdownVars

Dispatch(j) ==
  \/ SendReady(j) \/ AcquireSlot(j) \/ SendScheduled(j) \/ DispatchStopped(j)

Worker(w) ==
  Take(w) \/ AttemptSucceeds(w) \/ AttemptFails(w) \/ WorkerExit(w)

Shutdown(s) ==
  ShutdownCollecting(s) \/ ShutdownRunning(s) \/ ShutdownAgain(s)

Next ==
  \/ Start
  \/ \E j \in Jobs : Prepare(j) \/ Dispatch(j) \/ DispatchCancelled(j)
  \/ Schedule
  \/ \E w \in Workers : Worker(w)
  \/ \E s \in Stoppers : Shutdown(s) \/ ShutdownDispatched(s) \/ ShutdownReturns(s)
  \/ CloseJobs
  \/ Stopped
  \/ Tick

(***************************************************************************)
(* Every goroutine that can go on does.  A handler returns because it      *)
(* honours the context that JobTimeout ends, and the same context ends the *)
(* dispatch calls it makes.  Nobody has to dispatch or to shut down.       *)
(***************************************************************************)
Fairness ==
  /\ WF_vars(Schedule) /\ WF_vars(CloseJobs) /\ WF_vars(Stopped) /\ WF_vars(Tick)
  /\ \A j \in Jobs : WF_vars(Dispatch(j))
  /\ \A j \in Jobs : Parent[j] # NoJob =>
       WF_vars(dispatch[j] # "new" /\ DispatchCancelled(j))
  /\ \A w \in Workers : WF_vars(Worker(w))
  /\ \A s \in Stoppers : WF_vars(ShutdownDispatched(s))

Spec == Init /\ [][Next]_vars
FairSpec == Spec /\ Fairness

-----------------------------------------------------------------------------
(***************************************************************************)
(* Properties                                                              *)
(***************************************************************************)
Places == {"new", "sending", "acquiring", "slotted", "accepted", "rejected"}

\* The channel jobs is closed only when nobody can send on it any more: no
\* dispatch call is open and the scheduler has returned.  (A send on a closed
\* channel panics.)
NoSendOnClosed ==
  closed => Dispatching = {} /\ schedule = "done" /\ holding = NoJob

\* When the queue is stopped every accepted job has been handled, the delayed
\* ones included, each by one worker.
DrainedWhenStopped ==
  state = "stopped" =>
    \A j \in Jobs : dispatch[j] = "accepted" => result[j] # "none" /\ starts[j] = 1

\* A call that returns success stands for a queue that is stopped: after it no
\* handler runs.
ReturnedMeansStopped ==
  (\E s \in Stoppers : stopper[s] = "returned")
  => state = "stopped" /\ \A w \in Workers : running[w] = NoJob

\* A shutdown that began ends, with a full channel, delayed jobs and handlers
\* that dispatch jobs themselves.
ShutdownCompletes == state = "stopping" ~> state = "stopped"

\* Every accepted job is handled in the end, with and without a shutdown.
AcceptedIsHandled ==
  \A j \in Jobs : dispatch[j] = "accepted" ~> result[j] # "none"

(***************************************************************************)
(* The inductive invariant behind NoSendOnClosed and ReturnedMeansStopped: *)
(* the order in which Shutdown closes one thing after another.             *)
(***************************************************************************)
Settled == \A w \in Workers : running[w] = NoJob

ShutdownOrder ==
  /\ dispatch \in [Jobs -> Places]
  /\ DOMAIN running = Workers
  /\ stopper \in [Stoppers ->
                    {"idle", "draining", "waiting", "returned", "expired"}]
  /\ state \in {"collecting", "running", "stopping", "stopped"}
  /\ state = "collecting" => /\ Dispatching = {} /\ ready = <<>> /\ holding = NoJob
                             /\ schedule = "off" /\ finisher = "off"
                             /\ Settled /\ ~closed
  /\ scheduleStop => Stopping /\ Dispatching = {}
  /\ schedule \in {"off", "loop", "drain", "flush", "done"}
  /\ schedule \in {"drain", "flush", "done"} => scheduleStop
  /\ holding # NoJob => schedule \in {"loop", "flush"}
  /\ finisher \in {"off", "schedule", "workers", "done"}
  /\ finisher # "off" => scheduleStop
  /\ finisher \in {"workers", "done"} => closed
  /\ closed => schedule = "done"
  /\ \A w \in exited : running[w] = NoJob
  /\ state = "stopped" =>
       Settled /\ closed /\ (exited = Workers \/ ready = <<>>)
  /\ \A s \in Stoppers : stopper[s] = "draining" => Stopping
  /\ (\E s \in Stoppers : stopper[s] = "returned") => state = "stopped"
=============================================================================
