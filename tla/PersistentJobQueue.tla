------------------------- MODULE PersistentJobQueue -------------------------
(***************************************************************************)
(* JobQueue with a JobStore: processes that share one store, their         *)
(* persistent workers, dispatch, the operator's retry and forget, crashes  *)
(* and graceful shutdowns.  The store is the contract of module JobStore.  *)
(*                                                                         *)
(* A worker reads the clock, reserves with that reading, runs the handler  *)
(* and finishes its reservation; the clock, the other workers and a crash  *)
(* may come between any two of these steps.  Unless workers are Prompt, a  *)
(* handler may run past its lease.                                         *)
(***************************************************************************)
EXTENDS Integers, FiniteSets

CONSTANTS
  Jobs, Tokens, NoToken, MaxTime, MaxResets, Lease,   \* as in JobStore
  Processes,    \* queues, one per operating-system process
  Workers,      \* worker goroutines of all processes
  Home,         \* the process of each worker
  Caller,       \* the process that dispatches each job
  ReadyAt,      \* the delivery time each dispatch asks for
  Runnable,     \* jobs with a registered handler and a payload it can decode
  MaxAttempts,  \* JobHandlerOptions.MaxAttempts
  Backoff,      \* JobHandlerOptions.RetryBackoff
  MaxFaults,    \* crashes, shutdowns, store errors and leases that run out
                \* in a worker's hands: bounds the model
  NoReservation

ASSUME PersistentAssumption ==
  /\ Home \in [Workers -> Processes]
  /\ Caller \in [Jobs -> Processes]
  /\ ReadyAt \in [Jobs -> Nat]
  /\ Runnable \subseteq Jobs
  /\ MaxAttempts \in Nat \ {0}
  /\ Backoff \in Nat /\ MaxFaults \in Nat

VARIABLES
  record, issued, generation,   \* the store
  now,
  proc,       \* state of each process's queue, or "down" after a crash
  wake,       \* is there a token in the process's wake channel?
  dispatch,   \* where the dispatch call of each job is
  at,         \* where each worker is
  seen,       \* the clock reading a worker reserves with
  held,       \* the reservation a worker works on
  faults,
  started,    \* history: reservations whose handler was called
  succeeded,  \* history: jobs one of whose handler calls returned nil
  forgotten   \* history: jobs the operator has forgotten

store == <<record, issued, generation>>
worker == <<at, seen, held>>
history == <<started, succeeded, forgotten>>
vars == <<record, issued, generation, now, proc, wake, dispatch, at, seen, held,
          faults, started, succeeded, forgotten>>

Store == INSTANCE JobStore

ASSUME PersistentStoreAssumption == Store!StoreAssumption

WorkersOf(p) == {w \in Workers : Home[w] = p}
Cancelled(w) == proc[Home[w]] # "running"     \* workerCtx is done
Later(t, u) == IF t > u THEN t ELSE u

Init ==
  /\ Store!Init
  /\ now = 0
  /\ proc = [p \in Processes |-> "collecting"]
  /\ wake = [p \in Processes |-> FALSE]
  /\ dispatch = [j \in Jobs |-> "new"]
  /\ at = [w \in Workers |-> "off"]
  /\ seen = [w \in Workers |-> 0]
  /\ held = [w \in Workers |-> NoReservation]
  /\ faults = 0
  /\ started = {} /\ succeeded = {} /\ forgotten = {}

WorkerGoto(w, place) == at' = [at EXCEPT ![w] = place]
Wake(p) == wake' = [wake EXCEPT ![p] = TRUE]
Fault == faults < MaxFaults /\ faults' = faults + 1

-----------------------------------------------------------------------------
(***************************************************************************)
(* Dispatch                                                                *)
(***************************************************************************)
Prepare(j) ==
  /\ dispatch[j] = "new"
  /\ proc[Caller[j]] # "down"
  /\ dispatch' = [dispatch EXCEPT ![j] = IF proc[Caller[j]] = "running"
                                         THEN "storing" ELSE "rejected"]
  /\ UNCHANGED <<now, proc, wake, faults>>
  /\ UNCHANGED store /\ UNCHANGED worker /\ UNCHANGED history

\* persistJob: a delivery time in the past becomes now.
persistJob(j) ==
  /\ dispatch[j] = "storing"
  /\ Store!Enqueue(j, Later(ReadyAt[j], now))
  /\ dispatch' = [dispatch EXCEPT ![j] = "accepted"]
  /\ Wake(Caller[j])
  /\ UNCHANGED <<now, proc, faults>> /\ UNCHANGED worker /\ UNCHANGED history

\* The store refuses the job or the context of the caller ends.
DispatchFails(j) ==
  /\ dispatch[j] \in {"new", "storing"}
  /\ dispatch' = [dispatch EXCEPT ![j] = "rejected"]
  /\ UNCHANGED <<now, proc, wake, faults>>
  /\ UNCHANGED store /\ UNCHANGED worker /\ UNCHANGED history

-----------------------------------------------------------------------------
(***************************************************************************)
(* workPersistent                                                          *)
(***************************************************************************)
CheckContext(w) ==
  /\ at[w] = "loop"
  /\ IF Cancelled(w)
     THEN WorkerGoto(w, "exited") /\ UNCHANGED seen
     ELSE WorkerGoto(w, "reserve") /\ seen' = [seen EXCEPT ![w] = now]
  /\ UNCHANGED <<now, proc, wake, dispatch, held, faults>>
  /\ UNCHANGED store /\ UNCHANGED history

\* Tokens are random and only compared: which unused one is drawn is all the same.
FreshToken == CHOOSE token \in Tokens : token \notin Store!UsedTokens
TokensLeft == Tokens \ Store!UsedTokens # {}

Reserve(w) ==
  /\ at[w] = "reserve" /\ ~Cancelled(w)
  /\ TokensLeft
  /\ \E j \in Jobs : \E recovered \in SUBSET Store!Expired(j, seen[w]) :
       Store!Reserve(j, seen[w], FreshToken, recovered)
  /\ held' = [held EXCEPT ![w] = CHOOSE r \in issued' : r \notin issued]
  /\ WorkerGoto(w, "execute")
  /\ seen' = [seen EXCEPT ![w] = 0]
  /\ UNCHANGED <<now, proc, wake, dispatch, faults>> /\ UNCHANGED history

\* The store grants the reservation and the answer is lost on its way.
ReserveLost(w) ==
  /\ at[w] = "reserve"
  /\ Fault
  /\ TokensLeft
  /\ \E j \in Jobs : \E recovered \in SUBSET Store!Expired(j, seen[w]) :
       Store!Reserve(j, seen[w], FreshToken, recovered)
  /\ WorkerGoto(w, "waiting")
  /\ seen' = [seen EXCEPT ![w] = 0]
  /\ UNCHANGED <<now, proc, wake, dispatch, held>> /\ UNCHANGED history

\* ErrJobStoreEmpty, or the worker context ends during the call.
ReserveNothing(w) ==
  /\ at[w] = "reserve"
  /\ Cancelled(w) \/ \A j \in Jobs : ~Store!Eligible(j, seen[w])
  /\ WorkerGoto(w, "waiting")
  /\ seen' = [seen EXCEPT ![w] = 0]
  /\ UNCHANGED <<now, proc, wake, dispatch, held, faults>>
  /\ UNCHANGED store /\ UNCHANGED history

\* Mutant: an idle worker waits for a dispatch and does not poll.
waitWithoutPolling(w) ==
  /\ at[w] = "waiting"
  /\ \/ /\ Cancelled(w)
        /\ WorkerGoto(w, "exited") /\ UNCHANGED wake
     \/ /\ wake[Home[w]]
        /\ WorkerGoto(w, "loop")
        /\ wake' = [wake EXCEPT ![Home[w]] = FALSE]
  /\ UNCHANGED <<now, proc, dispatch, seen, held, faults>>
  /\ UNCHANGED store /\ UNCHANGED history

\* waitForPersistentWork: cancelled, woken, or the poll timer.
waitForPersistentWork(w) ==
  /\ at[w] = "waiting"
  /\ \/ /\ Cancelled(w)
        /\ WorkerGoto(w, "exited") /\ UNCHANGED wake
     \/ /\ wake[Home[w]]
        /\ WorkerGoto(w, "loop")
        /\ wake' = [wake EXCEPT ![Home[w]] = FALSE]
     \/ WorkerGoto(w, "loop") /\ UNCHANGED wake
  /\ UNCHANGED <<now, proc, dispatch, seen, held, faults>>
  /\ UNCHANGED store /\ UNCHANGED history

-----------------------------------------------------------------------------
(***************************************************************************)
(* executePersistent                                                       *)
(***************************************************************************)

\* A missing handler, an undecodable payload or too many attempts fail the
\* job without a handler call.
CallsHandler(r) == r.job \in Runnable /\ r.attempt <= MaxAttempts

BeginExecute(w) ==
  /\ at[w] = "execute"
  /\ IF CallsHandler(held[w])
     THEN WorkerGoto(w, "handling") /\ started' = started \cup {held[w]}
     ELSE WorkerGoto(w, "failing") /\ UNCHANGED started
  /\ UNCHANGED <<now, proc, wake, dispatch, seen, held, faults, succeeded, forgotten>>
  /\ UNCHANGED store

HandlerSucceeds(w) ==
  /\ at[w] = "handling"
  /\ WorkerGoto(w, "completing")
  /\ succeeded' = succeeded \cup {held[w].job}
  /\ UNCHANGED <<now, proc, wake, dispatch, seen, held, faults, started, forgotten>>
  /\ UNCHANGED store

\* Mutant: a job out of attempts is completed instead of failed.
HandlerFailsCompletes(w) ==
  /\ at[w] = "handling"
  /\ WorkerGoto(w, IF held[w].attempt < MaxAttempts THEN "releasing" ELSE "completing")
  /\ UNCHANGED <<now, proc, wake, dispatch, seen, held, faults>>
  /\ UNCHANGED store /\ UNCHANGED history

HandlerFails(w) ==
  /\ at[w] = "handling"
  /\ WorkerGoto(w, IF held[w].attempt < MaxAttempts THEN "releasing" ELSE "failing")
  /\ UNCHANGED <<now, proc, wake, dispatch, seen, held, faults>>
  /\ UNCHANGED store /\ UNCHANGED history

\* The finishing call returns: done, refused because the reservation is not
\* the stored one any more, or failed in the store.  The last two are only
\* reported; the lease of the record, if any, has to expire.
Finish(w, place, operation) ==
  /\ at[w] = place
  /\ WorkerGoto(w, "loop")
  /\ held' = [held EXCEPT ![w] = NoReservation]
  /\ \/ Store!Holds(held[w]) /\ operation /\ UNCHANGED faults
     \/ ~Store!Holds(held[w]) /\ UNCHANGED <<record, issued, generation, wake, faults>>
     \/ Fault /\ UNCHANGED <<record, issued, generation, wake>>
  /\ UNCHANGED <<now, proc, dispatch, seen>> /\ UNCHANGED history

Complete(w) ==
  Finish(w, "completing", Store!Complete(held[w]) /\ UNCHANGED wake)
Fail(w) ==
  Finish(w, "failing", Store!Fail(held[w]) /\ UNCHANGED wake)
Release(w) ==
  Finish(w, "releasing",
         Store!Release(held[w], now + Backoff) /\ Wake(Home[w]))

Worker(w) ==
  \/ CheckContext(w) \/ Reserve(w) \/ ReserveNothing(w) \/ waitForPersistentWork(w)
  \/ BeginExecute(w) \/ HandlerSucceeds(w) \/ HandlerFails(w)
  \/ Complete(w) \/ Release(w) \/ Fail(w)

-----------------------------------------------------------------------------
(***************************************************************************)
(* Processes and the operator                                              *)
(***************************************************************************)
Start(p) ==
  /\ proc[p] \in {"collecting", "down", "stopped"}   \* a new process after a stop
  /\ proc' = [proc EXCEPT ![p] = "running"]
  /\ at' = [w \in Workers |-> IF w \in WorkersOf(p) THEN "loop" ELSE at[w]]
  /\ UNCHANGED <<now, wake, dispatch, seen, held, faults>>
  /\ UNCHANGED store /\ UNCHANGED history

Shutdown(p) ==
  /\ proc[p] = "running"
  /\ Fault
  /\ proc' = [proc EXCEPT ![p] = "stopping"]
  /\ UNCHANGED <<now, wake, dispatch>>
  /\ UNCHANGED store /\ UNCHANGED worker /\ UNCHANGED history

\* dispatches.Wait and workers.Wait have returned.
finishPersistentShutdown(p) ==
  /\ proc[p] = "stopping"
  /\ \A j \in Jobs : Caller[j] = p => dispatch[j] # "storing"
  /\ \A w \in WorkersOf(p) : at[w] = "exited"
  /\ proc' = [proc EXCEPT ![p] = "stopped"]
  /\ wake' = [wake EXCEPT ![p] = FALSE]
  /\ UNCHANGED <<now, dispatch, faults>>
  /\ UNCHANGED store /\ UNCHANGED worker /\ UNCHANGED history

Crash(p) ==
  /\ proc[p] \in {"running", "stopping"}
  /\ Fault
  /\ proc' = [proc EXCEPT ![p] = "down"]
  /\ wake' = [wake EXCEPT ![p] = FALSE]
  /\ dispatch' = [j \in Jobs |-> IF Caller[j] = p /\ dispatch[j] = "storing"
                                 THEN "rejected" ELSE dispatch[j]]
  /\ at' = [w \in Workers |-> IF w \in WorkersOf(p) THEN "off" ELSE at[w]]
  /\ seen' = [w \in Workers |-> IF w \in WorkersOf(p) THEN 0 ELSE seen[w]]
  /\ held' = [w \in Workers |-> IF w \in WorkersOf(p) THEN NoReservation ELSE held[w]]
  /\ UNCHANGED now /\ UNCHANGED store /\ UNCHANGED history

RetryFailed(j) ==
  /\ generation[j] < MaxResets
  /\ Store!RetryFailed(j, now)
  /\ UNCHANGED <<now, proc, wake, dispatch, faults>>
  /\ UNCHANGED worker /\ UNCHANGED history

ForgetFailed(j) ==
  /\ Store!ForgetFailed(j)
  /\ forgotten' = forgotten \cup {j}
  /\ UNCHANGED <<now, proc, wake, dispatch, faults, started, succeeded>>
  /\ UNCHANGED worker

\* Time passes while a delivery time or a lease lies ahead: nothing else
\* compares with the clock.  A handler is meant to return within JobTimeout,
\* which is shorter than the lease; a lease that runs out while a worker holds
\* it is one of the faults.
Tick ==
  /\ now < MaxTime
  /\ \E j \in Jobs :
       /\ record[j].phase = "pending"
       /\ record[j].available > now \/ record[j].until > now
  /\ IF \E w \in Workers : held[w] # NoReservation /\ held[w].until = now + 1
     THEN Fault ELSE UNCHANGED faults
  /\ now' = now + 1
  /\ UNCHANGED <<proc, wake, dispatch>>
  /\ UNCHANGED store /\ UNCHANGED worker /\ UNCHANGED history

Next ==
  \/ \E j \in Jobs : Prepare(j) \/ persistJob(j) \/ DispatchFails(j)
  \/ \E w \in Workers : Worker(w) \/ ReserveLost(w)
  \/ \E p \in Processes :
       Start(p) \/ Shutdown(p) \/ finishPersistentShutdown(p) \/ Crash(p)
  \/ \E j \in Jobs : RetryFailed(j) \/ ForgetFailed(j)
  \/ Tick

(***************************************************************************)
(* Workers go on, handlers return (they honour the context that JobTimeout *)
(* ends), a stopped process is started again and time passes.  Crashes,    *)
(* shutdowns, store errors and the operator's actions need not happen.     *)
(***************************************************************************)
Fairness ==
  /\ WF_vars(Tick)
  /\ \A w \in Workers : WF_vars(Worker(w))
  /\ \A p \in Processes : WF_vars(Start(p)) /\ WF_vars(finishPersistentShutdown(p))
  /\ \A j \in Jobs : WF_vars(persistJob(j))

Spec == Init /\ [][Next]_vars
FairSpec == Spec /\ Fairness

-----------------------------------------------------------------------------
(***************************************************************************)
(* Properties                                                              *)
(***************************************************************************)

\* Between two resets of its attempt count a job's handler is called at most
\* MaxAttempts times over all processes, through crashes, lost answers and
\* reservations that expire while they are held.
AttemptBudget ==
  \A j \in Jobs : \A g \in 0..generation[j] :
    Cardinality({r \in started : r.job = j /\ r.generation = g}) <= MaxAttempts

\* Two handlers work on the same job at the same time only after the lease of
\* one of them has run out.
OverlapOnlyAfterLease ==
  \A v, w \in Workers :
    (/\ v # w /\ at[v] = "handling" /\ at[w] = "handling"
     /\ held[v].job = held[w].job)
    => held[v].until <= now \/ held[w].until <= now

\* An accepted job leaves the store only after one of its handler calls has
\* returned nil, or because the operator forgot it: no crash, shutdown, lost
\* answer or stale worker loses it.
LeavesOnlyWhenDone ==
  \A j \in Jobs :
    dispatch[j] = "accepted" /\ record[j].phase = "absent"
    => j \in succeeded \/ j \in forgotten

\* Every accepted job is settled in the end, if workers finish within their
\* leases: its record is completed or failed, or was forgotten.
Settles ==
  \A j \in Jobs : dispatch[j] = "accepted" ~> record[j].phase # "pending"

\* At-least-once delivery has its limits: a job's handler is called no more often
\* than its attempts allow, and only a lease that ran out lets two of them overlap.
DeliveriesFenced == AttemptBudget /\ OverlapOnlyAfterLease
=============================================================================
