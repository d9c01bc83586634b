---------------------- MODULE PersistentJobQueueProofs ----------------------
(***************************************************************************)
(* The delivery promises of the persistent queue hold for every number of  *)
(* processes, workers and jobs, every lease, backoff and attempt limit,    *)
(* and any number of crashes, lost answers and leases that run out.        *)
(***************************************************************************)
EXTENDS PersistentJobQueue, FiniteSetTheorems, TLAPS

\* Where a worker works on a reservation.
Working == {"execute", "handling", "completing", "failing", "releasing"}

TypeOK ==
  /\ Store!TypeOK
  /\ now \in Nat
  /\ dispatch \in [Jobs -> {"new", "storing", "accepted", "rejected"}]
  /\ at \in [Workers -> Working \cup {"off", "loop", "reserve", "waiting", "exited"}]
  /\ seen \in [Workers -> Nat]
  /\ held \in [Workers -> Store!Reservation \cup {NoReservation}]
  /\ started \subseteq issued

\* The store's own fencing.
StoreInv == Store!OneHolder /\ Store!AttemptOnce /\ Store!NumbersBehind

\* No worker reserves with a clock reading from the future.
SeenBehind == \A w \in Workers : seen[w] <= now

\* A worker works on a reservation the store granted; until its lease runs out the
\* store has its token; and only a handler that returned nil lets it complete the job.
HeldInv(w) ==
  at[w] \in Working =>
    /\ held[w] \in issued
    /\ held[w].until <= now \/ Store!Holds(held[w])
    /\ at[w] = "completing" => held[w].job \in succeeded

\* Two workers never work on the same reservation.
HeldApart ==
  \A v, w \in Workers :
    v # w /\ at[v] \in Working /\ at[w] \in Working => held[v] # held[w]

\* No handler was called with an attempt number above the limit.
StartedWithin == \A r \in started : r.attempt <= MaxAttempts

QueueIInv ==
  /\ TypeOK /\ StoreInv /\ SeenBehind
  /\ \A w \in Workers : HeldInv(w)
  /\ HeldApart /\ StartedWithin /\ LeavesOnlyWhenDone

-----------------------------------------------------------------------------
(***************************************************************************)
(* The store, whatever time a worker names                                 *)
(***************************************************************************)

\* The reservation whose token is stored is the last one of its job.
LEMMA HolderIsLast ==
  ASSUME Store!TypeOK, StoreInv, NEW r \in issued, Store!Holds(r)
  PROVE  /\ r \in Store!Reservation
         /\ record[r.job].phase = "pending"
         /\ record[r.job].until = r.until
<1> USE PersistentStoreAssumption
    DEF Store!StoreAssumption, Store!TypeOK, Store!Record, Store!Reservation, Store!Phases
<1>1. r.job \in Jobs /\ r.token \in Tokens /\ r \in Store!Reservation
  OBVIOUS
<1>2. record[r.job].token = r.token /\ record[r.job].token # NoToken
  BY <1>1 DEF Store!Holds
<1>3. PICK s \in issued : /\ s.token = record[r.job].token
                          /\ s.until = record[r.job].until
  BY <1>1, <1>2 DEF StoreInv, Store!OneHolder
<1>4. r = s
  BY <1>2, <1>3 DEF StoreInv, Store!AttemptOnce
<1>5. record[r.job].phase = "pending"
  BY <1>1, <1>2 DEF StoreInv, Store!OneHolder
<1>6. QED
  BY <1>1, <1>3, <1>4, <1>5

\* A step that leaves the store alone keeps its invariant.
LEMMA StoreAlone ==
  ASSUME Store!TypeOK, StoreInv, UNCHANGED store
  PROVE  Store!TypeOK' /\ StoreInv'
BY DEF store, Store!TypeOK, StoreInv, Store!OneHolder, Store!AttemptOnce, Store!NumbersBehind

\* A dispatch and an operator's retry make a fresh record.
LEMMA FreshKeeps ==
  ASSUME Store!TypeOK, StoreInv, NEW j \in Jobs, NEW t \in Nat,
         Store!Enqueue(j, t) \/ Store!RetryFailed(j, t)
  PROVE  Store!TypeOK' /\ StoreInv'
<1> USE PersistentStoreAssumption
    DEF Store!StoreAssumption, Store!TypeOK, Store!Record, Store!Reservation, Store!Phases
<1>1. /\ record' = [record EXCEPT ![j] = Store!Fresh(t)]
      /\ generation' = [generation EXCEPT ![j] = @ + 1]
      /\ issued' = issued
  BY DEF Store!Enqueue, Store!RetryFailed
<1>2. Store!TypeOK'
  BY <1>1 DEF Store!Fresh
<1>3. Store!OneHolder'
  BY <1>1 DEF Store!Fresh, StoreInv, Store!OneHolder
<1>4. Store!AttemptOnce'
  BY <1>1 DEF StoreInv, Store!AttemptOnce
<1>5. Store!NumbersBehind'
  BY <1>1 DEF Store!Fresh, StoreInv, Store!NumbersBehind
<1>6. QED
  BY <1>2, <1>3, <1>4, <1>5 DEF StoreInv

\* A forgotten job leaves nothing behind.
LEMMA ForgetKeeps ==
  ASSUME Store!TypeOK, StoreInv, NEW j \in Jobs, Store!ForgetFailed(j)
  PROVE  Store!TypeOK' /\ StoreInv'
<1> USE PersistentStoreAssumption
    DEF Store!StoreAssumption, Store!TypeOK, Store!Record, Store!Reservation, Store!Phases
<1>1. /\ record' = [record EXCEPT ![j] = Store!Absent]
      /\ generation' = generation
      /\ issued' = issued
  BY DEF Store!ForgetFailed
<1>2. Store!TypeOK'
  BY <1>1 DEF Store!Absent
<1>3. Store!OneHolder'
  BY <1>1 DEF Store!Absent, StoreInv, Store!OneHolder
<1>4. Store!AttemptOnce'
  BY <1>1 DEF StoreInv, Store!AttemptOnce
<1>5. Store!NumbersBehind'
  BY <1>1 DEF Store!Absent, StoreInv, Store!NumbersBehind
<1>6. QED
  BY <1>2, <1>3, <1>4, <1>5 DEF StoreInv

\* The three ways a reservation ends.
LEMMA FinishKeeps ==
  ASSUME Store!TypeOK, StoreInv, NEW r \in issued, NEW t \in Nat,
         Store!Release(r, t) \/ Store!Complete(r) \/ Store!Fail(r)
  PROVE  Store!TypeOK' /\ StoreInv'
<1> USE PersistentStoreAssumption
    DEF Store!StoreAssumption, Store!TypeOK, Store!Record, Store!Reservation, Store!Phases
<1>1. /\ Store!Holds(r)
      /\ generation' = generation
      /\ issued' = issued
  BY DEF Store!Release, Store!Complete, Store!Fail
<1>2. r.job \in Jobs /\ record[r.job].phase = "pending"
  BY <1>1, HolderIsLast
<1>3. PICK rec \in Store!Record :
        /\ record' = [record EXCEPT ![r.job] = rec]
        /\ rec.token = NoToken
        /\ rec.phase # "absent" => rec.attempts = record[r.job].attempts
  BY <1>2 DEF Store!Release, Store!Complete, Store!Fail, Store!Released, Store!Absent,
              Store!Failed
<1>4. Store!TypeOK'
  BY <1>1, <1>3
<1>5. Store!OneHolder'
  BY <1>1, <1>3 DEF StoreInv, Store!OneHolder
<1>6. Store!AttemptOnce'
  BY <1>1 DEF StoreInv, Store!AttemptOnce
<1>7. Store!NumbersBehind'
  BY <1>1, <1>2, <1>3 DEF StoreInv, Store!NumbersBehind
<1>8. QED
  BY <1>4, <1>5, <1>6, <1>7 DEF StoreInv

\* A grant: one new reservation, whose token nobody was given before, is stored; other
\* leases are untouched or had expired at the caller's reading.
LEMMA ReserveGrants ==
  ASSUME Store!TypeOK, NEW j \in Jobs, NEW t \in Nat, NEW token \in Tokens,
         NEW recovered \in SUBSET Store!Expired(j, t),
         Store!Reserve(j, t, token, recovered)
  PROVE  \E new \in Store!Reservation :
           /\ new.job = j /\ new.token = token /\ new.until = t + Lease
           /\ new.attempt = record[j].attempts + 1 /\ new.generation = generation[j]
           /\ issued' = issued \cup {new} /\ new \notin issued
           /\ \A r \in issued : r.token # token
<1> USE PersistentStoreAssumption
    DEF Store!StoreAssumption, Store!TypeOK, Store!Record, Store!Reservation, Store!Phases
<1>1. PICK new : new = [job |-> j, token |-> token, attempt |-> record[j].attempts + 1,
                        generation |-> generation[j], until |-> t + Lease]
  OBVIOUS
<1>2. issued' = issued \cup {new}
  BY <1>1 DEF Store!Reserve
<1>3. \A r \in issued : r.token # token
  BY DEF Store!Reserve, Store!UsedTokens
<1>4. new \in Store!Reservation
  BY <1>1
<1>5. /\ new.job = j /\ new.token = token /\ new.until = t + Lease
      /\ new.attempt = record[j].attempts + 1 /\ new.generation = generation[j]
  BY <1>1
<1>6. QED
  BY <1>2, <1>3, <1>4, <1>5

\* The store keeps its invariant when it grants a reservation.
LEMMA ReserveKeeps ==
  ASSUME Store!TypeOK, StoreInv, NEW j \in Jobs, NEW t \in Nat, NEW token \in Tokens,
         NEW recovered \in SUBSET Store!Expired(j, t),
         Store!Reserve(j, t, token, recovered)
  PROVE  Store!TypeOK' /\ StoreInv'
<1> USE PersistentStoreAssumption
    DEF Store!StoreAssumption, Store!TypeOK, Store!Record, Store!Reservation, Store!Phases
<1>1. PICK new \in Store!Reservation :
           /\ new.job = j /\ new.token = token /\ new.until = t + Lease
           /\ new.attempt = record[j].attempts + 1 /\ new.generation = generation[j]
           /\ issued' = issued \cup {new} /\ new \notin issued
           /\ \A r \in issued : r.token # token
  BY ReserveGrants
<1>2. /\ generation' = generation
      /\ record' = [k \in Jobs |->
                      IF k = j THEN Store!Reserved(record[k], token, t + Lease)
                      ELSE IF k \in recovered THEN Store!Recovered(record[k]) ELSE record[k]]
      /\ record[j].phase = "pending"
  BY DEF Store!Reserve, Store!Eligible
<1>3. Store!TypeOK'
  BY <1>1, <1>2 DEF Store!Reserved, Store!Recovered
<1>4. Store!OneHolder'
  <2>1. SUFFICES ASSUME NEW k \in Jobs, record'[k].token # NoToken
                 PROVE  /\ record'[k].phase = "pending"
                        /\ \E r \in issued' :
                             /\ r.job = k
                             /\ r.token = record'[k].token
                             /\ r.attempt = record'[k].attempts
                             /\ r.generation = generation'[k]
                             /\ r.until = record'[k].until
                        /\ \A r \in issued' : r.token = record'[k].token => r.job = k
    BY DEF Store!OneHolder
  <2>2. CASE k = j
    <3>1. /\ record'[k].phase = "pending"
          /\ record'[k].token = token
          /\ record'[k].attempts = record[j].attempts + 1
          /\ record'[k].until = t + Lease
      BY <1>2, <2>2 DEF Store!Reserved
    <3>2. new \in issued' /\ generation'[k] = generation[j]
      BY <1>1, <1>2, <2>2
    <3>3. QED
      BY <1>1, <2>2, <3>1, <3>2
  <2>3. CASE k # j
    <3>1. record'[k] = record[k]
      BY <1>2, <2>1, <2>3 DEF Store!Recovered
    <3>2. /\ record[k].phase = "pending"
          /\ \A r \in issued : r.token = record[k].token => r.job = k
      BY <2>1, <3>1 DEF StoreInv, Store!OneHolder
    <3>3. PICK r \in issued : /\ r.job = k
                              /\ r.token = record[k].token
                              /\ r.attempt = record[k].attempts
                              /\ r.generation = generation[k]
                              /\ r.until = record[k].until
      BY <2>1, <3>1 DEF StoreInv, Store!OneHolder
    <3>4. record[k].token # token
      BY <1>1, <3>3
    <3>5. r \in issued' /\ generation' = generation
      BY <1>1, <1>2
    <3>6. \A s \in issued' : s.token = record[k].token => s.job = k
      BY <1>1, <3>2, <3>4
    <3>7. QED
      BY <3>1, <3>2, <3>3, <3>5, <3>6
  <2>4. QED
    BY <2>2, <2>3
<1>5. Store!AttemptOnce'
  BY <1>1, <1>2 DEF StoreInv, Store!AttemptOnce, Store!NumbersBehind
<1>6. Store!NumbersBehind'
  BY <1>1, <1>2 DEF StoreInv, Store!NumbersBehind, Store!Reserved, Store!Recovered
<1>7. QED
  BY <1>3, <1>4, <1>5, <1>6 DEF StoreInv

-----------------------------------------------------------------------------
(***************************************************************************)
(* Workers and their reservations                                          *)
(***************************************************************************)

\* The store has the tokens of no two workers on one job.
LEMMA OneWorkerHolds ==
  ASSUME QueueIInv, NEW v \in Workers, NEW w \in Workers,
         at[v] \in Working, at[w] \in Working, held[v].job = held[w].job,
         Store!Holds(held[v]), Store!Holds(held[w])
  PROVE  v = w
<1>1. held[v] \in issued /\ held[w] \in issued
  BY DEF QueueIInv, HeldInv
<1>2. held[v].token = held[w].token
  BY DEF Store!Holds
<1>3. held[v] = held[w]
  BY <1>1, <1>2 DEF QueueIInv, StoreInv, Store!AttemptOnce
<1>4. QED
  BY <1>3 DEF QueueIInv, HeldApart

\* What a step does to the reservation of a worker that goes on working on it: the
\* store keeps its token, or its lease has run out.
Carries(w) ==
  /\ at[w] \in Working /\ held'[w] = held[w]
  /\ at'[w] = "completing" => at[w] = "completing" \/ held[w].job \in succeeded'
  /\ Store!Holds(held[w]) =>
       held[w].until <= now' \/ record'[held[w].job].token = held[w].token

\* No job disappears without cause in a step.
Accounts(j) ==
  dispatch'[j] = "accepted" /\ record'[j].phase = "absent" =>
    \/ dispatch[j] = "accepted" /\ record[j].phase = "absent"
    \/ j \in succeeded' \/ j \in forgotten'

\* What no step takes back.
Grows ==
  /\ now' >= now
  /\ issued \subseteq issued'
  /\ succeeded \subseteq succeeded' /\ forgotten \subseteq forgotten'

\* A worker that carries on keeps its part of the invariant.
LEMMA CarriedOn ==
  ASSUME QueueIInv, TypeOK', Grows, NEW w \in Workers, Carries(w)
  PROVE  HeldInv(w)'
<1>1. HeldInv(w) /\ at[w] \in Working /\ held'[w] = held[w]
  BY DEF QueueIInv, Carries
<1>2. held'[w] \in issued'
  BY <1>1 DEF HeldInv, Grows
<1>3. at'[w] = "completing" => held'[w].job \in succeeded'
  BY <1>1 DEF HeldInv, Carries, Grows
<1>4. held'[w].until <= now' \/ record'[held'[w].job].token = held'[w].token
  <2>1. CASE Store!Holds(held[w])
    BY <1>1, <2>1 DEF Carries
  <2>2. CASE ~Store!Holds(held[w])
    <3>1. held[w].until <= now /\ held[w] \in Store!Reservation
      BY <1>1, <2>2 DEF HeldInv, QueueIInv, TypeOK, Store!TypeOK
    <3>2. held[w].until \in Nat /\ now \in Nat /\ now' \in Nat
      BY <3>1 DEF QueueIInv, TypeOK, Store!Reservation
    <3>3. QED
      BY <1>1, <3>1, <3>2 DEF Grows
  <2>3. QED
    BY <2>1, <2>2
<1>5. QED
  BY <1>2, <1>3, <1>4 DEF HeldInv, Store!Holds

\* A step in which every worker carries on with what it has keeps the invariant.
LEMMA CarryingOn ==
  ASSUME QueueIInv, TypeOK', StoreInv', SeenBehind', StartedWithin', Grows,
         \A w \in Workers : at'[w] \in Working => Carries(w),
         \A j \in Jobs : Accounts(j)
  PROVE  QueueIInv'
<1>1. ASSUME NEW w \in Workers PROVE HeldInv(w)'
  <2>1. CASE at'[w] \in Working
    BY <2>1, CarriedOn
  <2>2. CASE at'[w] \notin Working
    BY <2>2 DEF HeldInv
  <2>3. QED
    BY <2>1, <2>2
<1>2. HeldApart'
  <2>1. SUFFICES ASSUME NEW v \in Workers, NEW w \in Workers, v # w,
                        at'[v] \in Working, at'[w] \in Working
                 PROVE  held'[v] # held'[w]
    BY DEF HeldApart
  <2>2. Carries(v) /\ Carries(w)
    BY <2>1
  <2>3. QED
    BY <2>1, <2>2 DEF Carries, QueueIInv, HeldApart
<1>3. LeavesOnlyWhenDone'
  BY DEF QueueIInv, LeavesOnlyWhenDone, Accounts, Grows
<1>4. QED
  BY <1>1, <1>2, <1>3 DEF QueueIInv

\* A step that leaves the store, and the reservations of working workers, alone.
LEMMA StoreAloneStep ==
  ASSUME QueueIInv, TypeOK', UNCHANGED store, SeenBehind', StartedWithin', Grows,
         \A w \in Workers : at'[w] \in Working =>
           /\ at[w] \in Working /\ held'[w] = held[w]
           /\ at'[w] = "completing" => at[w] = "completing" \/ held[w].job \in succeeded',
         \A j \in Jobs : dispatch'[j] = "accepted" => dispatch[j] = "accepted"
  PROVE  QueueIInv'
<1>1. StoreInv'
  BY StoreAlone DEF QueueIInv, TypeOK
<1>2. record' = record
  BY DEF store
<1>3. \A w \in Workers : at'[w] \in Working => Carries(w)
  BY <1>2 DEF Carries, Store!Holds
<1>4. \A j \in Jobs : Accounts(j)
  BY <1>2 DEF Accounts
<1>5. QED
  BY <1>1, <1>3, <1>4, CarryingOn

-----------------------------------------------------------------------------
(***************************************************************************)
(* The steps that leave the store alone                                    *)
(***************************************************************************)

\* A dispatch that has not reached the store.
LEMMA DispatchKeeps ==
  ASSUME QueueIInv, NEW j \in Jobs, Prepare(j) \/ DispatchFails(j)
  PROVE  QueueIInv'
<1>1. /\ UNCHANGED store /\ UNCHANGED worker /\ UNCHANGED history /\ now' = now
      /\ \E place \in {"storing", "rejected"} : dispatch' = [dispatch EXCEPT ![j] = place]
  BY DEF Prepare, DispatchFails
<1>2. TypeOK'
  BY <1>1 DEF store, worker, history, QueueIInv, TypeOK, Store!TypeOK
<1>3. SeenBehind' /\ StartedWithin' /\ Grows
  BY <1>1 DEF store, worker, history, QueueIInv, TypeOK, SeenBehind, StartedWithin, Grows
<1>4. \A w \in Workers : at'[w] = at[w] /\ held'[w] = held[w]
  BY <1>1 DEF worker
<1>5. \A k \in Jobs : dispatch'[k] = "accepted" => dispatch[k] = "accepted"
  BY <1>1 DEF QueueIInv, TypeOK
<1>6. QED
  BY <1>1, <1>2, <1>3, <1>4, <1>5, StoreAloneStep

\* A worker between two reservations, and one whose handler starts or returns.
LEMMA WorkerKeeps ==
  ASSUME QueueIInv, NEW w \in Workers,
         \/ CheckContext(w) \/ ReserveNothing(w) \/ waitForPersistentWork(w)
         \/ BeginExecute(w) \/ HandlerSucceeds(w) \/ HandlerFails(w)
  PROVE  QueueIInv'
<1> USE DEF QueueIInv, TypeOK
<1>1. PICK place : /\ at' = [at EXCEPT ![w] = place]
                   /\ UNCHANGED store /\ UNCHANGED <<now, dispatch, held, forgotten>>
                   /\ place \in Working \cup {"loop", "reserve", "waiting", "exited"}
                   /\ place \in Working => at[w] \in Working
                   /\ place = "completing" => held[w].job \in succeeded'
  BY DEF CheckContext, ReserveNothing, waitForPersistentWork, BeginExecute, HandlerSucceeds,
         HandlerFails, WorkerGoto, history, Working
<1>2. \/ seen' = seen \/ seen' = [seen EXCEPT ![w] = 0] \/ seen' = [seen EXCEPT ![w] = now]
  BY DEF CheckContext, ReserveNothing, waitForPersistentWork, BeginExecute, HandlerSucceeds,
         HandlerFails
<1>3. \/ started' = started
      \/ /\ started' = started \cup {held[w]} /\ held[w].attempt <= MaxAttempts
         /\ at[w] = "execute"
  BY DEF CheckContext, ReserveNothing, waitForPersistentWork, BeginExecute, HandlerSucceeds,
         HandlerFails, CallsHandler, history
<1>4. succeeded \subseteq succeeded'
  BY DEF CheckContext, ReserveNothing, waitForPersistentWork, BeginExecute, HandlerSucceeds,
         HandlerFails, history
<1>5. started' \subseteq issued'
  <2>1. at[w] = "execute" => held[w] \in issued
    BY DEF HeldInv, Working
  <2>2. QED
    BY <1>1, <1>3, <2>1 DEF store
<1>6. TypeOK'
  BY <1>1, <1>2, <1>5 DEF store, Store!TypeOK
<1>7. SeenBehind'
  BY <1>1, <1>2 DEF SeenBehind
<1>8. StartedWithin'
  BY <1>3 DEF StartedWithin
<1>9. Grows
  BY <1>1, <1>4 DEF Grows, store
<1>10. \A v \in Workers : at'[v] \in Working =>
           /\ at[v] \in Working /\ held'[v] = held[v]
           /\ at'[v] = "completing" => at[v] = "completing" \/ held[v].job \in succeeded'
  BY <1>1
<1> HIDE DEF QueueIInv, TypeOK
<1>11. \A k \in Jobs : dispatch'[k] = "accepted" => dispatch[k] = "accepted"
  BY <1>1
<1>12. QED
  BY <1>1, <1>6, <1>7, <1>8, <1>9, <1>10, <1>11, StoreAloneStep

\* A process starts, stops or crashes: its workers hold nothing any more, or what they
\* held before.
LEMMA ProcessKeeps ==
  ASSUME QueueIInv, NEW p \in Processes,
         Start(p) \/ Shutdown(p) \/ finishPersistentShutdown(p) \/ Crash(p)
  PROVE  QueueIInv'
<1> USE DEF QueueIInv, TypeOK
<1>1. UNCHANGED store /\ UNCHANGED history /\ now' = now
  BY DEF Start, Shutdown, finishPersistentShutdown, Crash
<1>2. /\ at' \in [Workers -> Working \cup {"off", "loop", "reserve", "waiting", "exited"}]
      /\ seen' \in [Workers -> Nat]
      /\ held' \in [Workers -> Store!Reservation \cup {NoReservation}]
      /\ \A w \in Workers : seen'[w] = seen[w] \/ seen'[w] = 0
      /\ \A w \in Workers :
           \/ at'[w] = at[w] /\ held'[w] = held[w]
           \/ at'[w] \in {"loop", "off"}
  BY DEF Start, Shutdown, finishPersistentShutdown, Crash, worker
<1>3. /\ dispatch' \in [Jobs -> {"new", "storing", "accepted", "rejected"}]
      /\ \A k \in Jobs : dispatch'[k] = "accepted" => dispatch[k] = "accepted"
  BY DEF Start, Shutdown, finishPersistentShutdown, Crash
<1>4. TypeOK'
  BY <1>1, <1>2, <1>3 DEF store, history, Store!TypeOK
<1>5. SeenBehind' /\ StartedWithin' /\ Grows
  BY <1>1, <1>2 DEF SeenBehind, StartedWithin, Grows, store, history
<1>6. \A w \in Workers : at'[w] \in Working => at'[w] = at[w] /\ held'[w] = held[w]
  BY <1>2 DEF Working
<1> HIDE DEF QueueIInv, TypeOK
<1>7. QED
  BY <1>1, <1>3, <1>4, <1>5, <1>6, StoreAloneStep

\* Time passes.
LEMMA TickKeeps ==
  ASSUME QueueIInv, Tick
  PROVE  QueueIInv'
<1>1. /\ UNCHANGED store /\ UNCHANGED worker /\ UNCHANGED history
      /\ dispatch' = dispatch /\ now' = now + 1
  BY DEF Tick
<1>2. TypeOK'
  BY <1>1 DEF store, worker, history, QueueIInv, TypeOK, Store!TypeOK
<1>3. SeenBehind' /\ StartedWithin' /\ Grows
  BY <1>1 DEF store, worker, history, QueueIInv, TypeOK, SeenBehind, StartedWithin, Grows
<1>4. \A w \in Workers : at'[w] = at[w] /\ held'[w] = held[w]
  BY <1>1 DEF worker
<1>5. QED
  BY <1>1, <1>2, <1>3, <1>4, StoreAloneStep

\* Nothing happens.
LEMMA StutterKeeps ==
  ASSUME QueueIInv, UNCHANGED vars
  PROVE  QueueIInv'
<1>1. /\ UNCHANGED store /\ UNCHANGED worker /\ UNCHANGED history
      /\ dispatch' = dispatch /\ now' = now
  BY DEF vars, store, worker, history
<1>2. TypeOK'
  BY <1>1 DEF store, worker, history, QueueIInv, TypeOK, Store!TypeOK
<1>3. SeenBehind' /\ StartedWithin' /\ Grows
  BY <1>1 DEF store, worker, history, QueueIInv, TypeOK, SeenBehind, StartedWithin, Grows
<1>4. \A w \in Workers : at'[w] = at[w] /\ held'[w] = held[w]
  BY <1>1 DEF worker
<1>5. QED
  BY <1>1, <1>2, <1>3, <1>4, StoreAloneStep

-----------------------------------------------------------------------------
(***************************************************************************)
(* The steps that change the store                                         *)
(***************************************************************************)

\* A job that nobody can hold is enqueued, retried or forgotten: workers on other jobs
\* do not notice, and workers on this one have lost it long since.
LEMMA OperatorCarries ==
  ASSUME QueueIInv, NEW j \in Jobs, record[j].phase # "pending",
         \A k \in Jobs \ {j} : record'[k] = record[k],
         UNCHANGED worker, UNCHANGED succeeded, NEW w \in Workers, at'[w] \in Working
  PROVE  Carries(w)
<1>1. at'[w] = at[w] /\ held'[w] = held[w] /\ succeeded' = succeeded
  BY DEF worker
<1>2. held[w] \in issued /\ Store!TypeOK /\ StoreInv
  BY <1>1 DEF QueueIInv, TypeOK, HeldInv
<1>3. ASSUME Store!Holds(held[w]) PROVE record'[held[w].job] = record[held[w].job]
  <2>1. record[held[w].job].phase = "pending" /\ held[w] \in Store!Reservation
    BY <1>2, <1>3, HolderIsLast
  <2>2. held[w].job \in Jobs
    BY <2>1 DEF Store!Reservation
  <2>3. QED
    BY <2>1, <2>2
<1>4. QED
  BY <1>1, <1>3 DEF Carries, Store!Holds

\* A dispatch that reaches the store.
LEMMA PersistKeeps ==
  ASSUME QueueIInv, NEW j \in Jobs, persistJob(j)
  PROVE  QueueIInv'
<1>1. Later(ReadyAt[j], now) \in Nat
  BY PersistentAssumption DEF Later, QueueIInv, TypeOK
<1>2. PICK t \in Nat : Store!Enqueue(j, t)
  BY <1>1 DEF persistJob
<1>3. Store!TypeOK' /\ StoreInv'
  BY <1>2, FreshKeeps DEF QueueIInv, TypeOK
<1>4. /\ UNCHANGED worker /\ UNCHANGED history /\ now' = now
      /\ dispatch' = [dispatch EXCEPT ![j] = "accepted"]
  BY DEF persistJob
<1>5. /\ record' = [record EXCEPT ![j] = Store!Fresh(t)]
      /\ record[j].phase = "absent" /\ issued' = issued
  BY <1>2 DEF Store!Enqueue
<1>6. record \in [Jobs -> Store!Record]
  BY DEF QueueIInv, TypeOK, Store!TypeOK
<1>7. record'[j].phase = "pending" /\ \A k \in Jobs \ {j} : record'[k] = record[k]
  BY <1>5, <1>6 DEF Store!Fresh
<1>8. TypeOK'
  BY <1>3, <1>4, <1>5 DEF worker, history, QueueIInv, TypeOK
<1>9. SeenBehind' /\ StartedWithin' /\ Grows
  BY <1>4, <1>5 DEF worker, history, QueueIInv, TypeOK, SeenBehind, StartedWithin, Grows
<1>10. \A w \in Workers : at'[w] \in Working => Carries(w)
  BY <1>4, <1>5, <1>7, OperatorCarries DEF history
<1>11. \A k \in Jobs : Accounts(k)
  BY <1>4, <1>7 DEF Accounts, QueueIInv, TypeOK
<1>12. QED
  BY <1>3, <1>8, <1>9, <1>10, <1>11, CarryingOn

\* The operator takes a failed job up again or has it forgotten.
LEMMA OperatorKeeps ==
  ASSUME QueueIInv, NEW j \in Jobs, RetryFailed(j) \/ ForgetFailed(j)
  PROVE  QueueIInv'
<1>1. Store!RetryFailed(j, now) \/ Store!ForgetFailed(j)
  BY DEF RetryFailed, ForgetFailed
<1>2. Store!TypeOK' /\ StoreInv'
  BY <1>1, FreshKeeps, ForgetKeeps DEF QueueIInv, TypeOK
<1>3. /\ UNCHANGED worker /\ now' = now /\ dispatch' = dispatch
      /\ started' = started /\ succeeded' = succeeded /\ forgotten \subseteq forgotten'
  BY DEF RetryFailed, ForgetFailed, history
<1>4. record \in [Jobs -> Store!Record]
  BY DEF QueueIInv, TypeOK, Store!TypeOK
<1>5. /\ record[j].phase = "failed" /\ issued' = issued
      /\ \A k \in Jobs \ {j} : record'[k] = record[k]
  BY <1>1, <1>4 DEF Store!RetryFailed, Store!ForgetFailed
<1>6. record'[j].phase = "pending" \/ j \in forgotten'
  BY <1>4 DEF RetryFailed, ForgetFailed, Store!RetryFailed, Store!Fresh
<1>7. TypeOK'
  BY <1>2, <1>3, <1>5 DEF worker, QueueIInv, TypeOK
<1>8. SeenBehind' /\ StartedWithin' /\ Grows
  BY <1>3, <1>5 DEF worker, QueueIInv, TypeOK, SeenBehind, StartedWithin, Grows
<1>9. record[j].phase # "pending"
  BY <1>5
<1>10. \A w \in Workers : at'[w] \in Working => Carries(w)
  BY <1>3, <1>5, <1>9, OperatorCarries
<1>11. \A k \in Jobs : Accounts(k)
  BY <1>3, <1>5, <1>6 DEF Accounts
<1>12. QED
  BY <1>2, <1>7, <1>8, <1>10, <1>11, CarryingOn

\* A worker finishes its reservation: it is the only one that can.
LEMMA FinishingKeeps ==
  ASSUME QueueIInv, NEW w \in Workers, Complete(w) \/ Release(w) \/ Fail(w)
  PROVE  QueueIInv'
<1>1. /\ at[w] \in Working
      /\ at' = [at EXCEPT ![w] = "loop"] /\ held' = [held EXCEPT ![w] = NoReservation]
      /\ UNCHANGED <<now, dispatch, seen>> /\ UNCHANGED history
  BY DEF Complete, Release, Fail, Finish, WorkerGoto, Working
<1>2. \/ UNCHANGED store
      \/ Store!Complete(held[w]) /\ at[w] = "completing"
      \/ Store!Release(held[w], now + Backoff)
      \/ Store!Fail(held[w])
  BY DEF Complete, Release, Fail, Finish, store
<1>3. "loop" \notin Working
  BY DEF Working
<1>4. ASSUME Store!TypeOK', issued' = issued
      PROVE  TypeOK' /\ SeenBehind' /\ StartedWithin' /\ Grows
  BY <1>1, <1>4 DEF history, QueueIInv, TypeOK, SeenBehind, StartedWithin, Grows
<1>5. \A v \in Workers : at'[v] \in Working => v # w /\ at'[v] = at[v] /\ held'[v] = held[v]
  BY <1>1, <1>3 DEF QueueIInv, TypeOK
<1>6. CASE UNCHANGED store
  <2>1. Store!TypeOK' /\ issued' = issued
    BY <1>6, StoreAlone DEF QueueIInv, TypeOK, store
  <2>2. QED
    BY <1>1, <1>4, <1>5, <1>6, <2>1, StoreAloneStep
<1>7. CASE \/ Store!Complete(held[w]) /\ at[w] = "completing"
           \/ Store!Release(held[w], now + Backoff)
           \/ Store!Fail(held[w])
  <2>1. held[w] \in issued /\ Store!TypeOK /\ StoreInv /\ now + Backoff \in Nat
    BY <1>1, PersistentAssumption DEF QueueIInv, TypeOK, HeldInv
  <2>2. Store!TypeOK' /\ StoreInv'
    BY <1>7, <2>1, FinishKeeps
  <2>3. Store!Holds(held[w]) /\ issued' = issued
    BY <1>7 DEF Store!Complete, Store!Release, Store!Fail
  <2>4. /\ record[held[w].job].phase = "pending" /\ held[w].job \in Jobs
        /\ record \in [Jobs -> Store!Record]
    BY <2>1, <2>3, HolderIsLast DEF Store!Reservation, Store!TypeOK
  <2>5. \A k \in Jobs \ {held[w].job} : record'[k] = record[k]
    BY <1>7, <2>4 DEF Store!Complete, Store!Release, Store!Fail
  <2>6. record'[held[w].job].phase # "absent" \/ held[w].job \in succeeded'
    <3>1. CASE at[w] = "completing"
      BY <1>1, <3>1 DEF QueueIInv, HeldInv, history
    <3>2. CASE Store!Release(held[w], now + Backoff)
      BY <2>4, <3>2 DEF Store!Release, Store!Released
    <3>3. CASE Store!Fail(held[w])
      BY <2>4, <3>3 DEF Store!Fail, Store!Failed
    <3>4. QED
      BY <1>7, <3>1, <3>2, <3>3
  <2>7. TypeOK' /\ SeenBehind' /\ StartedWithin' /\ Grows
    BY <1>4, <2>2, <2>3
  <2>8. ASSUME NEW v \in Workers, at'[v] \in Working PROVE Carries(v)
    <3>1. v # w /\ at[v] \in Working /\ at'[v] = at[v] /\ held'[v] = held[v]
      BY <1>5, <2>8
    <3>2. Store!Holds(held[v]) => held[v].job # held[w].job
      BY <1>1, <2>3, <3>1, OneWorkerHolds
    <3>3. held[v].job \in Jobs
      BY <2>1, <3>1 DEF QueueIInv, HeldInv, Store!TypeOK, Store!Reservation
    <3>4. QED
      BY <2>5, <3>1, <3>2, <3>3 DEF Carries, Store!Holds
  <2>9. \A k \in Jobs : Accounts(k)
    BY <1>1, <2>5, <2>6 DEF Accounts
  <2>10. QED
    BY <2>2, <2>7, <2>8, <2>9, CarryingOn
<1>8. QED
  BY <1>2, <1>6, <1>7

\* A grant takes no running lease away: the job's own lease, and every lease the store
\* takes back with the call, ended before the caller read its clock.
LEMMA GrantCarries ==
  ASSUME QueueIInv, NEW w \in Workers, NEW j \in Jobs, NEW token \in Tokens,
         NEW recovered \in SUBSET Store!Expired(j, seen[w]),
         Store!Reserve(j, seen[w], token, recovered), now' = now,
         NEW v \in Workers, at[v] \in Working, Store!Holds(held[v])
  PROVE  held[v].until <= now' \/ record'[held[v].job].token = held[v].token
<1>1. held[v] \in issued /\ Store!TypeOK /\ StoreInv
  BY DEF QueueIInv, TypeOK, HeldInv
<1>2. /\ held[v] \in Store!Reservation
      /\ record[held[v].job].until = held[v].until
  BY <1>1, HolderIsLast
<1>3. PICK k \in Jobs : k = held[v].job
  BY <1>2 DEF Store!Reservation
<1>4. held[v].token # NoToken /\ held[v].until \in Nat
  BY <1>2, PersistentStoreAssumption DEF Store!Reservation, Store!StoreAssumption
<1>5. /\ record[k].token = held[v].token /\ record[k].token # NoToken
      /\ record[k].until = held[v].until
  BY <1>2, <1>3, <1>4 DEF Store!Holds
<1>6. seen[w] \in Nat /\ now \in Nat /\ seen[w] <= now
  BY DEF QueueIInv, TypeOK, SeenBehind
<1>7. CASE k = j
  <2>1. record[k].until <= seen[w]
    BY <1>5, <1>7 DEF Store!Reserve, Store!Eligible
  <2>2. QED
    BY <1>4, <1>5, <1>6, <2>1
<1>8. CASE k \in recovered
  <2>1. record[k].until <= seen[w]
    BY <1>8 DEF Store!Expired
  <2>2. QED
    BY <1>4, <1>5, <1>6, <2>1
<1>9. CASE k # j /\ k \notin recovered
  <2>1. record'[k] = record[k]
    BY <1>9 DEF Store!Reserve
  <2>2. QED
    BY <1>3, <1>5, <2>1
<1>10. QED
  BY <1>7, <1>8, <1>9

\* A reservation, whether or not its answer arrives.
LEMMA ReservingKeeps ==
  ASSUME QueueIInv, NEW w \in Workers, Reserve(w) \/ ReserveLost(w)
  PROVE  QueueIInv'
<1>1. PICK token \in Tokens : token = FreshToken
  BY DEF Reserve, ReserveLost, TokensLeft, FreshToken
<1> PICK j \in Jobs :
      \E recovered \in SUBSET Store!Expired(j, seen[w]) :
        Store!Reserve(j, seen[w], token, recovered)
  BY <1>1 DEF Reserve, ReserveLost
<1>2. PICK recovered \in SUBSET Store!Expired(j, seen[w]) :
        Store!Reserve(j, seen[w], token, recovered)
  OBVIOUS
<1>3. Store!TypeOK /\ StoreInv /\ seen[w] \in Nat
  BY DEF QueueIInv, TypeOK
<1>4. Store!TypeOK' /\ StoreInv'
  BY <1>2, <1>3, ReserveKeeps
<1>5. PICK new \in Store!Reservation :
        /\ new.job = j /\ new.token = token
        /\ issued' = issued \cup {new} /\ new \notin issued
  BY <1>2, <1>3, ReserveGrants
<1>6. record'[j].token = token
  BY <1>2 DEF Store!Reserve, Store!Reserved
<1>7. /\ UNCHANGED history /\ now' = now /\ dispatch' = dispatch
      /\ seen' = [seen EXCEPT ![w] = 0]
  BY DEF Reserve, ReserveLost
<1>8. \/ at' = [at EXCEPT ![w] = "waiting"] /\ held' = held
      \/ at' = [at EXCEPT ![w] = "execute"] /\ held' = [held EXCEPT ![w] = new]
  <2>1. ASSUME Reserve(w) PROVE held' = [held EXCEPT ![w] = new]
    <3>1. (CHOOSE r \in issued' : r \notin issued) = new
      BY <1>5
    <3>2. QED
      BY <2>1, <3>1 DEF Reserve
  <2>2. QED
    BY <2>1 DEF Reserve, ReserveLost, WorkerGoto
<1>9. TypeOK'
  BY <1>4, <1>5, <1>7, <1>8 DEF history, QueueIInv, TypeOK, Working
<1>10. SeenBehind' /\ StartedWithin' /\ Grows
  BY <1>5, <1>7 DEF history, QueueIInv, TypeOK, SeenBehind, StartedWithin, Grows
<1>11. "waiting" \notin Working /\ "execute" \in Working
  BY DEF Working
<1>12. ASSUME NEW v \in Workers, v # w, at'[v] \in Working PROVE Carries(v)
  <2>1. at'[v] = at[v] /\ held'[v] = held[v]
    BY <1>8, <1>12 DEF QueueIInv, TypeOK
  <2>2. Store!Holds(held[v]) =>
          held[v].until <= now' \/ record'[held[v].job].token = held[v].token
    BY <1>2, <1>7, <1>12, <2>1, GrantCarries
  <2>3. QED
    BY <1>12, <2>1, <2>2 DEF Carries
<1>13. \A k \in Jobs : Accounts(k)
  <2>1. \A k \in Jobs : record'[k].phase = record[k].phase
    BY <1>2 DEF Store!Reserve, Store!Reserved, Store!Recovered
  <2>2. QED
    BY <1>7, <2>1 DEF Accounts
<1>14. CASE at' = [at EXCEPT ![w] = "waiting"] /\ held' = held
  <2>1. at'[w] \notin Working
    BY <1>11, <1>14 DEF QueueIInv, TypeOK
  <2>2. \A v \in Workers : at'[v] \in Working => Carries(v)
    BY <1>12, <2>1
  <2>3. QED
    BY <1>4, <1>9, <1>10, <1>13, <2>2, CarryingOn
<1>15. CASE at' = [at EXCEPT ![w] = "execute"] /\ held' = [held EXCEPT ![w] = new]
  <2>1. at'[w] = "execute" /\ held'[w] = new
    BY <1>15 DEF QueueIInv, TypeOK
  <2>2. HeldInv(w)'
    BY <1>5, <1>6, <2>1 DEF HeldInv, Store!Holds
  <2>3. ASSUME NEW v \in Workers PROVE HeldInv(v)'
    <3>1. CASE v # w /\ at'[v] \in Working
      BY <1>9, <1>10, <1>12, <3>1, CarriedOn
    <3>2. CASE at'[v] \notin Working
      BY <3>2 DEF HeldInv
    <3>3. QED
      BY <2>2, <3>1, <3>2
  <2>4. ASSUME NEW v \in Workers, v # w, at'[v] \in Working
        PROVE  held'[v] = held[v] /\ at[v] \in Working /\ held'[v] \in issued
    BY <1>12, <2>4 DEF Carries, QueueIInv, HeldInv
  <2>5. HeldApart'
    BY <1>5, <2>1, <2>4 DEF HeldApart, QueueIInv
  <2>6. LeavesOnlyWhenDone'
    BY <1>10, <1>13 DEF QueueIInv, LeavesOnlyWhenDone, Accounts, Grows
  <2>7. QED
    BY <1>4, <1>9, <1>10, <2>3, <2>5, <2>6 DEF QueueIInv
<1>16. QED
  BY <1>8, <1>14, <1>15

-----------------------------------------------------------------------------
(***************************************************************************)
(* Theorems                                                                *)
(***************************************************************************)

\* In every reachable state a worker that works on a job has a reservation of its own,
\* which the store still has unless its lease ran out, and the store fences the others.
THEOREM QueueInvariant == Spec => []QueueIInv
<1>1. Init => QueueIInv
  <2> SUFFICES ASSUME Init PROVE QueueIInv
    OBVIOUS
  <2>1. Store!TypeOK /\ issued = {}
    BY PersistentStoreAssumption
    DEF Init, Store!Init, Store!TypeOK, Store!Record, Store!Absent, Store!Phases,
        Store!StoreAssumption
  <2>2. StoreInv
    BY DEF Init, Store!Init, Store!Absent, StoreInv, Store!OneHolder, Store!AttemptOnce,
           Store!NumbersBehind
  <2>3. TypeOK
    BY <2>1 DEF Init, TypeOK
  <2>4. \A w \in Workers : at[w] \notin Working
    BY DEF Init, Working
  <2>5. (\A w \in Workers : HeldInv(w)) /\ HeldApart
    BY <2>4 DEF HeldInv, HeldApart
  <2>6. SeenBehind /\ StartedWithin /\ LeavesOnlyWhenDone
    BY DEF Init, SeenBehind, StartedWithin, LeavesOnlyWhenDone
  <2>7. QED
    BY <2>2, <2>3, <2>5, <2>6 DEF QueueIInv
<1>2. QueueIInv /\ [Next]_vars => QueueIInv'
  <2> SUFFICES ASSUME QueueIInv, [Next]_vars
               PROVE  QueueIInv'
    OBVIOUS
  <2>1. ASSUME NEW j \in Jobs, Prepare(j) \/ persistJob(j) \/ DispatchFails(j)
        PROVE  QueueIInv'
    BY <2>1, DispatchKeeps, PersistKeeps
  <2>2. ASSUME NEW w \in Workers, Worker(w) \/ ReserveLost(w)
        PROVE  QueueIInv'
    BY <2>2, WorkerKeeps, FinishingKeeps, ReservingKeeps DEF Worker
  <2>3. ASSUME NEW p \in Processes,
               Start(p) \/ Shutdown(p) \/ finishPersistentShutdown(p) \/ Crash(p)
        PROVE  QueueIInv'
    BY <2>3, ProcessKeeps
  <2>4. ASSUME NEW j \in Jobs, RetryFailed(j) \/ ForgetFailed(j)
        PROVE  QueueIInv'
    BY <2>4, OperatorKeeps
  <2>5. CASE Tick
    BY <2>5, TickKeeps
  <2>6. CASE UNCHANGED vars
    BY <2>6, StutterKeeps
  <2>7. QED
    BY <2>1, <2>2, <2>3, <2>4, <2>5, <2>6 DEF Next
<1>3. QED
  BY <1>1, <1>2, PTL DEF Spec

\* Attempt numbers within the limit, none given twice: no more calls than the limit.
LEMMA BudgetHolds ==
  ASSUME QueueIInv
  PROVE  AttemptBudget
<1>1. SUFFICES ASSUME NEW j \in Jobs, NEW g \in Nat
               PROVE  Cardinality({r \in started : r.job = j /\ r.generation = g})
                        <= MaxAttempts
  BY DEF AttemptBudget, QueueIInv, TypeOK, Store!TypeOK
<1>2. PICK S : S = {r \in started : r.job = j /\ r.generation = g}
  OBVIOUS
<1>3. \A r \in S : r.attempt \in 1..MaxAttempts
  BY <1>2, PersistentAssumption
  DEF QueueIInv, TypeOK, Store!TypeOK, Store!Reservation, StartedWithin
<1>4. \A r, s \in S : r.attempt = s.attempt => r = s
  BY <1>2 DEF QueueIInv, TypeOK, StoreInv, Store!AttemptOnce
<1>5. PICK f : f = [r \in S |-> r.attempt]
  OBVIOUS
<1>6. f \in Injection(S, 1..MaxAttempts)
  BY <1>3, <1>4, <1>5 DEF Injection, IsInjective
<1>7. 1 \in Int /\ MaxAttempts \in Nat
  BY PersistentAssumption
<1>8. IsFiniteSet(1..MaxAttempts) /\ Cardinality(1..MaxAttempts) = MaxAttempts
  BY <1>7, FS_Interval
<1>9. Cardinality(S) <= Cardinality(1..MaxAttempts)
  BY <1>6, <1>8, FS_Injection
<1>10. QED
  BY <1>2, <1>8, <1>9

\* Over all processes a handler is called for a job no more often than its attempts
\* allow, and two calls overlap only after the lease of one has run out: whatever
\* crashes, answers get lost and handlers overrun.
THEOREM DeliveriesCorrect == Spec => []DeliveriesFenced
<1>1. QueueIInv => DeliveriesFenced
  <2> SUFFICES ASSUME QueueIInv PROVE AttemptBudget /\ OverlapOnlyAfterLease
    BY DEF DeliveriesFenced
  <2>1. AttemptBudget
    BY BudgetHolds
  <2>2. OverlapOnlyAfterLease
    <3>1. SUFFICES ASSUME NEW v \in Workers, NEW w \in Workers, v # w,
                          at[v] = "handling", at[w] = "handling",
                          held[v].job = held[w].job
                   PROVE  held[v].until <= now \/ held[w].until <= now
      BY DEF OverlapOnlyAfterLease
    <3>2. at[v] \in Working /\ at[w] \in Working
      BY <3>1 DEF Working
    <3>3. ~Store!Holds(held[v]) \/ ~Store!Holds(held[w])
      BY <3>1, <3>2, OneWorkerHolds
    <3>4. QED
      BY <3>2, <3>3 DEF QueueIInv, HeldInv
  <2>3. QED
    BY <2>1, <2>2
<1>2. QED
  BY <1>1, QueueInvariant, PTL

\* No accepted job is lost: it leaves the store only after a handler call returned nil
\* or an operator forgot it.
THEOREM NoJobLost == Spec => []LeavesOnlyWhenDone
<1>1. QueueIInv => LeavesOnlyWhenDone
  BY DEF QueueIInv
<1>2. QED
  BY <1>1, QueueInvariant, PTL
=============================================================================
