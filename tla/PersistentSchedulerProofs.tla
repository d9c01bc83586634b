---------------------- MODULE PersistentSchedulerProofs ----------------------
(***************************************************************************)
(* One occurrence, one run: for every number of processes, loops and       *)
(* tasks, every lease and every delay, and any number of crashes, lost     *)
(* answers, failed starts and tasks that outlive their leases.  Timed is   *)
(* the scheduler in MCPersistent, which has names of its own for some of   *)
(* its variables: schedule is the store's record, claims are the           *)
(* reservations issued, claim is what a loop holds, reading the clock      *)
(* reading it has seen, and place where it is.                             *)
(***************************************************************************)
EXTENDS MCPersistent, TLAPS

Places == {"off", "listed", "runnable", "loop", "state", "sleeping", "reserve", "polling",
           "running", "completing", "exited"}

LoopTypeOK ==
  /\ place \in [Loops -> Places]
  /\ reading \in [Loops -> Nat] /\ planned \in [Loops -> Nat] /\ ended \in [Loops -> Nat]
  /\ claim \in [Loops -> Timed!Store!Reservation \cup {NoReservation}]

ProcessTypeOK == begun \in [Processes -> Nat] /\ returned \in [Tasks -> Nat]

\* No loop reserves with a reading from the future.
SeenBehind == \A l \in Loops : reading[l] <= clock

\* No claim was granted before its occurrence, nor in the future.
ClaimsPast == \A r \in claims : r.next <= r.at /\ r.at <= clock /\ r.round <= round[r.task]

\* The stored occurrence is later than the end of the last completed run.
ReturnInv ==
  \A n \in Tasks :
    \/ schedule[n].next > returned[n]
    \/ schedule[n].next = 0 /\ returned[n] = 0 /\ round[n] = 0

\* A loop works on its task under a claim that the store granted; until its lease runs
\* out, the store has it.  What it claimed, or the round, is newer than the last
\* completed run.
RunInv(l) ==
  Timed!Working(l) =>
    /\ claim[l] \in claims /\ claim[l].task = TaskOf[l]
    /\ claim[l].until <= clock \/ Timed!Store!Holds(claim[l])
    /\ claim[l].next > returned[TaskOf[l]] \/ claim[l].round < round[TaskOf[l]]

\* A plan is later than the end of the run, which is no earlier than its claim.
PlanInv(l) == place[l] = "completing" => claim[l].at <= ended[l] /\ ended[l] < planned[l]

\* No two loops work under one claim.
HeldApart ==
  \A l, m \in Loops : l # m /\ Timed!Working(l) /\ Timed!Working(m) => claim[l] # claim[m]

FencedInv ==
  /\ clock \in Nat /\ Timed!Store!TypeOK /\ Timed!Store!OneClaimant
  /\ LoopTypeOK /\ ProcessTypeOK /\ SeenBehind /\ ClaimsPast /\ ReturnInv
  /\ \A l \in Loops : RunInv(l) /\ PlanInv(l)
  /\ HeldApart

\* What a step may do to the occurrences (SkipsMissedRuns).
SkipStep == \A n \in Tasks : schedule'[n].next >= schedule[n].next

-----------------------------------------------------------------------------
(***************************************************************************)
(* The store                                                               *)
(***************************************************************************)

\* A task that the store does not know is not claimed, so that initializing it
\* disturbs nobody.
LEMMA InitializeKeeps ==
  ASSUME Timed!Store!TypeOK, Timed!Store!OneClaimant, UNCHANGED <<claims, finished, round>>,
         schedule' \in [Tasks -> Timed!Store!Record],
         \A n \in Tasks : schedule'[n] = schedule[n] \/ (schedule[n].next = 0 /\ schedule'[n].token = NoToken)
  PROVE  /\ Timed!Store!TypeOK' /\ Timed!Store!OneClaimant'
         /\ \A r \in claims : Timed!Store!Holds(r) => Timed!Store!Holds(r)'
<1>1. Timed!Store!TypeOK'
  BY DEF Timed!Store!TypeOK
<1>2. Timed!Store!OneClaimant'
  BY DEF Timed!Store!OneClaimant
<1>3. ASSUME NEW r \in claims, Timed!Store!Holds(r)  PROVE Timed!Store!Holds(r)'
  <2>1. r.task \in Tasks /\ r.next # 0
    BY DEF Timed!Store!TypeOK, Timed!Store!Reservation
  <2>2. schedule[r.task].next # 0
    BY <1>3, <2>1 DEF Timed!Store!Holds
  <2>3. schedule'[r.task] = schedule[r.task]
    BY <2>1, <2>2
  <2>4. QED
    BY <1>3, <2>3 DEF Timed!Store!Holds
<1>4. QED
  BY <1>1, <1>2, <1>3

\* A claim is granted with a fresh token, and takes the occurrence from others only
\* when their leases have run out on the clock of the new claimant.
LEMMA ReserveKeeps ==
  ASSUME Timed!PersistentSchedulerAssumption, Timed!Store!TypeOK, Timed!Store!OneClaimant,
         NEW n \in Tasks, NEW s \in Nat, NEW token \in Tokens, Timed!Store!Reserve(n, s, token),
         NEW new, new = Timed!Store!Granted(n, s, token)
  PROVE  /\ Timed!Store!TypeOK' /\ Timed!Store!OneClaimant'
         /\ new \in Timed!Store!Reservation /\ new \notin claims /\ claims' = claims \cup {new}
         /\ new.task = n /\ new.next <= s /\ new.at = s /\ Timed!Store!Holds(new)'
         /\ new.next = schedule[n].next /\ new.round = round[n] /\ round' = round
         /\ \A m \in Tasks : schedule'[m].next = schedule[m].next
         /\ \A r \in claims : Timed!Store!Holds(r) => r.until <= s \/ Timed!Store!Holds(r)'
<1> USE DEF Timed!PersistentSchedulerAssumption, Timed!Store!SchedulerStoreAssumption,
            Timed!Store!TypeOK, Timed!Store!Record, Timed!Store!Reservation
<1>1. /\ new.task = n /\ new.token = token /\ new.next = schedule[n].next
      /\ new.at = s /\ new.until = s + TaskLease /\ new.round = round[n]
  BY DEF Timed!Store!Granted
<1>2. new \in Timed!Store!Reservation /\ new.next <= s
  BY DEF Timed!Store!Granted, Timed!Store!Reserve, Timed!Store!Due
<1>3. \A r \in claims : r.token # token
  BY DEF Timed!Store!Reserve, Timed!Store!UsedTokens
<1>4. /\ claims' = claims \cup {new} /\ finished' = finished /\ round' = round
      /\ \A m \in Tasks \ {n} : schedule'[m] = schedule[m]
      /\ schedule'[n].next = schedule[n].next /\ schedule'[n].token = token
      /\ schedule'[n].until = s + TaskLease
  BY DEF Timed!Store!Reserve, Timed!Store!Reserved
<1>5. Timed!Store!TypeOK'
  <2>1. schedule' \in [Tasks -> Timed!Store!Record]
    BY DEF Timed!Store!Reserve, Timed!Store!Reserved
  <2>2. QED
    BY <1>2, <1>4, <2>1
<1>6. Timed!Store!OneClaimant'
  <2>1. SUFFICES ASSUME NEW m \in Tasks, schedule'[m].token # NoToken
                 PROVE  \E r \in claims' :
                          /\ r.task = m /\ r.token = schedule'[m].token
                          /\ r.next = schedule'[m].next /\ r.until = schedule'[m].until
                          /\ r.round = round'[m]
                          /\ \A q \in claims' : q.token = r.token => q = r
    BY DEF Timed!Store!OneClaimant
  <2>2. CASE m = n
    <3>1. \A q \in claims' : q.token = new.token => q = new
      BY <1>1, <1>3, <1>4
    <3>2. QED
      BY <1>1, <1>4, <2>2, <3>1
  <2>3. CASE m # n
    <3>1. schedule'[m] = schedule[m]
      BY <1>4, <2>3
    <3>2. PICK r \in claims :
            /\ r.task = m /\ r.token = schedule[m].token
            /\ r.next = schedule[m].next /\ r.until = schedule[m].until
            /\ r.round = round[m]
            /\ \A q \in claims : q.token = r.token => q = r
      BY <2>1, <3>1 DEF Timed!Store!OneClaimant
    <3>3. \A q \in claims' : q.token = r.token => q = r
      BY <1>1, <1>3, <1>4, <3>2
    <3>4. QED
      BY <1>4, <3>1, <3>2, <3>3
  <2>4. QED
    BY <2>2, <2>3
<1>7. ASSUME NEW r \in claims, Timed!Store!Holds(r), ~(r.until <= s)  PROVE Timed!Store!Holds(r)'
  <2>1. schedule[r.task].token # NoToken /\ r.task \in Tasks
    BY <1>7 DEF Timed!Store!Holds
  <2>2. schedule[r.task].until = r.until
    BY <1>7, <2>1 DEF Timed!Store!OneClaimant, Timed!Store!Holds
  <2>3. r.task # n
    BY <1>7, <2>1, <2>2 DEF Timed!Store!Reserve, Timed!Store!Due, Timed!Store!Leased
  <2>4. QED
    BY <1>4, <1>7, <2>1, <2>3 DEF Timed!Store!Holds
<1>8. Timed!Store!Holds(new)'
  BY <1>1, <1>4 DEF Timed!Store!Holds
<1>9. new \notin claims
  BY <1>1, <1>3
<1>10. QED
  BY <1>1, <1>2, <1>4, <1>5, <1>6, <1>7, <1>8, <1>9

\* A completion ends the claim that the store has, and no other one.
LEMMA CompleteKeeps ==
  ASSUME Timed!PersistentSchedulerAssumption, Timed!Store!TypeOK, Timed!Store!OneClaimant,
         NEW c \in claims, NEW next \in Nat, NEW completedAt,
         Timed!Store!Complete(c, next, completedAt)
  PROVE  /\ Timed!Store!TypeOK' /\ Timed!Store!OneClaimant' /\ claims' = claims
         /\ schedule'[c.task].next = next /\ round'[c.task] = round[c.task] + 1
         /\ \A n \in Tasks \ {c.task} : schedule'[n] = schedule[n] /\ round'[n] = round[n]
         /\ schedule[c.task].next = c.next
         /\ \A r \in claims : r # c /\ Timed!Store!Holds(r) => Timed!Store!Holds(r)'
<1> USE DEF Timed!PersistentSchedulerAssumption, Timed!Store!SchedulerStoreAssumption,
            Timed!Store!TypeOK, Timed!Store!Record, Timed!Store!Reservation
<1>1. /\ c.task \in Tasks /\ c.token \in Tokens
      /\ schedule[c.task].token = c.token /\ schedule[c.task].next = c.next
  BY DEF Timed!Store!Complete, Timed!Store!Holds
<1>2. /\ claims' = claims /\ finished' = finished \cup {c}
      /\ \A m \in Tasks \ {c.task} : schedule'[m] = schedule[m] /\ round'[m] = round[m]
      /\ schedule'[c.task].token = NoToken /\ schedule'[c.task].next = next
      /\ round'[c.task] = round[c.task] + 1
  BY <1>1 DEF Timed!Store!Complete, Timed!Store!Completed
<1>3. Timed!Store!TypeOK'
  <2>1. schedule' \in [Tasks -> Timed!Store!Record] /\ round' \in [Tasks -> Nat]
    BY <1>1 DEF Timed!Store!Complete, Timed!Store!Completed
  <2>2. QED
    BY <1>2, <2>1
<1>4. Timed!Store!OneClaimant'
  BY <1>2 DEF Timed!Store!OneClaimant
<1>5. ASSUME NEW r \in claims, r # c, Timed!Store!Holds(r)  PROVE Timed!Store!Holds(r)'
  <2>1. r.task # c.task
    BY <1>1, <1>5 DEF Timed!Store!Holds, Timed!Store!OneClaimant
  <2>2. QED
    BY <1>2, <1>5, <2>1 DEF Timed!Store!Holds
<1>6. QED
  BY <1>1, <1>2, <1>3, <1>4, <1>5
-----------------------------------------------------------------------------
(***************************************************************************)
(* Loops and processes                                                     *)
(***************************************************************************)

\* Loops go on without a new claim, are stopped or start, time passes, and tasks are
\* initialized.
LEMMA Undisturbed ==
  ASSUME FencedInv, UNCHANGED <<claims, finished, round, returned>>,
         schedule' \in [Tasks -> Timed!Store!Record],
         \A n \in Tasks :
           \/ schedule'[n] = schedule[n]
           \/ schedule[n].next = 0 /\ schedule'[n].token = NoToken /\ schedule'[n].next > 0,
         clock' \in Nat, clock <= clock', LoopTypeOK', begun' \in [Processes -> Nat],
         \A l \in Loops : /\ reading'[l] <= clock'
                          /\ Timed!Working(l)' => Timed!Working(l) /\ claim'[l] = claim[l]
                          /\ PlanInv(l)'
  PROVE  FencedInv' /\ SkipStep
<1>1. /\ Timed!Store!TypeOK' /\ Timed!Store!OneClaimant'
      /\ \A r \in claims : Timed!Store!Holds(r) => Timed!Store!Holds(r)'
  BY InitializeKeeps DEF FencedInv
<1>2. \A r \in claims : r.at \in Nat /\ r.until \in Nat
  BY DEF FencedInv, Timed!Store!TypeOK, Timed!Store!Reservation
<1>3. clock \in Nat /\ ClaimsPast /\ HeldApart /\ ReturnInv /\ ProcessTypeOK
  BY DEF FencedInv
<1>4. ClaimsPast'
  <2>1. \A r \in claims : r.at <= clock'
    BY <1>2, <1>3 DEF ClaimsPast
  <2>2. QED
    BY <1>3, <2>1 DEF ClaimsPast
<1>5. ASSUME NEW l \in Loops  PROVE RunInv(l)'
  <2>1. SUFFICES ASSUME Timed!Working(l)'
                 PROVE  /\ claim'[l] \in claims' /\ claim'[l].task = TaskOf[l]
                        /\ claim'[l].until <= clock' \/ Timed!Store!Holds(claim[l])'
                        /\ claim'[l].next > returned'[TaskOf[l]] \/ claim'[l].round < round'[TaskOf[l]]
    BY DEF RunInv
  <2>2. PICK h : h = claim[l]
    OBVIOUS
  <2>3. /\ claim'[l] = h /\ h \in claims /\ h.task = TaskOf[l] /\ (h.until <= clock \/ Timed!Store!Holds(h))
        /\ h.next > returned[TaskOf[l]] \/ h.round < round[TaskOf[l]]
    BY <2>1, <2>2 DEF FencedInv, RunInv
  <2>4. h.until <= clock' \/ Timed!Store!Holds(h)'
    BY <1>1, <1>2, <1>3, <2>3
  <2>5. QED
    BY <2>3, <2>4 DEF Timed!Store!Holds
<1>6. HeldApart'
  BY <1>3 DEF HeldApart
<1>7. SeenBehind' /\ ProcessTypeOK'
  BY <1>3 DEF SeenBehind, ProcessTypeOK
<1>8. ReturnInv'
  <2>1. ASSUME NEW n \in Tasks
        PROVE  \/ schedule'[n].next > returned'[n]
               \/ schedule'[n].next = 0 /\ returned'[n] = 0 /\ round'[n] = 0
    <3>1. CASE schedule'[n] = schedule[n]
      BY <1>3, <3>1 DEF ReturnInv
    <3>2. CASE schedule[n].next = 0 /\ schedule'[n].next > 0
      <4>1. returned[n] \in Nat /\ (0 > returned[n] \/ returned[n] = 0)
        BY <1>3, <3>2 DEF ReturnInv, ProcessTypeOK
      <4>2. QED
        BY <3>2, <4>1
    <3>3. QED
      BY <3>1, <3>2
  <2>2. QED
    BY <2>1 DEF ReturnInv
<1>9. SkipStep
  <2>1. \A n \in Tasks : schedule[n].next \in Nat /\ schedule'[n].next \in Nat
    BY DEF FencedInv, Timed!Store!TypeOK, Timed!Store!Record
  <2>2. QED
    BY <2>1 DEF SkipStep
<1>10. QED
  BY <1>1, <1>4, <1>5, <1>6, <1>7, <1>8, <1>9 DEF FencedInv

\* The loop l has reserved its task, whether it learns of it or not.
LEMMA Claimed ==
  ASSUME Timed!PersistentSchedulerAssumption, FencedInv, NEW l \in Loops, NEW token \in Tokens,
         Timed!Store!Reserve(TaskOf[l], reading[l], token),
         NEW new, new = Timed!Store!Granted(TaskOf[l], reading[l], token),
         clock' = clock, UNCHANGED <<begun, returned, planned, ended>>, LoopTypeOK',
         \A m \in Loops : reading'[m] <= clock,
         place'[l] # "completing",
         \A m \in Loops \ {l} : place'[m] = place[m] /\ claim'[m] = claim[m],
         place'[l] = "running" => claim'[l] = new
  PROVE  FencedInv' /\ SkipStep
<1>1. PICK n \in Tasks : n = TaskOf[l]
  BY DEF Timed!PersistentSchedulerAssumption
<1>2. PICK s \in Nat : s = reading[l] /\ s <= clock
  BY DEF FencedInv, LoopTypeOK, SeenBehind
<1>3. /\ Timed!Store!TypeOK' /\ Timed!Store!OneClaimant'
      /\ new \in Timed!Store!Reservation /\ new \notin claims /\ claims' = claims \cup {new}
      /\ new.task = n /\ new.next <= s /\ new.at = s /\ Timed!Store!Holds(new)'
      /\ new.next = schedule[n].next /\ new.round = round[n] /\ round' = round
      /\ \A m \in Tasks : schedule'[m].next = schedule[m].next
      /\ \A r \in claims : Timed!Store!Holds(r) => r.until <= s \/ Timed!Store!Holds(r)'
  BY <1>1, <1>2, ReserveKeeps DEF FencedInv
<1>4. clock \in Nat /\ \A r \in claims' : r.until \in Nat /\ r.next \in Nat \ {0} /\ r.at \in Nat /\ r.task \in Tasks
  BY <1>3 DEF FencedInv, Timed!Store!TypeOK, Timed!Store!Reservation
<1>5. ClaimsPast'
  <2>1. round[n] \in Nat /\ ClaimsPast
    BY DEF FencedInv, Timed!Store!TypeOK
  <2>2. QED
    BY <1>2, <1>3, <1>4, <2>1 DEF ClaimsPast
<1>6. ASSUME NEW m \in Loops  PROVE RunInv(m)' /\ PlanInv(m)'
  <2>1. PlanInv(m)'
    BY DEF FencedInv, PlanInv
  <2>2. SUFFICES ASSUME Timed!Working(m)'
                 PROVE  /\ claim'[m] \in claims' /\ claim'[m].task = TaskOf[m]
                        /\ claim'[m].until <= clock' \/ Timed!Store!Holds(claim[m])'
                        /\ claim'[m].next > returned'[TaskOf[m]] \/ claim'[m].round < round'[TaskOf[m]]
    BY <2>1 DEF RunInv
  <2>3. PICK h : h = claim'[m]
    OBVIOUS
  <2>4. CASE m = l
    <3>1. h = new
      BY <2>2, <2>3, <2>4 DEF Timed!Working
    <3>2. new.next > returned[n]
      BY <1>3, <1>4 DEF FencedInv, ReturnInv
    <3>3. QED
      BY <1>1, <1>3, <2>3, <2>4, <3>1, <3>2 DEF Timed!Store!Holds
  <2>5. CASE m # l
    <3>1. /\ h \in claims /\ h.task = TaskOf[m] /\ (h.until <= clock \/ Timed!Store!Holds(h))
          /\ h.next > returned[TaskOf[m]] \/ h.round < round[TaskOf[m]]
      BY <2>2, <2>3, <2>5 DEF FencedInv, RunInv, Timed!Working
    <3>2. h.until <= clock \/ Timed!Store!Holds(h)'
      BY <1>2, <1>3, <1>4, <3>1
    <3>3. QED
      BY <1>3, <2>3, <3>1, <3>2 DEF Timed!Store!Holds
  <2>6. QED
    BY <2>4, <2>5
<1>7. HeldApart'
  <2>1. \A m \in Loops \ {l} : Timed!Working(m)' => claim'[m] \in claims
    BY DEF FencedInv, RunInv, Timed!Working
  <2>2. \A m, k \in Loops \ {l} : m # k /\ Timed!Working(m)' /\ Timed!Working(k)' => claim'[m] # claim'[k]
    BY DEF FencedInv, HeldApart, Timed!Working
  <2>3. Timed!Working(l)' => claim'[l] = new
    BY DEF Timed!Working
  <2>4. QED
    BY <1>3, <2>1, <2>2, <2>3 DEF HeldApart
<1>8. SeenBehind' /\ ProcessTypeOK'
  BY DEF SeenBehind, FencedInv, ProcessTypeOK
<1>9. ReturnInv'
  BY <1>3 DEF FencedInv, ReturnInv
<1>10. SkipStep
  BY <1>3 DEF SkipStep, FencedInv, Timed!Store!TypeOK, Timed!Store!Record
<1>11. QED
  BY <1>3, <1>4, <1>5, <1>6, <1>7, <1>8, <1>9, <1>10 DEF FencedInv

\* The loop l has completed its claim, with a plan made when its task returned.
LEMMA Done ==
  ASSUME Timed!PersistentSchedulerAssumption, FencedInv, NEW l \in Loops, place[l] = "completing",
         NEW completedAt, Timed!Store!Complete(claim[l], planned[l], completedAt),
         clock' = clock, begun' = begun, returned' = [returned EXCEPT ![TaskOf[l]] = ended[l]],
         LoopTypeOK', \A m \in Loops : reading'[m] <= clock, ~Timed!Working(l)',
         \A m \in Loops \ {l} : /\ place'[m] = place[m] /\ claim'[m] = claim[m]
                                /\ planned'[m] = planned[m] /\ ended'[m] = ended[m]
  PROVE  FencedInv' /\ SkipStep
<1>1. PICK c \in claims : c = claim[l] /\ c.task = TaskOf[l]
  BY DEF FencedInv, RunInv, Timed!Working
<1>2. PICK next \in Nat, end \in Nat :
        next = planned[l] /\ end = ended[l] /\ c.at <= end /\ end < next /\ clock \in Nat
  BY <1>1 DEF FencedInv, LoopTypeOK, PlanInv
<1>3. /\ Timed!Store!TypeOK' /\ Timed!Store!OneClaimant' /\ claims' = claims
      /\ schedule'[c.task].next = next /\ round'[c.task] = round[c.task] + 1
      /\ \A n \in Tasks \ {c.task} : schedule'[n] = schedule[n] /\ round'[n] = round[n]
      /\ schedule[c.task].next = c.next
      /\ \A r \in claims : r # c /\ Timed!Store!Holds(r) => Timed!Store!Holds(r)'
  BY <1>1, <1>2, CompleteKeeps DEF FencedInv
<1>4. /\ c.next \in Nat /\ c.at \in Nat /\ c.next <= c.at /\ c.at <= clock /\ c.task \in Tasks
      /\ round \in [Tasks -> Nat] /\ returned \in [Tasks -> Nat] /\ schedule \in [Tasks -> Timed!Store!Record]
      /\ \A r \in claims : r.round \in Nat /\ r.task \in Tasks /\ r.round <= round[r.task]
  BY DEF FencedInv, ClaimsPast, Timed!Store!TypeOK, Timed!Store!Reservation, ProcessTypeOK
<1>5. next > c.next
  BY <1>2, <1>4
<1>6. returned'[c.task] = end /\ \A n \in Tasks \ {c.task} : returned'[n] = returned[n]
  BY <1>1, <1>2, <1>4
<1>7. ASSUME NEW m \in Loops  PROVE RunInv(m)' /\ PlanInv(m)'
  <2>1. PlanInv(m)'
    <3>1. CASE m = l
      BY <3>1 DEF PlanInv, Timed!Working
    <3>2. CASE m # l
      BY <3>2 DEF FencedInv, PlanInv
    <3>3. QED
      BY <3>1, <3>2
  <2>2. SUFFICES ASSUME Timed!Working(m)'
                 PROVE  /\ claim'[m] \in claims' /\ claim'[m].task = TaskOf[m]
                        /\ claim'[m].until <= clock' \/ Timed!Store!Holds(claim[m])'
                        /\ claim'[m].next > returned'[TaskOf[m]] \/ claim'[m].round < round'[TaskOf[m]]
    BY <2>1 DEF RunInv
  <2>3. PICK h : h = claim'[m]
    OBVIOUS
  <2>4. m # l /\ h = claim[m] /\ Timed!Working(m)
    BY <2>2, <2>3 DEF Timed!Working
  <2>5. /\ h \in claims /\ h.task = TaskOf[m] /\ (h.until <= clock \/ Timed!Store!Holds(h)) /\ h # c
        /\ h.next > returned[TaskOf[m]] \/ h.round < round[TaskOf[m]]
    BY <1>1, <2>4 DEF FencedInv, RunInv, HeldApart, Timed!Working
  <2>6. h.until <= clock \/ Timed!Store!Holds(h)'
    BY <1>3, <2>5
  <2>7. h.next > returned'[h.task] \/ h.round < round'[h.task]
    BY <1>3, <1>4, <1>6, <2>5
  <2>8. QED
    BY <1>3, <2>3, <2>5, <2>6, <2>7 DEF Timed!Store!Holds
<1>8. HeldApart'
  BY <1>3 DEF FencedInv, HeldApart, Timed!Working
<1>9. SeenBehind' /\ ProcessTypeOK'
  BY <1>1, <1>2, <1>4 DEF FencedInv, SeenBehind, ProcessTypeOK
<1>10. ClaimsPast'
  <2>1. ASSUME NEW r \in claims  PROVE r.round <= round'[r.task]
    BY <1>3, <1>4
  <2>2. QED
    BY <1>3, <2>1 DEF FencedInv, ClaimsPast
<1>11. ReturnInv'
  <2>1. ASSUME NEW n \in Tasks
        PROVE  \/ schedule'[n].next > returned'[n]
               \/ schedule'[n].next = 0 /\ returned'[n] = 0 /\ round'[n] = 0
    <3>1. CASE n = c.task
      BY <1>2, <1>3, <1>6, <3>1
    <3>2. CASE n # c.task
      BY <1>3, <1>6, <3>2 DEF FencedInv, ReturnInv
    <3>3. QED
      BY <3>1, <3>2
  <2>2. QED
    BY <2>1 DEF ReturnInv
<1>12. SkipStep
  <2>1. \A n \in Tasks : schedule[n].next \in Nat
    BY <1>4 DEF Timed!Store!Record
  <2>2. QED
    BY <1>3, <1>4, <1>5, <2>1 DEF SkipStep
<1>13. QED
  BY <1>2, <1>3, <1>7, <1>8, <1>9, <1>10, <1>11, <1>12 DEF FencedInv

\* A loop goes from one place to another and takes no new claim; its task may be
\* initialized.
LEMMA Moves ==
  ASSUME FencedInv, NEW l \in Loops, NEW there \in Places \ {"running", "completing"},
         Timed!LoopGoto(l, there), UNCHANGED <<clock, begun, returned>>,
         UNCHANGED <<claims, finished, round>>, schedule' \in [Tasks -> Timed!Store!Record],
         \A n \in Tasks :
           \/ schedule'[n] = schedule[n]
           \/ schedule[n].next = 0 /\ schedule'[n].token = NoToken /\ schedule'[n].next > 0,
         reading' = reading \/ (\E t \in {0, clock} : reading' = [reading EXCEPT ![l] = t]),
         planned' = planned \/ planned' = [planned EXCEPT ![l] = 0],
         ended' = ended \/ ended' = [ended EXCEPT ![l] = 0],
         claim' = claim \/ claim' = [claim EXCEPT ![l] = NoReservation]
  PROVE  FencedInv' /\ SkipStep
<1>1. /\ place \in [Loops -> Places] /\ reading \in [Loops -> Nat] /\ clock \in Nat
      /\ planned \in [Loops -> Nat] /\ ended \in [Loops -> Nat] /\ begun \in [Processes -> Nat]
      /\ claim \in [Loops -> Timed!Store!Reservation \cup {NoReservation}]
      /\ \A m \in Loops : reading[m] <= clock
  BY DEF FencedInv, LoopTypeOK, SeenBehind, ProcessTypeOK
<1>2. /\ place' \in [Loops -> Places] /\ place'[l] = there /\ ~Timed!Working(l)'
      /\ \A m \in Loops \ {l} : place'[m] = place[m]
  BY <1>1 DEF Timed!LoopGoto, Timed!Working
<1>3. claim' \in [Loops -> Timed!Store!Reservation \cup {NoReservation}] /\ \A m \in Loops \ {l} : claim'[m] = claim[m]
  BY <1>1
<1>4. reading' \in [Loops -> Nat] /\ \A m \in Loops : reading'[m] <= clock
  BY <1>1
<1>5. /\ planned' \in [Loops -> Nat] /\ \A m \in Loops \ {l} : planned'[m] = planned[m]
      /\ ended' \in [Loops -> Nat] /\ \A m \in Loops \ {l} : ended'[m] = ended[m]
  BY <1>1
<1>6. LoopTypeOK'
  BY <1>2, <1>3, <1>4, <1>5 DEF LoopTypeOK
<1>7. ASSUME NEW m \in Loops  PROVE (Timed!Working(m)' => Timed!Working(m) /\ claim'[m] = claim[m]) /\ PlanInv(m)'
  <2>1. CASE m = l
    BY <1>2, <2>1 DEF Timed!Working, PlanInv
  <2>2. CASE m # l
    BY <1>2, <1>3, <1>5, <2>2 DEF Timed!Working, PlanInv, FencedInv
  <2>3. QED
    BY <2>1, <2>2
<1>8. clock' \in Nat /\ clock <= clock' /\ \A m \in Loops : reading'[m] <= clock'
  BY <1>1, <1>4
<1>9. QED
  BY <1>1, <1>6, <1>7, <1>8, Undisturbed

\* The task of a loop returns and its next run is planned.
LEMMA Returns ==
  ASSUME Timed!PersistentSchedulerAssumption, FencedInv, NEW l \in Loops, Timed!TaskReturns(l)
  PROVE  FencedInv' /\ SkipStep
<1>1. /\ place \in [Loops -> Places] /\ reading \in [Loops -> Nat] /\ clock \in Nat
      /\ planned \in [Loops -> Nat] /\ ended \in [Loops -> Nat] /\ begun \in [Processes -> Nat]
      /\ claim \in [Loops -> Timed!Store!Reservation \cup {NoReservation}]
      /\ \A m \in Loops : reading[m] <= clock
  BY DEF FencedInv, LoopTypeOK, SeenBehind, ProcessTypeOK
<1>2. PICK delay \in Nat \ {0} : planned' = [planned EXCEPT ![l] = clock + delay]
  BY DEF Timed!TaskReturns, Timed!PlansNext, Timed!PersistentSchedulerAssumption
<1>3. /\ place[l] = "running" /\ Timed!LoopGoto(l, "completing")
      /\ UNCHANGED <<clock, begun, claim, returned>>
      /\ UNCHANGED Timed!store /\ reading' = [reading EXCEPT ![l] = clock] /\ ended' = [ended EXCEPT ![l] = clock]
  BY DEF Timed!TaskReturns, Timed!PlansNext
<1>4. /\ place' \in [Loops -> Places] /\ \A m \in Loops \ {l} : place'[m] = place[m]
      /\ planned' \in [Loops -> Nat] /\ \A m \in Loops \ {l} : planned'[m] = planned[m]
      /\ ended' \in [Loops -> Nat] /\ \A m \in Loops \ {l} : ended'[m] = ended[m]
      /\ reading' \in [Loops -> Nat] /\ \A m \in Loops : reading'[m] <= clock
  BY <1>1, <1>2, <1>3 DEF Timed!LoopGoto, Places
<1>5. LoopTypeOK'
  BY <1>1, <1>3, <1>4 DEF LoopTypeOK
<1>6. ended'[l] = clock /\ planned'[l] = clock + delay /\ clock < clock + delay
  BY <1>1, <1>2, <1>3
<1>7. claim[l].at <= clock /\ claim'[l] = claim[l]
  BY <1>3 DEF FencedInv, RunInv, Timed!Working, ClaimsPast
<1>8. ASSUME NEW m \in Loops  PROVE (Timed!Working(m)' => Timed!Working(m) /\ claim'[m] = claim[m]) /\ PlanInv(m)'
  <2>1. CASE m = l
    BY <1>3, <1>6, <1>7, <2>1 DEF Timed!Working, PlanInv
  <2>2. CASE m # l
    BY <1>3, <1>4, <2>2 DEF Timed!Working, PlanInv, FencedInv
  <2>3. QED
    BY <2>1, <2>2
<1>9. /\ schedule' = schedule /\ UNCHANGED <<claims, finished, round>>
      /\ schedule \in [Tasks -> Timed!Store!Record]
  BY <1>3 DEF Timed!store, FencedInv, Timed!Store!TypeOK
<1>10. clock' \in Nat /\ clock <= clock' /\ \A m \in Loops : reading'[m] <= clock'
  BY <1>1, <1>3, <1>4
<1>11. QED
  BY <1>1, <1>3, <1>5, <1>8, <1>9, <1>10, Undisturbed

\* There is a token nobody has had.
LEMMA Fresh ==
  ASSUME FencedInv, Tokens # Timed!Store!UsedTokens
  PROVE  Timed!FreshToken \in Tokens
<1>1. Timed!Store!UsedTokens \subseteq Tokens
  BY DEF FencedInv, Timed!Store!TypeOK, Timed!Store!Reservation, Timed!Store!UsedTokens
<1>2. \E token \in Tokens : token \notin Timed!Store!UsedTokens
  BY <1>1
<1>3. QED
  BY <1>2 DEF Timed!FreshToken

\* The steps of a loop.
LEMMA LoopStep ==
  ASSUME Timed!PersistentSchedulerAssumption, FencedInv, NEW l \in Loops,
         Timed!Loop(l) \/ Timed!ReserveLost(l) \/ Timed!NoNextRun(l) \/ Timed!SkipTask(l)
  PROVE  FencedInv' /\ SkipStep
<1> USE DEF Places
<1>1. ASSUME UNCHANGED Timed!store
      PROVE  UNCHANGED <<claims, finished,
      round>> /\ schedule' = schedule /\ schedule' \in [Tasks -> Timed!Store!Record]
  BY <1>1 DEF Timed!store, FencedInv, Timed!Store!TypeOK
<1>2. CASE Timed!CheckStopping(l) \/ Timed!State(l) \/ Timed!Poll(l) \/ Timed!NoNextRun(l) \/ Timed!SkipTask(l)
  BY <1>1, <1>2, Moves DEF Timed!CheckStopping, Timed!State, Timed!Poll, Timed!NoNextRun, Timed!SkipTask
<1>3. CASE Timed!Wake(l) \/ Timed!ReserveRefused(l)
  BY <1>1, <1>3, Moves DEF Timed!Wake, Timed!ReserveRefused
<1>4. CASE Timed!Reserve(l) \/ Timed!ReserveLost(l)
  <2>1. PICK token \in Tokens : token = Timed!FreshToken
    BY <1>4, Fresh DEF Timed!Reserve, Timed!ReserveLost
  <2>2. PICK new : new = Timed!Store!Granted(TaskOf[l], reading[l], token)
    OBVIOUS
  <2>3. /\ Timed!Store!Reserve(TaskOf[l], reading[l], token) /\ clock' = clock
        /\ UNCHANGED <<begun, returned, planned, ended>>
        /\ reading' = [reading EXCEPT ![l] = 0]
        /\ \/ claim' = [claim EXCEPT ![l] = new] /\ Timed!LoopGoto(l, "running")
           \/ claim' = claim /\ \E there \in {"exited", "polling"} : Timed!LoopGoto(l, there)
    BY <1>4, <2>1, <2>2 DEF Timed!Reserve, Timed!ReserveLost
  <2>4. /\ place \in [Loops -> Places] /\ reading \in [Loops -> Nat] /\ clock \in Nat
        /\ planned \in [Loops -> Nat] /\ ended \in [Loops -> Nat]
        /\ claim \in [Loops -> Timed!Store!Reservation \cup {NoReservation}]
        /\ \A m \in Loops : reading[m] <= clock
    BY DEF FencedInv, LoopTypeOK, SeenBehind
  <2>5. new \in Timed!Store!Reservation
    <3>1. TaskOf[l] \in Tasks /\ reading[l] \in Nat /\ Timed!Store!TypeOK /\ Timed!Store!OneClaimant
      BY <2>4 DEF FencedInv, Timed!PersistentSchedulerAssumption
    <3>2. QED
      BY <2>2, <2>3, <3>1, ReserveKeeps
  <2>6. place' \in [Loops -> Places] /\ place'[l] # "completing" /\ \A m \in Loops \ {l} : place'[m] = place[m]
    BY <2>3, <2>4 DEF Timed!LoopGoto
  <2>7. /\ claim' \in [Loops -> Timed!Store!Reservation \cup {NoReservation}]
        /\ \A m \in Loops \ {l} : claim'[m] = claim[m]
        /\ place'[l] = "running" => claim'[l] = new
    BY <2>3, <2>4, <2>5 DEF Timed!LoopGoto
  <2>8. reading' \in [Loops -> Nat] /\ \A m \in Loops : reading'[m] <= clock
    BY <2>3, <2>4
  <2>9. LoopTypeOK'
    BY <2>3, <2>4, <2>6, <2>7, <2>8 DEF LoopTypeOK
  <2>10. QED
    BY <2>2, <2>3, <2>6, <2>7, <2>8, <2>9, Claimed
<1>5. CASE Timed!Complete(l)
  <2>1. /\ place[l] = "completing" /\ Timed!LoopGoto(l, "loop") /\ UNCHANGED <<clock, begun>>
        /\ claim' = [claim EXCEPT ![l] = NoReservation]
        /\ reading' = [reading EXCEPT ![l] = 0]
        /\ planned' = [planned EXCEPT ![l] = 0] /\ ended' = [ended EXCEPT ![l] = 0]
    BY <1>5 DEF Timed!Complete
  <2>2. CASE UNCHANGED Timed!store /\ returned' = returned
    BY <1>1, <2>1, <2>2, Moves
  <2>3. CASE /\ Timed!Store!Complete(claim[l], planned[l], reading[l])
             /\ returned' = [returned EXCEPT ![TaskOf[l]] = ended[l]]
    <3>1. /\ place \in [Loops -> Places] /\ reading \in [Loops -> Nat] /\ clock \in Nat
          /\ planned \in [Loops -> Nat] /\ ended \in [Loops -> Nat]
          /\ claim \in [Loops -> Timed!Store!Reservation \cup {NoReservation}]
          /\ \A m \in Loops : reading[m] <= clock
      BY DEF FencedInv, LoopTypeOK, SeenBehind
    <3>2. place' \in [Loops -> Places] /\ ~Timed!Working(l)' /\ \A m \in Loops \ {l} : place'[m] = place[m]
      BY <2>1, <3>1 DEF Timed!LoopGoto, Timed!Working
    <3>3. /\ claim' \in [Loops -> Timed!Store!Reservation \cup {NoReservation}]
          /\ \A m \in Loops \ {l} : claim'[m] = claim[m]
      BY <2>1, <3>1
    <3>4. /\ planned' \in [Loops -> Nat] /\ \A m \in Loops \ {l} : planned'[m] = planned[m]
          /\ ended' \in [Loops -> Nat] /\ \A m \in Loops \ {l} : ended'[m] = ended[m]
          /\ reading' \in [Loops -> Nat] /\ \A m \in Loops : reading'[m] <= clock
      BY <2>1, <3>1
    <3>5. LoopTypeOK'
      BY <3>2, <3>3, <3>4 DEF LoopTypeOK
    <3>6. QED
      BY <2>1, <2>3, <3>2, <3>3, <3>4, <3>5, Done
  <2>4. QED
    BY <1>5, <2>2, <2>3 DEF Timed!Complete
<1>6. QED
  BY <1>2, <1>3, <1>4, <1>5, Returns DEF Timed!Loop

\* What Initialize does to the store.
LEMMA TaskInitialized ==
  ASSUME Timed!PersistentSchedulerAssumption, FencedInv, NEW l \in Loops, Timed!InitializedFor(l)
  PROVE  /\ UNCHANGED <<claims, finished, round>> /\ schedule' \in [Tasks -> Timed!Store!Record]
         /\ \A n \in Tasks :
              \/ schedule'[n] = schedule[n]
              \/ schedule[n].next = 0 /\ schedule'[n].token = NoToken /\ schedule'[n].next > 0
<1>1. schedule \in [Tasks -> Timed!Store!Record] /\ TaskOf[l] \in Tasks /\ begun[LoopHome[l]] \in Nat
  BY DEF FencedInv, Timed!Store!TypeOK, ProcessTypeOK, Timed!PersistentSchedulerAssumption
<1>2. CASE UNCHANGED Timed!store
  BY <1>1, <1>2 DEF Timed!store
<1>3. ASSUME NEW delay \in Delays, Timed!Store!Initialize(TaskOf[l], begun[LoopHome[l]] + delay)
      PROVE  /\ UNCHANGED <<claims, finished, round>> /\ schedule' \in [Tasks -> Timed!Store!Record]
             /\ \A n \in Tasks :
                  \/ schedule'[n] = schedule[n]
                  \/ schedule[n].next = 0 /\ schedule'[n].token = NoToken /\ schedule'[n].next > 0
  <2>1. PICK next \in Nat : next = begun[LoopHome[l]] + delay /\ next > 0
    BY <1>1 DEF Timed!PersistentSchedulerAssumption
  <2>2. [next |-> next, last |-> 0, token |-> NoToken, until |-> 0] \in Timed!Store!Record
    BY DEF Timed!Store!Record
  <2>3. QED
    BY <1>1, <1>3, <2>1, <2>2 DEF Timed!Store!Initialize
<1>4. QED
  BY <1>2, <1>3 DEF Timed!InitializedFor

\* The steps of a process.
LEMMA ProcessStep ==
  ASSUME Timed!PersistentSchedulerAssumption, FencedInv, NEW p \in Processes,
         Timed!Starting(p) \/ Timed!StartFails(p) \/ Timed!Shutdown(p) \/ Timed!finishShutdown(p) \/ Timed!Crash(p)
  PROVE  FencedInv' /\ SkipStep
<1>1. /\ place \in [Loops -> Places] /\ reading \in [Loops -> Nat] /\ clock \in Nat
      /\ planned \in [Loops -> Nat] /\ ended \in [Loops -> Nat] /\ begun \in [Processes -> Nat]
      /\ claim \in [Loops -> Timed!Store!Reservation \cup {NoReservation}]
      /\ schedule \in [Tasks -> Timed!Store!Record]
      /\ \A l \in Loops : reading[l] <= clock
  BY DEF FencedInv, LoopTypeOK, SeenBehind, ProcessTypeOK, Timed!Store!TypeOK
<1>2. /\ UNCHANGED <<claims, finished, round>> /\ schedule' \in [Tasks -> Timed!Store!Record]
      /\ \A n \in Tasks :
           \/ schedule'[n] = schedule[n]
           \/ schedule[n].next = 0 /\ schedule'[n].token = NoToken /\ schedule'[n].next > 0
  <2>1. CASE UNCHANGED Timed!store
    BY <1>1, <2>1 DEF Timed!store
  <2>2. CASE Timed!StartFails(p)
    BY <2>1, <2>2, TaskInitialized DEF Timed!StartFails, Timed!LoopsOf
  <2>3. QED
    BY <2>1, <2>2 DEF Timed!Starting, Timed!Start, Timed!StartRunners, Timed!Shutdown,
                      Timed!finishShutdown, Timed!Crash
<1>3. clock' = clock /\ returned' = returned
  BY DEF Timed!Starting, Timed!Start, Timed!StartRunners, Timed!StartFails, Timed!Shutdown,
         Timed!finishShutdown, Timed!Crash
<1>4. begun' \in [Processes -> Nat]
  BY <1>1 DEF Timed!Starting, Timed!Start, Timed!StartRunners, Timed!StartFails, Timed!Shutdown,
              Timed!finishShutdown, Timed!Crash
<1>5. place' \in [Loops -> Places] /\ \A l \in Loops : Timed!Working(l)' => place'[l] = place[l] /\ Timed!Working(l)
  BY <1>1 DEF Timed!Starting, Timed!Start, Timed!StartRunners, Timed!StartFails, Timed!Shutdown,
              Timed!finishShutdown, Timed!Crash, Timed!loop, Places, Timed!Working
<1>6. /\ reading' \in [Loops -> Nat] /\ planned' \in [Loops -> Nat] /\ ended' \in [Loops -> Nat]
      /\ claim' \in [Loops -> Timed!Store!Reservation \cup {NoReservation}]
      /\ \A l \in Loops : reading'[l] <= clock
  BY <1>1 DEF Timed!Starting, Timed!Start, Timed!StartRunners, Timed!StartFails, Timed!Shutdown,
              Timed!finishShutdown, Timed!Crash, Timed!loop
<1>7. \A l \in Loops : Timed!Working(l)' => claim'[l] = claim[l] /\ planned'[l] = planned[l] /\ ended'[l] = ended[l]
  <2>1. CASE Timed!Crash(p)
    BY <1>1, <2>1 DEF Timed!Crash, Timed!Working
  <2>2. QED
    BY <2>1 DEF Timed!Starting, Timed!Start, Timed!StartRunners, Timed!StartFails, Timed!Shutdown,
                Timed!finishShutdown, Timed!loop
<1>8. LoopTypeOK'
  BY <1>5, <1>6 DEF LoopTypeOK
<1>9. ASSUME NEW l \in Loops  PROVE (Timed!Working(l)' => Timed!Working(l) /\ claim'[l] = claim[l]) /\ PlanInv(l)'
  BY <1>5, <1>7 DEF FencedInv, PlanInv, Timed!Working
<1>10. clock' \in Nat /\ clock <= clock' /\ \A l \in Loops : reading'[l] <= clock'
  BY <1>1, <1>3, <1>6
<1>11. QED
  BY <1>2, <1>3, <1>4, <1>8, <1>9, <1>10, Undisturbed

-----------------------------------------------------------------------------
\* What every step keeps.
LEMMA StepKeepsFenced ==
  ASSUME Timed!PersistentSchedulerAssumption, FencedInv, [Timed!Next]_(Timed!vars)
  PROVE  FencedInv' /\ (SkipStep \/ UNCHANGED Timed!vars)
<1>1. CASE Timed!Tick
  <2>1. /\ clock \in Nat /\ clock' = clock + 1 /\ UNCHANGED Timed!store /\ UNCHANGED Timed!loop
        /\ UNCHANGED <<begun, ended, returned>>
    BY <1>1 DEF Timed!Tick, FencedInv
  <2>2. clock' \in Nat /\ clock <= clock' /\ \A l \in Loops : reading[l] <= clock'
    BY <2>1 DEF FencedInv, LoopTypeOK, SeenBehind
  <2>3. schedule \in [Tasks -> Timed!Store!Record] /\ LoopTypeOK' /\ begun' \in [Processes -> Nat]
    BY <2>1 DEF FencedInv, LoopTypeOK, ProcessTypeOK, Timed!Store!TypeOK, Timed!loop
  <2>4. \A l \in Loops : (Timed!Working(l)' => Timed!Working(l) /\ claim'[l] = claim[l]) /\ PlanInv(l)'
    BY <2>1 DEF FencedInv, Timed!loop, Timed!Working, PlanInv
  <2>5. QED
    BY <2>1, <2>2, <2>3, <2>4, Undisturbed DEF Timed!store, Timed!loop
<1>2. CASE UNCHANGED Timed!vars
  BY <1>2 DEF Timed!vars, FencedInv, Timed!Store!TypeOK, Timed!Store!OneClaimant, LoopTypeOK,
              ProcessTypeOK, SeenBehind,
              ClaimsPast, ReturnInv, RunInv, PlanInv, HeldApart, Timed!Working, Timed!Store!Holds
<1>3. ASSUME NEW l \in Loops, Timed!InitializeTask(l)  PROVE FencedInv' /\ SkipStep
  <2>1. /\ Timed!LoopGoto(l, "runnable") /\ UNCHANGED <<clock, begun, returned>>
        /\ UNCHANGED <<reading, planned, ended, claim>> /\ Timed!InitializedFor(l)
    BY <1>3 DEF Timed!InitializeTask
  <2>2. QED
    BY <2>1, TaskInitialized, Moves DEF Places
<1>4. QED
  BY <1>1, <1>2, <1>3, LoopStep, ProcessStep DEF Timed!Next

\* The inductive invariant: until its lease runs out, a loop that works on its task has
\* the claim that the store has, no claim is early, and every plan, like the stored
\* occurrence, is later than the end of the run it follows.
THEOREM FencedInvariant ==
  ASSUME Timed!PersistentSchedulerAssumption
  PROVE  Timed!Spec => []FencedInv
<1>1. Timed!Init => FencedInv
  <2>1. SUFFICES ASSUME Timed!Init  PROVE FencedInv
    OBVIOUS
  <2>2. Timed!Store!TypeOK /\ Timed!Store!OneClaimant
    BY <2>1 DEF Timed!Init, Timed!Store!Init, Timed!Store!Unknown, Timed!Store!TypeOK,
                Timed!Store!Record, Timed!Store!OneClaimant
  <2>3. QED
    BY <2>1, <2>2 DEF Timed!Init, Timed!Store!Init, Timed!Store!Unknown, FencedInv, LoopTypeOK,
                      ProcessTypeOK, Places, SeenBehind,
                      ClaimsPast, ReturnInv, RunInv, PlanInv, HeldApart, Timed!Working
<1>2. FencedInv /\ [Timed!Next]_(Timed!vars) => FencedInv'
  BY StepKeepsFenced
<1>3. QED
  BY <1>1, <1>2, PTL DEF Timed!Spec

\* Two loops of any processes work on one occurrence only after a lease ran out, it is
\* never run early, and what was missed is skipped: the stored occurrence moves forward
\* only, past the end of the run it follows, however late the plan reaches the store.
THEOREM OccurrencesCorrect ==
  ASSUME Timed!PersistentSchedulerAssumption
  PROVE  Timed!Spec => OccurrencesFenced
<1>1. FencedInv => Timed!LeaseProtects
  <2>1. SUFFICES ASSUME FencedInv, NEW l \in Loops, Timed!Working(l), claim[l].until > clock
                 PROVE  /\ schedule[claim[l].task].token = claim[l].token
                        /\ schedule[claim[l].task].next = claim[l].next
                        /\ \A m \in Loops \ {l} :
                             Timed!Working(m) /\ TaskOf[m] = TaskOf[l] => claim[m].until <= clock
    BY DEF Timed!LeaseProtects
  <2>2. claim[l] \in claims /\ claim[l].task = TaskOf[l] /\ claim[l].until \in Nat /\ clock \in Nat
    BY <2>1 DEF FencedInv, RunInv, Timed!Store!TypeOK, Timed!Store!Reservation
  <2>3. Timed!Store!Holds(claim[l])
    BY <2>1, <2>2 DEF FencedInv, RunInv
  <2>4. ASSUME NEW m \in Loops \ {l}, Timed!Working(m), TaskOf[m] = TaskOf[l]  PROVE claim[m].until <= clock
    <3>1. claim[m] \in claims /\ claim[m].task = TaskOf[l] /\ claim[m] # claim[l]
      BY <2>1, <2>4 DEF FencedInv, RunInv, HeldApart
    <3>2. PICK n \in Tasks : n = TaskOf[l]
      BY DEF Timed!PersistentSchedulerAssumption
    <3>3. claim[l].token \in Tokens /\ claim[l].token = schedule[n].token /\ NoToken \notin Tokens
      BY <2>1, <2>2, <2>3, <3>2
      DEF Timed!PersistentSchedulerAssumption, Timed!Store!SchedulerStoreAssumption, Timed!Store!Holds,
          FencedInv, Timed!Store!TypeOK,
          Timed!Store!Reservation
    <3>4. PICK r \in claims : r.token = schedule[n].token /\ \A q \in claims : q.token = r.token => q = r
      BY <2>1, <3>3 DEF FencedInv, Timed!Store!OneClaimant
    <3>5. ~Timed!Store!Holds(claim[m])
      BY <2>2, <3>1, <3>2, <3>3, <3>4 DEF Timed!Store!Holds
    <3>6. QED
      BY <2>1, <2>4, <3>5 DEF FencedInv, RunInv
  <2>5. QED
    BY <2>3, <2>4 DEF Timed!Store!Holds
<1>2. FencedInv => Timed!RunsOnTime /\ Timed!MissedSkipped
  <2>1. SUFFICES ASSUME FencedInv  PROVE Timed!RunsOnTime /\ Timed!MissedSkipped
    OBVIOUS
  <2>2. Timed!RunsOnTime
    <3>1. \A r \in claims : r.next \in Nat /\ r.at \in Nat /\ clock \in Nat
      BY <2>1 DEF FencedInv, Timed!Store!TypeOK, Timed!Store!Reservation
    <3>2. QED
      BY <2>1, <3>1 DEF FencedInv, RunInv, ClaimsPast, Timed!Working, Timed!RunsOnTime
  <2>3. Timed!MissedSkipped
    BY <2>1 DEF FencedInv, ReturnInv, RunInv, Timed!MissedSkipped
  <2>4. QED
    BY <2>2, <2>3
<1>3. FencedInv /\ [Timed!Next]_(Timed!vars) => [\A n \in Tasks : schedule'[n].next >= schedule[n].next]_(Timed!vars)
  BY StepKeepsFenced DEF SkipStep
<1>4. QED
  BY <1>1, <1>2, <1>3, FencedInvariant, PTL
  DEF Timed!Spec, OccurrencesFenced, Timed!OccurrencesFenced, Timed!SkipsMissedRuns
=============================================================================
