--------------------------- MODULE JobStoreProofs ---------------------------
(***************************************************************************)
(* The job store contract holds for every set of jobs and tokens, every    *)
(* horizon and every lease, and the file, SQL and Redis stores implement   *)
(* it.                                                                     *)
(***************************************************************************)
EXTENDS MCJobStores, Sequences, FiniteSetTheorems, TLAPS

\* Every operation of the contract keeps the types.
LEMMA TypeStep ==
  ASSUME TypeOK, [Next]_vars
  PROVE  TypeOK'
<1> USE StoreAssumption DEF TypeOK, Record, Reservation, Phases, Clock
<1>1. ASSUME NEW j \in Jobs, NEW at \in Clock, Enqueue(j, at)
      PROVE  TypeOK'
  BY <1>1 DEF Enqueue, Fresh
<1>2. ASSUME NEW j \in Jobs, NEW at \in Clock, NEW token \in Tokens,
             NEW recovered \in SUBSET Expired(j, at),
             Reserve(j, at, token, recovered)
      PROVE  TypeOK'
  BY <1>2 DEF Reserve, Reserved, Recovered
<1>3. ASSUME NEW r \in issued, NEW at \in Clock, Release(r, at)
      PROVE  TypeOK'
  BY <1>3 DEF Release, Released
<1>4. ASSUME NEW r \in issued, Complete(r)
      PROVE  TypeOK'
  BY <1>4 DEF Complete, Absent
<1>5. ASSUME NEW r \in issued, Fail(r)
      PROVE  TypeOK'
  BY <1>5 DEF Fail, Failed
<1>6. ASSUME NEW j \in Jobs, NEW at \in Clock, RetryFailed(j, at)
      PROVE  TypeOK'
  BY <1>6 DEF RetryFailed, Fresh
<1>7. ASSUME NEW j \in Jobs, ForgetFailed(j)
      PROVE  TypeOK'
  BY <1>7 DEF ForgetFailed, Absent
<1>8. CASE UNCHANGED vars
  BY <1>8 DEF vars
<1>9. QED
  BY <1>1, <1>2, <1>3, <1>4, <1>5, <1>6, <1>7, <1>8 DEF Next

\* Every step of the specification keeps the types, so the variables hold
\* values of their types in every reachable state.
THEOREM StoreTypeCorrect == Spec => []TypeOK
<1>1. Init => TypeOK
  BY StoreAssumption DEF Init, TypeOK, Record, Absent, Phases
<1>2. TypeOK /\ [Next]_vars => TypeOK'
  BY TypeStep
<1>3. QED
  BY <1>1, <1>2, PTL DEF Spec

(***************************************************************************)
(* OneHolder and AttemptOnce need each other and NumbersBehind: a fresh    *)
(* token is new among all granted reservations, and a fresh attempt number *)
(* is above all the numbers of its generation.                             *)
(***************************************************************************)

\* A step that grants a reservation keeps the invariant.
LEMMA ReserveKeepsIInv ==
  ASSUME IInv, NEW j \in Jobs, NEW at \in Clock, NEW token \in Tokens,
         NEW recovered \in SUBSET Expired(j, at),
         Reserve(j, at, token, recovered), TypeOK'
  PROVE  OneHolder' /\ AttemptOnce' /\ NumbersBehind'
<1> USE StoreAssumption DEF IInv, TypeOK, Record, Reservation, Phases, Clock
<1> DEFINE new == [job |-> j, token |-> token,
                   attempt |-> record[j].attempts + 1,
                   generation |-> generation[j], until |-> at + Lease]
<1>1. /\ issued' = issued \cup {new}
      /\ generation' = generation
      /\ record' = [k \in Jobs |->
                      IF k = j THEN Reserved(record[k], token, at + Lease)
                      ELSE IF k \in recovered THEN Recovered(record[k]) ELSE record[k]]
      /\ record[j].phase = "pending"
  BY DEF Reserve, Eligible
<1>2. \A r \in issued : r.token # token
  BY DEF Reserve, UsedTokens
<1>3. OneHolder'
  <2>1. SUFFICES ASSUME NEW k \in Jobs, record'[k].token # NoToken
                 PROVE  /\ record'[k].phase = "pending"
                        /\ \E r \in issued' :
                             /\ r.job = k
                             /\ r.token = record'[k].token
                             /\ r.attempt = record'[k].attempts
                             /\ r.generation = generation'[k]
                             /\ r.until = record'[k].until
                        /\ \A r \in issued' : r.token = record'[k].token => r.job = k
    BY DEF OneHolder
  <2>2. CASE k = j
    <3>1. record'[k] = Reserved(record[j], token, at + Lease)
      BY <1>1, <2>2
    <3>2. new \in issued'
      BY <1>1
    <3>3. /\ record'[k].phase = "pending"
          /\ record'[k].token = token
          /\ record'[k].attempts = record[j].attempts + 1
          /\ record'[k].until = at + Lease
      BY <1>1, <3>1 DEF Reserved
    <3>4. /\ new.job = k
          /\ new.token = record'[k].token
          /\ new.attempt = record'[k].attempts
          /\ new.generation = generation'[k]
          /\ new.until = record'[k].until
      BY <1>1, <2>2, <3>3
    <3>5. \A r \in issued' : r.token = record'[k].token => r.job = k
      BY <1>1, <1>2, <3>3, <3>4
    <3> HIDE DEF new
    <3>6. QED
      BY <3>2, <3>3, <3>4, <3>5
  <2>3. CASE k # j
    <3>1. k \notin recovered
      BY <1>1, <2>1, <2>3 DEF Recovered
    <3>2. record'[k] = record[k]
      BY <1>1, <2>3, <3>1
    <3>3. record[k].token # token
      BY <1>2, <2>1, <3>2 DEF OneHolder
    <3>4. /\ record[k].phase = "pending"
          /\ \A r \in issued : r.token = record[k].token => r.job = k
      BY <2>1, <3>2 DEF OneHolder
    <3>5. PICK r \in issued : /\ r.job = k
                             /\ r.token = record[k].token
                             /\ r.attempt = record[k].attempts
                             /\ r.generation = generation[k]
                             /\ r.until = record[k].until
      BY <2>1, <3>2 DEF OneHolder
    <3>6. r \in issued' /\ generation' = generation
      BY <1>1
    <3>7. \A s \in issued' : s.token = record[k].token => s.job = k
      BY <1>1, <3>3, <3>4
    <3>8. QED
      BY <3>2, <3>4, <3>5, <3>6, <3>7
  <2>4. QED
    BY <2>2, <2>3
<1>4. AttemptOnce'
  BY <1>1, <1>2 DEF AttemptOnce, NumbersBehind
<1>5. NumbersBehind'
  BY <1>1 DEF NumbersBehind, Reserved, Recovered
<1>6. QED
  BY <1>3, <1>4, <1>5

\* In every reachable state the stored token names one reservation, the last
\* one of its job, and no attempt number is given out twice.
THEOREM StoreInvariant == Spec => []IInv
<1>1. Init => IInv
  <2> SUFFICES ASSUME Init PROVE IInv
    OBVIOUS
  <2>1. TypeOK
    BY StoreAssumption DEF Init, TypeOK, Record, Absent, Phases
  <2>2. QED
    BY <2>1 DEF Init, IInv, OneHolder, AttemptOnce, NumbersBehind, Absent
<1>2. IInv /\ TypeOK' /\ [Next]_vars => IInv'
  <2> SUFFICES ASSUME IInv, TypeOK', [Next]_vars
               PROVE  OneHolder' /\ AttemptOnce' /\ NumbersBehind'
    BY DEF IInv
  <2> USE StoreAssumption DEF IInv, TypeOK, Record, Reservation, Phases, Clock
  <2>1. ASSUME NEW j \in Jobs, NEW at \in Clock, Enqueue(j, at)
        PROVE  OneHolder' /\ AttemptOnce' /\ NumbersBehind'
    BY <2>1 DEF Enqueue, Fresh, OneHolder, AttemptOnce, NumbersBehind
  <2>2. ASSUME NEW j \in Jobs, NEW at \in Clock, NEW token \in Tokens,
               NEW recovered \in SUBSET Expired(j, at),
               Reserve(j, at, token, recovered)
        PROVE  OneHolder' /\ AttemptOnce' /\ NumbersBehind'
    BY <2>2, ReserveKeepsIInv
  <2>3. ASSUME NEW r \in issued, NEW at \in Clock, Release(r, at)
        PROVE  OneHolder' /\ AttemptOnce' /\ NumbersBehind'
    BY <2>3 DEF Release, Released, OneHolder, AttemptOnce, NumbersBehind
  <2>4. ASSUME NEW r \in issued, Complete(r)
        PROVE  OneHolder' /\ AttemptOnce' /\ NumbersBehind'
    BY <2>4 DEF Complete, Absent, OneHolder, AttemptOnce, NumbersBehind
  <2>5. ASSUME NEW r \in issued, Fail(r)
        PROVE  OneHolder' /\ AttemptOnce' /\ NumbersBehind'
    <3>1. /\ issued' = issued /\ generation' = generation
          /\ record' = [record EXCEPT ![r.job] = Failed(record[r.job])]
      BY <2>5 DEF Fail
    <3>2. OneHolder'
      BY <3>1 DEF Failed, OneHolder
    <3>3. record[r.job].phase = "pending"
      BY <2>5 DEF Fail, Holds, OneHolder
    <3>4. AttemptOnce'
      BY <3>1 DEF AttemptOnce
    <3>5. NumbersBehind'
      BY <3>1, <3>3 DEF Failed, NumbersBehind
    <3>6. QED
      BY <3>2, <3>4, <3>5
  <2>6. ASSUME NEW j \in Jobs, NEW at \in Clock, RetryFailed(j, at)
        PROVE  OneHolder' /\ AttemptOnce' /\ NumbersBehind'
    BY <2>6 DEF RetryFailed, Fresh, OneHolder, AttemptOnce, NumbersBehind
  <2>7. ASSUME NEW j \in Jobs, ForgetFailed(j)
        PROVE  OneHolder' /\ AttemptOnce' /\ NumbersBehind'
    BY <2>7 DEF ForgetFailed, Absent, OneHolder, AttemptOnce, NumbersBehind
  <2>8. CASE UNCHANGED vars
    BY <2>8 DEF vars, OneHolder, AttemptOnce, NumbersBehind
  <2>9. QED
    BY <2>1, <2>2, <2>3, <2>4, <2>5, <2>6, <2>7, <2>8 DEF Next
<1>3. QED
  BY <1>1, <1>2, StoreTypeCorrect, PTL DEF Spec

\* Fencing: the stored token belongs to exactly one granted reservation, the
\* last one of its job, and no token or attempt number is given out twice.
THEOREM StoreFencing == Spec => [](OneHolder /\ AttemptOnce)
<1>1. IInv => OneHolder /\ AttemptOnce
  BY DEF IInv
<1>2. QED
  BY <1>1, StoreInvariant, PTL

\* No reservation replaces one whose lease still runs on the replacing
\* caller's clock.
THEOREM LeaseTakeover == Spec => TakeoverAfterExpiry
<1> DEFINE A == \A j \in Jobs :
                  (/\ record[j].token \in Tokens
                   /\ record'[j].token \in Tokens
                   /\ record'[j].token # record[j].token)
                  => record'[j].until - Lease >= record[j].until
<1>1. TypeOK /\ [Next]_vars => [A]_vars
  <2> SUFFICES ASSUME TypeOK, Next PROVE A
    OBVIOUS
  <2> USE StoreAssumption DEF TypeOK, Record, Reservation, Clock
  <2>1. ASSUME NEW j \in Jobs, NEW at \in Clock, NEW token \in Tokens,
               NEW recovered \in SUBSET Expired(j, at),
               Reserve(j, at, token, recovered)
        PROVE  A
    BY <2>1 DEF Reserve, Reserved, Recovered, Expired, Eligible
  <2>2. ASSUME NEW j \in Jobs, NEW at \in Clock,
               Enqueue(j, at) \/ RetryFailed(j, at) \/ ForgetFailed(j)
        PROVE  A
    BY <2>2 DEF Enqueue, RetryFailed, ForgetFailed, Fresh, Absent
  <2>3. ASSUME NEW r \in issued, NEW at \in Clock,
               Release(r, at) \/ Complete(r) \/ Fail(r)
        PROVE  A
    BY <2>3 DEF Release, Complete, Fail, Released, Failed, Absent
  <2>4. 0 \in Clock
    OBVIOUS
  <2>5. QED
    BY <2>1, <2>2, <2>3, <2>4 DEF Next
<1>2. QED
  BY <1>1, StoreTypeCorrect, PTL DEF Spec, TakeoverAfterExpiry

-----------------------------------------------------------------------------
(***************************************************************************)
(* The SQL store implements the contract                                   *)
(***************************************************************************)

\* A set of natural numbers that is not empty has a least element.
LEMMA Least ==
  ASSUME NEW S \in SUBSET Nat, S # {}
  PROVE  \E m \in S : \A n \in S : m <= n
<1>1. IsWellFoundedOn({ss \in Nat \X Nat : ss[1] < ss[2]}, Nat)
  BY NatLessThanWellFounded DEF OpToRel
<1>2. PICK R : R = {ss \in Nat \X Nat : ss[1] < ss[2]} /\ IsWellFoundedOn(R, Nat)
  BY <1>1
<1>3. PICK m \in S : \A n \in S : ~(<<n, m>> \in R)
  BY <1>2, WFMin
<1>4. \A n \in S : ~(n < m)
  <2>1. \A n \in Nat, k \in Nat : n < k => <<n, k>> \in R
    BY <1>2
  <2>2. QED
    BY <1>3, <2>1
<1>5. QED
  BY <1>4

\* The stores' order, by time and then by job, has a first element in every set of jobs
\* that is not empty.
LEMMA FirstByTime ==
  ASSUME NEW S \in SUBSET Nat, S # {}, NEW time, \A j \in S : time[j] \in Nat
  PROVE  \E j \in S : \A k \in S : time[j] < time[k] \/ (time[j] = time[k] /\ j <= k)
<1>1. PICK T : T = {time[j] : j \in S}
  OBVIOUS
<1>2. T \in SUBSET Nat /\ T # {}
  BY <1>1
<1>3. PICK m \in T : \A n \in T : m <= n
  BY <1>2, Least
<1>4. PICK U : U = {j \in S : time[j] = m}
  OBVIOUS
<1>5. U \in SUBSET Nat /\ U # {}
  BY <1>1, <1>3, <1>4
<1>6. PICK j \in U : \A k \in U : j <= k
  BY <1>5, Least
<1>7. \A k \in S : time[k] \in T
  BY <1>1
<1>8. j \in S /\ time[j] = m
  BY <1>4, <1>6
<1>9. ASSUME NEW k \in S  PROVE time[j] < time[k] \/ (time[j] = time[k] /\ j <= k)
  <2>1. m <= time[k] /\ m \in Nat /\ time[k] \in Nat
    BY <1>2, <1>3, <1>7
  <2>2. CASE time[k] = m
    BY <1>4, <1>6, <1>8, <2>2
  <2>3. CASE time[k] # m
    BY <1>8, <2>1, <2>3
  <2>4. QED
    BY <2>2, <2>3
<1>10. QED
  BY <1>8, <1>9

\* A call of the SQL store is about a job once it has looked at the table.
Call == [step : {"idle", "insert", "update", "select"}, job : Jobs \cup {NoJob}, at : Clock, attempts : Nat]
CallsInv ==
  /\ call \in [Callers -> Call]
  /\ \A c \in Callers : call[c].step # "idle" => call[c].job \in Jobs

SQLInv ==
  /\ backend = "sql" /\ record = row
  /\ TypeOK /\ CallsInv
  /\ granted \subseteq issued

\* The rows that the select of Reserve may take, and the one it takes.
LEMMA SelectFinds ==
  ASSUME SQLInv, NEW at \in Clock, {j \in Jobs : SQL!Ready(j, at)} # {}
  PROVE  SQL!First({j \in Jobs : SQL!Ready(j, at)}) \in {j \in Jobs : SQL!Ready(j, at)}
<1>1. PICK S : S = {j \in Jobs : SQL!Ready(j, at)}
  OBVIOUS
<1>2. PICK time : time = [j \in Jobs |-> row[j].available]
  OBVIOUS
<1>3. S \in SUBSET Nat /\ S # {} /\ S \subseteq Jobs
  BY <1>1, BackendAssumptions DEF SQL!SQLAssumption
<1>4. \A j \in S : time[j] = row[j].available /\ time[j] \in Nat
  BY <1>2, <1>3 DEF SQLInv, TypeOK, Record
<1>5. \E j \in S : \A k \in S : time[j] < time[k] \/ (time[j] = time[k] /\ j <= k)
  BY <1>3, <1>4, FirstByTime
<1>6. \E j \in S : \A k \in S : row[j].available < row[k].available \/ (row[j].available = row[k].available /\ j <= k)
  BY <1>4, <1>5
<1>7. SQL!First(S) \in S
  BY <1>6 DEF SQL!First
<1>8. QED
  BY <1>1, <1>7

\* The step of the contract that a statement takes.
Implements == record' = row' /\ [Next]_vars /\ CallsInv' /\ granted' \subseteq issued'

\* Statements that only look, and calls that end.
LEMMA SQLLooks ==
  ASSUME SQLInv, record' = row', NEW c \in Callers,
         UNCHANGED <<row, granted, issued, generation>>,
         NEW new \in Call, new.step # "idle" => new.job \in Jobs,
         call' = [call EXCEPT ![c] = new]
  PROVE  Implements
<1>1. UNCHANGED vars
  BY DEF SQLInv, vars
<1>2. CallsInv'
  BY DEF SQLInv, CallsInv
<1>3. QED
  BY <1>1, <1>2 DEF Implements, SQLInv

\* A caller with nothing under way, and one that is about to insert a row.
LEMMA SQLIdle ==
  /\ SQL!Idle \in Call /\ SQL!Idle.step = "idle"
  /\ \A j \in Jobs, at \in Clock :
       /\ [SQL!Idle EXCEPT !.step = "insert", !.job = j, !.at = at] \in Call
       /\ [SQL!Idle EXCEPT !.step = "insert", !.job = j, !.at = at].job = j
<1>1. PICK idle : idle = SQL!Idle
  OBVIOUS
<1>2. idle \in Call /\ idle.step = "idle"
  BY <1>1, BackendAssumptions DEF SQL!Idle, Call, Clock, SQL!SQLAssumption
<1>3. ASSUME NEW j \in Jobs, NEW at \in Clock
      PROVE  /\ [idle EXCEPT !.step = "insert", !.job = j, !.at = at] \in Call
             /\ [idle EXCEPT !.step = "insert", !.job = j, !.at = at].job = j
  <2>1. PICK new : new = [idle EXCEPT !.step = "insert", !.job = j, !.at = at]
    OBVIOUS
  <2>2. new \in Call /\ new.job = j
    BY <1>2, <2>1 DEF Call
  <2>3. QED
    BY <2>1, <2>2
<1>4. QED
  BY <1>1, <1>2, <1>3

\* What the statements make of a row is what the contract makes of a record.
LEMMA SQLRows ==
  ASSUME NEW rec \in Record, NEW at
  PROVE  /\ [rec EXCEPT !.available = at, !.token = NoToken, !.until = 0] = Released(rec, at)
         /\ [rec EXCEPT !.phase = "failed", !.token = NoToken, !.until = 0] = Failed(rec)
         /\ [SQL!Absent EXCEPT !.phase = "pending", !.available = at] = Fresh(at)
<1>1. PICK a : a = [rec EXCEPT !.available = at, !.token = NoToken, !.until = 0]
  OBVIOUS
<1>2. a = Released(rec, at)
  BY <1>1 DEF Record, Released
<1>3. PICK b : b = [rec EXCEPT !.phase = "failed", !.token = NoToken, !.until = 0]
  OBVIOUS
<1>4. b = Failed(rec)
  BY <1>3 DEF Record, Failed
<1>5. PICK none : none = SQL!Absent
  OBVIOUS
<1>6. PICK c : c = [none EXCEPT !.phase = "pending", !.available = at]
  OBVIOUS
<1>7. c = Fresh(at)
  BY <1>5, <1>6 DEF SQL!Absent, Fresh
<1>8. QED
  BY <1>1, <1>2, <1>3, <1>4, <1>5, <1>6, <1>7

\* Statements that finish a reservation or are about a failed job.
LEMMA SQLFinishes ==
  ASSUME SQLInv, record' = row', UNCHANGED <<call, granted>>,
         \/ \E r \in granted, at \in Clock : SQL!Release(r, at)
         \/ \E r \in granted : SQL!Complete(r) \/ SQL!Fail(r)
         \/ \E j \in Jobs, at \in Clock : SQL!RetryFailed(j, at)
         \/ \E j \in Jobs : SQL!ForgetFailed(j)
  PROVE  Implements
<1>1. TypeOK /\ record = row /\ granted \subseteq issued /\ CallsInv'
  BY DEF SQLInv, CallsInv
<1>2. \A j \in Jobs : row[j] \in Record
  BY <1>1 DEF TypeOK
<1>3. \A r \in granted : r \in issued /\ r.job \in Jobs
  BY <1>1 DEF TypeOK, Reservation
<1>4. SQL!Absent = Absent
  BY DEF SQL!Absent, Absent
<1>5. ASSUME NEW r \in granted, NEW at \in Clock, SQL!Release(r, at)  PROVE Next /\ UNCHANGED issued
  <2>1. [row[r.job] EXCEPT !.available = at, !.token = NoToken, !.until = 0] = Released(row[r.job], at)
    BY <1>2, <1>3, SQLRows
  <2>2. Release(r, at) /\ UNCHANGED issued
    BY <1>1, <1>5, <2>1 DEF SQL!Release, SQL!finishReservation, Release, Holds
  <2>3. QED
    BY <1>3, <2>2 DEF Next
<1>6. ASSUME NEW r \in granted, SQL!Complete(r)  PROVE Next /\ UNCHANGED issued
  <2>1. Complete(r) /\ UNCHANGED issued
    BY <1>1, <1>4, <1>6 DEF SQL!Complete, SQL!finishReservation, Complete, Holds
  <2>2. QED
    BY <1>3, <2>1 DEF Next
<1>7. ASSUME NEW r \in granted, SQL!Fail(r)  PROVE Next /\ UNCHANGED issued
  <2>1. [row[r.job] EXCEPT !.phase = "failed", !.token = NoToken, !.until = 0] = Failed(row[r.job])
    BY <1>2, <1>3, SQLRows
  <2>2. Fail(r) /\ UNCHANGED issued
    BY <1>1, <1>7, <2>1 DEF SQL!Fail, SQL!finishReservation, Fail, Holds
  <2>3. QED
    BY <1>3, <2>2 DEF Next
<1>8. ASSUME NEW j \in Jobs, NEW at \in Clock, SQL!RetryFailed(j, at)  PROVE Next /\ UNCHANGED issued
  <2>1. [SQL!Absent EXCEPT !.phase = "pending", !.available = at] = Fresh(at)
    BY <1>2, SQLRows
  <2>2. generation[j] < MaxResets /\ RetryFailed(j, at)
    BY <1>1, <1>8, <2>1 DEF SQL!RetryFailed, RetryFailed
  <2>3. QED
    BY <2>2 DEF Next, RetryFailed
<1>9. ASSUME NEW j \in Jobs, SQL!ForgetFailed(j)  PROVE Next /\ UNCHANGED issued
  <2>1. ForgetFailed(j)
    BY <1>1, <1>4, <1>9 DEF SQL!ForgetFailed, ForgetFailed
  <2>2. QED
    BY <2>1 DEF Next, ForgetFailed
<1>10. QED
  BY <1>1, <1>5, <1>6, <1>7, <1>8, <1>9 DEF Implements

\* The update of Reserve, whether or not its answer arrives.
LEMMA SQLUpdates ==
  ASSUME SQLInv, record' = row', NEW c \in Callers, SQL!Reserve(c) \/ SQL!ReserveLost(c)
  PROVE  Implements
<1>1. PICK sel \in Call : sel = call[c]
  BY DEF SQLInv, CallsInv
<1>2. PICK token \in Tokens :
        /\ SQL!UpdateRow(sel, token)
        /\ granted' = granted \/ granted' = granted \cup {SQL!Reservation(sel, token)}
  BY <1>1 DEF SQL!Reserve, SQL!ReserveLost
<1>3. /\ SQL!Matches(sel) /\ call' = [call EXCEPT ![c] = SQL!Idle] /\ UNCHANGED generation
      /\ sel.job \in Jobs /\ sel.at \in Clock
  BY <1>1 DEF SQL!Reserve, SQL!ReserveLost, SQLInv, CallsInv, Call
<1>4. TypeOK /\ record = row /\ granted \subseteq issued
  BY DEF SQLInv
<1>5. PICK j \in Jobs : j = sel.job
  BY <1>3
<1>6. row[j] \in Record
  BY <1>4 DEF TypeOK
<1>7. Eligible(j, sel.at) /\ row[j].attempts = sel.attempts
  BY <1>3, <1>4, <1>5 DEF SQL!Matches, Eligible
<1>8. row' = [k \in Jobs |-> IF k = j THEN Reserved(row[k], token, sel.at + Lease) ELSE row[k]]
  <2>1. row \in [Jobs -> Record]
    BY <1>4 DEF TypeOK
  <2>2. PICK rec : rec = [[[row[j] EXCEPT !.attempts = @ + 1] EXCEPT !.token = token] EXCEPT !.until = sel.at + Lease]
    OBVIOUS
  <2>3. rec = Reserved(row[j], token, sel.at + Lease)
    BY <1>6, <2>2 DEF Reserved, Record
  <2>4. row' = [row EXCEPT ![j] = rec]
    BY <1>2, <1>5, <2>1, <2>2 DEF SQL!UpdateRow
  <2>5. QED
    BY <2>1, <2>3, <2>4
<1>9. SQL!Reservation(sel, token) =
        [job |-> j, token |-> token, attempt |-> row[j].attempts + 1,
         generation |-> generation[j], until |-> sel.at + Lease]
  BY <1>5, <1>7 DEF SQL!Reservation
<1>10. Reserve(j, sel.at, token, {})
  BY <1>2, <1>3, <1>4, <1>7, <1>8, <1>9 DEF Reserve, SQL!UpdateRow, UsedTokens
<1>11. Next
  <2>1. {} \in SUBSET Expired(j, sel.at)
    OBVIOUS
  <2>2. QED
    BY <1>3, <1>10, <2>1 DEF Next
<1>12. CallsInv'
  BY <1>3, SQLIdle DEF SQLInv, CallsInv
<1>13. granted' \subseteq issued'
  BY <1>2, <1>4 DEF SQL!UpdateRow
<1>14. QED
  BY <1>11, <1>12, <1>13 DEF Implements

\* The statements of Enqueue: the insert finds the primary key free, or not.
LEMMA SQLInserts ==
  ASSUME SQLInv, record' = row', NEW c \in Callers, SQL!Enqueue(c)
  PROVE  Implements
<1>1. PICK sel \in Call : sel = call[c]
  BY DEF SQLInv, CallsInv
<1>2. /\ call' = [call EXCEPT ![c] = SQL!Idle] /\ UNCHANGED <<granted, issued>>
      /\ sel.job \in Jobs /\ sel.at \in Clock
  BY <1>1 DEF SQL!Enqueue, SQLInv, CallsInv, Call
<1>3. CASE UNCHANGED <<row, generation>>
  BY <1>2, <1>3, SQLIdle, SQLLooks
<1>4. CASE /\ row[sel.job].phase = "absent" /\ generation[sel.job] < MaxResets
           /\ row' = [row EXCEPT ![sel.job] = [SQL!Absent EXCEPT !.phase = "pending", !.available = sel.at]]
           /\ generation' = [generation EXCEPT ![sel.job] = @ + 1]
  <2>1. [SQL!Absent EXCEPT !.phase = "pending", !.available = sel.at] = Fresh(sel.at)
    BY <1>2, SQLRows DEF SQLInv, TypeOK
  <2>2. Enqueue(sel.job, sel.at)
    BY <1>2, <1>4, <2>1 DEF Enqueue, SQLInv
  <2>3. Next
    BY <1>2, <1>4, <2>2 DEF Next
  <2>4. CallsInv'
    BY <1>2, SQLIdle DEF SQLInv, CallsInv
  <2>5. QED
    BY <1>2, <2>3, <2>4 DEF Implements, SQLInv
<1>5. QED
  BY <1>1, <1>3, <1>4 DEF SQL!Enqueue

\* The select of Reserve.
LEMMA SQLSelects ==
  ASSUME SQLInv, record' = row', NEW c \in Callers, NEW at \in Clock, SQL!readyJob(c, at)
  PROVE  Implements
<1>1. PICK S : S = {j \in Jobs : SQL!Ready(j, at)}
  OBVIOUS
<1>2. CASE S = {}
  <2>1. call' = [call EXCEPT ![c] = SQL!Idle] /\ UNCHANGED <<row, granted, issued, generation>>
    BY <1>1, <1>2 DEF SQL!readyJob
  <2>2. QED
    BY <2>1, SQLIdle, SQLLooks
<1>3. CASE S # {}
  <2>1. PICK j : j = SQL!First(S)
    OBVIOUS
  <2>2. j \in Jobs
    BY <1>1, <1>3, <2>1, SelectFinds
  <2>3. PICK new : new = [step |-> "update", job |-> j, at |-> at, attempts |-> row[j].attempts]
    OBVIOUS
  <2>4. row[j] \in Record
    BY <2>2 DEF SQLInv, TypeOK
  <2>5. new \in Call /\ new.job \in Jobs
    BY <2>2, <2>3, <2>4 DEF Call, Record
  <2>6. call' = [call EXCEPT ![c] = new] /\ UNCHANGED <<row, granted, issued, generation>>
    BY <1>1, <1>3, <2>1, <2>3 DEF SQL!readyJob
  <2>7. QED
    BY <2>5, <2>6, SQLLooks
<1>4. QED
  BY <1>2, <1>3

\* Every statement of the SQL store is a step of the contract, or none.
LEMMA SQLStep ==
  ASSUME SQLInv, SQL!Next, record' = row'
  PROVE  Implements
<1>1. \A c \in Callers : call[c] \in Call /\ (call[c].step # "idle" => call[c].job \in Jobs)
  BY DEF SQLInv, CallsInv
<1>2. ASSUME NEW c \in Callers, NEW j \in Jobs, NEW at \in Clock, SQL!jobExists(c, j, at)  PROVE Implements
  <2>1. PICK new : new = [SQL!Idle EXCEPT !.step = "insert", !.job = j, !.at = at]
    OBVIOUS
  <2>2. new \in Call /\ new.job \in Jobs
    BY <2>1, SQLIdle
  <2>3. call' = [call EXCEPT ![c] = new] /\ UNCHANGED <<row, granted, issued, generation>>
    BY <1>2, <2>1 DEF SQL!jobExists
  <2>4. QED
    BY <2>2, <2>3, SQLLooks
<1>3. ASSUME NEW c \in Callers, NEW at \in Clock, SQL!BeginReserve(c, at)  PROVE Implements
  BY <1>3, SQLSelects DEF SQL!BeginReserve
<1>4. ASSUME NEW c \in Callers, SQL!SelectAgain(c)  PROVE Implements
  <2>1. call[c].at \in Clock
    BY <1>1 DEF Call
  <2>2. QED
    BY <1>4, <2>1, SQLSelects DEF SQL!SelectAgain
<1>5. ASSUME NEW c \in Callers, SQL!ReserveMissed(c)  PROVE Implements
  <2>1. PICK new : new = [call[c] EXCEPT !.step = "select"]
    OBVIOUS
  <2>2. new \in Call /\ new.job \in Jobs
    BY <1>1, <1>5, <2>1 DEF Call, SQL!ReserveMissed
  <2>3. call' = [call EXCEPT ![c] = new] /\ UNCHANGED <<row, granted, issued, generation>>
    BY <1>5, <2>1 DEF SQL!ReserveMissed
  <2>4. QED
    BY <2>2, <2>3, SQLLooks
<1>6. ASSUME NEW c \in Callers, SQL!GiveUp(c)  PROVE Implements
  <2>1. call' = [call EXCEPT ![c] = SQL!Idle] /\ UNCHANGED <<row, granted, issued, generation>>
    BY <1>6 DEF SQL!GiveUp
  <2>2. QED
    BY <2>1, SQLIdle, SQLLooks
<1>7. CASE \/ \E r \in granted, at \in Clock : SQL!Release(r, at)
           \/ \E r \in granted : SQL!Complete(r) \/ SQL!Fail(r)
           \/ \E j \in Jobs, at \in Clock : SQL!RetryFailed(j, at)
           \/ \E j \in Jobs : SQL!ForgetFailed(j)
  <2>1. UNCHANGED <<call, granted>>
    BY <1>7 DEF SQL!Release, SQL!Complete, SQL!Fail, SQL!RetryFailed, SQL!ForgetFailed, SQL!finishReservation
  <2>2. QED
    BY <1>7, <2>1, SQLFinishes
<1>8. SQL!Clock = Clock
  BY DEF SQL!Clock, Clock
<1>9. QED
  BY <1>2, <1>3, <1>4, <1>5, <1>6, <1>7, <1>8, SQLUpdates, SQLInserts DEF SQL!Next

\* The table is empty at first.
LEMMA SQLStarts == StoresInit /\ backend = "sql" => Init /\ SQLInv
<1>1. SUFFICES ASSUME StoresInit, backend = "sql"  PROVE Init /\ SQLInv
  OBVIOUS
<1>2. record = row
  BY <1>1 DEF StoresInit, Kept
<1>3. SQL!Absent = Absent
  BY DEF SQL!Absent, Absent
<1>4. Init
  BY <1>1, <1>2, <1>3 DEF StoresInit, SQL!Init, Init
<1>5. TypeOK
  BY <1>4, StoreAssumption DEF Init, TypeOK, Record, Absent, Phases
<1>6. CallsInv /\ granted \subseteq issued
  BY <1>1, SQLIdle DEF StoresInit, SQL!Init, CallsInv
<1>7. QED
  BY <1>1, <1>2, <1>4, <1>5, <1>6 DEF SQLInv

\* Every step of the SQL store is one of the contract, and keeps the invariant.
LEMMA SQLKeeps ==
  SQLInv /\ [StoresNext]_<<vars, backend, granted, file, sql, redis>> => [Next]_vars /\ SQLInv'
<1> DEFINE all == <<vars, backend, granted, file, sql, redis>>
<1>1. SUFFICES ASSUME SQLInv, [StoresNext]_all  PROVE [Next]_vars /\ SQLInv'
  OBVIOUS
<1>2. CASE StoresNext
  <2>1. SQL!Next /\ backend' = "sql" /\ record' = row'
    BY <1>1, <1>2 DEF StoresNext, SQLInv, Kept
  <2>2. Implements
    BY <1>1, <2>1, SQLStep
  <2>3. TypeOK'
    BY <1>1, <2>2, TypeStep DEF Implements, SQLInv
  <2>4. QED
    BY <2>1, <2>2, <2>3 DEF Implements, SQLInv
<1>3. CASE UNCHANGED all
  BY <1>1, <1>3 DEF SQLInv, vars, sql, TypeOK, CallsInv
<1>4. QED
  BY <1>1, <1>2, <1>3

\* The rows of the SQL store, seen as the contract's records, change as the contract
\* says: for any callers, interleaving their selects, inserts and updates as they may,
\* losing answers or giving up.
THEOREM SQLImplements == StoresSpec /\ backend = "sql" => ImplementsJobStore
<1> DEFINE all == <<vars, backend, granted, file, sql, redis>>
<1>1. StoresInit /\ backend = "sql" => Init /\ SQLInv
  BY SQLStarts
<1>2. SQLInv /\ [StoresNext]_all => [Next]_vars /\ SQLInv'
  BY SQLKeeps
<1>3. QED
  BY <1>1, <1>2, PTL DEF StoresSpec, ImplementsJobStore, Spec

\* The row that a select has found is one that the update takes.
LEMMA SelectMatches ==
  ASSUME SQLInv, NEW c \in Callers, NEW at \in Clock, SQL!readyJob(c, at), call'[c].step = "update"
  PROVE  SQL!Matches(call[c])'
<1>1. PICK S : S = {j \in Jobs : SQL!Ready(j, at)}
  OBVIOUS
<1>2. call \in [Callers -> Call] /\ row' = row
  BY DEF SQLInv, CallsInv, SQL!readyJob
<1>3. S # {}
  <2>1. SUFFICES ASSUME S = {} PROVE FALSE
    OBVIOUS
  <2>2. call'[c] = SQL!Idle
    BY <1>1, <1>2, <2>1 DEF SQL!readyJob
  <2>3. QED
    BY <2>2, SQLIdle
<1>4. PICK j : j = SQL!First(S)
  OBVIOUS
<1>5. j \in Jobs /\ SQL!Ready(j, at)
  <2>1. SQL!First({k \in Jobs : SQL!Ready(k, at)}) \in {k \in Jobs : SQL!Ready(k, at)}
    BY <1>1, <1>3, SelectFinds
  <2>2. QED
    BY <1>1, <1>4, <2>1
<1>6. call'[c] = [step |-> "update", job |-> j, at |-> at, attempts |-> row[j].attempts]
  BY <1>1, <1>2, <1>3, <1>4 DEF SQL!readyJob
<1>7. PICK sel : sel = call'[c]
  OBVIOUS
<1>8. sel.job = j /\ sel.at = at /\ sel.attempts = row[j].attempts
  BY <1>6, <1>7
<1>9. QED
  BY <1>2, <1>5, <1>7, <1>8 DEF SQL!Ready, SQL!Matches

\* A call at its update has just selected its row, or had selected it before.
LEMMA UpdateSelected ==
  ASSUME SQLInv, SQL!Next, NEW c \in Callers, call'[c].step = "update"
  PROVE  call'[c] = call[c] \/ SQL!Matches(call[c])'
<1>1. call \in [Callers -> Call]
  BY DEF SQLInv, CallsInv
<1>2. ASSUME NEW d \in Callers, NEW new, call' = [call EXCEPT ![d] = new], new.step # "update"
      PROVE  call'[c] = call[c]
  BY <1>1, <1>2
<1>3. ASSUME NEW d \in Callers, NEW at \in Clock, SQL!readyJob(d, at)
      PROVE  call'[c] = call[c] \/ SQL!Matches(call[c])'
  <2>1. CASE d = c
    BY <1>3, <2>1, SelectMatches
  <2>2. CASE d # c
    BY <1>1, <1>3, <2>2 DEF SQL!readyJob
  <2>3. QED
    BY <2>1, <2>2
<1>4. ASSUME NEW d \in Callers, NEW j \in Jobs, NEW at \in Clock, SQL!jobExists(d, j, at)  PROVE call'[c] = call[c]
  <2>1. PICK new : new = [SQL!Idle EXCEPT !.step = "insert", !.job = j, !.at = at]
    OBVIOUS
  <2>2. new.step # "update"
    BY <2>1 DEF SQL!Idle
  <2>3. call' = [call EXCEPT ![d] = new]
    BY <1>4, <2>1 DEF SQL!jobExists
  <2>4. QED
    BY <1>2, <2>2, <2>3
<1>5. ASSUME NEW d \in Callers, SQL!Enqueue(d) \/ SQL!Reserve(d) \/ SQL!ReserveLost(d) \/ SQL!GiveUp(d)
      PROVE  call'[c] = call[c]
  <2>1. call' = [call EXCEPT ![d] = SQL!Idle]
    BY <1>5 DEF SQL!Enqueue, SQL!Reserve, SQL!ReserveLost, SQL!GiveUp
  <2>2. QED
    BY <1>2, <2>1, SQLIdle
<1>6. ASSUME NEW d \in Callers, SQL!ReserveMissed(d)  PROVE call'[c] = call[c]
  <2>1. PICK new : new = [call[d] EXCEPT !.step = "select"]
    OBVIOUS
  <2>2. new.step # "update"
    <3>1. call[d] \in Call
      BY <1>1
    <3>2. QED
      BY <2>1, <3>1 DEF Call
  <2>3. call' = [call EXCEPT ![d] = new]
    BY <1>6, <2>1 DEF SQL!ReserveMissed
  <2>4. QED
    BY <1>2, <2>2, <2>3
<1>7. ASSUME NEW d \in Callers, SQL!SelectAgain(d)  PROVE call'[c] = call[c] \/ SQL!Matches(call[c])'
  <2>1. call[d].at \in Clock
    BY <1>1 DEF Call
  <2>2. QED
    BY <1>3, <1>7, <2>1 DEF SQL!SelectAgain
<1>8. CASE \/ \E r \in granted, at \in Clock : SQL!Release(r, at)
           \/ \E r \in granted : SQL!Complete(r) \/ SQL!Fail(r)
           \/ \E j \in Jobs, at \in Clock : SQL!RetryFailed(j, at)
           \/ \E j \in Jobs : SQL!ForgetFailed(j)
  BY <1>8 DEF SQL!Release, SQL!Complete, SQL!Fail, SQL!RetryFailed, SQL!ForgetFailed, SQL!finishReservation
<1>9. SQL!Clock = Clock
  BY DEF SQL!Clock, Clock
<1>10. QED
  BY <1>3, <1>4, <1>5, <1>6, <1>7, <1>8, <1>9 DEF SQL!Next, SQL!BeginReserve

\* A statement of the SQL store, or a step that leaves its variables alone, makes a
\* selected row one that the update misses only by changing that row.
LEMMA MissStep ==
  ASSUME (SQLInv /\ SQL!Next) \/ UNCHANGED sql, NEW c \in Callers, call'[c].step = "update", ~SQL!Matches(call[c])'
  PROVE  \/ row'[call'[c].job] # row[call'[c].job]
         \/ call'[c] = call[c] /\ ~SQL!Matches(call[c])
<1>1. call'[c] = call[c]
  BY UpdateSelected DEF sql
<1>2. SUFFICES ASSUME row'[call'[c].job] = row[call'[c].job]
               PROVE  ~SQL!Matches(call[c])
  BY <1>1
<1>3. QED
  BY <1>1, <1>2 DEF SQL!Matches

\* The loop of Reserve makes progress, whatever the callers do: a caller goes round
\* again only after another one has changed the row it had selected.
THEOREM MissesExplained == StoresSpec => MissMeansChanged
<1> DEFINE all == <<vars, backend, granted, file, sql, redis>>
           Inv == backend = "sql" => SQLInv
           Step == \A c \in Callers :
                     call'[c].step = "update" /\ ~SQL!Matches(call[c])' =>
                       \/ row'[call'[c].job] # row[call'[c].job]
                       \/ call'[c] = call[c] /\ ~SQL!Matches(call[c])
<1>1. StoresInit => Inv
  BY SQLStarts
<1>2. Inv /\ [StoresNext]_all => Inv'
  <2>1. SUFFICES ASSUME Inv, [StoresNext]_all PROVE Inv'
    OBVIOUS
  <2>2. backend' = backend
    BY <2>1 DEF StoresNext
  <2>3. CASE backend = "sql"
    BY <2>1, <2>3, SQLKeeps
  <2>4. CASE backend # "sql"
    BY <2>2, <2>4
  <2>5. QED
    BY <2>3, <2>4
<1>3. Inv /\ [StoresNext]_all => [Step]_SQL!vars
  <2>1. SUFFICES ASSUME Inv, [StoresNext]_all PROVE Step
    OBVIOUS
  <2>2. (SQLInv /\ SQL!Next) \/ UNCHANGED sql
    BY <2>1 DEF StoresNext
  <2>3. QED
    BY <2>2, MissStep
<1>4. QED
  BY <1>1, <1>2, <1>3, PTL DEF StoresSpec, MissMeansChanged, SQL!MissMeansChanged

-----------------------------------------------------------------------------
(***************************************************************************)
(* The keys of the Redis store agree                                       *)
(***************************************************************************)
RedisRecord == [failed : BOOLEAN, available : Nat, attempts : Nat, token : Tokens \cup {NoToken}, until : Nat]
Failing(rec) == rec.failed

\* The contract's record that a record in Redis stands for.
Encoded(rec) ==
  [phase |-> IF Failing(rec) THEN "failed" ELSE "pending", available |-> rec.available,
   attempts |-> rec.attempts, token |-> rec.token, until |-> rec.until]

\* The records that the scripts write.
Taken(rec, token, until) == [rec EXCEPT !.attempts = @ + 1, !.token = token, !.until = until]
Postponed(rec, at) == [Redis!Unreserved(rec) EXCEPT !.available = at]
Ended(rec) == [Redis!Unreserved(rec) EXCEPT !.failed = TRUE]

\* What the scripts make of a record is what the contract makes of it.
LEMMA RedisRecords ==
  ASSUME NEW rec \in RedisRecord, NEW at \in Nat, NEW token \in Tokens
  PROVE  /\ /\ Redis!Fresh(at) \in RedisRecord /\ ~Failing(Redis!Fresh(at))
            /\ Redis!Fresh(at).token = NoToken /\ Redis!Fresh(at).available = at
            /\ Encoded(Redis!Fresh(at)) = Fresh(at)
         /\ /\ Redis!Unreserved(rec) \in RedisRecord /\ (Failing(Redis!Unreserved(rec)) <=> Failing(rec))
            /\ Redis!Unreserved(rec).token = NoToken /\ Redis!Unreserved(rec).available = rec.available
            /\ Redis!Unreserved(rec).attempts = rec.attempts
            /\ Encoded(Redis!Unreserved(rec)) = Recovered(Encoded(rec))
         /\ /\ Postponed(rec, at) \in RedisRecord /\ (Failing(Postponed(rec, at)) <=> Failing(rec))
            /\ Postponed(rec, at).token = NoToken /\ Postponed(rec, at).available = at
            /\ Encoded(Postponed(rec, at)) = Released(Encoded(rec), at)
         /\ /\ Ended(rec) \in RedisRecord /\ Failing(Ended(rec)) /\ Ended(rec).token = NoToken
            /\ Encoded(Ended(rec)) = Failed(Encoded(rec))
         /\ /\ Taken(rec, token, at) \in RedisRecord /\ (Failing(Taken(rec, token, at)) <=> Failing(rec))
            /\ Taken(rec, token, at).token = token /\ Taken(rec, token, at).until = at
            /\ Encoded(Taken(rec, token, at)) = Reserved(Encoded(rec), token, at)
<1>1. PICK fresh : fresh = Redis!Fresh(at)
  OBVIOUS
<1>2. fresh \in RedisRecord /\ ~Failing(fresh) /\ fresh.token = NoToken /\ fresh.available = at
  BY <1>1 DEF Redis!Fresh, RedisRecord, Failing
<1>3. Encoded(fresh) = Fresh(at)
  BY <1>1, <1>2 DEF Redis!Fresh, Encoded, Fresh
<1>4. PICK free : free = Redis!Unreserved(rec)
  OBVIOUS
<1>5. /\ free \in RedisRecord /\ (Failing(free) <=> Failing(rec)) /\ free.token = NoToken /\ free.until = 0
      /\ free.available = rec.available /\ free.attempts = rec.attempts
  BY <1>4 DEF Redis!Unreserved, RedisRecord, Failing
<1>6. Encoded(free) = Recovered(Encoded(rec))
  BY <1>5 DEF Encoded, Recovered
<1>7. PICK later : later = Postponed(rec, at)
  OBVIOUS
<1>8. /\ later \in RedisRecord /\ (Failing(later) <=> Failing(free)) /\ later.token = NoToken /\ later.until = 0
      /\ later.available = at /\ later.attempts = rec.attempts
  BY <1>4, <1>5, <1>7 DEF Postponed, RedisRecord, Failing
<1>9. Encoded(later) = Released(Encoded(rec), at)
  BY <1>5, <1>8 DEF Encoded, Released
<1>10. PICK gone : gone = Ended(rec)
  OBVIOUS
<1>11. /\ gone \in RedisRecord /\ Failing(gone) /\ gone.token = NoToken /\ gone.until = 0
       /\ gone.available = rec.available /\ gone.attempts = rec.attempts
  BY <1>4, <1>5, <1>10 DEF Ended, RedisRecord, Failing
<1>12. Encoded(gone) = Failed(Encoded(rec))
  BY <1>11 DEF Encoded, Failed
<1>13. PICK taken : taken = Taken(rec, token, at)
  OBVIOUS
<1>14. /\ taken \in RedisRecord /\ (Failing(taken) <=> Failing(rec)) /\ taken.token = token /\ taken.until = at
       /\ taken.available = rec.available /\ taken.attempts = rec.attempts + 1
  <2>1. PICK n \in Nat : n = rec.attempts + 1
    BY DEF RedisRecord
  <2>2. taken = [rec EXCEPT !.attempts = n, !.token = token, !.until = at]
    BY <1>13, <2>1 DEF Taken
  <2>3. /\ taken \in RedisRecord /\ (Failing(taken) <=> Failing(rec)) /\ taken.token = token /\ taken.until = at
        /\ taken.available = rec.available /\ taken.attempts = n
    BY <2>2 DEF RedisRecord, Failing
  <2>4. QED
    BY <2>1, <2>3
<1>15. Encoded(taken) = Reserved(Encoded(rec), token, at)
  BY <1>14 DEF Encoded, Reserved
<1>16. QED
  BY <1>1, <1>2, <1>3, <1>4, <1>5, <1>6, <1>7, <1>8, <1>9, <1>10, <1>11, <1>12, <1>13, <1>14, <1>15

\* Where the keys have a job.
KeyInv(j) ==
  /\ j \in payloads <=> j \in DOMAIN records
  /\ j \in DOMAIN reserved <=> j \in DOMAIN records /\ records[j].token # NoToken
  /\ j \in DOMAIN failed <=> j \in DOMAIN records /\ Failing(records[j])
  /\ j \in DOMAIN ready <=> j \in DOMAIN records /\ records[j].token = NoToken /\ ~Failing(records[j])
  /\ j \in DOMAIN records => ~Failing(records[j]) \/ records[j].token = NoToken
  /\ j \in DOMAIN ready => ready[j] = records[j].available
  /\ j \in DOMAIN reserved => reserved[j] = records[j].until

KeyTypeOK ==
  /\ DOMAIN records \subseteq Jobs /\ IsFiniteSet(DOMAIN records)
  /\ records \in [DOMAIN records -> RedisRecord]

RedisInv ==
  /\ backend = "redis" /\ record = Redis!stored
  /\ TypeOK /\ KeyTypeOK
  /\ \A j : KeyInv(j)
  /\ granted \subseteq issued

\* The keys agree about every job, so they agree.
LEMMA KeysIndexed ==
  ASSUME \A j : KeyInv(j)
  PROVE  Redis!IndexesAgree
<1>1. \A j : j \in Redis!FailedIds <=> j \in DOMAIN records /\ Failing(records[j])
  BY DEF Redis!FailedIds, Failing
<1>2. \A j : j \in Redis!Reserving <=> j \in DOMAIN records /\ records[j].token # NoToken
  BY DEF Redis!Reserving
<1>3. payloads = DOMAIN records
  BY DEF KeyInv
<1>4. DOMAIN reserved = Redis!Reserving
  BY <1>2 DEF KeyInv
<1>5. DOMAIN failed = Redis!FailedIds
  BY <1>1 DEF KeyInv
<1>6. DOMAIN ready = DOMAIN records \ (Redis!Reserving \cup Redis!FailedIds)
  BY <1>1, <1>2 DEF KeyInv
<1>7. Redis!Reserving \cap Redis!FailedIds = {}
  BY <1>1, <1>2 DEF KeyInv
<1>8. /\ \A j \in DOMAIN ready : ready[j] = records[j].available
      /\ \A j \in DOMAIN reserved : reserved[j] = records[j].until
  BY DEF KeyInv
<1>9. QED
  BY <1>3, <1>4, <1>5, <1>6, <1>7, <1>8 DEF Redis!IndexesAgree

\* The contract's record of every job.
LEMMA StoredRecords ==
  ASSUME NEW j \in Jobs
  PROVE  Redis!stored[j] = IF j \in DOMAIN records THEN Encoded(records[j]) ELSE Absent
BY DEF Redis!stored, Encoded, Failing, Absent

\* A script leaves the keys of job k as they were.
Untouched(k) ==
  /\ k \in DOMAIN records' <=> k \in DOMAIN records
  /\ k \in DOMAIN ready' <=> k \in DOMAIN ready
  /\ k \in DOMAIN reserved' <=> k \in DOMAIN reserved
  /\ k \in DOMAIN failed' <=> k \in DOMAIN failed
  /\ k \in payloads' <=> k \in payloads
  /\ k \in DOMAIN records => records'[k] = records[k]
  /\ k \in DOMAIN ready => ready'[k] = ready[k]
  /\ k \in DOMAIN reserved => reserved'[k] = reserved[k]

\* Then they still agree about it.
LEMMA UntouchedKeys ==
  ASSUME NEW k, KeyInv(k), Untouched(k)
  PROVE  KeyInv(k)'
BY DEF KeyInv, Untouched

\* A script that is about one job.
LEMMA OneJob ==
  ASSUME RedisInv, NEW j \in Jobs, \A k : k # j => Untouched(k), KeyInv(j)',
         DOMAIN records' \subseteq DOMAIN records \cup {j},
         records' \in [DOMAIN records' -> RedisRecord],
         record' = Redis!stored'
  PROVE  /\ KeyTypeOK' /\ \A k : KeyInv(k)'
         /\ record \in [Jobs -> Record] /\ record' = [record EXCEPT ![j] = record'[j]]
         /\ record[j] = (IF j \in DOMAIN records THEN Encoded(records[j]) ELSE Absent)
         /\ record'[j] = (IF j \in DOMAIN records' THEN Encoded(records'[j]) ELSE Absent)
<1>1. \A k : KeyInv(k)'
  BY UntouchedKeys DEF RedisInv
<1>2. DOMAIN records \subseteq Jobs /\ IsFiniteSet(DOMAIN records) /\ record \in [Jobs -> Record] /\ record = Redis!stored
  BY DEF RedisInv, KeyTypeOK, TypeOK
<1>3. IsFiniteSet(DOMAIN records')
  <2>1. IsFiniteSet(DOMAIN records \cup {j})
    BY <1>2, FS_AddElement
  <2>2. QED
    BY <2>1, FS_Subset
<1>4. KeyTypeOK'
  BY <1>2, <1>3 DEF KeyTypeOK
<1>5. \A k \in Jobs : record[k] = IF k \in DOMAIN records THEN Encoded(records[k]) ELSE Absent
  BY <1>2, StoredRecords
<1>6. \A k \in Jobs : record'[k] = IF k \in DOMAIN records' THEN Encoded(records'[k]) ELSE Absent
  BY DEF Redis!stored, Encoded, Failing, Absent
<1>7. record' \in [Jobs -> {record'[k] : k \in Jobs}]
  BY DEF Redis!stored
<1>8. \A k \in Jobs : k # j => record'[k] = record[k]
  BY <1>5, <1>6 DEF Untouched
<1>9. record' = [record EXCEPT ![j] = record'[j]]
  BY <1>2, <1>7, <1>8
<1>10. QED
  BY <1>1, <1>2, <1>4, <1>5, <1>6, <1>9

\* What a step of the Redis store is for the contract, and what it keeps.
Agrees == [Next]_vars /\ KeyTypeOK' /\ (\A k : KeyInv(k)') /\ granted' \subseteq issued'

\* A new job.
LEMMA RedisEnqueues ==
  ASSUME RedisInv, record' = Redis!stored', NEW j \in Jobs, NEW at \in Clock, Redis!Enqueue(j, at)
  PROVE  Agrees
<1>1. /\ j \notin DOMAIN records /\ j \notin payloads /\ generation[j] < MaxResets
      /\ records' = Redis!Put(records, j, Redis!Fresh(at)) /\ payloads' = payloads \cup {j}
      /\ ready' = Redis!Put(ready, j, at) /\ generation' = [generation EXCEPT ![j] = @ + 1]
      /\ UNCHANGED <<reserved, failed, granted, issued>>
  BY DEF Redis!Enqueue
<1>2. PICK fresh \in RedisRecord : /\ fresh = Redis!Fresh(at) /\ ~Failing(fresh) /\ fresh.token = NoToken
                                   /\ fresh.available = at /\ Encoded(fresh) = Fresh(at)
  <2>1. PICK fresh : fresh = Redis!Fresh(at)
    OBVIOUS
  <2>2. fresh \in RedisRecord /\ ~Failing(fresh) /\ fresh.token = NoToken /\ fresh.available = at
    BY <2>1, StoreAssumption DEF Redis!Fresh, RedisRecord, Failing, Clock
  <2>3. Encoded(fresh) = Fresh(at)
    BY <2>1, <2>2 DEF Redis!Fresh, Encoded, Fresh
  <2>4. QED
    BY <2>1, <2>2, <2>3
<1>3. /\ DOMAIN records' = DOMAIN records \cup {j} /\ records'[j] = fresh
      /\ \A k \in DOMAIN records : records'[k] = records[k]
      /\ DOMAIN ready' = DOMAIN ready \cup {j} /\ ready'[j] = at
      /\ \A k \in DOMAIN ready : k # j => ready'[k] = ready[k]
  BY <1>1, <1>2 DEF Redis!Put, Redis!Del
<1>4. \A k : k # j => Untouched(k)
  BY <1>1, <1>3 DEF Untouched
<1>5. KeyInv(j)'
  BY <1>1, <1>2, <1>3 DEF KeyInv, RedisInv
<1>6. records' \in [DOMAIN records' -> RedisRecord]
  BY <1>1, <1>2, <1>3 DEF RedisInv, KeyTypeOK, Redis!Put
<1>7. /\ KeyTypeOK' /\ \A k : KeyInv(k)'
      /\ record \in [Jobs -> Record] /\ record' = [record EXCEPT ![j] = record'[j]]
      /\ record[j] = Absent /\ record'[j] = Fresh(at)
  BY <1>1, <1>2, <1>3, <1>4, <1>5, <1>6, OneJob
<1>8. Enqueue(j, at)
  BY <1>1, <1>7 DEF Enqueue, Absent
<1>9. QED
  BY <1>1, <1>7, <1>8 DEF Agrees, Next, RedisInv

\* A failed job that is tried again.
LEMMA RedisRetries ==
  ASSUME RedisInv, record' = Redis!stored', NEW j \in Jobs, NEW at \in Clock, Redis!RetryFailed(j, at)
  PROVE  Agrees
<1>1. /\ j \in DOMAIN records /\ Failing(records[j]) /\ generation[j] < MaxResets
      /\ records' = [records EXCEPT ![j] = Redis!Fresh(at)] /\ failed' = Redis!Del(failed, {j})
      /\ ready' = Redis!Put(ready, j, at) /\ generation' = [generation EXCEPT ![j] = @ + 1]
      /\ UNCHANGED <<payloads, reserved, granted, issued>>
  BY DEF Redis!RetryFailed, Failing
<1>2. PICK fresh \in RedisRecord : /\ fresh = Redis!Fresh(at) /\ ~Failing(fresh) /\ fresh.token = NoToken
                                   /\ fresh.available = at /\ Encoded(fresh) = Fresh(at)
  <2>1. PICK fresh : fresh = Redis!Fresh(at)
    OBVIOUS
  <2>2. fresh \in RedisRecord /\ ~Failing(fresh) /\ fresh.token = NoToken /\ fresh.available = at
    BY <2>1, StoreAssumption DEF Redis!Fresh, RedisRecord, Failing, Clock
  <2>3. Encoded(fresh) = Fresh(at)
    BY <2>1, <2>2 DEF Redis!Fresh, Encoded, Fresh
  <2>4. QED
    BY <2>1, <2>2, <2>3
<1>3. /\ DOMAIN records' = DOMAIN records /\ records'[j] = fresh
      /\ \A k \in DOMAIN records : k # j => records'[k] = records[k]
      /\ records' \in [DOMAIN records' -> RedisRecord]
  BY <1>1, <1>2 DEF RedisInv, KeyTypeOK
<1>4. /\ DOMAIN ready' = DOMAIN ready \cup {j} /\ ready'[j] = at
      /\ \A k \in DOMAIN ready : k # j => ready'[k] = ready[k]
      /\ DOMAIN failed' = DOMAIN failed \ {j}
  BY <1>1 DEF Redis!Put, Redis!Del
<1>5. \A k : k # j => Untouched(k)
  BY <1>1, <1>3, <1>4 DEF Untouched
<1>6. KeyInv(j) /\ KeyInv(j)'
  BY <1>1, <1>2, <1>3, <1>4 DEF KeyInv, RedisInv
<1>7. /\ KeyTypeOK' /\ \A k : KeyInv(k)'
      /\ record \in [Jobs -> Record] /\ record' = [record EXCEPT ![j] = record'[j]]
      /\ record[j] = Encoded(records[j]) /\ record'[j] = Fresh(at)
  BY <1>1, <1>2, <1>3, <1>5, <1>6, OneJob
<1>8. record[j].phase = "failed"
  BY <1>1, <1>7 DEF Encoded
<1>9. RetryFailed(j, at)
  BY <1>1, <1>7, <1>8 DEF RetryFailed
<1>10. QED
  BY <1>1, <1>7, <1>9 DEF Agrees, Next, RedisInv

\* A job that goes, completed or forgotten.
LEMMA RedisRemoves ==
  ASSUME RedisInv, record' = Redis!stored', NEW j \in Jobs, Redis!Remove(j)
  PROVE  /\ KeyTypeOK' /\ \A k : KeyInv(k)'
         /\ record' = [record EXCEPT ![j] = Absent]
         /\ UNCHANGED <<granted, issued, generation>>
<1>1. /\ records' = Redis!Del(records, {j}) /\ payloads' = payloads \ {j}
      /\ ready' = Redis!Del(ready, {j}) /\ reserved' = Redis!Del(reserved, {j})
      /\ failed' = Redis!Del(failed, {j}) /\ UNCHANGED <<granted, issued, generation>>
  BY DEF Redis!Remove
<1>2. /\ DOMAIN records' = DOMAIN records \ {j} /\ \A k \in DOMAIN records' : records'[k] = records[k]
      /\ DOMAIN ready' = DOMAIN ready \ {j} /\ \A k \in DOMAIN ready' : ready'[k] = ready[k]
      /\ DOMAIN reserved' = DOMAIN reserved \ {j} /\ \A k \in DOMAIN reserved' : reserved'[k] = reserved[k]
      /\ DOMAIN failed' = DOMAIN failed \ {j}
  BY <1>1 DEF Redis!Put, Redis!Del
<1>3. \A k : k # j => Untouched(k)
  BY <1>1, <1>2 DEF Untouched
<1>4. KeyInv(j)'
  BY <1>1, <1>2 DEF KeyInv
<1>5. records' \in [DOMAIN records' -> RedisRecord]
  BY <1>1, <1>2 DEF RedisInv, KeyTypeOK, Redis!Del
<1>6. /\ KeyTypeOK' /\ \A k : KeyInv(k)'
      /\ record' = [record EXCEPT ![j] = record'[j]] /\ record'[j] = Absent
  BY <1>2, <1>3, <1>4, <1>5, OneJob
<1>7. QED
  BY <1>1, <1>6

\* A holder finishes its job; a failed job is forgotten.
LEMMA RedisFinishes ==
  ASSUME RedisInv, record' = Redis!stored',
         \/ \E r \in granted, at \in Clock : Redis!Release(r, at)
         \/ \E r \in granted : Redis!Complete(r)
         \/ \E r \in granted, at \in Clock : Redis!Fail(r, at)
         \/ \E j \in Jobs : Redis!ForgetFailed(j)
  PROVE  Agrees
<1>1. /\ TypeOK /\ granted \subseteq issued /\ record \in [Jobs -> Record]
      /\ \A r \in granted : r \in issued /\ r.job \in Jobs /\ r.token \in Tokens /\ r.token # NoToken
  BY StoreAssumption DEF RedisInv, TypeOK, Reservation
<1>2. \A j \in Jobs : record[j] = IF j \in DOMAIN records THEN Encoded(records[j]) ELSE Absent
  BY StoredRecords DEF RedisInv
<1>3. ASSUME NEW r \in granted, Redis!Holds(r)
      PROVE  r.job \in DOMAIN records /\ records[r.job].token = r.token /\ Holds(r) /\ records[r.job] \in RedisRecord
  <2>1. r.job \in DOMAIN records /\ records[r.job].token = r.token
    BY <1>3 DEF Redis!Holds
  <2>2. record[r.job].token = r.token
    BY <1>1, <1>2, <2>1 DEF Encoded
  <2>3. QED
    BY <2>1, <2>2 DEF Holds, RedisInv, KeyTypeOK
<1>4. ASSUME NEW r \in granted, NEW at \in Clock, Redis!Release(r, at)  PROVE Agrees
  <2>1. PICK j \in Jobs : j = r.job
    BY <1>1
  <2>2. /\ j \in DOMAIN records /\ records[j].token = r.token /\ Holds(r) /\ records[j] \in RedisRecord
        /\ records' = [records EXCEPT ![j] = Postponed(records[j], at)]
        /\ reserved' = Redis!Del(reserved, {j}) /\ ready' = Redis!Put(ready, j, at)
        /\ UNCHANGED <<payloads, failed, granted, issued, generation>>
    BY <1>3, <1>4, <2>1 DEF Redis!Release, Postponed
  <2>3. PICK new \in RedisRecord : /\ new = Postponed(records[j], at) /\ (Failing(new) <=> Failing(records[j]))
                                   /\ new.token = NoToken /\ new.available = at
                                   /\ Encoded(new) = Released(Encoded(records[j]), at)
    <3>1. PICK rec \in RedisRecord : rec = records[j]
      BY <2>2
    <3>2. at \in Nat /\ r.token \in Tokens
      BY <1>1, StoreAssumption DEF Clock
    <3>3. /\ Postponed(rec, at) \in RedisRecord /\ (Failing(Postponed(rec, at)) <=> Failing(rec))
          /\ Postponed(rec, at).token = NoToken /\ Postponed(rec, at).available = at
          /\ Encoded(Postponed(rec, at)) = Released(Encoded(rec), at)
      BY <3>2, RedisRecords
    <3>4. QED
      BY <3>1, <3>3
  <2>4. /\ DOMAIN records' = DOMAIN records /\ records'[j] = new
        /\ \A k \in DOMAIN records : k # j => records'[k] = records[k]
        /\ records' \in [DOMAIN records' -> RedisRecord]
    BY <2>2, <2>3 DEF RedisInv, KeyTypeOK
  <2>5. /\ DOMAIN ready' = DOMAIN ready \cup {j} /\ ready'[j] = at
        /\ \A k \in DOMAIN ready : k # j => ready'[k] = ready[k]
        /\ DOMAIN reserved' = DOMAIN reserved \ {j} /\ \A k \in DOMAIN reserved' : reserved'[k] = reserved[k]
    BY <2>2 DEF Redis!Put, Redis!Del
  <2>6. \A k : k # j => Untouched(k)
    BY <2>2, <2>4, <2>5 DEF Untouched
  <2>7. KeyInv(j)'
    BY <1>1, <2>2, <2>3, <2>4, <2>5 DEF KeyInv, RedisInv
  <2>8. /\ KeyTypeOK' /\ \A k : KeyInv(k)'
        /\ record' = [record EXCEPT ![j] = record'[j]]
        /\ record[j] = Encoded(records[j]) /\ record'[j] = Encoded(new)
    BY <2>2, <2>4, <2>6, <2>7, OneJob
  <2>9. record' = [record EXCEPT ![j] = Released(record[j], at)]
    BY <2>3, <2>8
  <2>10. Release(r, at)
    BY <2>1, <2>2, <2>9 DEF Release
  <2>11. QED
    BY <1>1, <2>2, <2>8, <2>10 DEF Agrees, Next
<1>5. ASSUME NEW r \in granted, NEW at \in Clock, Redis!Fail(r, at)  PROVE Agrees
  <2>1. PICK j \in Jobs : j = r.job
    BY <1>1
  <2>2. /\ j \in DOMAIN records /\ records[j].token = r.token /\ Holds(r) /\ records[j] \in RedisRecord
        /\ records' = [records EXCEPT ![j] = Ended(records[j])]
        /\ reserved' = Redis!Del(reserved, {j}) /\ ready' = Redis!Del(ready, {j})
        /\ failed' = Redis!Put(failed, j, at)
        /\ UNCHANGED <<payloads, granted, issued, generation>>
    BY <1>3, <1>5, <2>1 DEF Redis!Fail, Ended
  <2>3. PICK new \in RedisRecord : /\ new = Ended(records[j]) /\ Failing(new) /\ new.token = NoToken
                                   /\ Encoded(new) = Failed(Encoded(records[j]))
    <3>1. PICK rec \in RedisRecord : rec = records[j]
      BY <2>2
    <3>2. at \in Nat /\ r.token \in Tokens
      BY <1>1, StoreAssumption DEF Clock
    <3>3. /\ Ended(rec) \in RedisRecord /\ Failing(Ended(rec)) /\ Ended(rec).token = NoToken
          /\ Encoded(Ended(rec)) = Failed(Encoded(rec))
      BY <3>2, RedisRecords
    <3>4. QED
      BY <3>1, <3>3
  <2>4. /\ DOMAIN records' = DOMAIN records /\ records'[j] = new
        /\ \A k \in DOMAIN records : k # j => records'[k] = records[k]
        /\ records' \in [DOMAIN records' -> RedisRecord]
    BY <2>2, <2>3 DEF RedisInv, KeyTypeOK
  <2>5. /\ DOMAIN ready' = DOMAIN ready \ {j} /\ \A k \in DOMAIN ready' : ready'[k] = ready[k]
        /\ DOMAIN reserved' = DOMAIN reserved \ {j} /\ \A k \in DOMAIN reserved' : reserved'[k] = reserved[k]
        /\ DOMAIN failed' = DOMAIN failed \cup {j}
    BY <2>2 DEF Redis!Put, Redis!Del
  <2>6. \A k : k # j => Untouched(k)
    BY <2>2, <2>4, <2>5 DEF Untouched
  <2>7. KeyInv(j)'
    BY <1>1, <2>2, <2>3, <2>4, <2>5 DEF KeyInv, RedisInv
  <2>8. /\ KeyTypeOK' /\ \A k : KeyInv(k)'
        /\ record' = [record EXCEPT ![j] = record'[j]]
        /\ record[j] = Encoded(records[j]) /\ record'[j] = Encoded(new)
    BY <2>2, <2>4, <2>6, <2>7, OneJob
  <2>9. record' = [record EXCEPT ![j] = Failed(record[j])]
    BY <2>3, <2>8
  <2>10. Fail(r)
    BY <2>1, <2>2, <2>9 DEF Fail
  <2>11. QED
    BY <1>1, <2>2, <2>8, <2>10 DEF Agrees, Next
<1>6. ASSUME NEW r \in granted, Redis!Complete(r)  PROVE Agrees
  <2>1. Redis!Holds(r) /\ Redis!Remove(r.job) /\ r.job \in Jobs
    BY <1>1, <1>6 DEF Redis!Complete
  <2>2. /\ KeyTypeOK' /\ \A k : KeyInv(k)'
        /\ record' = [record EXCEPT ![r.job] = Absent]
        /\ UNCHANGED <<granted, issued, generation>>
    BY <2>1, RedisRemoves
  <2>3. Complete(r)
    BY <1>3, <2>1, <2>2 DEF Complete
  <2>4. QED
    BY <1>1, <2>2, <2>3 DEF Agrees, Next
<1>7. ASSUME NEW j \in Jobs, Redis!ForgetFailed(j)  PROVE Agrees
  <2>1. j \in DOMAIN records /\ Failing(records[j]) /\ Redis!Remove(j)
    BY <1>7 DEF Redis!ForgetFailed, Failing
  <2>2. /\ KeyTypeOK' /\ \A k : KeyInv(k)'
        /\ record' = [record EXCEPT ![j] = Absent]
        /\ UNCHANGED <<granted, issued, generation>>
    BY <2>1, RedisRemoves
  <2>3. record[j].phase = "failed"
    <3>1. record[j] = Encoded(records[j])
      BY <1>2, <2>1
    <3>2. QED
      BY <2>1, <3>1 DEF Encoded
  <2>4. ForgetFailed(j)
    BY <2>2, <2>3 DEF ForgetFailed
  <2>5. QED
    BY <1>1, <2>2, <2>4 DEF Agrees, Next
<1>8. QED
  BY <1>4, <1>5, <1>6, <1>7

\* The fields that both records have.
LEMMA EncodedFields ==
  ASSUME NEW rec
  PROVE  /\ Encoded(rec).available = rec.available /\ Encoded(rec).attempts = rec.attempts
         /\ Encoded(rec).token = rec.token /\ Encoded(rec).until = rec.until
BY DEF Encoded

\* What a script finds among the reserved jobs: no stray member, and the lapsed ones hold
\* a lease that has run out.
LEMMA RedisLapsed ==
  ASSUME RedisInv, NEW at \in Clock
  PROVE  /\ Redis!Stray(at) = {}
         /\ \A k \in Redis!Batch(at) : k \in DOMAIN reserved /\ reserved[k] <= at
         /\ Redis!Lapsed(at) = Redis!Batch(at)
         /\ \A k \in Redis!Lapsed(at) : /\ k \in DOMAIN records /\ records[k].token # NoToken
                                        /\ records[k].until <= at /\ ~Failing(records[k])
<1>1. \A k \in Redis!Batch(at) : k \in DOMAIN reserved /\ reserved[k] <= at
  BY DEF Redis!Batch
<1>2. \A k \in DOMAIN reserved : /\ k \in DOMAIN records /\ records[k].token # NoToken
                                 /\ ~Failing(records[k]) /\ reserved[k] = records[k].until
  BY DEF RedisInv, KeyInv
<1>3. Redis!Stray(at) = {}
  BY <1>1, <1>2 DEF Redis!Stray
<1>4. Redis!Lapsed(at) = Redis!Batch(at)
  BY <1>1, <1>2, <1>3 DEF Redis!Lapsed
<1>5. QED
  BY <1>1, <1>2, <1>3, <1>4

\* The ready jobs after recovery, and the first of them.
LEMMA RedisReady ==
  ASSUME RedisInv, NEW at \in Clock, NEW now, now = Redis!RecoveredReady(at)
  PROVE  /\ DOMAIN now = DOMAIN ready \cup Redis!Lapsed(at) /\ DOMAIN now \subseteq DOMAIN records
         /\ \A k \in DOMAIN now : now[k] = records[k].available /\ now[k] \in Nat
         /\ DOMAIN now # {} => Redis!FirstIn(now) \in DOMAIN now
         /\ DOMAIN now # {} => \A k \in DOMAIN now : now[Redis!FirstIn(now)] <= now[k]
<1>1. PICK L : L = Redis!Lapsed(at)
  OBVIOUS
<1>2. now = [j \in DOMAIN ready \cup L |-> IF j \in L THEN records[j].available ELSE ready[j]]
  BY <1>1 DEF Redis!RecoveredReady
<1>3. \A k \in DOMAIN ready : k \in DOMAIN records /\ ready[k] = records[k].available
  BY DEF RedisInv, KeyInv
<1>4. \A k \in L : k \in DOMAIN records
  BY <1>1, RedisLapsed
<1>5. \A k \in DOMAIN records : records[k].available \in Nat
  BY DEF RedisInv, KeyTypeOK, RedisRecord
<1>6. /\ DOMAIN now = DOMAIN ready \cup L /\ DOMAIN now \subseteq DOMAIN records
      /\ \A k \in DOMAIN now : now[k] = records[k].available /\ now[k] \in Nat
  BY <1>2, <1>3, <1>4, <1>5
<1>7. DOMAIN now \in SUBSET Nat
  BY <1>6, BackendAssumptions DEF Redis!RedisAssumption, RedisInv, KeyTypeOK
<1>8. ASSUME DOMAIN now # {}
      PROVE  Redis!FirstIn(now) \in DOMAIN now /\ \A k \in DOMAIN now : now[Redis!FirstIn(now)] <= now[k]
  <2>1. PICK j \in DOMAIN now : \A k \in DOMAIN now : now[j] < now[k] \/ (now[j] = now[k] /\ j <= k)
    BY <1>6, <1>7, <1>8, FirstByTime
  <2>2. \A k \in DOMAIN now \ {j} : Redis!Before(now, j, k)
    BY <1>7, <2>1 DEF Redis!Before
  <2>3. \E i \in DOMAIN now : \A k \in DOMAIN now \ {i} : Redis!Before(now, i, k)
    BY <2>2
  <2>4. PICK i : i = Redis!FirstIn(now)
    OBVIOUS
  <2>5. i \in DOMAIN now /\ \A k \in DOMAIN now \ {i} : Redis!Before(now, i, k)
    BY <2>3, <2>4 DEF Redis!FirstIn
  <2>6. \A k \in DOMAIN now : now[i] <= now[k]
    BY <1>6, <2>5 DEF Redis!Before
  <2>7. QED
    BY <2>4, <2>5, <2>6
<1>9. QED
  BY <1>1, <1>6, <1>8

\* A script that takes lapsed jobs back and reserves the first job that is ready.
LEMMA RedisReserves ==
  ASSUME RedisInv, record' = Redis!stored', NEW at \in Clock, NEW token \in Tokens, Redis!Reserve(at, token)
  PROVE  Agrees
<1>1. PICK now : now = Redis!RecoveredReady(at)
  OBVIOUS
<1>2. PICK j : j = Redis!FirstIn(now)
  OBVIOUS
<1>3. PICK recs : recs = Redis!RecoveredRecords(at)
  OBVIOUS
<1>4. PICK L : L = Redis!Lapsed(at)
  OBVIOUS
<1>5. PICK until \in Nat : until = at + Lease
  BY StoreAssumption DEF Clock
<1>6. PICK r : r = [job |-> j, token |-> token, attempt |-> recs[j].attempts + 1,
                    generation |-> generation[j], until |-> until]
  OBVIOUS
<1>7. /\ token \notin UsedTokens /\ Redis!Outcome(at) = "reserved"
      /\ records' = [recs EXCEPT ![j] = Taken(recs[j], token, until)]
      /\ ready' = Redis!Del(now, {j})
      /\ reserved' = Redis!Put(Redis!RecoveredReserved(at), j, until)
      /\ issued' = issued \cup {r} /\ granted' \in {granted, granted \cup {r}}
      /\ UNCHANGED <<payloads, failed, generation>>
  BY <1>1, <1>2, <1>3, <1>5, <1>6 DEF Redis!Reserve, Taken, UsedTokens
<1>8. DOMAIN now # {} /\ ~(now[j] > at)
  BY <1>1, <1>2, <1>7 DEF Redis!Outcome
<1>9. /\ DOMAIN now = DOMAIN ready \cup L /\ j \in DOMAIN now /\ DOMAIN now \subseteq DOMAIN records
      /\ \A k \in DOMAIN now : now[k] = records[k].available /\ now[k] \in Nat
  BY <1>1, <1>2, <1>4, <1>8, RedisReady
<1>10. \A k \in L : /\ k \in DOMAIN records /\ records[k].token # NoToken
                    /\ records[k].until <= at /\ ~Failing(records[k])
  BY <1>4, RedisLapsed
<1>11. /\ DOMAIN records \subseteq Jobs /\ records \in [DOMAIN records -> RedisRecord]
       /\ TypeOK /\ granted \subseteq issued /\ \A k : KeyInv(k)
  BY DEF RedisInv, KeyTypeOK
<1>12. /\ DOMAIN recs = DOMAIN records
       /\ \A k \in DOMAIN records : recs[k] = IF k \in L THEN Redis!Unreserved(records[k]) ELSE records[k]
  BY <1>3, <1>4 DEF Redis!RecoveredRecords
<1>13. \A k \in DOMAIN records :
         /\ recs[k] \in RedisRecord /\ (Failing(recs[k]) <=> Failing(records[k]))
         /\ recs[k].available = records[k].available /\ recs[k].attempts = records[k].attempts
         /\ k \in L => recs[k].token = NoToken /\ Encoded(recs[k]) = Recovered(Encoded(records[k]))
  <2>1. SUFFICES ASSUME NEW k \in DOMAIN records
                 PROVE  /\ recs[k] \in RedisRecord /\ (Failing(recs[k]) <=> Failing(records[k]))
                        /\ recs[k].available = records[k].available /\ recs[k].attempts = records[k].attempts
                        /\ k \in L => recs[k].token = NoToken /\ Encoded(recs[k]) = Recovered(Encoded(records[k]))
    OBVIOUS
  <2>2. PICK rec \in RedisRecord : rec = records[k]
    BY <1>11
  <2>3. /\ Redis!Unreserved(rec) \in RedisRecord /\ (Failing(Redis!Unreserved(rec)) <=> Failing(rec))
        /\ Redis!Unreserved(rec).token = NoToken /\ Redis!Unreserved(rec).available = rec.available
        /\ Redis!Unreserved(rec).attempts = rec.attempts
        /\ Encoded(Redis!Unreserved(rec)) = Recovered(Encoded(rec))
    BY <1>5, RedisRecords
  <2>4. QED
    BY <1>12, <2>2, <2>3
<1>14. j \in Jobs /\ j \in DOMAIN records /\ records[j].available <= at
  <2>1. now[j] = records[j].available /\ now[j] \in Nat /\ at \in Nat
    BY <1>9, StoreAssumption DEF Clock
  <2>2. QED
    BY <1>8, <1>9, <1>11, <2>1
<1>15. ~Failing(records[j]) /\ (records[j].token = NoToken \/ records[j].until <= at)
  BY <1>9, <1>10, <1>11 DEF KeyInv
<1>16. PICK new \in RedisRecord : /\ new = Taken(recs[j], token, until) /\ (Failing(new) <=> Failing(recs[j]))
                                  /\ new.token = token /\ new.until = until
                                  /\ Encoded(new) = Reserved(Encoded(recs[j]), token, until)
  <2>1. PICK rec \in RedisRecord : rec = recs[j]
    BY <1>13, <1>14
  <2>2. /\ Taken(rec, token, until) \in RedisRecord /\ (Failing(Taken(rec, token, until)) <=> Failing(rec))
        /\ Taken(rec, token, until).token = token /\ Taken(rec, token, until).until = until
        /\ Encoded(Taken(rec, token, until)) = Reserved(Encoded(rec), token, until)
    BY RedisRecords
  <2>3. QED
    BY <2>1, <2>2
<1>17. /\ DOMAIN records' = DOMAIN records /\ records'[j] = new
       /\ \A k \in DOMAIN records : k # j => records'[k] = recs[k]
  <2>1. records' = [k \in DOMAIN recs |-> IF k = j THEN new ELSE recs[k]]
    BY <1>7, <1>16
  <2>2. QED
    BY <1>12, <1>14, <2>1
<1>18. /\ DOMAIN ready' = (DOMAIN ready \cup L) \ {j}
       /\ \A k \in DOMAIN ready' : ready'[k] = records[k].available
  BY <1>7, <1>9 DEF Redis!Del
<1>19. /\ DOMAIN reserved' = (DOMAIN reserved \ L) \cup {j} /\ reserved'[j] = until
       /\ \A k \in DOMAIN reserved \ L : k # j => reserved'[k] = reserved[k]
  <2>1. PICK rest : rest = Redis!RecoveredReserved(at)
    OBVIOUS
  <2>2. Redis!Stray(at) \cup Redis!Lapsed(at) = L
    BY <1>4, RedisLapsed
  <2>3. rest = [k \in DOMAIN reserved \ L |-> reserved[k]]
    BY <2>1, <2>2 DEF Redis!RecoveredReserved, Redis!Del
  <2>4. reserved' = [k \in DOMAIN rest \cup {j} |-> IF k = j THEN until ELSE rest[k]]
    BY <1>7, <2>1 DEF Redis!Put
  <2>5. QED
    BY <2>3, <2>4
<1>20. token # NoToken
  BY StoreAssumption
<1>21. ASSUME NEW k  PROVE KeyInv(k)'
  <2>1. KeyInv(k) /\ (k \in payloads' <=> k \in payloads) /\ (k \in DOMAIN failed' <=> k \in DOMAIN failed)
    BY <1>7, <1>11
  <2>2. CASE k = j
    BY <1>13, <1>14, <1>15, <1>16, <1>17, <1>18, <1>19, <1>20, <2>1, <2>2 DEF KeyInv
  <2>3. CASE k # j /\ k \in L
    BY <1>10, <1>13, <1>17, <1>18, <1>19, <2>1, <2>3 DEF KeyInv
  <2>4. CASE k # j /\ k \notin L
    <3>1. Untouched(k)
      BY <1>12, <1>17, <1>18, <1>19, <2>1, <2>4 DEF Untouched, KeyInv
    <3>2. QED
      BY <2>1, <3>1, UntouchedKeys
  <2>5. QED
    BY <2>2, <2>3, <2>4
<1>22. KeyTypeOK'
  <2>1. records' = [k \in DOMAIN records |-> records'[k]]
    BY <1>7, <1>12
  <2>2. \A k \in DOMAIN records : records'[k] \in RedisRecord
    BY <1>13, <1>16, <1>17
  <2>3. IsFiniteSet(DOMAIN records)
    BY DEF RedisInv, KeyTypeOK
  <2>4. QED
    BY <1>11, <1>17, <2>1, <2>2, <2>3 DEF KeyTypeOK
<1>23. \A k \in Jobs : record[k] = IF k \in DOMAIN records THEN Encoded(records[k]) ELSE Absent
  BY StoredRecords DEF RedisInv
<1>24. \A k \in Jobs : record'[k] = IF k \in DOMAIN records' THEN Encoded(records'[k]) ELSE Absent
  BY DEF Redis!stored, Encoded, Failing, Absent
<1>25. Encoded(new) = Reserved(record[j], token, at + Lease)
  <2>1. record[j] = Encoded(records[j])
    BY <1>14, <1>23
  <2>2. Reserved(Encoded(recs[j]), token, until) = Reserved(Encoded(records[j]), token, until)
    BY <1>13, <1>14 DEF Encoded, Reserved
  <2>3. QED
    BY <1>5, <1>16, <2>1, <2>2
<1>26. record' = [k \in Jobs |-> IF k = j THEN Reserved(record[k], token, at + Lease)
                                 ELSE IF k \in L \ {j} THEN Recovered(record[k]) ELSE record[k]]
  <2>1. record' = [k \in Jobs |-> record'[k]]
    BY DEF Redis!stored
  <2>2. \A k \in Jobs : record'[k] = IF k = j THEN Reserved(record[k], token, at + Lease)
                                     ELSE IF k \in L \ {j} THEN Recovered(record[k]) ELSE record[k]
    BY <1>10, <1>12, <1>13, <1>14, <1>17, <1>23, <1>24, <1>25
  <2>3. QED
    BY <2>1, <2>2
<1>27. Eligible(j, at)
  <2>1. record[j] = Encoded(records[j])
    BY <1>14, <1>23
  <2>2. QED
    BY <1>14, <1>15, <2>1 DEF Eligible, Encoded
<1>28. L \ {j} \subseteq Expired(j, at)
  <2>1. \A k \in L : k \in Jobs /\ record[k] = Encoded(records[k])
    BY <1>10, <1>11, <1>23
  <2>2. \A k \in L : record[k].token # NoToken /\ record[k].until <= at
    BY <1>10, <2>1, EncodedFields
  <2>3. QED
    BY <2>1, <2>2 DEF Expired
<1>29. r = [job |-> j, token |-> token, attempt |-> record[j].attempts + 1,
            generation |-> generation[j], until |-> at + Lease]
  <2>1. record[j].attempts = recs[j].attempts
    <3>1. record[j] = Encoded(records[j])
      BY <1>14, <1>23
    <3>2. QED
      BY <1>13, <1>14, <3>1, EncodedFields
  <2>2. QED
    BY <1>5, <1>6, <2>1
<1>30. Reserve(j, at, token, L \ {j})
  BY <1>7, <1>26, <1>27, <1>28, <1>29 DEF Reserve
<1>31. Next
  <2>1. L \ {j} \in SUBSET Expired(j, at)
    BY <1>28
  <2>2. QED
    BY <1>14, <1>30, <2>1 DEF Next
<1>32. granted' \subseteq issued'
  BY <1>7, <1>11
<1>33. QED
  BY <1>21, <1>22, <1>31, <1>32 DEF Agrees

\* The instance's cardinality is the cardinality that the theorems are about.
LEMMA SameCardinality ==
  ASSUME NEW S
  PROVE  Redis!Cardinality(S) = Cardinality(S)
BY DEF Redis!Cardinality, Cardinality

\* The first n members of a sorted set: either all of them or n of them.
LEMMA FirstMembers ==
  ASSUME NEW D \in SUBSET Nat, IsFiniteSet(D), NEW time, \A j \in D : time[j] \in Nat,
         NEW n \in Nat \ {0}, NEW B,
         B = {j \in D : Redis!Cardinality({k \in D : Redis!Before(time, k, j)}) < n}, B # D
  PROVE  Redis!Cardinality(B) = n
<1>1. PICK P : P = [j \in D |-> {k \in D : Redis!Before(time, k, j)}]
  OBVIOUS
<1>2. \A j, k \in D : k \in P[j] <=> time[k] < time[j] \/ (time[k] = time[j] /\ k < j)
  BY <1>1 DEF Redis!Before
<1>3. \A j \in D : P[j] \subseteq D
  BY <1>1
<1>4. PICK c : c = [j \in D |-> Cardinality(P[j])]
  OBVIOUS
<1>5. \A j \in D : IsFiniteSet(P[j]) /\ c[j] = Cardinality(P[j]) /\ c[j] \in Nat
  <2>1. \A j \in D : IsFiniteSet(P[j])
    BY <1>3, FS_Subset
  <2>2. QED
    BY <1>4, <2>1, FS_CardinalityType
<1>6. B \subseteq D /\ \A j \in D : j \in B <=> c[j] < n
  <2>1. \A j \in D : c[j] = Redis!Cardinality({k \in D : Redis!Before(time, k, j)})
    BY <1>1, <1>5, SameCardinality
  <2>2. QED
    BY <2>1
<1>7. \A j, k \in D : k \in P[j] => c[k] < c[j]
  <2>1. SUFFICES ASSUME NEW j \in D, NEW k \in D, k \in P[j]  PROVE c[k] < c[j]
    OBVIOUS
  <2>2. time[k] < time[j] \/ (time[k] = time[j] /\ k < j)
    BY <1>2, <2>1
  <2>3. ASSUME NEW i \in P[k]  PROVE i \in P[j]
    <3>1. i \in D /\ (time[i] < time[k] \/ (time[i] = time[k] /\ i < k))
      BY <1>2, <1>3, <2>3
    <3>2. i \in Nat /\ j \in Nat /\ k \in Nat /\ time[i] \in Nat /\ time[j] \in Nat /\ time[k] \in Nat
      BY <3>1
    <3>3. time[i] < time[j] \/ (time[i] = time[j] /\ i < j)
      BY <2>2, <3>1, <3>2
    <3>4. QED
      BY <1>2, <3>1, <3>3
  <2>4. k \notin P[k]
    <3>1. ~(time[k] < time[k]) /\ ~(k < k)
      BY k \in Nat, time[k] \in Nat
    <3>2. QED
      BY <1>2, <3>1
  <2>5. PICK Q : Q = P[k]
    OBVIOUS
  <2>6. IsFiniteSet(Q \cup {k}) /\ Cardinality(Q \cup {k}) = c[k] + 1
    <3>1. IsFiniteSet(Q) /\ Cardinality(Q) = c[k] /\ k \notin Q
      BY <1>5, <2>4, <2>5
    <3>2. QED
      BY <3>1, FS_AddElement
  <2>7. Q \cup {k} \in SUBSET P[j]
    BY <2>1, <2>3, <2>5
  <2>8. Cardinality(Q \cup {k}) <= Cardinality(P[j])
    BY <1>5, <2>7, FS_Subset
  <2>9. c[j] = Cardinality(P[j]) /\ c[j] \in Nat /\ c[k] \in Nat
    BY <1>5, <2>1
  <2>10. QED
    BY <2>6, <2>8, <2>9
<1>8. IsFiniteSet(B) /\ Cardinality(B) \in Nat
  BY <1>6, FS_Subset, FS_CardinalityType
<1>9. n <= Cardinality(B)
  <2>1. PICK U : U = D \ B
    OBVIOUS
  <2>2. U \in SUBSET Nat /\ U # {} /\ \A j \in U : time[j] \in Nat
    BY <1>6, <2>1
  <2>3. PICK x \in U : \A k \in U : time[x] < time[k] \/ (time[x] = time[k] /\ x <= k)
    BY <2>2, FirstByTime
  <2>4. x \in D /\ n <= c[x]
    BY <1>5, <1>6, <2>1, <2>3
  <2>5. ASSUME NEW k \in P[x]  PROVE k \in B
    <3>1. k \in D /\ (time[k] < time[x] \/ (time[k] = time[x] /\ k < x))
      BY <1>2, <1>3, <2>4, <2>5
    <3>2. k \in Nat /\ x \in Nat /\ time[k] \in Nat /\ time[x] \in Nat
      BY <2>4, <3>1
    <3>3. ~(time[x] < time[k] \/ (time[x] = time[k] /\ x <= k))
      BY <3>1, <3>2
    <3>4. k \notin U
      BY <2>3, <3>3
    <3>5. QED
      BY <2>1, <3>1, <3>4
  <2>6. P[x] \in SUBSET B
    BY <2>5
  <2>7. Cardinality(P[x]) <= Cardinality(B)
    BY <1>8, <2>6, FS_Subset
  <2>8. QED
    BY <1>5, <1>8, <2>4, <2>7
<1>10. Cardinality(B) <= n
  <2>1. B # {}
    <3>1. Cardinality({}) = 0
      BY FS_EmptySet
    <3>2. n <= Cardinality(B) /\ ~(n <= 0)
      BY <1>9
    <3>3. QED
      BY <3>1, <3>2
  <2>2. PICK G : G = {n - c[b] : b \in B}
    OBVIOUS
  <2>3. \A b \in B : b \in D /\ c[b] \in Nat /\ c[b] < n /\ n - c[b] \in Nat
    BY <1>5, <1>6
  <2>4. G \in SUBSET Nat /\ G # {}
    BY <2>1, <2>2, <2>3
  <2>5. PICK m \in G : \A g \in G : m <= g
    BY <2>4, Least
  <2>6. PICK y \in B : m = n - c[y]
    BY <2>2, <2>5
  <2>7. ASSUME NEW b \in B  PROVE b \in P[y] \cup {y}
    <3>1. n - c[b] \in G
      BY <2>2
    <3>2. c[b] <= c[y]
      BY <2>3, <2>5, <2>6, <3>1
    <3>3. y \notin P[b]
      BY <1>7, <2>3, <2>6, <3>2
    <3>4. b \in Nat /\ y \in Nat /\ time[b] \in Nat /\ time[y] \in Nat
      BY <2>3, <2>6
    <3>5. ~(time[y] < time[b] \/ (time[y] = time[b] /\ y < b))
      BY <1>2, <2>3, <2>6, <3>3
    <3>6. b = y \/ time[b] < time[y] \/ (time[b] = time[y] /\ b < y)
      BY <3>4, <3>5
    <3>7. b = y \/ b \in P[y]
      BY <1>2, <2>3, <2>6, <3>6
    <3>8. QED
      BY <3>7
  <2>8. y \notin P[y] /\ y \in D
    BY <1>2, <2>3, <2>6
  <2>9. PICK Q : Q = P[y] \cup {y}
    OBVIOUS
  <2>10. IsFiniteSet(Q) /\ Cardinality(Q) = c[y] + 1
    <3>1. PICK R : R = P[y]
      OBVIOUS
    <3>2. IsFiniteSet(R) /\ Cardinality(R) = c[y] /\ y \notin R
      BY <1>5, <2>8, <3>1
    <3>3. IsFiniteSet(R \cup {y}) /\ Cardinality(R \cup {y}) = c[y] + 1
      BY <3>2, FS_AddElement
    <3>4. QED
      BY <2>9, <3>1, <3>3
  <2>11. Cardinality(B) <= c[y] + 1
    <3>1. B \in SUBSET Q
      BY <2>7, <2>9
    <3>2. Cardinality(B) <= Cardinality(Q)
      BY <2>10, <3>1, FS_Subset
    <3>3. QED
      BY <2>10, <3>2
  <2>12. QED
    BY <1>8, <2>3, <2>6, <2>11
<1>11. QED
  BY <1>8, <1>9, <1>10, SameCardinality

\* The answer "empty" is given when the batch was not full, so every lease that has run
\* out was taken back and the first ready job is the first of all eligible ones.
LEMMA EmptyAnswers ==
  ASSUME RedisInv
  PROVE  Redis!EmptyMeansNothingEligible
<1>1. SUFFICES ASSUME NEW at \in Clock, Redis!Outcome(at) = "empty", NEW j \in DOMAIN records,
                      ~Failing(records[j]), ~(records[j].available > at),
                      ~(records[j].token # NoToken /\ records[j].until > at)
               PROVE  FALSE
  BY DEF Redis!EmptyMeansNothingEligible, Failing, Redis!Clock, Clock
<1>2. PICK now : now = Redis!RecoveredReady(at)
  OBVIOUS
<1>3. PICK D : /\ D = {k \in DOMAIN reserved : reserved[k] <= at}
               /\ Redis!Batch(at) = {k \in D : Redis!Cardinality({i \in D : Redis!Before(reserved, i, k)}) < RecoveryBatch}
  <2> DEFINE due == {k \in DOMAIN reserved : reserved[k] <= at}
  <2>1. Redis!Batch(at) = {k \in due : Redis!Cardinality({i \in due : Redis!Before(reserved, i, k)}) < RecoveryBatch}
    BY DEF Redis!Batch
  <2>2. QED
    BY <2>1
<1>4. PICK B : B = Redis!Batch(at)
  OBVIOUS
<1>5. Redis!Cardinality(B) # RecoveryBatch /\ (DOMAIN now = {} \/ now[Redis!FirstIn(now)] > at)
  <2>1. PICK first : first = Redis!FirstIn(now)
    OBVIOUS
  <2>2. Redis!Outcome(at) \in {"corrupt", "retry", "reserved"}
        \/ (Redis!Cardinality(B) # RecoveryBatch /\ (DOMAIN now = {} \/ now[first] > at))
    BY <1>2, <1>4, <2>1 DEF Redis!Outcome
  <2>3. QED
    BY <1>1, <2>1, <2>2
<1>6. /\ DOMAIN records \subseteq Jobs /\ IsFiniteSet(DOMAIN records) /\ Jobs \subseteq Nat
      /\ RecoveryBatch \in Nat \ {0} /\ at \in Nat
  BY <1>1, StoreAssumption, BackendAssumptions DEF RedisInv, KeyTypeOK, Redis!RedisAssumption, Clock
<1>7. \A k \in DOMAIN records : records[k].until \in Nat /\ records[k].available \in Nat
  BY DEF RedisInv, KeyTypeOK, RedisRecord
<1>8. \A k \in DOMAIN reserved : k \in DOMAIN records /\ reserved[k] = records[k].until
  BY DEF RedisInv, KeyInv
<1>9. D \in SUBSET Nat /\ IsFiniteSet(D) /\ \A k \in D : reserved[k] \in Nat
  <2>1. D \in SUBSET (DOMAIN records)
    BY <1>3, <1>8
  <2>2. IsFiniteSet(D)
    BY <1>6, <2>1, FS_Subset
  <2>3. QED
    BY <1>6, <1>7, <1>8, <1>3, <2>1, <2>2
<1>10. B = {k \in D : Redis!Cardinality({i \in D : Redis!Before(reserved, i, k)}) < RecoveryBatch}
  BY <1>3, <1>4
<1>11. B = D
  BY <1>5, <1>6, <1>9, <1>10, FirstMembers
<1>12. j \in DOMAIN ready \cup B
  <2>1. KeyInv(j)
    BY DEF RedisInv
  <2>2. CASE records[j].token = NoToken
    BY <1>1, <2>1, <2>2 DEF KeyInv
  <2>3. CASE records[j].token # NoToken
    <3>1. j \in DOMAIN reserved /\ reserved[j] = records[j].until
      BY <2>1, <2>3 DEF KeyInv
    <3>2. reserved[j] <= at
      BY <1>1, <1>6, <1>7, <2>3, <3>1
    <3>3. QED
      BY <1>3, <1>11, <3>1, <3>2
  <2>4. QED
    BY <2>2, <2>3
<1>13. /\ DOMAIN now = DOMAIN ready \cup B
       /\ \A k \in DOMAIN now : now[k] = records[k].available /\ now[k] \in Nat
       /\ DOMAIN now # {} => Redis!FirstIn(now) \in DOMAIN now
       /\ DOMAIN now # {} => \A k \in DOMAIN now : now[Redis!FirstIn(now)] <= now[k]
  BY <1>2, <1>4, RedisReady, RedisLapsed
<1>14. now[Redis!FirstIn(now)] <= now[j] /\ now[j] = records[j].available /\ now[Redis!FirstIn(now)] \in Nat
  BY <1>12, <1>13
<1>15. QED
  BY <1>1, <1>5, <1>6, <1>7, <1>12, <1>13, <1>14

\* Every script is a step of the contract and keeps the invariant.
LEMMA RedisStep ==
  ASSUME RedisInv, record' = Redis!stored', Redis!Next
  PROVE  Agrees
<1>1. Redis!Clock = Clock
  BY DEF Redis!Clock, Clock
<1>2. CASE \E j \in Jobs, at \in Clock : Redis!Enqueue(j, at)
  BY <1>2, RedisEnqueues
<1>3. CASE \E at \in Clock, token \in Tokens : Redis!Reserve(at, token)
  BY <1>3, RedisReserves
<1>4. CASE \E j \in Jobs, at \in Clock : Redis!RetryFailed(j, at)
  BY <1>4, RedisRetries
<1>5. CASE \/ \E r \in granted, at \in Clock : Redis!Release(r, at)
           \/ \E r \in granted : Redis!Complete(r)
           \/ \E r \in granted, at \in Clock : Redis!Fail(r, at)
           \/ \E j \in Jobs : Redis!ForgetFailed(j)
  BY <1>5, RedisFinishes
<1>6. QED
  BY <1>1, <1>2, <1>3, <1>4, <1>5 DEF Redis!Next

\* The invariant holds at the start.
LEMMA RedisStarts ==
  ASSUME StoresInit, backend = "redis"
  PROVE  Init /\ RedisInv
<1>1. /\ records = Redis!Empty /\ payloads = {} /\ ready = Redis!Empty /\ reserved = Redis!Empty
      /\ failed = Redis!Empty /\ granted = {} /\ issued = {} /\ generation = [j \in Jobs |-> 0]
      /\ record = Redis!stored
  BY DEF StoresInit, Redis!Init, Kept
<1>2. /\ DOMAIN records = {} /\ DOMAIN ready = {} /\ DOMAIN reserved = {} /\ DOMAIN failed = {}
      /\ records \in [DOMAIN records -> RedisRecord]
  BY <1>1 DEF Redis!Empty
<1>3. KeyTypeOK
  BY <1>2, FS_EmptySet DEF KeyTypeOK
<1>4. \A j : KeyInv(j)
  BY <1>1, <1>2 DEF KeyInv
<1>5. record = [j \in Jobs |-> Absent]
  BY <1>1, <1>2 DEF Redis!stored, Absent
<1>6. Init
  BY <1>1, <1>5 DEF Init
<1>7. TypeOK
  BY <1>6, StoreAssumption DEF Init, TypeOK, Record, Absent, Phases
<1>8. QED
  BY <1>1, <1>3, <1>4, <1>6, <1>7 DEF RedisInv

\* A step of the Redis store, or of nobody.
LEMMA RedisKeeps ==
  ASSUME RedisInv, [StoresNext]_<<vars, backend, granted, file, sql, redis>>
  PROVE  [Next]_vars /\ RedisInv'
<1>1. CASE StoresNext
  <2>1. Redis!Next /\ backend' = "redis" /\ record' = Redis!stored'
    BY <1>1 DEF StoresNext, RedisInv, Kept
  <2>2. Agrees
    BY <2>1, RedisStep
  <2>3. TypeOK'
    BY <2>2, TypeStep DEF Agrees, RedisInv
  <2>4. QED
    BY <2>1, <2>2, <2>3 DEF Agrees, RedisInv
<1>2. CASE UNCHANGED <<vars, backend, granted, file, sql, redis>>
  <2>1. /\ UNCHANGED <<record, issued, generation, backend, granted>>
        /\ UNCHANGED <<records, payloads, ready, reserved, failed>>
    BY <1>2 DEF vars, redis
  <2>2. Redis!stored' = Redis!stored
    BY <2>1 DEF Redis!stored
  <2>3. TypeOK' /\ KeyTypeOK'
    BY <2>1 DEF RedisInv, TypeOK, KeyTypeOK
  <2>4. \A k : KeyInv(k)'
    BY <2>1 DEF RedisInv, KeyInv
  <2>5. QED
    BY <2>1, <2>2, <2>3, <2>4 DEF RedisInv, vars
<1>3. QED
  BY <1>1, <1>2

\* The records that the keys of the Redis store encode change as the contract says,
\* whatever batch of expired jobs a script takes back and whichever answers are lost.
THEOREM RedisImplements == StoresSpec /\ backend = "redis" => ImplementsJobStore
<1> DEFINE all == <<vars, backend, granted, file, sql, redis>>
<1>1. StoresInit /\ backend = "redis" => Init /\ RedisInv
  BY RedisStarts
<1>2. RedisInv /\ [StoresNext]_all => [Next]_vars /\ RedisInv'
  BY RedisKeeps
<1>3. QED
  BY <1>1, <1>2, PTL DEF StoresSpec, ImplementsJobStore, Spec

\* The five keys of the Redis store agree about every job after any scripts, and the
\* answer "empty" means that no job is eligible although one script takes back only
\* RecoveryBatch expired jobs.  (Behind another backend the keys stay empty.)
THEOREM KeysCorrect == StoresSpec => []KeysAgree
<1> DEFINE all == <<vars, backend, granted, file, sql, redis>>
           Inv == (backend = "redis" => RedisInv) /\ KeysAgree
<1>1. ASSUME RedisInv  PROVE KeysAgree
  <2>1. \A j : KeyInv(j)
    BY <1>1 DEF RedisInv
  <2>2. QED
    BY <1>1, <2>1, KeysIndexed, EmptyAnswers DEF KeysAgree
<1>2. ASSUME StoresInit  PROVE Inv
  <2>1. /\ records = Redis!Empty /\ payloads = {} /\ ready = Redis!Empty /\ reserved = Redis!Empty
        /\ failed = Redis!Empty
    BY <1>2 DEF StoresInit, Redis!Init
  <2>2. DOMAIN records = {} /\ DOMAIN ready = {} /\ DOMAIN reserved = {} /\ DOMAIN failed = {}
    BY <2>1 DEF Redis!Empty
  <2>3. \A j : KeyInv(j)
    BY <2>1, <2>2 DEF KeyInv
  <2>4. Redis!EmptyMeansNothingEligible
    BY <2>2 DEF Redis!EmptyMeansNothingEligible
  <2>5. QED
    BY <1>2, <2>3, <2>4, KeysIndexed, RedisStarts DEF KeysAgree
<1>3. ASSUME Inv, [StoresNext]_all  PROVE Inv'
  <2>1. CASE backend = "redis"
    <3>1. RedisInv'
      BY <1>3, <2>1, RedisKeeps
    <3>2. RedisInv' => KeysAgree'
      BY <1>1, PTL
    <3>3. QED
      BY <3>1, <3>2
  <2>2. CASE backend # "redis"
    <3>1. UNCHANGED <<backend, records, payloads, ready, reserved, failed>>
      BY <1>3, <2>2 DEF StoresNext, redis
    <3>2. Redis!IndexesAgree'
      BY <1>3, <3>1 DEF KeysAgree, Redis!IndexesAgree, Redis!Reserving, Redis!FailedIds
    <3>3. ASSUME NEW at  PROVE (Redis!Outcome(at))' = Redis!Outcome(at)
      BY <3>1 DEF Redis!Outcome, Redis!RecoveredReady, Redis!RecoveredRecords, Redis!Lapsed, Redis!Stray, Redis!Batch
    <3>4. Redis!EmptyMeansNothingEligible'
      BY <1>3, <3>1, <3>3 DEF KeysAgree, Redis!EmptyMeansNothingEligible
    <3>5. QED
      BY <2>2, <3>1, <3>2, <3>4 DEF KeysAgree
  <2>3. QED
    BY <2>1, <2>2
<1>4. QED
  BY <1>2, <1>3, PTL DEF StoresSpec

-----------------------------------------------------------------------------
(***************************************************************************)
(* The file store.  Replay is a recursion over the lines of the log; the   *)
(* least-number principle (Least) gives what it computes.                  *)
(***************************************************************************)

\* The map before the first line.
ReplayStart == [ok |-> TRUE, map |-> File!Empty]
\* f is what replay of these lines has made of the map after each of the first m.
Replays(lines, m, f) ==
  f = [n \in 0..m |-> IF n = 0 THEN ReplayStart ELSE File!applyEvent(f[n - 1], lines[n])]

\* Replay is defined for every log: what the recursion describes exists.
LEMMA ReplayExists ==
  ASSUME NEW lines, NEW len \in Nat
  PROVE  \E f : Replays(lines, len, f)
<1>1. PICK T : T = {m \in Nat : ~ \E f : Replays(lines, m, f)}
  OBVIOUS
<1>2. SUFFICES ASSUME T # {}  PROVE FALSE
  BY <1>1
<1>3. T \in SUBSET Nat
  BY <1>1
<1>4. PICK m \in T : \A n \in T : m <= n
  BY <1>2, <1>3, Least
<1>5. m \in Nat /\ ~ \E f : Replays(lines, m, f)
  BY <1>1, <1>4
<1>6. CASE m = 0
  <2>1. PICK f : f = [n \in 0..0 |-> ReplayStart]
    OBVIOUS
  <2>2. Replays(lines, 0, f)
    BY <2>1 DEF Replays
  <2>3. QED
    BY <1>5, <1>6, <2>2
<1>7. CASE m # 0
  <2>1. m - 1 \in Nat /\ m - 1 \notin T
    BY <1>4, <1>5, <1>7
  <2>2. PICK g : Replays(lines, m - 1, g)
    BY <1>1, <2>1
  <2>3. PICK f : f = [n \in 0..m |-> IF n = m THEN File!applyEvent(g[m - 1], lines[m]) ELSE g[n]]
    OBVIOUS
  <2>4. \A n \in 0..m : n # m => n \in 0..(m - 1)
    BY <1>5
  <2>5. f[m] = File!applyEvent(g[m - 1], lines[m]) /\ f[m - 1] = g[m - 1]
    BY <1>5, <1>7, <2>3
  <2>6. ASSUME NEW n \in 0..m  PROVE f[n] = IF n = 0 THEN ReplayStart ELSE File!applyEvent(f[n - 1], lines[n])
    <3>1. CASE n = m
      BY <1>7, <2>5, <3>1
    <3>2. CASE n # m
      <4>1. n \in 0..(m - 1) /\ f[n] = g[n] /\ (n # 0 => n - 1 \in 0..m /\ n - 1 # m)
        BY <1>5, <2>3, <2>4, <3>2
      <4>2. n # 0 => f[n - 1] = g[n - 1]
        BY <2>3, <4>1
      <4>3. g[n] = IF n = 0 THEN ReplayStart ELSE File!applyEvent(g[n - 1], lines[n])
        BY <2>2, <4>1 DEF Replays
      <4>4. QED
        BY <4>1, <4>2, <4>3
    <3>3. QED
      BY <3>1, <3>2
  <2>7. Replays(lines, m, f)
    <3>1. f = [n \in 0..m |-> f[n]]
      BY <2>3
    <3>2. QED
      BY <2>6, <3>1 DEF Replays
  <2>8. QED
    BY <1>5, <2>7
<1>8. QED
  BY <1>6, <1>7

\* Two replays of logs that begin alike agree as far as that.
LEMMA ReplaysAgree ==
  ASSUME NEW lines, NEW longer, NEW len \in Nat, NEW more \in Nat, len <= more,
         \A n \in 1..len : lines[n] = longer[n],
         NEW f, Replays(lines, len, f), NEW g, Replays(longer, more, g)
  PROVE  \A n \in 0..len : f[n] = g[n]
<1>1. PICK T : T = {n \in 0..len : f[n] # g[n]}
  OBVIOUS
<1>2. SUFFICES ASSUME T # {}  PROVE FALSE
  BY <1>1
<1>3. T \in SUBSET Nat
  BY <1>1
<1>4. PICK m \in T : \A n \in T : m <= n
  BY <1>2, <1>3, Least
<1>5. m \in 0..len /\ m \in 0..more /\ f[m] # g[m]
  BY <1>1, <1>4
<1>6. /\ f[m] = IF m = 0 THEN ReplayStart ELSE File!applyEvent(f[m - 1], lines[m])
      /\ g[m] = IF m = 0 THEN ReplayStart ELSE File!applyEvent(g[m - 1], longer[m])
  BY <1>5 DEF Replays
<1>7. m # 0
  BY <1>5, <1>6
<1>8. m - 1 \in 0..len /\ m \in 1..len /\ ~(m <= m - 1)
  BY <1>5, <1>7
<1>9. f[m - 1] = g[m - 1]
  BY <1>1, <1>4, <1>8
<1>10. QED
  BY <1>5, <1>6, <1>7, <1>8, <1>9

\* What Replay returns: where a replay of all the lines ends.
LEMMA ReplayEnds ==
  ASSUME NEW lines, Len(lines) \in Nat
  PROVE  \E f : Replays(lines, Len(lines), f) /\ File!Replay(lines) = f[Len(lines)]
<1>1. PICK f : f = CHOOSE g : Replays(lines, Len(lines), g)
  OBVIOUS
<1>2. Replays(lines, Len(lines), f)
  BY <1>1, ReplayExists
<1>3. File!Replay(lines) = f[Len(lines)]
  BY <1>1 DEF File!Replay, Replays, ReplayStart
<1>4. QED
  BY <1>2, <1>3

\* Replay of an empty log.
LEMMA ReplayEmpty == File!Replay(<<>>) = ReplayStart
<1>1. Len(<<>>) = 0
  OBVIOUS
<1>2. PICK f : Replays(<<>>, 0, f) /\ File!Replay(<<>>) = f[0]
  BY <1>1, ReplayEnds
<1>3. QED
  BY <1>2 DEF Replays

\* One more line is one more event.
LEMMA ReplayAppend ==
  ASSUME NEW S, NEW lines \in Seq(S), NEW e \in S
  PROVE  File!Replay(Append(lines, e)) = File!applyEvent(File!Replay(lines), e)
<1>1. PICK longer, len : longer = Append(lines, e) /\ len = Len(lines)
  OBVIOUS
<1>2. /\ len \in Nat /\ Len(longer) = len + 1 /\ longer[len + 1] = e
      /\ \A n \in 1..len : lines[n] = longer[n]
  BY <1>1
<1>3. PICK f : Replays(lines, len, f) /\ File!Replay(lines) = f[len]
  BY <1>1, <1>2, ReplayEnds
<1>4. PICK g : Replays(longer, len + 1, g) /\ File!Replay(longer) = g[len + 1]
  <2>1. Len(longer) \in Nat
    BY <1>2
  <2>2. QED
    BY <1>2, <2>1, ReplayEnds
<1>5. f[len] = g[len]
  BY <1>2, <1>3, <1>4, ReplaysAgree
<1>6. g[len + 1] = File!applyEvent(g[len], longer[len + 1])
  BY <1>2, <1>4 DEF Replays
<1>7. QED
  BY <1>1, <1>2, <1>3, <1>4, <1>5, <1>6

\* What the file, the map and the callers' knowledge have to do with each other.
FilePlaces ==
  /\ status \in {"open", "down"}
  /\ log \in Seq(File!Event)
  /\ File!Replay(log) = [ok |-> TRUE, map |-> record]
  /\ status = "open" => jobs = record /\ promised = record /\ partial = FALSE /\ inflight = Nothing
  /\ status = "down" =>
       \A j \in Jobs : (inflight = Nothing \/ inflight.job # j) => record[j] = promised[j]

\* A record that is not pending has no holder.
HeldPending ==
  \A j \in Jobs : record[j].phase # "pending" => record[j].token = NoToken /\ record[j].until = 0

\* What callers hold was issued to them.
GrantedIssued ==
  \A r \in granted : \E s \in issued : s.job = r.job /\ s.token = r.token

FileInv ==
  /\ backend = "file" /\ TypeOK
  /\ FilePlaces /\ HeldPending /\ GrantedIssued

\* An event is none of the values that stand for no event.
LEMMA EventsApart == \A e \in File!Event : e # Garbled /\ e # Nothing
BY BackendAssumptions DEF File!FileAssumption

\* What the contract has to say of a line that reached the file.
LineWritten(e) ==
  /\ issued' = IF e.type = "reserve"
               THEN issued \cup {[job |-> e.job, token |-> e.token,
                                  attempt |-> e.attempts, until |-> e.at,
                                  generation |-> generation[e.job]]}
               ELSE issued
  /\ generation' = IF e.type \in {"enqueue", "retry"}
                   THEN [generation EXCEPT ![e.job] = @ + 1]
                   ELSE generation

\* append: the line is in the file and the record is what the caller wants it to be, or
\* neither; the map, the log and what callers know agree again, crash or no crash.
LEMMA FileAppends ==
  ASSUME FileInv, WriteErrors = FALSE, status = "open", record' = File!durable',
         NEW e \in File!Event, File!Acceptable(record, e),
         NEW rec, rec = File!Replayed(record[e.job], e),
         NEW reservations, File!append(e, [jobs EXCEPT ![e.job] = rec], reservations)
  PROVE  /\ FilePlaces'
         /\ \/ /\ record' = [record EXCEPT ![e.job] = rec]
               /\ LineWritten(e) /\ granted' \subseteq granted \cup reservations
            \/ UNCHANGED <<record, issued, generation>> /\ granted' = {}
<1>1. e.job \in Jobs /\ record \in [Jobs -> Record] /\ jobs = record /\ partial = FALSE /\ promised = record
  BY DEF FileInv, FilePlaces, TypeOK, File!Event
<1>2. e # Garbled /\ e # Nothing
  BY EventsApart
<1>3. log \in Seq(File!Event) /\ File!Replay(log) = [ok |-> TRUE, map |-> record]
  BY DEF FileInv, FilePlaces
<1>4. PICK new : new = [record EXCEPT ![e.job] = rec]
  OBVIOUS
<1>5. \A j \in Jobs : j # e.job => new[j] = record[j]
  BY <1>1, <1>4
<1>6. ASSUME log' = Append(log, e)
      PROVE  log' \in Seq(File!Event) /\ File!Replay(log') = [ok |-> TRUE, map |-> new]
  <2>1. File!Replay(log') = File!applyEvent([ok |-> TRUE, map |-> record], e)
    BY <1>3, <1>6, ReplayAppend
  <2>2. QED
    BY <1>1, <1>2, <1>3, <1>4, <1>6, <2>1 DEF File!applyEvent
<1>7. CASE File!Acknowledge(e, [jobs EXCEPT ![e.job] = rec], reservations)
  <2>1. /\ log' = Append(log, e) /\ partial' = FALSE /\ LineWritten(e)
        /\ jobs' = new /\ promised' = new /\ granted' = granted \cup reservations
        /\ status' = "open" /\ inflight' = Nothing
    BY <1>1, <1>4, <1>7 DEF File!Acknowledge, File!WriteLine, LineWritten, FileInv, FilePlaces
  <2>2. record' = new
    BY <2>1 DEF File!durable
  <2>3. FilePlaces'
    BY <1>6, <2>1, <2>2 DEF FilePlaces
  <2>4. QED
    BY <1>4, <2>1, <2>2, <2>3
<1>8. CASE File!CrashInAppend(e)
  <2>1. status' = "down" /\ granted' = {} /\ inflight' = e /\ promised' = record
    BY <1>1, <1>8 DEF File!CrashInAppend
  <2>2. record' = File!Replay(log').map
    BY <2>1 DEF File!durable
  <2>3. CASE File!WritePart
    <3>1. UNCHANGED <<log, issued, generation>>
      BY <2>3 DEF File!WritePart
    <3>2. record' = record
      BY <1>3, <2>2, <3>1
    <3>3. FilePlaces'
      BY <1>1, <1>3, <2>1, <3>1, <3>2 DEF FilePlaces
    <3>4. QED
      BY <2>1, <3>1, <3>2, <3>3
  <2>4. CASE File!WriteLine(e)
    <3>1. log' = Append(log, e) /\ LineWritten(e)
      BY <1>1, <2>4 DEF File!WriteLine, LineWritten
    <3>2. record' = new
      BY <1>6, <2>2, <3>1
    <3>3. \A j \in Jobs : (inflight' = Nothing \/ inflight'.job # j) => record'[j] = promised'[j]
      BY <1>2, <1>5, <2>1, <3>2
    <3>4. FilePlaces'
      BY <1>6, <2>1, <3>1, <3>2, <3>3 DEF FilePlaces
    <3>5. QED
      BY <1>4, <2>1, <3>1, <3>2, <3>4
  <2>5. QED
    BY <1>8, <2>3, <2>4 DEF File!CrashInAppend
<1>9. QED
  BY <1>7, <1>8 DEF File!append, File!AppendFails

\* A step of the contract keeps what is known of records that are not pending.
LEMMA HeldStep == TypeOK /\ HeldPending /\ [Next]_vars => HeldPending'
<1>1. SUFFICES ASSUME TypeOK, HeldPending, [Next]_vars  PROVE HeldPending'
  OBVIOUS
<1>2. \A r \in issued : r.job \in Jobs /\ r.token \in Tokens /\ r.token # NoToken
  BY <1>1, StoreAssumption DEF TypeOK, Reservation
<1>3. ASSUME NEW j \in Jobs, NEW at \in Clock, Enqueue(j, at) \/ RetryFailed(j, at)  PROVE HeldPending'
  BY <1>1, <1>3 DEF Enqueue, RetryFailed, Fresh, TypeOK, HeldPending
<1>4. ASSUME NEW j \in Jobs, NEW at \in Clock, NEW token \in Tokens, NEW recovered \in SUBSET Expired(j, at),
             Reserve(j, at, token, recovered)
      PROVE  HeldPending'
  BY <1>1, <1>4 DEF Reserve, Reserved, Recovered, Eligible, TypeOK, HeldPending
<1>5. ASSUME NEW r \in issued, NEW at \in Clock, Release(r, at)  PROVE HeldPending'
  BY <1>1, <1>2, <1>5 DEF Release, Released, Holds, TypeOK, HeldPending
<1>6. ASSUME NEW r \in issued, Complete(r) \/ Fail(r)  PROVE HeldPending'
  BY <1>1, <1>2, <1>6 DEF Complete, Fail, Failed, Absent, Holds, TypeOK, HeldPending
<1>7. ASSUME NEW j \in Jobs, ForgetFailed(j)  PROVE HeldPending'
  BY <1>1, <1>7 DEF ForgetFailed, Absent, TypeOK, HeldPending
<1>8. CASE UNCHANGED vars
  BY <1>1, <1>8 DEF vars, HeldPending
<1>9. QED
  BY <1>1, <1>3, <1>4, <1>5, <1>6, <1>7, <1>8 DEF Next

\* The step of the contract that an operation of the file store takes.
FileStep == [Next]_vars /\ FilePlaces' /\ GrantedIssued'

\* A step that the contract does not see.
LEMMA FileUnseen ==
  ASSUME FileInv, UNCHANGED <<record, issued, generation>>, granted' = {} \/ granted' = granted, FilePlaces'
  PROVE  FileStep
BY DEF FileInv, FileStep, GrantedIssued, vars

\* Callers keep what they hold as the issued reservations grow.
LEMMA FileSeen ==
  ASSUME FileInv, FilePlaces', Next, issued \subseteq issued', NEW reservations,
         granted' \subseteq granted \cup reservations,
         \A r \in reservations : \E s \in issued' : s.job = r.job /\ s.token = r.token
  PROVE  FileStep
BY DEF FileInv, FileStep, GrantedIssued

\* Enqueue: the replayed record is the new one.
LEMMA FileEnqueues ==
  ASSUME FileInv, WriteErrors = FALSE, record' = File!durable',
         NEW j \in Jobs, NEW at \in Clock, File!Enqueue(j, at)
  PROVE  FileStep
<1>1. PICK e : e = File!MakeEvent("enqueue", j, NoToken, at, 0)
  OBVIOUS
<1>2. /\ e \in File!Event /\ e.type = "enqueue" /\ e.job = j /\ e.at = at /\ e.attempts = 0
  BY <1>1, StoreAssumption DEF File!MakeEvent, File!Event, Clock
<1>3. status = "open" /\ jobs = record /\ record[j].phase = "absent" /\ generation[j] < MaxResets
  BY DEF File!Enqueue, FileInv, FilePlaces
<1>4. PICK rec : rec = File!Replayed(record[j], e)
  OBVIOUS
<1>5. rec = Fresh(at) /\ rec = [File!Absent EXCEPT !.phase = "pending", !.available = at]
  <2>1. rec = Fresh(at)
    BY <1>2, <1>4 DEF File!Replayed, File!ReplayedEnqueue, File!Absent, Fresh
  <2>2. Fresh(at) = [File!Absent EXCEPT !.phase = "pending", !.available = at]
    <3>1. PICK a : a = File!Absent
      OBVIOUS
    <3>2. a = [phase |-> "absent", available |-> 0, attempts |-> 0, token |-> NoToken, until |-> 0]
      BY <3>1 DEF File!Absent
    <3>3. PICK b : b = [a EXCEPT !.phase = "pending", !.available = at]
      OBVIOUS
    <3>4. b = [phase |-> "pending", available |-> at, attempts |-> 0, token |-> NoToken, until |-> 0]
      BY <3>2, <3>3
    <3>5. QED
      BY <3>1, <3>3, <3>4 DEF Fresh
  <2>3. QED
    BY <2>1, <2>2
<1>6. File!append(e, [jobs EXCEPT ![j] = rec], {})
  BY <1>1, <1>5 DEF File!Enqueue
<1>7. File!Acceptable(record, e)
  BY <1>2, <1>3 DEF File!Acceptable
<1>8. /\ FilePlaces'
      /\ \/ /\ record' = [record EXCEPT ![j] = rec]
            /\ LineWritten(e) /\ granted' \subseteq granted \cup {}
         \/ UNCHANGED <<record, issued, generation>> /\ granted' = {}
  BY <1>2, <1>3, <1>4, <1>6, <1>7, FileAppends
<1>9. CASE record' = [record EXCEPT ![j] = rec] /\ LineWritten(e) /\ granted' \subseteq granted
  <2>1. issued' = issued /\ generation' = [generation EXCEPT ![j] = @ + 1]
    BY <1>2, <1>9 DEF LineWritten
  <2>2. Next
    BY <1>3, <1>5, <1>9, <2>1 DEF Next, Enqueue
  <2>3. QED
    BY <1>8, <1>9, <2>1, <2>2, FileSeen
<1>10. QED
  BY <1>8, <1>9, FileUnseen

\* RetryFailed: nothing is left of the attempts and the lease of the failed record.
LEMMA FileRetries ==
  ASSUME FileInv, WriteErrors = FALSE, record' = File!durable',
         NEW j \in Jobs, NEW at \in Clock, File!RetryFailed(j, at)
  PROVE  FileStep
<1>1. PICK e : e = File!MakeEvent("retry", j, NoToken, at, 0)
  OBVIOUS
<1>2. /\ e \in File!Event /\ e.type = "retry" /\ e.job = j /\ e.at = at /\ e.attempts = 0
  BY <1>1, StoreAssumption DEF File!MakeEvent, File!Event, Clock
<1>3. status = "open" /\ jobs = record /\ record[j].phase = "failed" /\ generation[j] < MaxResets
  BY DEF File!RetryFailed, FileInv, FilePlaces
<1>4. PICK rec : rec = File!Replayed(record[j], e)
  OBVIOUS
<1>5. rec = Fresh(at) /\ rec = [record[j] EXCEPT !.phase = "pending", !.attempts = 0, !.available = at]
  <2>1. record[j] \in Record /\ record[j].token = NoToken /\ record[j].until = 0
    BY <1>3 DEF FileInv, TypeOK, HeldPending
  <2>2. rec = [record[j] EXCEPT !.phase = "pending", !.available = at, !.attempts = 0]
    BY <1>2, <1>4 DEF File!Replayed, File!ReplayedRetry
  <2>3. QED
    BY <2>1, <2>2 DEF Fresh, Record
<1>6. File!append(e, [jobs EXCEPT ![j] = rec], {})
  <2>1. [jobs EXCEPT ![j] = rec] = [jobs EXCEPT ![j].phase = "pending", ![j].attempts = 0, ![j].available = at]
    BY <1>3, <1>5 DEF FileInv, TypeOK, Record
  <2>2. QED
    BY <1>1, <2>1 DEF File!RetryFailed
<1>7. File!Acceptable(record, e)
  BY <1>2, <1>3 DEF File!Acceptable
<1>8. /\ FilePlaces'
      /\ \/ /\ record' = [record EXCEPT ![j] = rec]
            /\ LineWritten(e) /\ granted' \subseteq granted \cup {}
         \/ UNCHANGED <<record, issued, generation>> /\ granted' = {}
  BY <1>2, <1>3, <1>4, <1>6, <1>7, FileAppends
<1>9. CASE record' = [record EXCEPT ![j] = rec] /\ LineWritten(e) /\ granted' \subseteq granted
  <2>1. issued' = issued /\ generation' = [generation EXCEPT ![j] = @ + 1]
    BY <1>2, <1>9 DEF LineWritten
  <2>2. Next
    BY <1>3, <1>5, <1>9, <2>1 DEF Next, RetryFailed
  <2>3. QED
    BY <1>8, <1>9, <2>1, <2>2, FileSeen
<1>10. QED
  BY <1>8, <1>9, FileUnseen

\* ForgetFailed.
LEMMA FileForgets ==
  ASSUME FileInv, WriteErrors = FALSE, record' = File!durable',
         NEW j \in Jobs, File!ForgetFailed(j)
  PROVE  FileStep
<1>1. PICK e : e = File!MakeEvent("forget", j, NoToken, 0, 0)
  OBVIOUS
<1>2. /\ e \in File!Event /\ e.type = "forget" /\ e.job = j
  BY <1>1 DEF File!MakeEvent, File!Event
<1>3. status = "open" /\ jobs = record /\ record[j].phase = "failed"
  BY DEF File!ForgetFailed, FileInv, FilePlaces
<1>4. PICK rec : rec = File!Replayed(record[j], e)
  OBVIOUS
<1>5. rec = Absent /\ rec = File!Absent
  BY <1>2, <1>4 DEF File!Replayed, File!Absent, Absent
<1>6. File!append(e, [jobs EXCEPT ![j] = rec], {})
  BY <1>1, <1>5 DEF File!ForgetFailed
<1>7. File!Acceptable(record, e)
  BY <1>2, <1>3 DEF File!Acceptable
<1>8. /\ FilePlaces'
      /\ \/ /\ record' = [record EXCEPT ![j] = rec]
            /\ LineWritten(e) /\ granted' \subseteq granted \cup {}
         \/ UNCHANGED <<record, issued, generation>> /\ granted' = {}
  BY <1>2, <1>3, <1>4, <1>6, <1>7, FileAppends
<1>9. CASE record' = [record EXCEPT ![j] = rec] /\ LineWritten(e) /\ granted' \subseteq granted
  <2>1. issued' = issued /\ generation' = generation
    BY <1>2, <1>9 DEF LineWritten
  <2>2. Next
    BY <1>3, <1>5, <1>9, <2>1 DEF Next, ForgetFailed
  <2>3. QED
    BY <1>8, <1>9, <2>1, <2>2, FileSeen
<1>10. QED
  BY <1>8, <1>9, FileUnseen

\* Reserve: the first eligible job, under a token of its own.
LEMMA FileReserves ==
  ASSUME FileInv, WriteErrors = FALSE, record' = File!durable',
         NEW at \in Clock, NEW token \in Tokens, File!Reserve(at, token)
  PROVE  FileStep
<1>1. status = "open" /\ jobs = record
  BY DEF File!Reserve, FileInv, FilePlaces
<1>2. PICK S : S = {k \in Jobs : File!Eligible(k, at)}
  OBVIOUS
<1>3. S # {}
  BY <1>2 DEF File!Reserve
<1>4. PICK j : j = File!First(S)
  OBVIOUS
<1>5. j \in S
  <2>1. PICK time : time = [k \in Jobs |-> jobs[k].available]
    OBVIOUS
  <2>2. S \in SUBSET Nat /\ S \subseteq Jobs
    BY <1>2, BackendAssumptions DEF File!FileAssumption
  <2>3. \A k \in S : time[k] = jobs[k].available /\ time[k] \in Nat
    BY <1>1, <2>1, <2>2 DEF FileInv, TypeOK, Record
  <2>4. \E i \in S : \A k \in S : time[i] < time[k] \/ (time[i] = time[k] /\ i <= k)
    BY <1>3, <2>2, <2>3, FirstByTime
  <2>5. \E i \in S : \A k \in S :
          jobs[i].available < jobs[k].available \/ (jobs[i].available = jobs[k].available /\ i <= k)
    BY <2>3, <2>4
  <2>6. QED
    BY <1>4, <2>5 DEF File!First
<1>6. j \in Jobs /\ Eligible(j, at)
  BY <1>1, <1>2, <1>5 DEF File!Eligible, Eligible
<1>7. PICK old : old = record[j] /\ old \in Record
  BY <1>6 DEF FileInv, TypeOK
<1>8. PICK e : e = File!MakeEvent("reserve", j, token, at + Lease, old.attempts + 1)
  OBVIOUS
<1>9. at + Lease \in Nat /\ old.attempts + 1 \in Nat
  BY <1>7, StoreAssumption DEF Clock, Record
<1>10. /\ e \in File!Event /\ e.type = "reserve" /\ e.job = j /\ e.token = token
       /\ e.at = at + Lease /\ e.attempts = old.attempts + 1
  BY <1>6, <1>8, <1>9 DEF File!MakeEvent, File!Event
<1>11. PICK rec : rec = File!Replayed(record[j], e)
  OBVIOUS
<1>12. rec = [old EXCEPT !.attempts = old.attempts + 1, !.token = token, !.until = at + Lease]
  BY <1>7, <1>10, <1>11 DEF File!Replayed, File!ReplayedReserve
<1>13. rec = Reserved(record[j], token, at + Lease)
  BY <1>7, <1>12 DEF Reserved, Record
<1>14. PICK reservation : reservation = [job |-> j, token |-> token]
  OBVIOUS
<1>15. File!append(e, [jobs EXCEPT ![j] = rec], {reservation})
  <2>1. /\ File!append(File!MakeEvent("reserve", j, token, at + Lease, jobs[j].attempts + 1),
                       [jobs EXCEPT ![j].attempts = jobs[j].attempts + 1, ![j].token = token, ![j].until = at + Lease],
                       {[job |-> j, token |-> token]})
    BY <1>2, <1>4 DEF File!Reserve
  <2>2. [jobs EXCEPT ![j] = rec]
          = [jobs EXCEPT ![j].attempts = jobs[j].attempts + 1, ![j].token = token, ![j].until = at + Lease]
    BY <1>1, <1>6, <1>7, <1>12 DEF FileInv, TypeOK, Record
  <2>3. QED
    BY <1>1, <1>7, <1>8, <1>14, <2>1, <2>2
<1>16. File!Acceptable(record, e)
  BY <1>6, <1>7, <1>10, StoreAssumption DEF File!Acceptable, Eligible
<1>17. /\ FilePlaces'
       /\ \/ /\ record' = [record EXCEPT ![j] = rec]
             /\ LineWritten(e) /\ granted' \subseteq granted \cup {reservation}
          \/ UNCHANGED <<record, issued, generation>> /\ granted' = {}
  BY <1>1, <1>10, <1>11, <1>15, <1>16, FileAppends
<1>18. CASE record' = [record EXCEPT ![j] = rec] /\ LineWritten(e) /\ granted' \subseteq granted \cup {reservation}
  <2>1. PICK r : r = [job |-> j, token |-> token, attempt |-> record[j].attempts + 1,
                      generation |-> generation[j], until |-> at + Lease]
    OBVIOUS
  <2>2. issued' = issued \cup {r} /\ generation' = generation
    BY <1>7, <1>10, <1>18, <2>1 DEF LineWritten
  <2>3. record' = [k \in Jobs |-> IF k = j THEN Reserved(record[k], token, at + Lease)
                                  ELSE IF k \in {} THEN Recovered(record[k]) ELSE record[k]]
    BY <1>6, <1>13, <1>18 DEF FileInv, TypeOK
  <2>4. token \notin UsedTokens
    BY DEF File!Reserve, UsedTokens
  <2>5. Reserve(j, at, token, {})
    BY <1>6, <2>1, <2>2, <2>3, <2>4 DEF Reserve
  <2>6. {} \in SUBSET Expired(j, at)
    OBVIOUS
  <2>7. Next
    BY <1>6, <2>5, <2>6 DEF Next
  <2>8. \A x \in {reservation} : \E s \in issued' : s.job = x.job /\ s.token = x.token
    BY <1>14, <2>1, <2>2
  <2>9. QED
    BY <1>17, <1>18, <2>2, <2>7, <2>8, FileSeen
<1>19. QED
  BY <1>17, <1>18, FileUnseen

\* finishReservation: an operation of the caller whose token is stored.
LEMMA FileFinishes ==
  ASSUME FileInv, WriteErrors = FALSE, record' = File!durable', NEW r \in granted,
         \/ \E at \in Clock : File!Release(r, at)
         \/ File!Complete(r)
         \/ File!Fail(r)
  PROVE  FileStep
<1>1. PICK s \in issued : s.job = r.job /\ s.token = r.token
  BY DEF FileInv, GrantedIssued
<1>2. r.job \in Jobs /\ r.token \in Tokens /\ r.token # NoToken
  BY <1>1, StoreAssumption DEF FileInv, TypeOK, Reservation
<1>3. status = "open" /\ jobs = record /\ record[r.job].token = r.token
  BY DEF File!Release, File!Complete, File!Fail, File!finishReservation, FileInv, FilePlaces
<1>4. Holds(s) /\ record[r.job].phase = "pending"
  BY <1>1, <1>2, <1>3 DEF Holds, FileInv, HeldPending
<1>5. PICK old : old = record[r.job] /\ old \in Record
  BY <1>2 DEF FileInv, TypeOK
<1>6. ASSUME NEW e \in File!Event, NEW rec, e.job = r.job, e.type \in {"release", "complete", "fail"},
             e.token = r.token, rec = File!Replayed(old, e),
             File!append(e, [jobs EXCEPT ![r.job] = rec], {}),
             record' = [record EXCEPT ![r.job] = rec] /\ UNCHANGED <<issued, generation>> => Next
      PROVE  FileStep
  <2>1. File!Acceptable(record, e)
    BY <1>2, <1>3, <1>4, <1>6 DEF File!Acceptable, File!replayReservation
  <2>2. /\ FilePlaces'
        /\ \/ /\ record' = [record EXCEPT ![r.job] = rec]
              /\ LineWritten(e) /\ granted' \subseteq granted \cup {}
           \/ UNCHANGED <<record, issued, generation>> /\ granted' = {}
    BY <1>3, <1>5, <1>6, <2>1, FileAppends
  <2>3. CASE record' = [record EXCEPT ![r.job] = rec] /\ LineWritten(e) /\ granted' \subseteq granted
    <3>1. issued' = issued /\ generation' = generation
      BY <1>6, <2>3 DEF LineWritten
    <3>2. QED
      BY <1>6, <2>2, <2>3, <3>1, FileSeen
  <2>4. QED
    BY <2>2, <2>3, FileUnseen
<1>7. ASSUME NEW at \in Clock, File!Release(r, at)  PROVE FileStep
  <2>1. PICK e : e = File!MakeEvent("release", r.job, r.token, at, 0)
    OBVIOUS
  <2>2. e \in File!Event /\ e.type = "release" /\ e.job = r.job /\ e.token = r.token /\ e.at = at
    BY <1>2, <2>1, StoreAssumption DEF File!MakeEvent, File!Event, Clock
  <2>3. PICK rec : rec = File!Replayed(old, e)
    OBVIOUS
  <2>4. rec = [old EXCEPT !.available = at, !.token = NoToken, !.until = 0]
    BY <2>2, <2>3 DEF File!Replayed, File!ReplayedRelease
  <2>5. rec = Released(old, at)
    BY <1>5, <2>4 DEF Released, Record
  <2>6. [jobs EXCEPT ![r.job] = rec]
          = [jobs EXCEPT ![r.job].available = at, ![r.job].token = NoToken, ![r.job].until = 0]
    BY <1>2, <1>3, <1>5, <2>4 DEF FileInv, TypeOK, Record
  <2>7. File!append(e, [jobs EXCEPT ![r.job] = rec], {})
    BY <1>7, <2>1, <2>6 DEF File!Release, File!finishReservation
  <2>8. record' = [record EXCEPT ![r.job] = rec] /\ UNCHANGED <<issued, generation>> => Next
    BY <1>1, <1>4, <1>5, <2>5 DEF Next, Release
  <2>9. QED
    BY <1>6, <2>2, <2>3, <2>7, <2>8
<1>8. CASE File!Complete(r)
  <2>1. PICK e : e = File!MakeEvent("complete", r.job, r.token, 0, 0)
    OBVIOUS
  <2>2. e \in File!Event /\ e.type = "complete" /\ e.job = r.job /\ e.token = r.token
    BY <1>2, <2>1 DEF File!MakeEvent, File!Event
  <2>3. PICK rec : rec = File!Replayed(old, e)
    OBVIOUS
  <2>4. rec = Absent /\ rec = File!Absent
    BY <2>2, <2>3 DEF File!Replayed, File!Absent, Absent
  <2>5. File!append(e, [jobs EXCEPT ![r.job] = rec], {})
    BY <1>8, <2>1, <2>4 DEF File!Complete, File!finishReservation
  <2>6. record' = [record EXCEPT ![r.job] = rec] /\ UNCHANGED <<issued, generation>> => Next
    BY <1>1, <1>4, <2>4 DEF Next, Complete
  <2>7. QED
    BY <1>6, <2>2, <2>3, <2>5, <2>6
<1>9. CASE File!Fail(r)
  <2>1. PICK e : e = File!MakeEvent("fail", r.job, r.token, 0, 0)
    OBVIOUS
  <2>2. e \in File!Event /\ e.type = "fail" /\ e.job = r.job /\ e.token = r.token
    BY <1>2, <2>1 DEF File!MakeEvent, File!Event
  <2>3. PICK rec : rec = File!Replayed(old, e)
    OBVIOUS
  <2>4. rec = [old EXCEPT !.phase = "failed", !.token = NoToken, !.until = 0]
    BY <2>2, <2>3 DEF File!Replayed, File!ReplayedFail
  <2>5. rec = Failed(old)
    BY <1>5, <2>4 DEF Failed, Record
  <2>6. [jobs EXCEPT ![r.job] = rec]
          = [jobs EXCEPT ![r.job].phase = "failed", ![r.job].token = NoToken, ![r.job].until = 0]
    BY <1>2, <1>3, <1>5, <2>4 DEF FileInv, TypeOK, Record
  <2>7. File!append(e, [jobs EXCEPT ![r.job] = rec], {})
    BY <1>9, <2>1, <2>6 DEF File!Fail, File!finishReservation
  <2>8. record' = [record EXCEPT ![r.job] = rec] /\ UNCHANGED <<issued, generation>> => Next
    BY <1>1, <1>4, <1>5, <2>5 DEF Next, Fail
  <2>9. QED
    BY <1>6, <2>2, <2>3, <2>7, <2>8
<1>10. QED
  BY <1>7, <1>8, <1>9

\* A restart rebuilds the map that the callers know, except for the job of an append that a
\* crash cut short.
Recovers ==
  status = "down" /\ status' # "down" =>
    /\ status' = "open"
    /\ \A j \in Jobs : (inflight = Nothing \/ inflight.job # j) => jobs'[j] = promised[j]

\* Opening, closing and crashing.
LEMMA FileRestarts ==
  ASSUME FileInv, record' = File!durable', File!Open \/ File!Close \/ File!Crash
  PROVE  FileStep /\ Recovers
<1>1. File!Replay(log) = [ok |-> TRUE, map |-> record]
  BY DEF FileInv, FilePlaces
<1>2. CASE File!Open
  <2>1. /\ status = "down" /\ status' = "open" /\ jobs' = record /\ promised' = record /\ partial' = FALSE
        /\ inflight' = Nothing /\ UNCHANGED <<log, granted, issued, generation>>
    BY <1>1, <1>2 DEF File!Open, File!history
  <2>2. record' = record
    BY <2>1 DEF File!durable
  <2>3. FilePlaces'
    BY <2>1, <2>2 DEF FileInv, FilePlaces
  <2>4. Recovers
    BY <2>1 DEF Recovers, FileInv, FilePlaces
  <2>5. QED
    BY <2>1, <2>2, <2>3, <2>4, FileUnseen
<1>3. CASE File!Close \/ File!Crash
  <2>1. /\ status = "open" /\ status' = "down" /\ granted' = {}
        /\ UNCHANGED <<log, promised, inflight, issued, generation>>
    BY <1>3 DEF File!Close, File!Crash, File!Down
  <2>2. record' = record
    BY <1>1, <2>1 DEF File!durable
  <2>3. FilePlaces'
    BY <2>1, <2>2 DEF FileInv, FilePlaces
  <2>4. QED
    BY <2>1, <2>2, <2>3, FileUnseen DEF Recovers
<1>4. QED
  BY <1>2, <1>3

\* Every step of the file store is a step of the contract, or none, and a restart
\* recovers what callers know.
LEMMA FileNext ==
  ASSUME FileInv, WriteErrors = FALSE, record' = File!durable', File!Next
  PROVE  FileStep /\ Recovers
<1>1. File!Clock = Clock
  BY DEF File!Clock, Clock
<1>2. ASSUME status = "open"  PROVE Recovers
  BY <1>2 DEF Recovers
<1>3. CASE \E j \in Jobs, at \in Clock : File!Enqueue(j, at)
  BY <1>2, <1>3, FileEnqueues DEF File!Enqueue
<1>4. CASE \E at \in Clock, token \in Tokens : File!Reserve(at, token)
  BY <1>2, <1>4, FileReserves DEF File!Reserve
<1>5. CASE \/ \E r \in granted, at \in Clock : File!Release(r, at)
           \/ \E r \in granted : File!Complete(r)
           \/ \E r \in granted : File!Fail(r)
  <2>1. status = "open"
    BY <1>5 DEF File!Release, File!Complete, File!Fail, File!finishReservation
  <2>2. FileStep
    BY <1>5, FileFinishes
  <2>3. QED
    BY <1>2, <2>1, <2>2
<1>6. CASE \E j \in Jobs, at \in Clock : File!RetryFailed(j, at)
  BY <1>2, <1>6, FileRetries DEF File!RetryFailed
<1>7. CASE \E j \in Jobs : File!ForgetFailed(j)
  BY <1>2, <1>7, FileForgets DEF File!ForgetFailed
<1>8. QED
  BY <1>1, <1>3, <1>4, <1>5, <1>6, <1>7, FileRestarts DEF File!Next

\* The file store begins empty, with nothing to recover.
LEMMA FileStarts == StoresInit /\ backend = "file" => Init /\ FileInv
<1>1. SUFFICES ASSUME StoresInit, backend = "file"  PROVE Init /\ FileInv
  OBVIOUS
<1>2. File!Init /\ record = File!durable
  BY <1>1 DEF StoresInit, Kept
<1>3. File!Absent = Absent
  BY DEF File!Absent, Absent
<1>4. File!Empty = [j \in Jobs |-> Absent]
  BY <1>3 DEF File!Empty
<1>5. File!Replay(<<>>) = [ok |-> TRUE, map |-> File!Empty]
  BY ReplayEmpty DEF ReplayStart
<1>6. status = "down" /\ log = <<>> /\ promised = File!Empty /\ granted = {} /\ record = File!Empty
  BY <1>2, <1>5 DEF File!Init, File!durable
<1>7. Init
  BY <1>2, <1>4, <1>6 DEF Init, File!Init
<1>8. TypeOK
  BY <1>7, StoreAssumption DEF Init, TypeOK, Record, Absent, Phases
<1>9. FilePlaces /\ GrantedIssued
  BY <1>5, <1>6 DEF FilePlaces, GrantedIssued
<1>10. HeldPending
  BY <1>7 DEF Init, HeldPending, Absent
<1>11. QED
  BY <1>1, <1>7, <1>8, <1>9, <1>10 DEF FileInv

\* A step of the stores, when it is the file store's.
LEMMA FileStoresStep ==
  ASSUME FileInv, WriteErrors = FALSE, [StoresNext]_<<vars, backend, granted, file, sql, redis>>
  PROVE  [Next]_vars /\ FileInv' /\ Recovers
<1>1. CASE StoresNext
  <2>1. File!Next /\ backend' = "file" /\ record' = File!durable'
    BY <1>1 DEF StoresNext, FileInv, Kept
  <2>2. FileStep /\ Recovers
    BY <2>1, FileNext
  <2>3. TypeOK' /\ HeldPending'
    BY <2>2, TypeStep, HeldStep DEF FileStep, FileInv
  <2>4. QED
    BY <2>1, <2>2, <2>3 DEF FileStep, FileInv
<1>2. CASE UNCHANGED <<vars, backend, granted, file, sql, redis>>
  BY <1>2 DEF vars, file, FileInv, FilePlaces, TypeOK, HeldPending, GrantedIssued, Recovers
<1>3. QED
  BY <1>1, <1>2

\* The map and the log of the file store, seen as the contract's records, change as the
\* contract says, across crashes in and between appends and restarts, as long as an append
\* does not fail while its process lives on.
THEOREM FileImplements == StoresSpec /\ backend = "file" /\ WriteErrors = FALSE => ImplementsJobStore
<1> SUFFICES ASSUME WriteErrors = FALSE  PROVE StoresSpec /\ backend = "file" => ImplementsJobStore
  OBVIOUS
<1> DEFINE all == <<vars, backend, granted, file, sql, redis>>
<1>1. StoresInit /\ backend = "file" => Init /\ FileInv
  BY FileStarts
<1>2. FileInv /\ [StoresNext]_all => [Next]_vars /\ FileInv'
  BY FileStoresStep
<1>3. QED
  BY <1>1, <1>2, PTL DEF StoresSpec, ImplementsJobStore, Spec

\* A restart finds what callers were told, whatever a crash did to the last line.
THEOREM RecoveryCorrect == StoresSpec /\ WriteErrors = FALSE => RecoveryFaithful
<1> SUFFICES ASSUME WriteErrors = FALSE  PROVE StoresSpec => RecoveryFaithful
  OBVIOUS
<1> DEFINE all == <<vars, backend, granted, file, sql, redis>>
           Inv == (backend = "file" /\ FileInv) \/ backend \in {"sql", "redis"}
<1>1. StoresInit => Inv
  BY FileStarts, BackendAssumptions DEF StoresInit
<1>2. Inv /\ [StoresNext]_all => Inv' /\ [Recovers]_(File!vars)
  <2>1. SUFFICES ASSUME Inv, [StoresNext]_all  PROVE Inv' /\ [Recovers]_(File!vars)
    OBVIOUS
  <2>2. CASE backend = "file"
    <3>1. FileInv
      BY <2>1, <2>2
    <3>2. FileInv' /\ Recovers
      BY <2>1, <3>1, FileStoresStep
    <3>3. QED
      BY <3>2 DEF FileInv
  <2>3. CASE backend \in {"sql", "redis"}
    <3>1. UNCHANGED backend /\ UNCHANGED file
      BY <2>1, <2>3 DEF StoresNext, file
    <3>2. QED
      BY <2>3, <3>1 DEF Recovers, file
  <2>4. QED
    BY <2>1, <2>2, <2>3
<1>3. [][Recovers]_(File!vars) => RecoveryFaithful
  BY PTL DEF RecoveryFaithful, File!RecoveryFaithful, Recovers
<1>4. QED
  BY <1>1, <1>2, <1>3, PTL DEF StoresSpec

\* Every one of the three stores implements the contract.
THEOREM StoresImplement == StoresSpec /\ WriteErrors = FALSE => ImplementsJobStore
<1>1. StoresSpec => backend \in {"file", "sql", "redis"}
  BY BackendAssumptions DEF StoresSpec, StoresInit
<1>2. QED
  BY <1>1, FileImplements, SQLImplements, RedisImplements

\* Without write errors an acknowledged job is there after every restart: the loss that
\* AcknowledgedJobsSurvive shows under WriteErrors has no other cause.
THEOREM NoOtherLoss == StoresSpec /\ WriteErrors = FALSE => []AcknowledgedJobsSurvive
<1> SUFFICES ASSUME WriteErrors = FALSE  PROVE StoresSpec => []AcknowledgedJobsSurvive
  OBVIOUS
<1> DEFINE all == <<vars, backend, granted, file, sql, redis>>
           Inv == backend = "file" => FileInv
<1>1. StoresInit => Inv
  BY FileStarts
<1>2. Inv /\ [StoresNext]_all => Inv'
  <2>1. SUFFICES ASSUME Inv, [StoresNext]_all, backend' = "file"  PROVE FileInv'
    OBVIOUS
  <2>2. backend = "file"
    BY <2>1 DEF StoresNext
  <2>3. QED
    BY <2>1, <2>2, FileStoresStep
<1>3. Inv => AcknowledgedJobsSurvive
  BY DEF FileInv, FilePlaces, AcknowledgedJobsSurvive, File!AcknowledgedJobsSurvive
<1>4. QED
  BY <1>1, <1>2, <1>3, PTL DEF StoresSpec
=============================================================================
