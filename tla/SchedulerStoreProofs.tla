------------------------ MODULE SchedulerStoreProofs ------------------------
(***************************************************************************)
(* The scheduler store contract keeps the claims of an occurrence apart    *)
(* for every set of tasks and tokens, every horizon and every lease; the   *)
(* file, SQL and Redis stores implement it for any callers, any clock and  *)
(* any crash of the file store.                                            *)
(***************************************************************************)
EXTENDS MCSchedulerStores, Sequences, WellFoundedInduction, TLAPS

\* A step that initializes a task keeps the invariant: a task without a record
\* has no claim in its current round.
LEMMA InitializeKeepsIInv ==
  ASSUME IInv, NEW n \in Tasks, NEW next \in Times, Initialize(n, next)
  PROVE  IInv'
<1> USE SchedulerStoreAssumption DEF IInv, TypeOK, Record, Reservation, Times
<1>1. /\ issued' = issued /\ finished' = finished /\ round' = round
      /\ \A m \in Tasks \ {n} : record'[m] = record[m]
      /\ record'[n].token = NoToken /\ record[n].next = 0
  BY DEF Initialize
<1>2. TypeOK'
  BY DEF Initialize
<1>3. OneClaimant'
  BY <1>1 DEF OneClaimant
<1>4. LeasesDisjoint' /\ FinishedByLast'
  BY <1>1 DEF LeasesDisjoint, FinishedByLast
<1>5. record[n].token = NoToken
  BY <1>1 DEF OneClaimant
<1>6. \A r \in issued : r.round = round[r.task] => r.task # n
  BY <1>5 DEF ClaimsBehind
<1>7. ClaimsBehind'
  BY <1>1, <1>6 DEF ClaimsBehind
<1>8. QED
  BY <1>2, <1>3, <1>4, <1>7

\* A step that grants a claim keeps the invariant: the new claim begins where
\* the last one of its round ended or later.
LEMMA ReserveKeepsIInv ==
  ASSUME IInv, NEW n \in Tasks, NEW at \in Times, NEW token \in Tokens,
         Reserve(n, at, token)
  PROVE  IInv'
<1> USE SchedulerStoreAssumption DEF IInv, TypeOK, Record, Reservation, Times
<1> DEFINE new == Granted(n, at, token)
<1>1. /\ new \in Reservation
      /\ new.task = n /\ new.token = token /\ new.next = record[n].next
      /\ new.at = at /\ new.until = at + Lease /\ new.round = round[n]
  BY DEF Reserve, Due, Granted
<1>2. /\ issued' = issued \cup {new} /\ finished' = finished /\ round' = round
      /\ \A m \in Tasks \ {n} : record'[m] = record[m]
      /\ record'[n].next = record[n].next
      /\ record'[n].token = token
      /\ record'[n].until = at + Lease
  BY DEF Reserve, Reserved
<1>3. /\ \A r \in issued : r.token # token
      /\ record[n].token = NoToken \/ record[n].until <= at
  BY DEF Reserve, Due, Leased, UsedTokens
<1>4. TypeOK'
  BY <1>1 DEF Reserve, Reserved
<1> HIDE DEF new
<1>5. \A r \in issued : r.task = n /\ r.round = round[n] => r.until <= at
  BY <1>3 DEF ClaimsBehind
<1>6. OneClaimant'
  <2> SUFFICES ASSUME NEW m \in Tasks, record'[m].token # NoToken
               PROVE  \E r \in issued' :
                        /\ r.task = m /\ r.token = record'[m].token
                        /\ r.next = record'[m].next /\ r.until = record'[m].until
                        /\ r.round = round'[m]
                        /\ \A s \in issued' : s.token = r.token => s = r
    BY DEF OneClaimant
  <2>1. CASE m = n
    <3>1. \A s \in issued' : s.token = new.token => s = new
      BY <1>1, <1>2, <1>3
    <3>2. QED
      BY <1>1, <1>2, <2>1, <3>1
  <2>2. CASE m # n
    <3>1. record'[m] = record[m]
      BY <1>2, <2>2
    <3>2. PICK r \in issued :
            /\ r.task = m /\ r.token = record[m].token
            /\ r.next = record[m].next /\ r.until = record[m].until
            /\ r.round = round[m]
            /\ \A s \in issued : s.token = r.token => s = r
      BY <3>1 DEF OneClaimant
    <3>3. \A s \in issued' : s.token = r.token => s = r
      BY <1>1, <1>2, <1>3, <3>2
    <3>4. QED
      BY <1>2, <3>1, <3>2, <3>3
  <2>3. QED
    BY <2>1, <2>2
<1>7. LeasesDisjoint'
  BY <1>1, <1>2, <1>5 DEF LeasesDisjoint
<1>8. FinishedByLast'
  <2>1. \A r \in finished : r.task = n => r.round # new.round
    BY <1>1 DEF ClaimsBehind
  <2>2. new \notin finished
    BY <1>1, <1>3
  <2>3. QED
    BY <1>1, <1>2, <2>1, <2>2 DEF FinishedByLast
<1>9. ClaimsBehind'
  BY <1>1, <1>2, <1>3, <1>5 DEF ClaimsBehind
<1>10. QED
  BY <1>4, <1>6, <1>7, <1>8, <1>9

\* A step that completes a claim keeps the invariant: the stored token makes
\* it the last claim of its round, and the round ends with it.
LEMMA CompleteKeepsIInv ==
  ASSUME IInv, NEW r \in issued, NEW next \in Times, NEW completedAt \in Times,
         Complete(r, next, completedAt)
  PROVE  IInv'
<1> USE SchedulerStoreAssumption DEF IInv, TypeOK, Record, Reservation, Times
<1> DEFINE n == r.task
<1>1. /\ n \in Tasks /\ r.token \in Tokens
      /\ record[n].token = r.token
      /\ issued' = issued /\ finished' = finished \cup {r}
      /\ \A m \in Tasks \ {n} : record'[m] = record[m] /\ round'[m] = round[m]
      /\ record'[n].token = NoToken
      /\ round'[n] = round[n] + 1
  BY DEF Complete, Holds, Completed
<1>2. TypeOK'
  BY DEF Complete, Completed
<1>3. r.round = round[n] /\ r.until = record[n].until
  BY <1>1 DEF OneClaimant
<1>4. \A s \in issued : s.task = n /\ s.round = r.round /\ s # r => s.until <= r.at
  <2> SUFFICES ASSUME NEW s \in issued, s.task = n, s.round = r.round, s # r
               PROVE  s.until <= r.at
    OBVIOUS
  <2>1. s.until <= r.until /\ s.until = s.at + Lease
    BY <1>3 DEF ClaimsBehind
  <2>2. s.until <= r.at \/ r.until <= s.at
    BY DEF LeasesDisjoint
  <2>3. QED
    BY <2>1, <2>2
<1> HIDE DEF n
<1>5. OneClaimant'
  BY <1>1 DEF OneClaimant
<1>6. LeasesDisjoint'
  BY <1>1 DEF LeasesDisjoint
<1>7. FinishedByLast'
  <2>1. \A s \in finished : s.task = n => s.round # r.round
    BY <1>3 DEF ClaimsBehind
  <2>2. QED
    BY <1>1, <1>4, <2>1 DEF FinishedByLast, n
<1>8. ClaimsBehind'
  <2>1. \A s \in issued : s.task = n => s.round < round'[n]
    BY <1>1 DEF ClaimsBehind
  <2>2. QED
    BY <1>1, <2>1 DEF ClaimsBehind, n
<1>9. QED
  BY <1>2, <1>5, <1>6, <1>7, <1>8

\* The inductive invariant holds at the start.
LEMMA InitIInv ==
  ASSUME Init
  PROVE  IInv
BY SchedulerStoreAssumption DEF Init, IInv, TypeOK, Record, Unknown, OneClaimant,
   LeasesDisjoint, FinishedByLast, ClaimsBehind

\* Every step keeps it.
LEMMA StepKeepsIInv ==
  ASSUME IInv, [Next]_vars
  PROVE  IInv'
<1>1. CASE UNCHANGED vars
  BY <1>1 DEF vars, IInv, TypeOK, OneClaimant, LeasesDisjoint, FinishedByLast, ClaimsBehind
<1>2. QED
  BY <1>1, InitializeKeepsIInv, ReserveKeepsIInv, CompleteKeepsIInv DEF Next

\* The inductive invariant holds in every reachable state.
THEOREM SchedulerStoreInvariant == Spec => []IInv
<1>1. Init => IInv
  BY InitIInv
<1>2. IInv /\ [Next]_vars => IInv'
  BY StepKeepsIInv
<1>3. QED
  BY <1>1, <1>2, PTL DEF Spec

\* The leases granted for one occurrence are disjoint, whatever clocks the
\* callers read and however many processes share the store.
THEOREM ClaimsApart == Spec => []LeasesDisjoint
<1>1. IInv => LeasesDisjoint
  BY DEF IInv
<1>2. QED
  BY <1>1, SchedulerStoreInvariant, PTL

\* An occurrence is completed once, and by the last of its claimants.
THEOREM CompletionFenced == Spec => []FinishedByLast
<1>1. IInv => FinishedByLast
  BY DEF IInv
<1>2. QED
  BY <1>1, SchedulerStoreInvariant, PTL

-----------------------------------------------------------------------------
(***************************************************************************)
(* The SQL store implements the contract                                   *)
(***************************************************************************)

\* A call is about a task and about times once it has looked at the table.
Call == [step : {"idle", "insert", "update", "select"}, task : Tasks \cup {NoTask}, at : Nat, next : Nat]
InCall(call1) ==
  /\ call1 \in Call
  /\ call1.step # "idle" => call1.task \in Tasks
  /\ call1.step = "insert" => call1.next \in Times
  /\ call1.step \in {"update", "select"} => call1.at \in Times
  /\ call1.step = "update" => call1.next # 0
CallsInv == call \in [Callers -> Call] /\ \A c \in Callers : InCall(call[c])

SQLInv == backend = "sql" /\ record = row /\ IInv /\ CallsInv /\ granted \subseteq issued

\* The step of the contract that a statement takes, and what it keeps.
SQLImplementsStep == [Next]_vars /\ CallsInv' /\ granted' \subseteq issued'

\* A caller that has nothing under way.
LEMMA SQLIdle == InCall(SQL!Idle)
<1>1. PICK idle : idle = SQL!Idle
  OBVIOUS
<1>2. idle \in Call /\ idle.step = "idle"
  BY <1>1 DEF SQL!Idle, Call
<1>3. QED
  BY <1>1, <1>2 DEF InCall

\* One caller goes on to another place in its call.
LEMMA OneCall ==
  ASSUME SQLInv, NEW c \in Callers, NEW new, InCall(new), call' = [call EXCEPT ![c] = new]
  PROVE  CallsInv'
<1>1. new \in Call /\ call \in [Callers -> Call] /\ \A d \in Callers : InCall(call[d])
  BY DEF InCall, SQLInv, CallsInv
<1>2. call' \in [Callers -> Call] /\ \A d \in Callers : call'[d] = IF d = c THEN new ELSE call[d]
  BY <1>1
<1>3. \A d \in Callers : InCall(call'[d])
  BY <1>1, <1>2
<1>4. QED
  BY <1>2, <1>3 DEF CallsInv

\* Statements that only look, and calls that end.
LEMMA SQLLooks ==
  ASSUME SQLInv, record' = row', NEW c \in Callers, NEW new, InCall(new),
         call' = [call EXCEPT ![c] = new], UNCHANGED <<row, granted, issued, finished, round>>
  PROVE  SQLImplementsStep
<1>1. CallsInv'
  BY OneCall
<1>2. UNCHANGED vars /\ granted' \subseteq issued'
  BY DEF SQLInv, vars
<1>3. QED
  BY <1>1, <1>2 DEF SQLImplementsStep

\* The statements of Initialize.
LEMMA SQLInitializes ==
  ASSUME SQLInv, record' = row', NEW c \in Callers,
         \/ \E n \in Tasks, next \in Times : SQL!stateExists(c, n, next)
         \/ SQL!Initialize(c)
  PROVE  SQLImplementsStep
<1>1. ASSUME NEW n \in Tasks, NEW next \in Times, SQL!stateExists(c, n, next)  PROVE SQLImplementsStep
  <2>1. PICK new : new = [SQL!Idle EXCEPT !.step = "insert", !.task = n, !.next = next]
    OBVIOUS
  <2>2. new = [step |-> "insert", task |-> n, at |-> 0, next |-> next]
    BY <2>1 DEF SQL!Idle
  <2>3. next \in Nat
    BY SchedulerStoreAssumption DEF Times
  <2>4. new.step = "insert" /\ new.task = n /\ new.next = next /\ new \in Call
    BY <2>2, <2>3 DEF Call
  <2>5. InCall(new)
    BY <2>4 DEF InCall
  <2>6. call' = [call EXCEPT ![c] = new] /\ UNCHANGED <<row, granted, issued, finished, round>>
    BY <1>1, <2>1 DEF SQL!stateExists
  <2>7. QED
    BY <2>5, <2>6, SQLLooks
<1>2. CASE SQL!Initialize(c)
  <2>1. PICK sel \in Call : sel = call[c] /\ InCall(sel)
    BY DEF SQLInv, CallsInv
  <2>2. /\ sel.step = "insert" /\ call' = [call EXCEPT ![c] = SQL!Idle]
        /\ UNCHANGED <<granted, issued, finished, round>>
        /\ row' = IF row[sel.task].next = 0 THEN [row EXCEPT ![sel.task] = [SQL!Unknown EXCEPT !.next = sel.next]] ELSE row
    BY <1>2, <2>1 DEF SQL!Initialize
  <2>3. sel.task \in Tasks /\ sel.next \in Times
    BY <2>1, <2>2 DEF InCall
  <2>4. CASE row[sel.task].next = 0
    <3>1. [SQL!Unknown EXCEPT !.next = sel.next] = [next |-> sel.next, last |-> 0, token |-> NoToken, until |-> 0]
      BY DEF SQL!Unknown
    <3>2. Initialize(sel.task, sel.next)
      BY <2>2, <2>4, <3>1 DEF Initialize, SQLInv
    <3>3. Next
      BY <2>3, <3>2 DEF Next
    <3>4. CallsInv'
      BY <2>2, SQLIdle, OneCall
    <3>5. QED
      BY <2>2, <3>3, <3>4 DEF SQLImplementsStep, SQLInv
  <2>5. CASE row[sel.task].next # 0
    BY <2>2, <2>5, SQLIdle, SQLLooks
  <2>6. QED
    BY <2>4, <2>5
<1>3. QED
  BY <1>1, <1>2

\* The select of Reserve.
LEMMA SQLSelects ==
  ASSUME SQLInv, record' = row', NEW c \in Callers, NEW n \in Tasks, NEW at \in Times, SQL!storedTask(c, n, at)
  PROVE  SQLImplementsStep
<1>1. PICK new : /\ new = SQL!Idle \/ (row[n].next # 0 /\ new = [step |-> "update", task |-> n, at |-> at, next |-> row[n].next])
                 /\ call' = [call EXCEPT ![c] = new]
  BY DEF SQL!storedTask
<1>2. UNCHANGED <<row, granted, issued, finished, round>>
  BY DEF SQL!storedTask
<1>3. row[n].next \in Nat /\ at \in Nat
  BY SchedulerStoreAssumption DEF SQLInv, IInv, TypeOK, Record, Times
<1>4. CASE new = [step |-> "update", task |-> n, at |-> at, next |-> row[n].next] /\ row[n].next # 0
  <2>1. /\ new \in Call /\ new.step = "update" /\ new.task = n /\ new.at = at /\ new.next # 0
    BY <1>3, <1>4 DEF Call
  <2>2. InCall(new)
    BY <2>1 DEF InCall
  <2>3. QED
    BY <1>1, <1>2, <2>2, SQLLooks
<1>5. CASE new = SQL!Idle
  BY <1>1, <1>2, <1>5, SQLIdle, SQLLooks
<1>6. QED
  BY <1>1, <1>4, <1>5

\* The update of Reserve, its answer received or lost.
LEMMA SQLUpdates ==
  ASSUME SQLInv, record' = row', NEW c \in Callers, SQL!Reserve(c) \/ SQL!ReserveLost(c)
  PROVE  SQLImplementsStep
<1>1. PICK sel \in Call : sel = call[c] /\ InCall(sel)
  BY DEF SQLInv, CallsInv
<1>2. PICK token \in Tokens :
        /\ SQL!UpdateRow(sel, token)
        /\ granted' = granted \/ granted' = granted \cup {SQL!Reservation(sel, token)}
  BY <1>1 DEF SQL!Reserve, SQL!ReserveLost
<1>3. /\ sel.step = "update" /\ SQL!Matches(sel) /\ call' = [call EXCEPT ![c] = SQL!Idle]
      /\ UNCHANGED <<finished, round>>
  BY <1>1 DEF SQL!Reserve, SQL!ReserveLost
<1>4. PICK n \in Tasks, at \in Times : n = sel.task /\ at = sel.at /\ sel.next # 0
  BY <1>1, <1>3 DEF InCall
<1>5. record = row /\ row \in [Tasks -> Record] /\ granted \subseteq issued
  BY DEF SQLInv, IInv, TypeOK
<1>6. PICK rec \in Record : rec = row[n]
  BY <1>5
<1>7. rec.next = sel.next /\ rec.next # 0 /\ rec.next <= at /\ (rec.token = NoToken \/ rec.until <= at)
  BY <1>3, <1>4, <1>6 DEF SQL!Matches
<1>8. at \in Nat /\ rec.until \in Nat
  BY SchedulerStoreAssumption DEF Times, Record
<1>9. Due(n, at)
  BY <1>5, <1>6, <1>7, <1>8 DEF Due, Leased
<1>10. row' = [row EXCEPT ![n] = Reserved(row[n], token, at + Lease)]
  <2>1. PICK new : new = [[row[n] EXCEPT !.token = token] EXCEPT !.until = at + Lease]
    OBVIOUS
  <2>2. new = Reserved(row[n], token, at + Lease)
    BY <1>6, <2>1 DEF Reserved, Record
  <2>3. row' = [row EXCEPT ![n] = new]
    BY <1>2, <1>4, <1>5, <2>1 DEF SQL!UpdateRow
  <2>4. QED
    BY <2>2, <2>3
<1>11. SQL!Reservation(sel, token) = Granted(n, at, token)
  BY <1>4, <1>5, <1>6, <1>7 DEF SQL!Reservation, Granted
<1>12. Reserve(n, at, token)
  BY <1>2, <1>3, <1>5, <1>9, <1>10, <1>11 DEF Reserve, SQL!UpdateRow, UsedTokens
<1>13. Next
  BY <1>12 DEF Next
<1>14. CallsInv'
  BY <1>3, SQLIdle, OneCall
<1>15. granted' \subseteq issued'
  BY <1>2, <1>5 DEF SQL!UpdateRow
<1>16. QED
  BY <1>13, <1>14, <1>15 DEF SQLImplementsStep

\* A completion.
LEMMA SQLCompletes ==
  ASSUME SQLInv, record' = row', NEW r \in granted, NEW next \in Times, NEW completedAt \in Times,
         SQL!Complete(r, next, completedAt)
  PROVE  SQLImplementsStep
<1>1. r \in issued /\ record = row
  BY DEF SQLInv
<1>2. /\ next > completedAt /\ row[r.task].token = r.token /\ row[r.task].next = r.next /\ round[r.task] < MaxRounds
      /\ row' = [row EXCEPT ![r.task] = [next |-> next, last |-> r.next, token |-> NoToken, until |-> 0]]
      /\ round' = [round EXCEPT ![r.task] = @ + 1] /\ finished' = finished \cup {r}
      /\ UNCHANGED <<call, granted, issued>>
  BY DEF SQL!Complete, SQL!Names
<1>3. Complete(r, next, completedAt)
  BY <1>1, <1>2 DEF Complete, Holds, Completed
<1>4. Next
  BY <1>1, <1>2, <1>3 DEF Next
<1>5. CallsInv'
  BY <1>2 DEF SQLInv, CallsInv
<1>6. QED
  BY <1>2, <1>4, <1>5 DEF SQLImplementsStep, SQLInv

\* Every statement of every caller.
LEMMA SQLStep ==
  ASSUME SQLInv, record' = row', SQL!Next
  PROVE  SQLImplementsStep
<1>1. SQL!Times = Times
  BY DEF SQL!Times, Times
<1>2. \A c \in Callers : InCall(call[c])
  BY DEF SQLInv, CallsInv
<1>3. ASSUME NEW c \in Callers, NEW n \in Tasks, NEW at \in Times, SQL!BeginReserve(c, n, at)  PROVE SQLImplementsStep
  BY <1>3, SQLSelects DEF SQL!BeginReserve
<1>4. ASSUME NEW c \in Callers, SQL!SelectAgain(c)  PROVE SQLImplementsStep
  <2>1. call[c].task \in Tasks /\ call[c].at \in Times /\ SQL!storedTask(c, call[c].task, call[c].at)
    BY <1>2, <1>4 DEF SQL!SelectAgain, InCall
  <2>2. QED
    BY <2>1, SQLSelects
<1>5. ASSUME NEW c \in Callers, SQL!ReserveMissed(c)  PROVE SQLImplementsStep
  <2>1. PICK sel \in Call : sel = call[c] /\ InCall(sel) /\ sel.step = "update"
    BY <1>2, <1>5 DEF SQL!ReserveMissed, InCall
  <2>2. PICK new : new = [sel EXCEPT !.step = "select"]
    OBVIOUS
  <2>3. new \in Call /\ new.step = "select" /\ new.task = sel.task /\ new.at = sel.at
    BY <2>1, <2>2 DEF Call
  <2>4. InCall(new)
    BY <2>1, <2>3 DEF InCall
  <2>5. call' = [call EXCEPT ![c] = new] /\ UNCHANGED <<row, granted, issued, finished, round>>
    BY <1>5, <2>1, <2>2 DEF SQL!ReserveMissed
  <2>6. QED
    BY <2>4, <2>5, SQLLooks
<1>6. ASSUME NEW c \in Callers, SQL!GiveUp(c)  PROVE SQLImplementsStep
  <2>1. call' = [call EXCEPT ![c] = SQL!Idle] /\ UNCHANGED <<row, granted, issued, finished, round>>
    BY <1>6 DEF SQL!GiveUp
  <2>2. QED
    BY <2>1, SQLIdle, SQLLooks
<1>7. QED
  BY <1>1, <1>3, <1>4, <1>5, <1>6, SQLInitializes, SQLUpdates, SQLCompletes DEF SQL!Next

\* Only the file store restarts.
LEMMA OthersNeverRestart ==
  ASSUME UNCHANGED status
  PROVE  ~(status = "down" /\ status' # "down")
OBVIOUS

\* The rows of the SQL store change as the contract says, for any callers that interleave
\* their selects, inserts and updates, lose answers or give up.
THEOREM SQLSchedulerImplements == StoresSpec /\ backend = "sql" => ImplementsSchedulerStore
<1> DEFINE all == <<vars, backend, granted, file, sql, redis>>
           Recovery == (status = "down" /\ status' # "down")
                       => /\ status' = "open"
                          /\ \A n \in Tasks :
                               (inflight = Nothing \/ inflight.name # n) => tasks'[n] = promised[n]
<1>1. StoresInit /\ backend = "sql" => Init /\ SQLInv
  <2>1. SUFFICES ASSUME StoresInit, backend = "sql"  PROVE Init /\ SQLInv
    OBVIOUS
  <2>2. record = row
    BY <2>1 DEF StoresInit, Kept
  <2>3. Init
    BY <2>1, <2>2 DEF StoresInit, SQL!Init, SQL!Unknown, Unknown, Init
  <2>4. CallsInv /\ granted \subseteq issued
    <3>1. call = [c \in Callers |-> SQL!Idle] /\ granted = {}
      BY <2>1 DEF StoresInit, SQL!Init
    <3>2. QED
      BY <3>1, SQLIdle DEF CallsInv, InCall
  <2>5. QED
    BY <2>1, <2>2, <2>3, <2>4, InitIInv DEF SQLInv
<1>2. SQLInv /\ [StoresNext]_all => [Next]_vars /\ SQLInv' /\ [Recovery]_(File!vars)
  <2>1. SUFFICES ASSUME SQLInv, [StoresNext]_all  PROVE [Next]_vars /\ SQLInv' /\ [Recovery]_(File!vars)
    OBVIOUS
  <2>2. CASE StoresNext
    <3>1. SQL!Next /\ backend' = "sql" /\ record' = row' /\ UNCHANGED file
      BY <2>1, <2>2 DEF StoresNext, SQLInv, Kept
    <3>2. SQLImplementsStep
      BY <2>1, <3>1, SQLStep
    <3>3. IInv'
      BY <2>1, <3>2, StepKeepsIInv DEF SQLImplementsStep, SQLInv
    <3>4. Recovery
      BY <3>1, OthersNeverRestart DEF file
    <3>5. QED
      BY <3>1, <3>2, <3>3, <3>4 DEF SQLImplementsStep, SQLInv
  <2>3. CASE UNCHANGED all
    <3>1. UNCHANGED vars /\ UNCHANGED status
      BY <2>3 DEF file
    <3>2. IInv'
      BY <2>1, <3>1, StepKeepsIInv DEF SQLInv
    <3>3. Recovery
      BY <3>1, OthersNeverRestart
    <3>4. QED
      BY <2>1, <2>3, <3>1, <3>2, <3>3 DEF SQLInv, vars, sql, CallsInv
  <2>4. QED
    BY <2>1, <2>2, <2>3
<1>3. QED
  BY <1>1, <1>2, PTL DEF StoresSpec, ImplementsSchedulerStore, Spec, File!RecoveryFaithful

-----------------------------------------------------------------------------
(***************************************************************************)
(* The Redis store implements the contract                                 *)
(***************************************************************************)
RedisInv == backend = "redis" /\ record = hash /\ IInv /\ granted \subseteq issued

\* What cutting a reading down to microseconds makes of it: a time of the contract that
\* is not the first, and a lease is as long as before.
LEMMA MicroTimes ==
  ASSUME NEW t \in Redis!Readings
  PROVE  /\ Redis!Micro(t) \in Times /\ Redis!Micro(t) - 1 \in Times
         /\ Redis!Micro(t + Lease * Resolution) = Redis!Micro(t) + Lease
<1>1. Resolution \in Nat \ {0} /\ MaxTime \in Nat /\ Lease \in Nat
  BY BackendAssumptions DEF Redis!RedisSchedulerAssumption
<1>2. t \in (2 * Resolution)..(MaxTime * Resolution + Resolution - 1)
  BY DEF Redis!Readings
<1>3. t \in Nat
  BY <1>1, <1>2
<1>4. t \div Resolution \in 2..MaxTime
  BY <1>1, <1>2
<1>5. (t + Lease * Resolution) \div Resolution = (t \div Resolution) + Lease
  BY <1>1, <1>3
<1>6. QED
  BY <1>1, <1>4, <1>5 DEF Redis!Micro, Times

\* Every script is a step of the contract.
LEMMA RedisStep ==
  ASSUME RedisInv, record' = hash', Redis!Next
  PROVE  Next /\ granted' \subseteq issued'
<1>1. record = hash /\ hash \in [Tasks -> Record] /\ granted \subseteq issued
  BY DEF RedisInv, IInv, TypeOK
<1>2. ASSUME NEW n \in Tasks, NEW next \in Redis!Readings, Redis!Initialize(n, next)
      PROVE  Next /\ granted' \subseteq issued'
  <2>1. PICK us \in Times : us = Redis!Micro(next)
    BY MicroTimes
  <2>2. [Redis!Unknown EXCEPT !.next = us] = [next |-> us, last |-> 0, token |-> NoToken, until |-> 0]
    BY DEF Redis!Unknown
  <2>3. Initialize(n, us)
    BY <1>1, <1>2, <2>1, <2>2 DEF Redis!Initialize, Initialize
  <2>4. QED
    BY <1>1, <1>2, <2>3 DEF Redis!Initialize, Next
<1>3. ASSUME NEW n \in Tasks, NEW at \in Redis!Readings, NEW token \in Tokens,
             Redis!Reserve(n, at, token) \/ Redis!ReserveLost(n, at, token)
      PROVE  Next /\ granted' \subseteq issued'
  <2>1. PICK now \in Times : now = Redis!Micro(at) /\ Redis!Micro(at + Lease * Resolution) = now + Lease
    BY MicroTimes
  <2>2. PICK r : r = Redis!Assigned(n, now, token, now + Lease)
    OBVIOUS
  <2>3. Redis!ReserveScript(n, now, token, now + Lease) /\ (granted' = granted \/ granted' = granted \cup {r})
    BY <1>3, <2>1, <2>2 DEF Redis!Reserve, Redis!ReserveLost
  <2>4. PICK rec \in Record : rec = hash[n]
    BY <1>1
  <2>5. now \in Nat /\ rec.until \in Nat /\ rec.next \in Nat
    BY SchedulerStoreAssumption DEF Times, Record
  <2>6. rec.next # 0 /\ ~(rec.token # NoToken /\ rec.until > now) /\ ~(rec.next > now)
    BY <2>3, <2>4 DEF Redis!ReserveScript, Redis!Reply
  <2>7. Due(n, now)
    BY <1>1, <2>4, <2>5, <2>6 DEF Due, Leased
  <2>8. hash' = [hash EXCEPT ![n] = Reserved(hash[n], token, now + Lease)]
    <3>1. PICK new : new = [[hash[n] EXCEPT !.token = token] EXCEPT !.until = now + Lease]
      OBVIOUS
    <3>2. new = Reserved(hash[n], token, now + Lease)
      BY <2>4, <3>1 DEF Reserved, Record
    <3>3. hash' = [hash EXCEPT ![n] = new]
      BY <1>1, <2>3, <3>1 DEF Redis!ReserveScript
    <3>4. QED
      BY <3>2, <3>3
  <2>9. r = Granted(n, now, token)
    BY <1>1, <2>2 DEF Redis!Assigned, Granted
  <2>10. Reserve(n, now, token)
    BY <1>1, <2>2, <2>3, <2>7, <2>8, <2>9 DEF Reserve, Redis!ReserveScript, UsedTokens
  <2>11. Next
    BY <2>10 DEF Next
  <2>12. QED
    BY <1>1, <2>2, <2>3, <2>11 DEF Redis!ReserveScript
<1>4. ASSUME NEW r \in granted, NEW next \in Redis!Readings, NEW completedAt \in Redis!Readings,
             Redis!Complete(r, next, completedAt)
      PROVE  Next /\ granted' \subseteq issued'
  <2>1. PICK us \in Times : us = Redis!Micro(next) /\ us - 1 \in Times
    BY MicroTimes
  <2>2. /\ hash[r.task].token = r.token /\ hash[r.task].next = r.next /\ round[r.task] < MaxRounds
        /\ hash' = [hash EXCEPT ![r.task] = [next |-> us, last |-> r.next, token |-> NoToken, until |-> 0]]
        /\ round' = [round EXCEPT ![r.task] = @ + 1] /\ finished' = finished \cup {r}
        /\ UNCHANGED <<granted, issued>>
    BY <1>4, <2>1 DEF Redis!Complete, Redis!Matches
  <2>3. us > us - 1
    BY <2>1, SchedulerStoreAssumption DEF Times
  <2>4. Complete(r, us, us - 1)
    BY <1>1, <2>2, <2>3 DEF Complete, Holds, Completed
  <2>5. r \in issued
    BY <1>1
  <2>6. QED
    BY <1>1, <2>1, <2>2, <2>4, <2>5 DEF Next
<1>5. QED
  BY <1>2, <1>3, <1>4 DEF Redis!Next

\* The records in Redis change as the contract says in microseconds, however fine the
\* clock that the callers read and whichever answers are lost or refused.
THEOREM RedisSchedulerImplements == StoresSpec /\ backend = "redis" => ImplementsSchedulerStore
<1> DEFINE all == <<vars, backend, granted, file, sql, redis>>
           Recovery == (status = "down" /\ status' # "down")
                       => /\ status' = "open"
                          /\ \A n \in Tasks :
                               (inflight = Nothing \/ inflight.name # n) => tasks'[n] = promised[n]
<1>1. StoresInit /\ backend = "redis" => Init /\ RedisInv
  <2>1. SUFFICES ASSUME StoresInit, backend = "redis"  PROVE Init /\ RedisInv
    OBVIOUS
  <2>2. record = hash
    BY <2>1 DEF StoresInit, Kept
  <2>3. Init /\ granted = {}
    BY <2>1, <2>2 DEF StoresInit, Redis!Init, Redis!Unknown, Unknown, Init
  <2>4. QED
    BY <2>1, <2>2, <2>3, InitIInv DEF RedisInv
<1>2. RedisInv /\ [StoresNext]_all => [Next]_vars /\ RedisInv' /\ [Recovery]_(File!vars)
  <2>1. SUFFICES ASSUME RedisInv, [StoresNext]_all  PROVE [Next]_vars /\ RedisInv' /\ [Recovery]_(File!vars)
    OBVIOUS
  <2>2. CASE StoresNext
    <3>1. Redis!Next /\ backend' = "redis" /\ record' = hash' /\ UNCHANGED file
      BY <2>1, <2>2 DEF StoresNext, RedisInv, Kept
    <3>2. Next /\ granted' \subseteq issued'
      BY <2>1, <3>1, RedisStep
    <3>3. IInv'
      BY <2>1, <3>2, StepKeepsIInv DEF RedisInv
    <3>4. Recovery
      BY <3>1, OthersNeverRestart DEF file
    <3>5. QED
      BY <3>1, <3>2, <3>3, <3>4 DEF RedisInv
  <2>3. CASE UNCHANGED all
    <3>1. UNCHANGED vars /\ UNCHANGED status
      BY <2>3 DEF file
    <3>2. IInv'
      BY <2>1, <3>1, StepKeepsIInv DEF RedisInv
    <3>3. Recovery
      BY <3>1, OthersNeverRestart
    <3>4. QED
      BY <2>1, <2>3, <3>1, <3>2, <3>3 DEF RedisInv, vars, redis
  <2>4. QED
    BY <2>1, <2>2, <2>3
<1>3. QED
  BY <1>1, <1>2, PTL DEF StoresSpec, ImplementsSchedulerStore, Spec, File!RecoveryFaithful

-----------------------------------------------------------------------------
(***************************************************************************)
(* The file store.  Replay is a recursion over the lines of the log; the   *)
(* least-number principle (Least) gives what it computes.                  *)
(***************************************************************************)

\* A set of natural numbers that is not empty has a least element.
LEMMA Least ==
  ASSUME NEW S \in SUBSET Nat, S # {}
  PROVE  \E m \in S : \A n \in S : m <= n
<1>1. IsWellFoundedOn({ss \in Nat \X Nat : ss[1] < ss[2]}, Nat)
  BY NatLessThanWellFounded DEF OpToRel
<1>2. PICK R : R = {ss \in Nat \X Nat : ss[1] < ss[2]} /\ IsWellFoundedOn(R, Nat)
  BY <1>1
<1>3. PICK m \in S : \A n \in S : ~(<<n, m>> \in R)
  BY <1>2, WFMin
<1>4. \A n \in S : ~(n < m)
  <2>1. \A n \in Nat, k \in Nat : n < k => <<n, k>> \in R
    BY <1>2
  <2>2. QED
    BY <1>3, <2>1
<1>5. QED
  BY <1>4

\* The map before the first line.
ReplayStart == [ok |-> TRUE, map |-> File!Empty]
\* f is what replay of these lines has made of the map after each of the first m.
Replays(lines, m, f) ==
  f = [n \in 0..m |-> IF n = 0 THEN ReplayStart ELSE File!applyEvent(f[n - 1], lines[n])]

\* Replay is defined for every log: what the recursion describes exists.
LEMMA ReplayExists ==
  ASSUME NEW lines, NEW len \in Nat
  PROVE  \E f : Replays(lines, len, f)
<1>1. PICK T : T = {m \in Nat : ~ \E f : Replays(lines, m, f)}
  OBVIOUS
<1>2. SUFFICES ASSUME T # {}  PROVE FALSE
  BY <1>1
<1>3. T \in SUBSET Nat
  BY <1>1
<1>4. PICK m \in T : \A n \in T : m <= n
  BY <1>2, <1>3, Least
<1>5. m \in Nat /\ ~ \E f : Replays(lines, m, f)
  BY <1>1, <1>4
<1>6. CASE m = 0
  <2>1. PICK f : f = [n \in 0..0 |-> ReplayStart]
    OBVIOUS
  <2>2. Replays(lines, 0, f)
    BY <2>1 DEF Replays
  <2>3. QED
    BY <1>5, <1>6, <2>2
<1>7. CASE m # 0
  <2>1. m - 1 \in Nat /\ m - 1 \notin T
    BY <1>4, <1>5, <1>7
  <2>2. PICK g : Replays(lines, m - 1, g)
    BY <1>1, <2>1
  <2>3. PICK f : f = [n \in 0..m |-> IF n = m THEN File!applyEvent(g[m - 1], lines[m]) ELSE g[n]]
    OBVIOUS
  <2>4. \A n \in 0..m : n # m => n \in 0..(m - 1)
    BY <1>5
  <2>5. f[m] = File!applyEvent(g[m - 1], lines[m]) /\ f[m - 1] = g[m - 1]
    BY <1>5, <1>7, <2>3
  <2>6. ASSUME NEW n \in 0..m  PROVE f[n] = IF n = 0 THEN ReplayStart ELSE File!applyEvent(f[n - 1], lines[n])
    <3>1. CASE n = m
      BY <1>7, <2>5, <3>1
    <3>2. CASE n # m
      <4>1. n \in 0..(m - 1) /\ f[n] = g[n] /\ (n # 0 => n - 1 \in 0..m /\ n - 1 # m)
        BY <1>5, <2>3, <2>4, <3>2
      <4>2. n # 0 => f[n - 1] = g[n - 1]
        BY <2>3, <4>1
      <4>3. g[n] = IF n = 0 THEN ReplayStart ELSE File!applyEvent(g[n - 1], lines[n])
        BY <2>2, <4>1 DEF Replays
      <4>4. QED
        BY <4>1, <4>2, <4>3
    <3>3. QED
      BY <3>1, <3>2
  <2>7. Replays(lines, m, f)
    <3>1. f = [n \in 0..m |-> f[n]]
      BY <2>3
    <3>2. QED
      BY <2>6, <3>1 DEF Replays
  <2>8. QED
    BY <1>5, <2>7
<1>8. QED
  BY <1>6, <1>7

\* Two replays of logs that begin alike agree as far as that.
LEMMA ReplaysAgree ==
  ASSUME NEW lines, NEW longer, NEW len \in Nat, NEW more \in Nat, len <= more,
         \A n \in 1..len : lines[n] = longer[n],
         NEW f, Replays(lines, len, f), NEW g, Replays(longer, more, g)
  PROVE  \A n \in 0..len : f[n] = g[n]
<1>1. PICK T : T = {n \in 0..len : f[n] # g[n]}
  OBVIOUS
<1>2. SUFFICES ASSUME T # {}  PROVE FALSE
  BY <1>1
<1>3. T \in SUBSET Nat
  BY <1>1
<1>4. PICK m \in T : \A n \in T : m <= n
  BY <1>2, <1>3, Least
<1>5. m \in 0..len /\ m \in 0..more /\ f[m] # g[m]
  BY <1>1, <1>4
<1>6. /\ f[m] = IF m = 0 THEN ReplayStart ELSE File!applyEvent(f[m - 1], lines[m])
      /\ g[m] = IF m = 0 THEN ReplayStart ELSE File!applyEvent(g[m - 1], longer[m])
  BY <1>5 DEF Replays
<1>7. m # 0
  BY <1>5, <1>6
<1>8. m - 1 \in 0..len /\ m \in 1..len /\ ~(m <= m - 1)
  BY <1>5, <1>7
<1>9. f[m - 1] = g[m - 1]
  BY <1>1, <1>4, <1>8
<1>10. QED
  BY <1>5, <1>6, <1>7, <1>8, <1>9

\* What Replay returns: where a replay of all the lines ends.
LEMMA ReplayEnds ==
  ASSUME NEW lines, Len(lines) \in Nat
  PROVE  \E f : Replays(lines, Len(lines), f) /\ File!replay(lines) = f[Len(lines)]
<1>1. PICK f : f = CHOOSE g : Replays(lines, Len(lines), g)
  OBVIOUS
<1>2. Replays(lines, Len(lines), f)
  BY <1>1, ReplayExists
<1>3. File!replay(lines) = f[Len(lines)]
  BY <1>1 DEF File!replay, Replays, ReplayStart
<1>4. QED
  BY <1>2, <1>3

\* Replay of an empty log.
LEMMA ReplayEmpty == File!replay(<<>>) = ReplayStart
<1>1. Len(<<>>) = 0
  OBVIOUS
<1>2. PICK f : Replays(<<>>, 0, f) /\ File!replay(<<>>) = f[0]
  BY <1>1, ReplayEnds
<1>3. QED
  BY <1>2 DEF Replays

\* One more line is one more event.
LEMMA ReplayAppend ==
  ASSUME NEW S, NEW lines \in Seq(S), NEW e \in S
  PROVE  File!replay(Append(lines, e)) = File!applyEvent(File!replay(lines), e)
<1>1. PICK longer, len : longer = Append(lines, e) /\ len = Len(lines)
  OBVIOUS
<1>2. /\ len \in Nat /\ Len(longer) = len + 1 /\ longer[len + 1] = e
      /\ \A n \in 1..len : lines[n] = longer[n]
  BY <1>1
<1>3. PICK f : Replays(lines, len, f) /\ File!replay(lines) = f[len]
  BY <1>1, <1>2, ReplayEnds
<1>4. PICK g : Replays(longer, len + 1, g) /\ File!replay(longer) = g[len + 1]
  <2>1. Len(longer) \in Nat
    BY <1>2
  <2>2. QED
    BY <1>2, <2>1, ReplayEnds
<1>5. f[len] = g[len]
  BY <1>2, <1>3, <1>4, ReplaysAgree
<1>6. g[len + 1] = File!applyEvent(g[len], longer[len + 1])
  BY <1>2, <1>4 DEF Replays
<1>7. QED
  BY <1>1, <1>2, <1>3, <1>4, <1>5, <1>6

\* What the file, the map and the callers' knowledge have to do with each other.
FilePlaces ==
  /\ status \in {"open", "down"}
  /\ log \in Seq(File!Event)
  /\ File!replay(log) = [ok |-> TRUE, map |-> record]
  /\ status = "open" => tasks = record /\ promised = record /\ inflight = Nothing
  /\ status = "down" =>
       \A n \in Tasks : (inflight = Nothing \/ inflight.name # n) => record[n] = promised[n]

\* What callers hold was issued to them.
GrantedIssued ==
  \A r \in granted : \E s \in issued : s.task = r.task /\ s.token = r.token /\ s.next = r.next

FileInv == backend = "file" /\ IInv /\ FilePlaces /\ GrantedIssued

\* An event is not the value that stands for no event.
LEMMA EventsApart == \A e \in File!Event : e # Nothing
BY BackendAssumptions DEF File!FileSchedulerAssumption

\* What the contract has to say of a line that reached the file.
LineWritten(e, at) ==
  /\ issued' = IF e.type = "reserve"
               THEN issued \cup {[task |-> e.name, token |-> e.token, next |-> e.scheduled,
                                  at |-> at, until |-> e.until, round |-> round[e.name]]}
               ELSE issued
  /\ round' = IF e.type = "complete" THEN [round EXCEPT ![e.name] = @ + 1] ELSE round
  /\ finished' = IF e.type = "complete"
                 THEN finished \cup {r \in issued : r.token = e.token} ELSE finished

\* append: the line is in the file and the record is what the caller wants it to be, or
\* neither; the map, the log and what callers know agree again, crash or no crash.
LEMMA FileAppends ==
  ASSUME FileInv, status = "open", record' = File!durable',
         NEW e \in File!Event, File!Acceptable(record, e), NEW at,
         NEW rec, rec = File!Replayed(record[e.name], e),
         NEW reservations, File!append(e, at, rec, reservations)
  PROVE  /\ FilePlaces'
         /\ \/ /\ record' = [record EXCEPT ![e.name] = rec]
               /\ LineWritten(e, at) /\ granted' \subseteq granted \cup reservations
            \/ UNCHANGED <<record, issued, finished, round>> /\ granted' = {}
<1>1. e.name \in Tasks /\ record \in [Tasks -> Record] /\ tasks = record /\ promised = record
  BY DEF FileInv, FilePlaces, IInv, TypeOK, File!Event
<1>2. e # Nothing
  BY EventsApart
<1>3. log \in Seq(File!Event) /\ File!replay(log) = [ok |-> TRUE, map |-> record]
  BY DEF FileInv, FilePlaces
<1>4. PICK new : new = [record EXCEPT ![e.name] = rec]
  OBVIOUS
<1>5. \A n \in Tasks : n # e.name => new[n] = record[n]
  BY <1>1, <1>4
<1>6. ASSUME log' = Append(log, e)
      PROVE  log' \in Seq(File!Event) /\ File!replay(log') = [ok |-> TRUE, map |-> new]
  <2>1. File!replay(log') = File!applyEvent([ok |-> TRUE, map |-> record], e)
    BY <1>3, <1>6, ReplayAppend
  <2>2. QED
    BY <1>1, <1>3, <1>4, <1>6, <2>1 DEF File!applyEvent
<1>7. CASE File!Acknowledge(e, at, rec, reservations)
  <2>1. /\ log' = Append(log, e) /\ LineWritten(e, at)
        /\ tasks' = new /\ promised' = new /\ granted' = granted \cup reservations
        /\ status' = "open" /\ inflight' = Nothing
    BY <1>1, <1>4, <1>7 DEF File!Acknowledge, File!WriteLine, LineWritten, FileInv, FilePlaces
  <2>2. record' = new
    BY <2>1 DEF File!durable
  <2>3. FilePlaces'
    BY <1>6, <2>1, <2>2 DEF FilePlaces
  <2>4. QED
    BY <1>4, <2>1, <2>2, <2>3
<1>8. CASE File!CrashInAppend(e, at)
  <2>1. status' = "down" /\ granted' = {} /\ inflight' = e /\ promised' = record
    BY <1>1, <1>8 DEF File!CrashInAppend
  <2>2. record' = File!replay(log').map
    BY <2>1 DEF File!durable
  <2>3. CASE UNCHANGED <<log, issued, finished, round>>
    <3>1. record' = record
      BY <1>3, <2>2, <2>3
    <3>2. FilePlaces'
      BY <1>1, <1>3, <2>1, <2>3, <3>1 DEF FilePlaces
    <3>3. QED
      BY <2>1, <2>3, <3>1, <3>2
  <2>4. CASE File!WriteLine(e, at)
    <3>1. log' = Append(log, e) /\ LineWritten(e, at)
      BY <2>4 DEF File!WriteLine, LineWritten
    <3>2. record' = new
      BY <1>6, <2>2, <3>1
    <3>3. \A n \in Tasks : (inflight' = Nothing \/ inflight'.name # n) => record'[n] = promised'[n]
      BY <1>2, <1>5, <2>1, <3>2
    <3>4. FilePlaces'
      BY <1>6, <2>1, <3>1, <3>2, <3>3 DEF FilePlaces
    <3>5. QED
      BY <1>4, <2>1, <3>1, <3>2, <3>4
  <2>5. QED
    BY <1>8, <2>3, <2>4 DEF File!CrashInAppend
<1>9. QED
  BY <1>7, <1>8 DEF File!append

\* The step of the contract that an operation of the file store takes.
FileStep == [Next]_vars /\ FilePlaces' /\ GrantedIssued'

\* A step that the contract does not see.
LEMMA FileUnseen ==
  ASSUME FileInv, UNCHANGED <<record, issued, finished, round>>, granted' = {} \/ granted' = granted, FilePlaces'
  PROVE  FileStep
BY DEF FileInv, FileStep, GrantedIssued, vars

\* Callers keep what they hold as the issued reservations grow.
LEMMA FileSeen ==
  ASSUME FileInv, FilePlaces', Next, issued \subseteq issued', NEW reservations,
         granted' \subseteq granted \cup reservations,
         \A r \in reservations : \E s \in issued' : s.task = r.task /\ s.token = r.token /\ s.next = r.next
  PROVE  FileStep
BY DEF FileInv, FileStep, GrantedIssued

\* Initialize.
LEMMA FileInitializes ==
  ASSUME FileInv, record' = File!durable', NEW n \in Tasks, NEW next \in Times, File!Initialize(n, next)
  PROVE  FileStep
<1>1. PICK e : e = File!MakeEvent("initialize", n, NoToken, 0, next, 0, 0)
  OBVIOUS
<1>2. e \in File!Event /\ e.type = "initialize" /\ e.name = n /\ e.next = next /\ next # 0
  BY <1>1, SchedulerStoreAssumption DEF File!MakeEvent, File!Event, Times
<1>3. status = "open" /\ tasks = record /\ record[n].next = 0
  BY DEF File!Initialize, FileInv, FilePlaces
<1>4. PICK rec : rec = [File!Unknown EXCEPT !.next = next]
  OBVIOUS
<1>5. rec = File!Replayed(record[n], e)
  BY <1>2, <1>4 DEF File!Replayed
<1>6. rec = [next |-> next, last |-> 0, token |-> NoToken, until |-> 0]
  BY <1>4 DEF File!Unknown
<1>7. File!append(e, 0, rec, {})
  BY <1>1, <1>4 DEF File!Initialize
<1>8. File!Acceptable(record, e)
  BY <1>2, <1>3 DEF File!Acceptable
<1>9. /\ FilePlaces'
      /\ \/ /\ record' = [record EXCEPT ![n] = rec]
            /\ LineWritten(e, 0) /\ granted' \subseteq granted \cup {}
         \/ UNCHANGED <<record, issued, finished, round>> /\ granted' = {}
  BY <1>2, <1>3, <1>5, <1>7, <1>8, FileAppends
<1>10. CASE record' = [record EXCEPT ![n] = rec] /\ LineWritten(e, 0) /\ granted' \subseteq granted
  <2>1. UNCHANGED <<issued, finished, round>>
    BY <1>2, <1>10 DEF LineWritten
  <2>2. Next
    BY <1>3, <1>6, <1>10, <2>1 DEF Next, Initialize
  <2>3. QED
    BY <1>9, <1>10, <2>1, <2>2, FileSeen
<1>11. QED
  BY <1>9, <1>10, FileUnseen

\* Reserve: a due occurrence whose lease is free, under a token of its own.
LEMMA FileReserves ==
  ASSUME FileInv, record' = File!durable', NEW n \in Tasks, NEW at \in Times, NEW token \in Tokens,
         File!Reserve(n, at, token)
  PROVE  FileStep
<1>1. PICK old : old = record[n] /\ old \in Record
  BY DEF FileInv, IInv, TypeOK
<1>2. /\ status = "open" /\ tasks = record /\ old.next # 0 /\ old.next <= at
      /\ old.token = NoToken \/ old.until <= at
  BY <1>1 DEF File!Reserve, File!Free, FileInv, FilePlaces
<1>3. at \in Nat /\ at + Lease \in Nat /\ at + Lease # 0 /\ old.next \in Nat /\ old.until \in Nat
  BY <1>1, SchedulerStoreAssumption DEF Times, Record
<1>4. PICK e : e = File!MakeEvent("reserve", n, token, old.next, 0, at + Lease, 0)
  OBVIOUS
<1>5. /\ e \in File!Event /\ e.type = "reserve" /\ e.name = n /\ e.token = token
      /\ e.scheduled = old.next /\ e.until = at + Lease
  BY <1>3, <1>4 DEF File!MakeEvent, File!Event
<1>6. PICK rec : rec = [old EXCEPT !.token = token, !.until = at + Lease]
  OBVIOUS
<1>7. rec = File!Replayed(record[n], e)
  BY <1>1, <1>5, <1>6 DEF File!Replayed
<1>8. rec = Reserved(record[n], token, at + Lease)
  BY <1>1, <1>6 DEF Reserved, Record
<1>9. PICK reservation : reservation = [task |-> n, token |-> token, next |-> old.next]
  OBVIOUS
<1>10. File!append(e, at, rec, {reservation})
  BY <1>1, <1>2, <1>4, <1>6, <1>9 DEF File!Reserve
<1>11. File!Acceptable(record, e)
  BY <1>1, <1>2, <1>3, <1>5, SchedulerStoreAssumption DEF File!Acceptable
<1>12. /\ FilePlaces'
       /\ \/ /\ record' = [record EXCEPT ![n] = rec]
             /\ LineWritten(e, at) /\ granted' \subseteq granted \cup {reservation}
          \/ UNCHANGED <<record, issued, finished, round>> /\ granted' = {}
  BY <1>2, <1>5, <1>7, <1>10, <1>11, FileAppends
<1>13. CASE record' = [record EXCEPT ![n] = rec] /\ LineWritten(e, at) /\ granted' \subseteq granted \cup {reservation}
  <2>1. PICK r : r = Granted(n, at, token)
    OBVIOUS
  <2>2. issued' = issued \cup {r} /\ UNCHANGED <<finished, round>>
    BY <1>1, <1>5, <1>13, <2>1 DEF LineWritten, Granted
  <2>3. Due(n, at)
    BY <1>1, <1>2, <1>3 DEF Due, Leased
  <2>4. token \notin UsedTokens
    BY DEF File!Reserve, UsedTokens
  <2>5. Reserve(n, at, token)
    BY <1>8, <1>13, <2>1, <2>2, <2>3, <2>4 DEF Reserve
  <2>6. Next
    BY <2>5 DEF Next
  <2>7. \A x \in {reservation} : \E s \in issued' : s.task = x.task /\ s.token = x.token /\ s.next = x.next
    BY <1>1, <1>9, <2>1, <2>2 DEF Granted
  <2>8. QED
    BY <1>12, <1>13, <2>2, <2>6, <2>7, FileSeen
<1>14. QED
  BY <1>12, <1>13, FileUnseen

\* Complete: the line that finishes a claim finishes the only one with its token.
LEMMA FileCompletes ==
  ASSUME FileInv, record' = File!durable', NEW r \in granted, NEW next \in Times, NEW completedAt \in Times,
         File!Complete(r, next, completedAt)
  PROVE  FileStep
<1>1. PICK s \in issued : s.task = r.task /\ s.token = r.token /\ s.next = r.next
  BY DEF FileInv, GrantedIssued
<1>2. r.task \in Tasks /\ r.token \in Tokens /\ r.token # NoToken /\ r.next \in Nat
  BY <1>1, SchedulerStoreAssumption DEF FileInv, IInv, TypeOK, Reservation
<1>3. /\ status = "open" /\ tasks = record /\ next > completedAt /\ round[r.task] < MaxRounds
      /\ record[r.task].token = r.token /\ record[r.task].next = r.next
  BY DEF File!Complete, File!Held, FileInv, FilePlaces
<1>4. \A x \in issued : x.token = r.token => x = s
  <2>1. PICK y \in issued : y.token = r.token /\ \A x \in issued : x.token = y.token => x = y
    BY <1>2, <1>3 DEF FileInv, IInv, OneClaimant
  <2>2. QED
    BY <1>1, <2>1
<1>5. PICK e : e = File!MakeEvent("complete", r.task, r.token, r.next, next, 0, completedAt)
  OBVIOUS
<1>6. next \in Nat /\ completedAt \in Nat
  BY SchedulerStoreAssumption DEF Times
<1>7. /\ e \in File!Event /\ e.type = "complete" /\ e.name = r.task /\ e.token = r.token
      /\ e.scheduled = r.next /\ e.next = next /\ e.completed = completedAt
  BY <1>2, <1>5, <1>6 DEF File!MakeEvent, File!Event
<1>8. PICK rec : rec = [next |-> next, last |-> r.next, token |-> NoToken, until |-> 0]
  OBVIOUS
<1>9. rec = File!Replayed(record[r.task], e)
  <2>1. PICK old : old = record[r.task] /\ old \in Record
    BY <1>2 DEF FileInv, IInv, TypeOK
  <2>2. PICK new : new = [old EXCEPT !.next = next, !.last = r.next, !.token = NoToken, !.until = 0]
    OBVIOUS
  <2>3. new = rec
    <3>1. PICK half : half = [old EXCEPT !.next = next, !.last = r.next]
      OBVIOUS
    <3>2. half = [next |-> next, last |-> r.next, token |-> old.token, until |-> old.until]
      BY <2>1, <3>1 DEF Record
    <3>3. new = [half EXCEPT !.token = NoToken, !.until = 0]
      BY <2>2, <3>1
    <3>4. new = [next |-> next, last |-> r.next, token |-> NoToken, until |-> 0]
      BY <3>2, <3>3
    <3>5. QED
      BY <1>8, <3>4
  <2>4. File!Replayed(old, e) = new
    BY <1>7, <2>2 DEF File!Replayed
  <2>5. QED
    BY <2>1, <2>3, <2>4
<1>10. rec = Completed(record[r.task], next)
  BY <1>3, <1>8 DEF Completed
<1>11. File!append(e, 0, rec, {})
  BY <1>5, <1>8 DEF File!Complete
<1>12. File!Acceptable(record, e)
  BY <1>2, <1>3, <1>7 DEF File!Acceptable
<1>13. /\ FilePlaces'
       /\ \/ /\ record' = [record EXCEPT ![r.task] = rec]
             /\ LineWritten(e, 0) /\ granted' \subseteq granted \cup {}
          \/ UNCHANGED <<record, issued, finished, round>> /\ granted' = {}
  BY <1>3, <1>7, <1>9, <1>11, <1>12, FileAppends
<1>14. CASE record' = [record EXCEPT ![r.task] = rec] /\ LineWritten(e, 0) /\ granted' \subseteq granted
  <2>1. issued' = issued /\ round' = [round EXCEPT ![r.task] = @ + 1] /\ finished' = finished \cup {s}
    <3>1. {x \in issued : x.token = r.token} = {s}
      BY <1>1, <1>4
    <3>2. QED
      BY <1>7, <1>14, <3>1 DEF LineWritten
  <2>2. Complete(s, next, completedAt)
    BY <1>1, <1>3, <1>10, <1>14, <2>1 DEF Complete, Holds
  <2>3. Next
    BY <1>1, <1>3, <2>2 DEF Next
  <2>4. QED
    BY <1>13, <1>14, <2>1, <2>3, FileSeen
<1>15. QED
  BY <1>13, <1>14, FileUnseen

\* A restart rebuilds the map that the callers know, except for the task of an append that
\* a crash cut short.
Recovers ==
  status = "down" /\ status' # "down" =>
    /\ status' = "open"
    /\ \A n \in Tasks : (inflight = Nothing \/ inflight.name # n) => tasks'[n] = promised[n]

\* Opening and closing.
LEMMA FileRestarts ==
  ASSUME FileInv, record' = File!durable', File!Open \/ File!Close
  PROVE  FileStep /\ Recovers
<1>1. File!replay(log) = [ok |-> TRUE, map |-> record]
  BY DEF FileInv, FilePlaces
<1>2. CASE File!Open
  <2>1. /\ status = "down" /\ status' = "open" /\ tasks' = record /\ promised' = record
        /\ inflight' = Nothing /\ UNCHANGED <<log, granted, issued, finished, round>>
    BY <1>1, <1>2 DEF File!Open
  <2>2. record' = record
    BY <2>1 DEF File!durable
  <2>3. FilePlaces'
    BY <2>1, <2>2 DEF FileInv, FilePlaces
  <2>4. Recovers
    BY <2>1 DEF Recovers, FileInv, FilePlaces
  <2>5. QED
    BY <2>1, <2>2, <2>3, <2>4, FileUnseen
<1>3. CASE File!Close
  <2>1. /\ status = "open" /\ status' = "down" /\ granted' = {}
        /\ UNCHANGED <<log, promised, inflight, issued, finished, round>>
    BY <1>3 DEF File!Close
  <2>2. record' = record
    BY <1>1, <2>1 DEF File!durable
  <2>3. FilePlaces'
    BY <2>1, <2>2 DEF FileInv, FilePlaces
  <2>4. QED
    BY <2>1, <2>2, <2>3, FileUnseen DEF Recovers
<1>4. QED
  BY <1>2, <1>3

\* Every step of the file store is a step of the contract, or none, and a restart
\* recovers what callers know.
LEMMA FileNext ==
  ASSUME FileInv, record' = File!durable', File!Next
  PROVE  FileStep /\ Recovers
<1>1. File!Times = Times
  BY DEF File!Times, Times
<1>2. ASSUME status = "open"  PROVE Recovers
  BY <1>2 DEF Recovers
<1>3. CASE \E n \in Tasks, next \in Times : File!Initialize(n, next)
  BY <1>2, <1>3, FileInitializes DEF File!Initialize
<1>4. CASE \E n \in Tasks, at \in Times, token \in Tokens : File!Reserve(n, at, token)
  BY <1>2, <1>4, FileReserves DEF File!Reserve
<1>5. CASE \E r \in granted, next \in Times, completedAt \in Times : File!Complete(r, next, completedAt)
  BY <1>2, <1>5, FileCompletes DEF File!Complete
<1>6. QED
  BY <1>1, <1>3, <1>4, <1>5, FileRestarts DEF File!Next

\* The map and the log of the file store change as the contract says, across crashes in and
\* between appends, and a restart finds what callers were told.
THEOREM FileSchedulerImplements == StoresSpec /\ backend = "file" => ImplementsSchedulerStore
<1> DEFINE all == <<vars, backend, granted, file, sql, redis>>
<1>1. StoresInit /\ backend = "file" => Init /\ FileInv
  <2>1. SUFFICES ASSUME StoresInit, backend = "file"  PROVE Init /\ FileInv
    OBVIOUS
  <2>2. File!Init /\ record = File!durable
    BY <2>1 DEF StoresInit, Kept
  <2>3. File!Empty = [n \in Tasks |-> Unknown]
    BY DEF File!Empty, File!Unknown, Unknown
  <2>4. File!replay(<<>>) = [ok |-> TRUE, map |-> File!Empty]
    BY ReplayEmpty DEF ReplayStart
  <2>5. status = "down" /\ log = <<>> /\ promised = File!Empty /\ granted = {} /\ record = File!Empty
    BY <2>2, <2>4 DEF File!Init, File!durable
  <2>6. Init
    BY <2>2, <2>3, <2>5 DEF Init, File!Init
  <2>7. FilePlaces /\ GrantedIssued
    BY <2>4, <2>5 DEF FilePlaces, GrantedIssued
  <2>8. QED
    BY <2>1, <2>6, <2>7, InitIInv DEF FileInv
<1>2. FileInv /\ [StoresNext]_all => [Next]_vars /\ FileInv' /\ [Recovers]_(File!vars)
  <2>1. SUFFICES ASSUME FileInv, [StoresNext]_all  PROVE [Next]_vars /\ FileInv' /\ Recovers
    OBVIOUS
  <2>2. CASE StoresNext
    <3>1. File!Next /\ backend' = "file" /\ record' = File!durable'
      BY <2>1, <2>2 DEF StoresNext, FileInv, Kept
    <3>2. FileStep /\ Recovers
      BY <2>1, <3>1, FileNext
    <3>3. IInv'
      BY <2>1, <3>2, StepKeepsIInv DEF FileStep, FileInv
    <3>4. QED
      BY <3>1, <3>2, <3>3 DEF FileStep, FileInv
  <2>3. CASE UNCHANGED all
    <3>1. UNCHANGED vars /\ UNCHANGED file /\ UNCHANGED granted /\ UNCHANGED backend
      BY <2>3
    <3>2. IInv'
      BY <2>1, <3>1, StepKeepsIInv DEF FileInv
    <3>3. FilePlaces' /\ GrantedIssued' /\ Recovers
      BY <2>1, <3>1 DEF vars, file, FileInv, FilePlaces, GrantedIssued, Recovers
    <3>4. QED
      BY <2>1, <3>1, <3>2, <3>3 DEF FileInv
  <2>4. QED
    BY <2>1, <2>2, <2>3
<1>3. QED
  BY <1>1, <1>2, PTL DEF StoresSpec, ImplementsSchedulerStore, Spec, File!RecoveryFaithful, Recovers

\* Every one of the three stores implements the contract.
THEOREM SchedulerStoresImplement == StoresSpec => ImplementsSchedulerStore
<1>1. StoresSpec => backend \in {"file", "sql", "redis"}
  BY BackendAssumptions DEF StoresSpec, StoresInit
<1>2. QED
  BY <1>1, FileSchedulerImplements, SQLSchedulerImplements, RedisSchedulerImplements
=============================================================================
