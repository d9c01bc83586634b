--------------------------- MODULE SchedulerStore ---------------------------
(***************************************************************************)
(* The contract of framework.SchedulerStore: one record per task name with *)
(* the time of its next occurrence, the last occurrence that was completed *)
(* and the reservation that holds the lease of the next one, if any.       *)
(* Every operation is atomic and takes the caller's clock reading.         *)
(*                                                                         *)
(* Time 0 is Go's zero time: a task without a record has next = 0.         *)
(***************************************************************************)
EXTENDS Integers

CONSTANTS
  Tasks,     \* task names
  Tokens,    \* reservation tokens
  NoToken,   \* the empty token
  MaxTime,   \* callers' times lie in 1..MaxTime: bounds the model
  MaxRounds, \* completions of one task: bounds the model
  Lease      \* SchedulerOptions.LeaseDuration

ASSUME SchedulerStoreAssumption ==
  /\ NoToken \notin Tokens
  /\ MaxTime \in Nat
  /\ MaxRounds \in Nat
  /\ Lease \in Nat \ {0}

VARIABLES
  record,   \* the stored record of every task
  issued,   \* history: every reservation granted so far
  finished, \* history: the reservations whose Complete went through
  round     \* history: how many occurrences of a task were completed

vars == <<record, issued, finished, round>>

Times == 1..MaxTime

Record == [next: Nat, last: Nat, token: Tokens \cup {NoToken}, until: Nat]
Reservation == [task: Tasks, token: Tokens, next: Nat \ {0}, at: Nat, until: Nat,
                round: Nat]

Unknown == [next |-> 0, last |-> 0, token |-> NoToken, until |-> 0]

\* What each operation makes of a record.
Reserved(rec, token, until) ==
  [next |-> rec.next, last |-> rec.last, token |-> token, until |-> until]
Completed(rec, next) ==
  [next |-> next, last |-> rec.next, token |-> NoToken, until |-> 0]

Init ==
  /\ record = [n \in Tasks |-> Unknown]
  /\ issued = {} /\ finished = {}
  /\ round = [n \in Tasks |-> 0]

UsedTokens == {r.token : r \in issued}

\* A known task keeps its record.
Initialize(n, next) ==
  /\ record[n].next = 0
  /\ record' = [record EXCEPT ![n] = [next |-> next, last |-> 0,
                                      token |-> NoToken, until |-> 0]]
  /\ UNCHANGED <<issued, finished, round>>

\* ErrScheduledTaskReserved, ErrScheduledTaskNotDue otherwise.
Leased(n, at) == record[n].token # NoToken /\ record[n].until > at

\* Mutant: an occurrence can be claimed before its time.
DueEarly(n, at) ==
  /\ record[n].next # 0
  /\ ~Leased(n, at)

\* Mutant: a lease that has run out is not taken over.
DueWhileFree(n, at) ==
  /\ record[n].next # 0
  /\ record[n].token = NoToken
  /\ record[n].next <= at

Due(n, at) ==
  /\ record[n].next # 0
  /\ ~Leased(n, at)
  /\ record[n].next <= at

Granted(n, at, token) ==
  [task |-> n, token |-> token, next |-> record[n].next, at |-> at,
   until |-> at + Lease, round |-> round[n]]

Reserve(n, at, token) ==
  /\ Due(n, at)
  /\ token \notin UsedTokens
  /\ record' = [record EXCEPT ![n] = Reserved(@, token, at + Lease)]
  /\ issued' = issued \cup {Granted(n, at, token)}
  /\ UNCHANGED <<finished, round>>

\* Token and occurrence must be the stored ones.
Holds(r) == record[r.task].token = r.token /\ record[r.task].next = r.next

Complete(r, next, completedAt) ==
  /\ next > completedAt
  /\ Holds(r)
  /\ record' = [record EXCEPT ![r.task] = Completed(@, next)]
  /\ round' = [round EXCEPT ![r.task] = @ + 1]
  /\ finished' = finished \cup {r}
  /\ UNCHANGED issued

Next ==
  \/ \E n \in Tasks, next \in Times : Initialize(n, next)
  \/ \E n \in Tasks, at \in Times, token \in Tokens : Reserve(n, at, token)
  \/ \E r \in issued, next \in Times, completedAt \in Times :
       round[r.task] < MaxRounds /\ Complete(r, next, completedAt)

Spec == Init /\ [][Next]_vars

-----------------------------------------------------------------------------
(***************************************************************************)
(* Properties                                                              *)
(***************************************************************************)

\* The variables hold values of their types.
TypeOK ==
  /\ record \in [Tasks -> Record]
  /\ issued \subseteq Reservation /\ finished \subseteq issued
  /\ round \in [Tasks -> Nat]

\* A stored token belongs to one granted reservation, and that reservation
\* knows the occurrence, the deadline and the round the record is in: only the
\* newest claimant of the current occurrence gets through Complete.
OneClaimant ==
  \A n \in Tasks : record[n].token # NoToken =>
    \E r \in issued :
      /\ r.task = n /\ r.token = record[n].token
      /\ r.next = record[n].next /\ r.until = record[n].until
      /\ r.round = round[n]
      /\ \A s \in issued : s.token = r.token => s = r

\* Claims of one occurrence never overlap in time: between two completions of
\* a task the leases granted for it are disjoint, whatever clocks the callers
\* read.
LeasesDisjoint ==
  \A r, s \in issued :
    r.task = s.task /\ r.round = s.round /\ r # s => r.until <= s.at \/ s.until <= r.at

\* An occurrence is completed once, and by the last of its claimants: a holder
\* whose lease was taken over can no longer complete it.
FinishedByLast ==
  \A r \in finished : \A s \in issued :
    r.task = s.task /\ r.round = s.round /\ r # s
    => s \notin finished /\ s.until <= r.at

\* What LeasesDisjoint and FinishedByLast rest on: the claims of the current
\* round lie before the stored deadline, there is none unless the record is
\* reserved, and completed claims belong to earlier rounds.
ClaimsBehind ==
  /\ \A r \in issued :
       /\ r.round <= round[r.task]
       /\ r.until = r.at + Lease
       /\ r.round = round[r.task] =>
            record[r.task].token # NoToken /\ r.until <= record[r.task].until
  /\ \A r \in finished : r.round < round[r.task]

IInv == TypeOK /\ OneClaimant /\ LeasesDisjoint /\ FinishedByLast /\ ClaimsBehind
=============================================================================
