---------------------------- MODULE RedisJobStore ----------------------------
(***************************************************************************)
(* RedisJobStore: two hashes (records and payloads) and three sorted sets  *)
(* (ready, reserved and failed) that index the same jobs.  Every operation *)
(* is one Lua script, which Redis runs atomically; its answer may be lost. *)
(*                                                                         *)
(* A sorted set is a function from its members to their scores.  The       *)
(* member of ready is (enqueued_at, id), and jobs are numbered in that     *)
(* order, the order in which Redis breaks ties.  The unit of time is the   *)
(* microsecond of the scores.                                              *)
(***************************************************************************)
EXTENDS Integers, FiniteSets

CONSTANTS
  Jobs, Tokens, NoToken, MaxTime, MaxResets, Lease,   \* as in JobStore
  RecoveryBatch   \* redisJobStoreRecoveryBatch: expired jobs one script takes back

\* What the constants must satisfy.
RedisAssumption ==
  /\ Jobs \subseteq Nat
  /\ NoToken \notin Tokens
  /\ {MaxTime, MaxResets} \subseteq Nat
  /\ {Lease, RecoveryBatch} \subseteq Nat \ {0}

VARIABLES
  records,     \* hash of metadata, by id
  payloads,    \* ids in the hash of payloads
  ready, reserved, failed,   \* sorted sets: member -> score
  granted,     \* reservations that callers know of
  issued,      \* history: reservations that reached Redis
  generation   \* history: resets of the attempt count

vars == <<records, payloads, ready, reserved, failed, granted, issued, generation>>

Clock == 0..MaxTime

\* What the scripts do to hashes and sorted sets.
Put(f, j, v) == [k \in DOMAIN f \cup {j} |-> IF k = j THEN v ELSE f[k]]
Del(f, S) == [k \in DOMAIN f \ S |-> f[k]]
Empty == [k \in {} |-> 0]

\* In the record an empty string stands for "none": no token, not failed.
Fresh(at) == [failed |-> FALSE, available |-> at, attempts |-> 0,
              token |-> NoToken, until |-> 0]
Unreserved(rec) == [rec EXCEPT !.token = NoToken, !.until = 0]

Init ==
  /\ records = Empty /\ payloads = {}
  /\ ready = Empty /\ reserved = Empty /\ failed = Empty
  /\ granted = {}
  /\ issued = {}
  /\ generation = [j \in Jobs |-> 0]

Enqueue(j, at) ==
  /\ j \notin DOMAIN records /\ j \notin payloads
  /\ generation[j] < MaxResets
  /\ records' = Put(records, j, Fresh(at))
  /\ payloads' = payloads \cup {j}
  /\ ready' = Put(ready, j, at)
  /\ generation' = [generation EXCEPT ![j] = @ + 1]
  /\ UNCHANGED <<reserved, failed, granted, issued>>

-----------------------------------------------------------------------------
(***************************************************************************)
(* Reserve: first recovery, then the first ready job                       *)
(***************************************************************************)

\* Earlier in a sorted set: by score, then by member.
Before(set, j, k) == set[j] < set[k] \/ (set[j] = set[k] /\ j < k)

\* The first RecoveryBatch members of reserved whose score has come.
Batch(at) ==
  LET due == {j \in DOMAIN reserved : reserved[j] <= at}
  IN {j \in due : Cardinality({k \in due : Before(reserved, k, j)}) < RecoveryBatch}

\* Members without a record or without a reservation are only dropped; a job
\* whose stored deadline has come goes back to ready.
Stray(at) ==
  {j \in Batch(at) : j \notin DOMAIN records \/ records[j].token = NoToken}
Lapsed(at) ==
  {j \in Batch(at) \ Stray(at) : records[j].until <= at}

RecoveredRecords(at) ==
  [j \in DOMAIN records |->
     IF j \in Lapsed(at) THEN Unreserved(records[j]) ELSE records[j]]

RecoveredReady(at) ==
  [j \in DOMAIN ready \cup Lapsed(at) |->
     IF j \in Lapsed(at) THEN records[j].available ELSE ready[j]]
RecoveredReserved(at) == Del(reserved, Stray(at) \cup Lapsed(at))

FirstIn(set) ==
  CHOOSE j \in DOMAIN set : \A k \in DOMAIN set \ {j} : Before(set, j, k)

\* How the script ends.
Outcome(at) ==
  LET now == RecoveredReady(at)
      j == FirstIn(now)
      rec == RecoveredRecords(at)[j]
  IN IF \E k \in Batch(at) : k \in DOMAIN records /\ records[k].failed
     THEN "corrupt"
     ELSE IF DOMAIN now = {} \/ now[j] > at
     THEN IF Cardinality(Batch(at)) = RecoveryBatch THEN "retry" ELSE "empty"
     ELSE IF \/ j \notin DOMAIN records \/ j \notin payloads
             \/ rec.failed \/ rec.token # NoToken
     THEN "corrupt"
     ELSE "reserved"

Reserve(at, token) ==
  LET j == FirstIn(RecoveredReady(at))
      rec == RecoveredRecords(at)[j]
      r == [job |-> j, token |-> token, attempt |-> rec.attempts + 1,
            generation |-> generation[j], until |-> at + Lease]
  IN /\ token \notin {s.token : s \in issued}
     /\ Outcome(at) = "reserved"
     /\ records' = [RecoveredRecords(at) EXCEPT
                      ![j] = [rec EXCEPT !.attempts = @ + 1, !.token = token,
                                         !.until = at + Lease]]
     /\ ready' = Del(RecoveredReady(at), {j})
     /\ reserved' = Put(RecoveredReserved(at), j, at + Lease)
     /\ issued' = issued \cup {r}
     /\ granted' \in {granted, granted \cup {r}}   \* the answer may be lost
     /\ UNCHANGED <<payloads, failed, generation>>

-----------------------------------------------------------------------------
Holds(r) == r.job \in DOMAIN records /\ records[r.job].token = r.token

\* Mutant: a released job stays among the reserved ones.
ReleaseKeepsReserved(r, at) ==
  /\ Holds(r)
  /\ records' = [records EXCEPT ![r.job] = [Unreserved(@) EXCEPT !.available = at]]
  /\ ready' = Put(ready, r.job, at)
  /\ UNCHANGED <<payloads, reserved, failed, granted, issued, generation>>

Release(r, at) ==
  /\ Holds(r)
  /\ records' = [records EXCEPT ![r.job] = [Unreserved(@) EXCEPT !.available = at]]
  /\ reserved' = Del(reserved, {r.job})
  /\ ready' = Put(ready, r.job, at)
  /\ UNCHANGED <<payloads, failed, granted, issued, generation>>

Remove(j) ==
  /\ records' = Del(records, {j})
  /\ payloads' = payloads \ {j}
  /\ ready' = Del(ready, {j})
  /\ reserved' = Del(reserved, {j})
  /\ failed' = Del(failed, {j})
  /\ UNCHANGED <<granted, issued, generation>>

Complete(r) == Holds(r) /\ Remove(r.job)

Fail(r, at) ==
  /\ Holds(r)
  /\ records' = [records EXCEPT ![r.job] = [Unreserved(@) EXCEPT !.failed = TRUE]]
  /\ ready' = Del(ready, {r.job})
  /\ reserved' = Del(reserved, {r.job})
  /\ failed' = Put(failed, r.job, at)
  /\ UNCHANGED <<payloads, granted, issued, generation>>

\* Mutant: the retried job keeps its attempt count.
RetryFailedKeepsAttempts(j, at) ==
  /\ j \in DOMAIN records /\ records[j].failed
  /\ generation[j] < MaxResets
  /\ records' = [records EXCEPT ![j] = [@ EXCEPT !.failed = FALSE, !.available = at]]
  /\ failed' = Del(failed, {j})
  /\ ready' = Put(ready, j, at)
  /\ generation' = [generation EXCEPT ![j] = @ + 1]
  /\ UNCHANGED <<payloads, reserved, granted, issued>>

RetryFailed(j, at) ==
  /\ j \in DOMAIN records /\ records[j].failed
  /\ generation[j] < MaxResets
  /\ records' = [records EXCEPT ![j] = Fresh(at)]
  /\ failed' = Del(failed, {j})
  /\ ready' = Put(ready, j, at)
  /\ generation' = [generation EXCEPT ![j] = @ + 1]
  /\ UNCHANGED <<payloads, reserved, granted, issued>>

ForgetFailed(j) ==
  /\ j \in DOMAIN records /\ records[j].failed
  /\ Remove(j)

Next ==
  \/ \E j \in Jobs, at \in Clock : Enqueue(j, at)
  \/ \E at \in Clock, token \in Tokens : Reserve(at, token)
  \/ \E r \in granted, at \in Clock : Release(r, at)
  \/ \E r \in granted : Complete(r)
  \/ \E r \in granted, at \in Clock : Fail(r, at)
  \/ \E j \in Jobs, at \in Clock : RetryFailed(j, at)
  \/ \E j \in Jobs : ForgetFailed(j)

Spec == Init /\ [][Next]_vars

-----------------------------------------------------------------------------
(***************************************************************************)
(* Properties                                                              *)
(***************************************************************************)
Reserving == {j \in DOMAIN records : records[j].token # NoToken}
FailedIds == {j \in DOMAIN records : records[j].failed}

\* The five keys tell one story: every record has its payload and is in
\* exactly one of the sorted sets, the one its fields call for, under the
\* score its fields call for, whatever the order of the scripts.
IndexesAgree ==
  /\ payloads = DOMAIN records
  /\ DOMAIN reserved = Reserving
  /\ DOMAIN failed = FailedIds
  /\ DOMAIN ready = DOMAIN records \ (Reserving \cup FailedIds)
  /\ Reserving \cap FailedIds = {}
  /\ \A j \in DOMAIN ready : ready[j] = records[j].available
  /\ \A j \in DOMAIN reserved : reserved[j] = records[j].until

\* Redis answers "empty" only if no job is eligible: a job whose lease has run
\* out behind a full batch is not overlooked for good.
EmptyMeansNothingEligible ==
  \A at \in Clock : Outcome(at) = "empty" =>
    \A j \in DOMAIN records :
      \/ records[j].failed \/ records[j].available > at
      \/ records[j].token # NoToken /\ records[j].until > at

\* The record of the contract that the keys encode.
stored == [j \in Jobs |->
  IF j \in DOMAIN records
  THEN [phase |-> IF records[j].failed THEN "failed" ELSE "pending",
        available |-> records[j].available, attempts |-> records[j].attempts,
        token |-> records[j].token, until |-> records[j].until]
  ELSE [phase |-> "absent", available |-> 0, attempts |-> 0,
        token |-> NoToken, until |-> 0]]
=============================================================================
