------------------------------ MODULE JobStore ------------------------------
(***************************************************************************)
(* The contract of framework.JobStore: what the durable queue and its      *)
(* operators may rely on, whichever of the file, SQL and Redis stores is   *)
(* behind it.  A job record is absent, pending or failed.  A pending       *)
(* record carries the token and the deadline of the reservation that holds *)
(* its lease, if any.  Every operation is atomic and takes the caller's    *)
(* clock reading as an argument, as the interface does.                    *)
(*                                                                         *)
(* The history variables issued and generation record the reservations    *)
(* the store has granted and how often a job's attempt count was reset.    *)
(***************************************************************************)
EXTENDS Integers

CONSTANTS
  Jobs,       \* job identifiers (16 random bytes in the code)
  Tokens,     \* reservation tokens (16 random bytes in the code)
  NoToken,    \* the empty token of a record that nobody holds
  MaxTime,    \* callers read clocks in 0..MaxTime: bounds the model
  MaxResets,  \* enqueues and retries of one job: bounds the model
  Lease       \* JobQueueOptions.LeaseDuration, the same for every caller

ASSUME StoreAssumption ==
  /\ NoToken \notin Tokens
  /\ MaxTime \in Nat
  /\ MaxResets \in Nat
  /\ Lease \in Nat \ {0}

VARIABLES
  record,     \* the stored record of every job
  issued,     \* history: every reservation granted so far
  generation  \* history: how often the attempts of a job were reset to 0

vars == <<record, issued, generation>>

Clock == 0..MaxTime
Phases == {"absent", "pending", "failed"}

Record == [phase: Phases, available: Nat, attempts: Nat,
           token: Tokens \cup {NoToken}, until: Nat]
Reservation == [job: Jobs, token: Tokens, attempt: Nat \ {0},
                generation: Nat, until: Nat]

Absent == [phase |-> "absent", available |-> 0, attempts |-> 0,
           token |-> NoToken, until |-> 0]

\* A new or a retried job: no attempt yet, nobody holds it.
Fresh(at) == [phase |-> "pending", available |-> at, attempts |-> 0,
              token |-> NoToken, until |-> 0]

\* What each operation makes of a record.
Reserved(rec, token, until) ==
  [phase |-> rec.phase, available |-> rec.available,
   attempts |-> rec.attempts + 1, token |-> token, until |-> until]
Released(rec, at) ==
  [phase |-> rec.phase, available |-> at,
   attempts |-> rec.attempts, token |-> NoToken, until |-> 0]
Recovered(rec) ==
  [phase |-> rec.phase, available |-> rec.available,
   attempts |-> rec.attempts, token |-> NoToken, until |-> 0]
Failed(rec) ==
  [phase |-> "failed", available |-> rec.available,
   attempts |-> rec.attempts, token |-> NoToken, until |-> 0]

Init ==
  /\ record = [j \in Jobs |-> Absent]
  /\ issued = {}
  /\ generation = [j \in Jobs |-> 0]

UsedTokens == {r.token : r \in issued}

\* Mutant: the lease of the current holder is not looked at.
EligibleIgnoringLease(j, at) ==
  /\ record[j].phase = "pending"
  /\ record[j].available <= at

(***************************************************************************)
(* A job is eligible when it has not failed, its delivery time has come    *)
(* and its last reservation, if it has one, has expired.                   *)
(***************************************************************************)
Eligible(j, at) ==
  /\ record[j].phase = "pending"
  /\ record[j].available <= at
  /\ record[j].token = NoToken \/ record[j].until <= at

\* A reservation finishes a job only while its token is the stored one.
Holds(r) == record[r.job].token = r.token

Enqueue(j, at) ==
  /\ record[j].phase = "absent"
  /\ record' = [record EXCEPT ![j] = Fresh(at)]
  /\ generation' = [generation EXCEPT ![j] = @ + 1]
  /\ UNCHANGED issued

\* Other jobs whose leases have expired.
Expired(j, at) ==
  {k \in Jobs \ {j} : record[k].token # NoToken /\ record[k].until <= at}

\* A store may use the call to take expired reservations of other jobs back.
Reserve(j, at, token, recovered) ==
  /\ Eligible(j, at)
  /\ token \notin UsedTokens
  /\ recovered \subseteq Expired(j, at)
  /\ record' = [k \in Jobs |->
                  IF k = j THEN Reserved(record[k], token, at + Lease)
                  ELSE IF k \in recovered THEN Recovered(record[k]) ELSE record[k]]
  /\ issued' = issued \cup
       {[job |-> j, token |-> token, attempt |-> record[j].attempts + 1,
         generation |-> generation[j], until |-> at + Lease]}
  /\ UNCHANGED generation

Release(r, at) ==
  /\ Holds(r)
  /\ record' = [record EXCEPT ![r.job] = Released(@, at)]
  /\ UNCHANGED <<issued, generation>>

Complete(r) ==
  /\ Holds(r)
  /\ record' = [record EXCEPT ![r.job] = Absent]
  /\ UNCHANGED <<issued, generation>>

Fail(r) ==
  /\ Holds(r)
  /\ record' = [record EXCEPT ![r.job] = Failed(@)]
  /\ UNCHANGED <<issued, generation>>

RetryFailed(j, at) ==
  /\ record[j].phase = "failed"
  /\ record' = [record EXCEPT ![j] = Fresh(at)]
  /\ generation' = [generation EXCEPT ![j] = @ + 1]
  /\ UNCHANGED issued

ForgetFailed(j) ==
  /\ record[j].phase = "failed"
  /\ record' = [record EXCEPT ![j] = Absent]
  /\ UNCHANGED <<issued, generation>>

Next ==
  \/ \E j \in Jobs, at \in Clock : generation[j] < MaxResets /\ Enqueue(j, at)
  \/ \E j \in Jobs, at \in Clock, token \in Tokens :
        \E recovered \in SUBSET Expired(j, at) : Reserve(j, at, token, recovered)
  \/ \E r \in issued, at \in Clock : Release(r, at)
  \/ \E r \in issued : Complete(r)
  \/ \E r \in issued : Fail(r)
  \/ \E j \in Jobs, at \in Clock : generation[j] < MaxResets /\ RetryFailed(j, at)
  \/ \E j \in Jobs : ForgetFailed(j)

Spec == Init /\ [][Next]_vars

-----------------------------------------------------------------------------
(***************************************************************************)
(* Properties                                                              *)
(***************************************************************************)

\* The variables hold values of their types.
TypeOK ==
  /\ record \in [Jobs -> Record]
  /\ issued \subseteq Reservation
  /\ generation \in [Jobs -> Nat]

\* The stored token belongs to exactly one granted reservation, the last one
\* of this job: its attempt, generation and deadline are the stored ones.  So
\* after a takeover only the newest holder can release, complete or fail the
\* job, and nobody can once it has failed or gone (finishReservation compares
\* nothing but the token).
OneHolder ==
  \A j \in Jobs :
    IF record[j].token = NoToken
    THEN TRUE
    ELSE /\ record[j].phase = "pending"
         /\ \E r \in issued :
              /\ r.job = j
              /\ r.token = record[j].token
              /\ r.attempt = record[j].attempts
              /\ r.generation = generation[j]
              /\ r.until = record[j].until
         /\ \A r \in issued : r.token = record[j].token => r.job = j

\* Two reservations never carry the same token, and two reservations of a job
\* in one generation (between two resets of its attempt count) never carry the
\* same attempt number: a worker that checks the number against MaxAttempts
\* checks a number that nobody else was given.
AttemptOnce ==
  \A r, s \in issued :
    \/ r.token = s.token
    \/ r.job = s.job /\ r.generation = s.generation /\ r.attempt = s.attempt
    => r = s

\* What AttemptOnce rests on: the numbers already given out lie behind the
\* stored ones.
NumbersBehind ==
  \A r \in issued :
    /\ r.generation <= generation[r.job]
    /\ (/\ record[r.job].phase # "absent"
        /\ r.generation = generation[r.job])
       => r.attempt <= record[r.job].attempts

IInv == TypeOK /\ OneHolder /\ AttemptOnce /\ NumbersBehind

\* A lease is only taken over after it has expired: a reservation that
\* replaces another one starts at or after the deadline of the one replaced.
TakeoverAfterExpiry ==
  [][\A j \in Jobs :
       (/\ record[j].token \in Tokens
        /\ record'[j].token \in Tokens
        /\ record'[j].token # record[j].token)
       => record'[j].until - Lease >= record[j].until]_vars
=============================================================================
