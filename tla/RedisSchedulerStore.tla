------------------------- MODULE RedisSchedulerStore -------------------------
(***************************************************************************)
(* RedisSchedulerStore: one hash of JSON records, changed by Lua scripts   *)
(* that run atomically.  The scripts see times in whole microseconds while *)
(* callers read a finer clock: a caller's time t is stored as Micro(t).    *)
(* Reserve decodes the record that the script returns and compares it with *)
(* what the caller asked for.                                              *)
(*                                                                         *)
(* The answer of a script may be lost on its way.                          *)
(***************************************************************************)
EXTENDS Integers

CONSTANTS
  Tasks, Tokens, NoToken, MaxTime, MaxRounds, Lease,   \* as in SchedulerStore,
                                                       \* in microseconds
  Resolution    \* clock units per microsecond: 1000 for Go's time.Now on Linux

\* What the constants must satisfy.
RedisSchedulerAssumption ==
  /\ NoToken \notin Tokens
  /\ {MaxTime, MaxRounds} \subseteq Nat
  /\ {Lease, Resolution} \subseteq Nat \ {0}

VARIABLES
  hash,      \* the records in Redis, times in microseconds
  granted,   \* reservations that callers know of
  lost,      \* history: reservations whose answer was lost
  issued,    \* history: reservations that the script has assigned
  finished,  \* history: reservations whose completion went through
  round      \* history: completions

vars == <<hash, granted, lost, issued, finished, round>>

\* redisSchedulerStoreTime and parseRedisSchedulerStoreTime.
Micro(t) == t \div Resolution
Parsed(us) == us * Resolution

\* From the second microsecond on: every reading has an earlier one.
Readings == (2 * Resolution)..(MaxTime * Resolution + Resolution - 1)
Unknown == [next |-> 0, last |-> 0, token |-> NoToken, until |-> 0]

Init ==
  /\ hash = [n \in Tasks |-> Unknown]
  /\ granted = {} /\ lost = {} /\ issued = {} /\ finished = {}
  /\ round = [n \in Tasks |-> 0]

\* HEXISTS, HSET
Initialize(n, next) ==
  /\ hash[n].next = 0
  /\ hash' = [hash EXCEPT ![n] = [Unknown EXCEPT !.next = Micro(next)]]
  /\ UNCHANGED <<granted, lost, issued, finished, round>>

\* The reply of redisSchedulerStoreReserveScript.
Reply(n, now) ==
  IF hash[n].next = 0 THEN "missing"
  ELSE IF hash[n].token # NoToken /\ hash[n].until > now THEN "reserved"
  ELSE IF hash[n].next > now THEN "not_due" ELSE "ok"

\* The reservation as the script records it.
Assigned(n, now, token, until) ==
  [task |-> n, token |-> token, next |-> hash[n].next, at |-> now,
   until |-> until, round |-> round[n]]

ReserveScript(n, now, token, until) ==
  /\ Reply(n, now) = "ok"
  /\ token \notin {r.token : r \in issued}
  /\ hash' = [hash EXCEPT ![n].token = token, ![n].until = until]
  /\ issued' = issued \cup {Assigned(n, now, token, until)}
  /\ UNCHANGED <<finished, round>>

\* The Go side: the decoded deadline must equal the one asked for, or the call
\* returns ErrSchedulerStoreOperationFailed.
Reserve(n, at, token) ==
  LET reservedUntil == at + Lease * Resolution
      until == Micro(reservedUntil)
  IN /\ ReserveScript(n, Micro(at), token, until)
     /\ granted' = IF Parsed(until) = reservedUntil
                   THEN granted \cup {Assigned(n, Micro(at), token, until)}
                   ELSE granted
     /\ UNCHANGED lost

ReserveLost(n, at, token) ==
  LET until == Micro(at + Lease * Resolution)
  IN /\ ReserveScript(n, Micro(at), token, until)
     /\ lost' = lost \cup {Assigned(n, Micro(at), token, until)}
     /\ UNCHANGED granted

\* Mutant: the script compares the occurrence only.
MatchesOccurrence(r) == hash[r.task].token # NoToken /\ hash[r.task].next = r.next

\* The comparison in redisSchedulerStoreCompleteScript.
Matches(r) == hash[r.task].token = r.token /\ hash[r.task].next = r.next

Complete(r, next, completedAt) ==
  /\ next > completedAt
  /\ round[r.task] < MaxRounds
  /\ Matches(r)
  /\ hash' = [hash EXCEPT ![r.task] = [next |-> Micro(next), last |-> r.next,
                                       token |-> NoToken, until |-> 0]]
  /\ round' = [round EXCEPT ![r.task] = @ + 1]
  /\ finished' = finished \cup {r}
  /\ UNCHANGED <<granted, lost, issued>>

Next ==
  \/ \E n \in Tasks, next \in Readings : Initialize(n, next)
  \/ \E n \in Tasks, at \in Readings, token \in Tokens :
       Reserve(n, at, token) \/ ReserveLost(n, at, token)
  \/ \E r \in granted, next \in Readings, completedAt \in Readings :
       Complete(r, next, completedAt)

Spec == Init /\ [][Next]_vars

-----------------------------------------------------------------------------
(***************************************************************************)
(* Properties                                                              *)
(***************************************************************************)

\* An occurrence that the script has assigned to a caller reaches that caller,
\* who then runs it, unless the connection loses the answer (ARCHITECTURE: the
\* script assigns one reservation token "so separate processes or hosts sharing
\* the namespace execute one occurrence").
AssignedReachesCaller == issued = granted \cup lost
=============================================================================
