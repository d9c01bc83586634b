-------------------------- MODULE SQLSchedulerStore --------------------------
(***************************************************************************)
(* SQLSchedulerStore: one table shared by schedulers in several processes. *)
(* A statement is atomic; Initialize looks the row up and then inserts it, *)
(* Reserve selects it and then updates it if its occurrence is still the   *)
(* selected one and no live lease is on it, and starts over otherwise.     *)
(*                                                                         *)
(* The answer of an update may be lost: the caller sees an error and the   *)
(* statement has taken effect.  The unit of time is the microsecond of the *)
(* columns: stored times are whole microseconds, so comparing them with a  *)
(* finer clock reading or with the reading cut down gives the same answer. *)
(***************************************************************************)
EXTENDS Integers, FiniteSets

CONSTANTS
  Tasks, Tokens, NoToken, MaxTime, MaxRounds, Lease,   \* as in SchedulerStore
  Callers,   \* goroutines that call the store, in any process
  NoTask

\* What the constants must satisfy.
SQLSchedulerAssumption ==
  /\ NoTask \notin Tasks
  /\ NoToken \notin Tokens
  /\ {MaxTime, MaxRounds} \subseteq Nat
  /\ Lease \in Nat \ {0}

VARIABLES
  row,       \* the table, by primary key
  call,      \* the operation each caller is in the middle of
  granted,   \* reservations that callers know of
  issued,    \* history: reservations that reached the table
  finished,  \* history: reservations whose completion reached the table
  round      \* history: completions that reached the table

vars == <<row, call, granted, issued, finished, round>>

Times == 1..MaxTime
Unknown == [next |-> 0, last |-> 0, token |-> NoToken, until |-> 0]
Idle == [step |-> "idle", task |-> NoTask, at |-> 0, next |-> 0]

Init ==
  /\ row = [n \in Tasks |-> Unknown]
  /\ call = [c \in Callers |-> Idle]
  /\ granted = {} /\ issued = {} /\ finished = {}
  /\ round = [n \in Tasks |-> 0]

-----------------------------------------------------------------------------
(***************************************************************************)
(* Initialize                                                              *)
(***************************************************************************)

\* stateExists says that there is no such row.
stateExists(c, n, next) ==
  /\ call[c] = Idle
  /\ row[n].next = 0
  /\ call' = [call EXCEPT ![c] = [Idle EXCEPT !.step = "insert", !.task = n, !.next = next]]
  /\ UNCHANGED <<row, granted, issued, finished, round>>

\* The insert succeeds, or the primary key refuses it and the row is there.
Initialize(c) ==
  /\ call[c].step = "insert"
  /\ row' = IF row[call[c].task].next = 0
            THEN [row EXCEPT ![call[c].task] = [Unknown EXCEPT !.next = call[c].next]]
            ELSE row
  /\ call' = [call EXCEPT ![c] = Idle]
  /\ UNCHANGED <<granted, issued, finished, round>>

-----------------------------------------------------------------------------
(***************************************************************************)
(* Reserve                                                                 *)
(***************************************************************************)

\* No row, a live lease or an occurrence that is not due end the call.
storedTask(c, n, at) ==
  /\ call' = [call EXCEPT ![c] =
                IF \/ row[n].next = 0
                   \/ row[n].token # NoToken /\ row[n].until > at
                   \/ row[n].next > at
                THEN Idle
                ELSE [step |-> "update", task |-> n, at |-> at, next |-> row[n].next]]
  /\ UNCHANGED <<row, granted, issued, finished, round>>

\* Bounds the model: every open Reserve finds a token of its own.
TokensLeft ==
  Cardinality(issued) + Cardinality({c \in Callers : call[c].step \in {"select", "update"}})
    < Cardinality(Tokens)

BeginReserve(c, n, at) == call[c] = Idle /\ TokensLeft /\ storedTask(c, n, at)
SelectAgain(c) == call[c].step = "select" /\ storedTask(c, call[c].task, call[c].at)

\* Mutant: the update relies on the select for the lease.
MatchesIgnoringLease(sel) ==
  LET rec == row[sel.task]
  IN rec.next = sel.next /\ rec.next <= sel.at

\* The condition of the UPDATE.
Matches(sel) ==
  LET rec == row[sel.task]
  IN /\ rec.next = sel.next /\ rec.next <= sel.at
     /\ rec.token = NoToken \/ rec.until <= sel.at

\* The caller runs the occurrence it selected.
Reservation(sel, token) ==
  [task |-> sel.task, token |-> token, next |-> sel.next, at |-> sel.at,
   until |-> sel.at + Lease, round |-> round[sel.task]]

UpdateRow(sel, token) ==
  /\ token \notin {r.token : r \in issued}
  /\ row' = [row EXCEPT ![sel.task].token = token, ![sel.task].until = sel.at + Lease]
  /\ issued' = issued \cup {Reservation(sel, token)}

Reserve(c) ==
  /\ call[c].step = "update"
  /\ Matches(call[c])
  /\ \E token \in Tokens :
       /\ UpdateRow(call[c], token)
       /\ granted' = granted \cup {Reservation(call[c], token)}
  /\ call' = [call EXCEPT ![c] = Idle]
  /\ UNCHANGED <<finished, round>>

\* The update takes effect, its answer is lost, the call returns the error.
ReserveLost(c) ==
  /\ call[c].step = "update"
  /\ Matches(call[c])
  /\ \E token \in Tokens : UpdateRow(call[c], token)
  /\ call' = [call EXCEPT ![c] = Idle]
  /\ UNCHANGED <<granted, finished, round>>

\* No row was updated: go on to the next round of the loop.
ReserveMissed(c) ==
  /\ call[c].step = "update"
  /\ ~Matches(call[c])
  /\ call' = [call EXCEPT ![c] = [@ EXCEPT !.step = "select"]]
  /\ UNCHANGED <<row, granted, issued, finished, round>>

\* The context of the caller ends, or its process does.
GiveUp(c) ==
  /\ call[c] # Idle
  /\ call' = [call EXCEPT ![c] = Idle]
  /\ UNCHANGED <<row, granted, issued, finished, round>>

\* Mutant: the update names the occurrence and not the token.
NamesOccurrence(r) == row[r.task].token # NoToken /\ row[r.task].next = r.next

\* WHERE name = ... AND reservation_token = ... AND next_run_at = ...
Names(r) == row[r.task].token = r.token /\ row[r.task].next = r.next

Complete(r, next, completedAt) ==
  /\ next > completedAt
  /\ Names(r)
  /\ round[r.task] < MaxRounds
  /\ row' = [row EXCEPT ![r.task] = [next |-> next, last |-> r.next,
                                     token |-> NoToken, until |-> 0]]
  /\ round' = [round EXCEPT ![r.task] = @ + 1]
  /\ finished' = finished \cup {r}
  /\ UNCHANGED <<call, granted, issued>>

Next ==
  \/ \E c \in Callers, n \in Tasks, next \in Times : stateExists(c, n, next)
  \/ \E c \in Callers, n \in Tasks, at \in Times : BeginReserve(c, n, at)
  \/ \E c \in Callers : Initialize(c) \/ SelectAgain(c) \/ Reserve(c) \/ ReserveMissed(c)
  \/ \E c \in Callers : ReserveLost(c) \/ GiveUp(c)
  \/ \E r \in granted, next \in Times, completedAt \in Times : Complete(r, next, completedAt)

Spec == Init /\ [][Next]_vars

-----------------------------------------------------------------------------
(***************************************************************************)
(* Properties                                                              *)
(***************************************************************************)
=============================================================================
