----------------------------- MODULE SQLJobStore -----------------------------
(***************************************************************************)
(* SQLJobStore: one table shared by callers in several processes.  A       *)
(* statement is atomic; an operation of more than one statement is not.    *)
(* Enqueue looks the identifier up and then inserts; Reserve selects the   *)
(* first ready row and then updates it if it still is as selected, and     *)
(* starts over, with the same clock reading, if it is not.                 *)
(*                                                                         *)
(* The answer of a statement may be lost: the caller sees an error and the *)
(* statement has taken effect.  Jobs are numbered in the order of          *)
(* (enqueued_at, id); the unit of time is the microsecond of the columns.  *)
(***************************************************************************)
EXTENDS Integers, FiniteSets

CONSTANTS
  Jobs, Tokens, NoToken, MaxTime, MaxResets, Lease,   \* as in JobStore
  Callers,    \* goroutines that call the store, in any process
  NoJob

\* What the constants must satisfy.
SQLAssumption ==
  /\ Jobs \subseteq Nat /\ NoJob \notin Jobs
  /\ NoToken \notin Tokens
  /\ {MaxTime, MaxResets} \subseteq Nat
  /\ Lease \in Nat \ {0}

VARIABLES
  row,         \* the table, by primary key
  call,        \* the operation each caller is in the middle of
  granted,     \* reservations that callers know of
  issued,      \* history: reservations that reached the table
  generation   \* history: resets of the attempt count

vars == <<row, call, granted, issued, generation>>

Clock == 0..MaxTime
Absent == [phase |-> "absent", available |-> 0, attempts |-> 0,
           token |-> NoToken, until |-> 0]
Idle == [step |-> "idle", job |-> NoJob, at |-> 0, attempts |-> 0]

Init ==
  /\ row = [j \in Jobs |-> Absent]
  /\ call = [c \in Callers |-> Idle]
  /\ granted = {}
  /\ issued = {}
  /\ generation = [j \in Jobs |-> 0]

-----------------------------------------------------------------------------
(***************************************************************************)
(* Enqueue                                                                 *)
(***************************************************************************)

\* jobExists says that there is no such row.
jobExists(c, j, at) ==
  /\ call[c] = Idle
  /\ row[j].phase = "absent"
  /\ call' = [call EXCEPT ![c] = [Idle EXCEPT !.step = "insert", !.job = j, !.at = at]]
  /\ UNCHANGED <<row, granted, issued, generation>>

\* The insert succeeds, or the primary key refuses it.
Enqueue(c) ==
  LET j == call[c].job
  IN /\ call[c].step = "insert"
     /\ IF row[j].phase = "absent"
        THEN /\ generation[j] < MaxResets
             /\ row' = [row EXCEPT ![j] = [Absent EXCEPT !.phase = "pending",
                                                         !.available = call[c].at]]
             /\ generation' = [generation EXCEPT ![j] = @ + 1]
        ELSE UNCHANGED <<row, generation>>
     /\ call' = [call EXCEPT ![c] = Idle]
     /\ UNCHANGED <<granted, issued>>

-----------------------------------------------------------------------------
(***************************************************************************)
(* Reserve                                                                 *)
(***************************************************************************)

\* The condition of the SELECT in readyJob.
Ready(j, at) ==
  /\ row[j].phase = "pending"
  /\ row[j].available <= at
  /\ row[j].token = NoToken \/ row[j].until <= at

First(S) ==
  CHOOSE j \in S : \A k \in S :
    \/ row[j].available < row[k].available
    \/ row[j].available = row[k].available /\ j <= k

\* The row with its attempt count, or no row: ErrJobStoreEmpty.
readyJob(c, at) ==
  LET ready == {j \in Jobs : Ready(j, at)}
  IN /\ call' = [call EXCEPT ![c] =
                   IF ready = {} THEN Idle
                   ELSE [step |-> "update", job |-> First(ready), at |-> at,
                         attempts |-> row[First(ready)].attempts]]
     /\ UNCHANGED <<row, granted, issued, generation>>

\* Bounds the model: every open Reserve finds a token of its own.
TokensLeft ==
  Cardinality(issued) + Cardinality({c \in Callers : call[c].step \in {"select", "update"}})
    < Cardinality(Tokens)

BeginReserve(c, at) == call[c] = Idle /\ TokensLeft /\ readyJob(c, at)
SelectAgain(c) == call[c].step = "select" /\ readyJob(c, call[c].at)

\* Mutant: the update does not compare the attempt count.
MatchesWithoutAttempts(sel) ==
  LET rec == row[sel.job]
  IN /\ rec.phase = "pending"
     /\ rec.available <= sel.at
     /\ rec.token = NoToken \/ rec.until <= sel.at

\* Mutant: the update waits a moment longer for the old lease than the select.
MatchesStrictly(sel) ==
  LET rec == row[sel.job]
  IN /\ rec.phase = "pending"
     /\ rec.attempts = sel.attempts
     /\ rec.available <= sel.at
     /\ rec.token = NoToken \/ rec.until < sel.at

\* The condition of the UPDATE.
Matches(sel) ==
  LET rec == row[sel.job]
  IN /\ rec.phase = "pending"
     /\ rec.attempts = sel.attempts
     /\ rec.available <= sel.at
     /\ rec.token = NoToken \/ rec.until <= sel.at

\* The caller computes its attempt number from the row it selected.
Reservation(sel, token) ==
  [job |-> sel.job, token |-> token, attempt |-> sel.attempts + 1,
   generation |-> generation[sel.job], until |-> sel.at + Lease]

UpdateRow(sel, token) ==
  /\ token \notin {r.token : r \in issued}
  /\ row' = [row EXCEPT ![sel.job].attempts = @ + 1,
                        ![sel.job].token = token,
                        ![sel.job].until = sel.at + Lease]
  /\ issued' = issued \cup {Reservation(sel, token)}

Reserve(c) ==
  LET sel == call[c]
  IN /\ sel.step = "update"
     /\ Matches(sel)
     /\ \E token \in Tokens :
          /\ UpdateRow(sel, token)
          /\ granted' = granted \cup {Reservation(sel, token)}
     /\ call' = [call EXCEPT ![c] = Idle]
     /\ UNCHANGED generation

\* The update takes effect, its answer is lost, the call returns the error.
ReserveLost(c) ==
  LET sel == call[c]
  IN /\ sel.step = "update"
     /\ Matches(sel)
     /\ \E token \in Tokens : UpdateRow(sel, token)
     /\ call' = [call EXCEPT ![c] = Idle]
     /\ UNCHANGED <<granted, generation>>

\* No row was updated: go on to the next round of the loop.
ReserveMissed(c) ==
  /\ call[c].step = "update"
  /\ ~Matches(call[c])
  /\ call' = [call EXCEPT ![c] = [@ EXCEPT !.step = "select"]]
  /\ UNCHANGED <<row, granted, issued, generation>>

\* The context of the caller ends, or its process does.
GiveUp(c) ==
  /\ call[c] # Idle
  /\ call' = [call EXCEPT ![c] = Idle]
  /\ UNCHANGED <<row, granted, issued, generation>>

-----------------------------------------------------------------------------
(***************************************************************************)
(* Single statements                                                       *)
(***************************************************************************)

\* WHERE id = ... AND reservation_token = ...
finishReservation(r, rec) ==
  /\ row[r.job].token = r.token
  /\ row' = [row EXCEPT ![r.job] = rec]
  /\ UNCHANGED <<call, granted, issued, generation>>

Release(r, at) ==
  finishReservation(r, [row[r.job] EXCEPT !.available = at, !.token = NoToken,
                                          !.until = 0])
Complete(r) == finishReservation(r, Absent)

Fail(r) ==
  finishReservation(r, [row[r.job] EXCEPT !.phase = "failed", !.token = NoToken,
                                          !.until = 0])

RetryFailed(j, at) ==
  /\ row[j].phase = "failed"
  /\ generation[j] < MaxResets
  /\ row' = [row EXCEPT ![j] = [Absent EXCEPT !.phase = "pending", !.available = at]]
  /\ generation' = [generation EXCEPT ![j] = @ + 1]
  /\ UNCHANGED <<call, granted, issued>>

ForgetFailed(j) ==
  /\ row[j].phase = "failed"
  /\ row' = [row EXCEPT ![j] = Absent]
  /\ UNCHANGED <<call, granted, issued, generation>>

Next ==
  \/ \E c \in Callers, j \in Jobs, at \in Clock : jobExists(c, j, at)
  \/ \E c \in Callers, at \in Clock : BeginReserve(c, at)
  \/ \E c \in Callers : Enqueue(c) \/ SelectAgain(c) \/ Reserve(c) \/ ReserveMissed(c)
  \/ \E c \in Callers : ReserveLost(c) \/ GiveUp(c)
  \/ \E r \in granted, at \in Clock : Release(r, at)
  \/ \E r \in granted : Complete(r) \/ Fail(r)
  \/ \E j \in Jobs, at \in Clock : RetryFailed(j, at)
  \/ \E j \in Jobs : ForgetFailed(j)

Spec == Init /\ [][Next]_vars

-----------------------------------------------------------------------------
(***************************************************************************)
(* Properties                                                              *)
(***************************************************************************)

\* The loop of Reserve makes progress: the row that its select has taken is one
\* that its update takes, until a statement of another caller changes that row.  So
\* no caller spins alone.
MissMeansChanged ==
  [][\A c \in Callers :
       call'[c].step = "update" /\ ~Matches(call[c])' =>
         \/ row'[call'[c].job] # row[call'[c].job]
         \/ call'[c] = call[c] /\ ~Matches(call[c])]_vars
=============================================================================
