---------------------------- MODULE FileJobStore ----------------------------
(***************************************************************************)
(* FileJobStore: a map of job records in memory behind a mutex, and an     *)
(* append-only log of JSON lines.  An operation checks its conditions,     *)
(* appends one event (write, then sync) and only then updates the map; the *)
(* map is rebuilt from the log when the store is opened.                   *)
(*                                                                         *)
(* The process may crash between any two operations and in the middle of   *)
(* an append, which leaves nothing, part of the line or all of it behind.  *)
(* When WriteErrors is TRUE an append may also fail and return its error   *)
(* to the caller while the process lives on (a full disk, a failed sync).  *)
(*                                                                         *)
(* Jobs are numbered in the order of (EnqueuedAt, ID), the tie-break of    *)
(* Reserve.                                                                *)
(***************************************************************************)
EXTENDS Integers, Sequences, FiniteSets

CONSTANTS
  Jobs,          \* job identifiers, a set of numbers
  Tokens,        \* reservation tokens
  NoToken,       \* the empty token
  MaxTime,       \* callers' clocks read 0..MaxTime: bounds the model
  Lease,         \* the lease length callers ask for
  MaxJobs,       \* FileJobStoreOptions.MaxJobs
  MaxResets,     \* enqueues and retries of one job: bounds the model
  MaxLog,        \* events in the log: bounds the model
  MaxCrashes,    \* crashes: bounds the model
  WriteErrors,   \* may an append fail without the process dying?
  Garbled,       \* a complete line of the log that is not one JSON event
  Nothing        \* no event

\* A line of the log.
Event == [type: {"enqueue", "reserve", "release", "complete", "fail",
                 "retry", "forget"},
          job: Jobs, token: Tokens \cup {NoToken}, at: Nat, attempts: Nat]

\* What the constants must satisfy.
FileAssumption ==
  /\ Jobs \subseteq Nat
  /\ NoToken \notin Tokens
  /\ {MaxTime, MaxResets, MaxLog, MaxCrashes} \subseteq Nat
  /\ {Lease, MaxJobs} \subseteq Nat \ {0}
  /\ WriteErrors \in BOOLEAN
  /\ {Garbled, Nothing} \cap Event = {}

VARIABLES
  status,      \* "open", "down" (closed or crashed) or "corrupt" (replay failed)
  jobs,        \* the map in memory
  log,         \* the complete lines of the file
  partial,     \* does the file end in an unterminated line?
  granted,     \* reservations returned to callers in this process
  promised,    \* history: the map as the callers were told it is
  inflight,    \* history: the event whose append the last crash interrupted
  issued,      \* history: reservations whose event reached the log
  generation,  \* history: resets of attempt counts that reached the log
  crashes

vars == <<status, jobs, log, partial, granted, promised, inflight,
          issued, generation, crashes>>
history == <<issued, generation, crashes>>

Clock == 0..MaxTime

Absent == [phase |-> "absent", available |-> 0, attempts |-> 0,
           token |-> NoToken, until |-> 0]
Empty == [j \in Jobs |-> Absent]
Stored == {j \in Jobs : jobs[j].phase # "absent"}

(***************************************************************************)
(* The line an operation appends.  at is AvailableAt, or ReservedUntil for *)
(* a reservation.                                                          *)
(***************************************************************************)
MakeEvent(type, j, token, at, attempts) ==
  [type |-> type, job |-> j, token |-> token, at |-> at, attempts |-> attempts]

Init ==
  /\ status = "down"
  /\ jobs = Empty
  /\ log = <<>>
  /\ partial = FALSE
  /\ granted = {}
  /\ promised = Empty
  /\ inflight = Nothing
  /\ issued = {}
  /\ generation = [j \in Jobs |-> 0]
  /\ crashes = 0

-----------------------------------------------------------------------------
(***************************************************************************)
(* Replay                                                                  *)
(***************************************************************************)

\* The reservation that a release, complete or fail event finishes.
replayReservation(map, e) ==
  /\ map[e.job].phase # "absent"
  /\ e.token # NoToken
  /\ map[e.job].token = e.token

\* The conditions under which applyEvent accepts an event.
Acceptable(map, e) ==
  CASE e.type = "enqueue" -> map[e.job].phase = "absent"
    [] e.type = "reserve" -> /\ map[e.job].phase # "absent"
                             /\ e.token # NoToken
                             /\ e.attempts = map[e.job].attempts + 1
    [] e.type \in {"release", "complete", "fail"} -> replayReservation(map, e)
    [] e.type \in {"retry", "forget"} -> map[e.job].phase = "failed"

\* What applyEvent makes of the record the event is about.
ReplayedEnqueue(e) == [Absent EXCEPT !.phase = "pending",
                                     !.available = e.at,
                                     !.attempts = e.attempts]
ReplayedReserve(rec, e) == [rec EXCEPT !.attempts = e.attempts,
                                       !.token = e.token,
                                       !.until = e.at]

\* Mutant: a replayed release leaves the reservation in place.
ReplayedReleaseKeepsToken(rec, e) == [rec EXCEPT !.available = e.at]

ReplayedRelease(rec, e) == [rec EXCEPT !.available = e.at,
                                       !.token = NoToken,
                                       !.until = 0]
ReplayedFail(rec) == [rec EXCEPT !.phase = "failed",
                                 !.token = NoToken,
                                 !.until = 0]

ReplayedRetry(rec, e) == [rec EXCEPT !.phase = "pending",
                                     !.available = e.at,
                                     !.attempts = 0]
Replayed(rec, e) ==
  CASE e.type = "enqueue" -> ReplayedEnqueue(e)
    [] e.type = "reserve" -> ReplayedReserve(rec, e)
    [] e.type = "release" -> ReplayedRelease(rec, e)
    [] e.type = "fail"    -> ReplayedFail(rec)
    [] e.type = "retry"   -> ReplayedRetry(rec, e)
    [] e.type \in {"complete", "forget"} -> Absent

\* replay stops at the first line it cannot accept.
applyEvent(state, e) ==
  IF state.ok /\ e # Garbled /\ Acceptable(state.map, e)
  THEN [ok |-> TRUE, map |-> [state.map EXCEPT ![e.job] = Replayed(@, e)]]
  ELSE [ok |-> FALSE, map |-> state.map]

Replay(lines) ==
  LET after[n \in 0..Len(lines)] ==
        IF n = 0 THEN [ok |-> TRUE, map |-> Empty]
                 ELSE applyEvent(after[n - 1], lines[n])
  IN after[Len(lines)]

-----------------------------------------------------------------------------
(***************************************************************************)
(* append: write the line, sync, and only then let the caller update the   *)
(* map.  A line written after an unterminated one shares its line, which   *)
(* then holds more than one JSON value or none.                            *)
(***************************************************************************)
WriteLine(e) ==
  /\ Len(log) < MaxLog
  /\ log' = Append(log, IF partial THEN Garbled ELSE e)
  /\ partial' = FALSE
  /\ issued' = IF e.type = "reserve"
               THEN issued \cup {[job |-> e.job, token |-> e.token,
                                  attempt |-> e.attempts, until |-> e.at,
                                  generation |-> generation[e.job]]}
               ELSE issued
  /\ generation' = IF e.type \in {"enqueue", "retry"}
                   THEN [generation EXCEPT ![e.job] = @ + 1]
                   ELSE generation

WritePart ==
  /\ partial' = TRUE
  /\ UNCHANGED <<log, issued, generation>>

Acknowledge(e, updated, reservations) ==
  /\ WriteLine(e)
  /\ jobs' = updated
  /\ promised' = updated
  /\ granted' = granted \cup reservations
  /\ UNCHANGED <<status, inflight, crashes>>

\* A write or a sync that returns an error: the caller gets it, the map stays
\* as it is and the file is not rolled back.
AppendFails(e) ==
  /\ WriteErrors
  /\ WritePart \/ WriteLine(e)
  /\ UNCHANGED <<status, jobs, promised, granted, inflight, crashes>>

CrashInAppend(e) ==
  /\ crashes < MaxCrashes
  /\ crashes' = crashes + 1
  /\ \/ WritePart
     \/ WriteLine(e)
  /\ status' = "down"
  /\ jobs' = Empty
  /\ granted' = {}
  /\ inflight' = e
  /\ UNCHANGED promised

append(e, updated, reservations) ==
  \/ Acknowledge(e, updated, reservations)
  \/ AppendFails(e)
  \/ CrashInAppend(e)

-----------------------------------------------------------------------------
(***************************************************************************)
(* Operations of an open store                                             *)
(***************************************************************************)
Enqueue(j, at) ==
  /\ status = "open"
  /\ Cardinality(Stored) < MaxJobs
  /\ jobs[j].phase = "absent"
  /\ generation[j] < MaxResets
  /\ append(MakeEvent("enqueue", j, NoToken, at, 0),
            [jobs EXCEPT ![j] = [Absent EXCEPT !.phase = "pending",
                                               !.available = at]],
            {})

\* Mutant: a reserved job is offered again before its lease has expired.
EligibleIgnoringLease(j, at) ==
  /\ jobs[j].phase = "pending"
  /\ jobs[j].available <= at

Eligible(j, at) ==
  /\ jobs[j].phase = "pending"
  /\ jobs[j].available <= at
  /\ jobs[j].token = NoToken \/ jobs[j].until <= at

\* First in the order of AvailableAt, EnqueuedAt, ID.
First(S) ==
  CHOOSE j \in S : \A k \in S :
    \/ jobs[j].available < jobs[k].available
    \/ jobs[j].available = jobs[k].available /\ j <= k

Reserve(at, token) ==
  LET eligible == {j \in Jobs : Eligible(j, at)}
      j == First(eligible)
      attempts == jobs[j].attempts + 1
  IN /\ status = "open"
     /\ eligible # {}
     /\ token \notin {r.token : r \in issued}
     /\ append(MakeEvent("reserve", j, token, at + Lease, attempts),
               [jobs EXCEPT ![j].attempts = attempts,
                            ![j].token = token,
                            ![j].until = at + Lease],
               {[job |-> j, token |-> token]})

\* finishReservation: only the stored token gets through.
finishReservation(r, e, updated) ==
  /\ status = "open"
  /\ jobs[r.job].token = r.token
  /\ append(e, updated, {})

Release(r, at) ==
  finishReservation(r, MakeEvent("release", r.job, r.token, at, 0),
                    [jobs EXCEPT ![r.job].available = at,
                                 ![r.job].token = NoToken,
                                 ![r.job].until = 0])

Complete(r) ==
  finishReservation(r, MakeEvent("complete", r.job, r.token, 0, 0),
                    [jobs EXCEPT ![r.job] = Absent])

Fail(r) ==
  finishReservation(r, MakeEvent("fail", r.job, r.token, 0, 0),
                    [jobs EXCEPT ![r.job].phase = "failed",
                                 ![r.job].token = NoToken,
                                 ![r.job].until = 0])

RetryFailed(j, at) ==
  /\ status = "open"
  /\ jobs[j].phase = "failed"
  /\ generation[j] < MaxResets
  /\ append(MakeEvent("retry", j, NoToken, at, 0),
            [jobs EXCEPT ![j].phase = "pending",
                         ![j].attempts = 0,
                         ![j].available = at],
            {})

ForgetFailed(j) ==
  /\ status = "open"
  /\ jobs[j].phase = "failed"
  /\ append(MakeEvent("forget", j, NoToken, 0, 0),
            [jobs EXCEPT ![j] = Absent],
            {})

-----------------------------------------------------------------------------
(***************************************************************************)
(* NewFileJobStore replays the log and cuts an unterminated last line off. *)
(* Close and a crash forget the map and every reservation in the process.  *)
(***************************************************************************)
Open ==
  LET state == Replay(log)
  IN /\ status = "down"
     /\ IF state.ok
        THEN /\ status' = "open"
             /\ jobs' = state.map
             /\ promised' = state.map
             /\ partial' = FALSE
        ELSE /\ status' = "corrupt"
             /\ UNCHANGED <<jobs, promised, partial>>
     /\ inflight' = Nothing
     /\ UNCHANGED <<log, granted>>
     /\ UNCHANGED history

Down ==
  /\ status = "open"
  /\ status' = "down"
  /\ jobs' = Empty
  /\ granted' = {}
  /\ UNCHANGED <<log, partial, promised, inflight, issued, generation>>

Close == Down /\ UNCHANGED crashes

Crash ==
  /\ crashes < MaxCrashes
  /\ crashes' = crashes + 1
  /\ Down

Next ==
  \/ \E j \in Jobs, at \in Clock : Enqueue(j, at)
  \/ \E at \in Clock, token \in Tokens : Reserve(at, token)
  \/ \E r \in granted, at \in Clock : Release(r, at)
  \/ \E r \in granted : Complete(r)
  \/ \E r \in granted : Fail(r)
  \/ \E j \in Jobs, at \in Clock : RetryFailed(j, at)
  \/ \E j \in Jobs : ForgetFailed(j)
  \/ Open
  \/ Close
  \/ Crash

Spec == Init /\ [][Next]_vars

-----------------------------------------------------------------------------
(***************************************************************************)
(* Properties                                                              *)
(***************************************************************************)

\* A restart finds everything the callers were told, whatever a crash did to
\* the last line: only the job of the interrupted operation may differ.
RecoveryFaithful ==
  [][(status = "down" /\ status' # "down")
     => /\ status' = "open"
        /\ \A j \in Jobs :
             (inflight = Nothing \/ inflight.job # j) => jobs'[j] = promised[j]]_vars

\* An acknowledged job, not yet completed or forgotten, is there again after a
\* restart (GUIDE: "survive process and Sidecar restarts").
AcknowledgedJobsSurvive ==
  status # "down"
  => \A j \in Jobs : promised[j].phase # "absent"
       => status = "open" /\ jobs[j].phase # "absent"

\* The record of the contract that the store keeps, across crashes and restarts:
\* the map in memory, and what a restart would rebuild while the store is down.
durable == IF status = "open" THEN jobs ELSE Replay(log).map
=============================================================================
