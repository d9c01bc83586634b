-------------------------- MODULE FileSchedulerStore --------------------------
(***************************************************************************)
(* FileSchedulerStore: a map of task records behind a mutex and an         *)
(* append-only log of JSON lines, for one process.  An operation checks    *)
(* its conditions, appends one event (write, then sync) and only then      *)
(* updates the map, which replay rebuilds when the store is opened.        *)
(*                                                                         *)
(* A crash inside an append leaves nothing, part of the line or all of it. *)
(* A write that fails while the process lives on is the subject of module  *)
(* FileJobStore, whose append is the same code.                            *)
(***************************************************************************)
EXTENDS Integers, Sequences, FiniteSets

CONSTANTS
  Tasks, Tokens, NoToken, MaxTime, MaxRounds, Lease,   \* as in SchedulerStore
  MaxTasks,    \* FileSchedulerStoreOptions.MaxTasks
  MaxLog,      \* events in the log: bounds the model
  MaxCrashes,  \* crashes: bounds the model
  Nothing      \* no event

\* A line of the log.
Event == [type: {"initialize", "reserve", "complete"}, name: Tasks,
          token: Tokens \cup {NoToken}, scheduled: Nat, next: Nat, until: Nat,
          completed: Nat]

\* What the constants must satisfy.
FileSchedulerAssumption ==
  /\ NoToken \notin Tokens
  /\ {MaxTime, MaxRounds, MaxLog, MaxCrashes} \subseteq Nat
  /\ {Lease, MaxTasks} \subseteq Nat \ {0}
  /\ Nothing \notin Event

VARIABLES
  status,    \* "open", "down" (closed or crashed) or "corrupt" (replay failed)
  tasks,     \* the map in memory
  log,       \* the complete lines of the file
  partial,   \* does the file end in an unterminated line?
  granted,   \* reservations returned to callers in this process
  promised,  \* history: the map as the callers were told it is
  inflight,  \* history: the event whose append the last crash interrupted
  issued,    \* history: reservations whose event reached the log
  finished,  \* history: reservations whose completion reached the log
  round,     \* history: completions that reached the log
  crashes

vars == <<status, tasks, log, partial, granted, promised, inflight, issued,
          finished, round, crashes>>

Times == 1..MaxTime
Unknown == [next |-> 0, last |-> 0, token |-> NoToken, until |-> 0]
Empty == [n \in Tasks |-> Unknown]
Known == {n \in Tasks : tasks[n].next # 0}

\* The line an operation appends; completed is LastCompletedAt.
MakeEvent(type, n, token, scheduled, next, until, completed) ==
  [type |-> type, name |-> n, token |-> token, scheduled |-> scheduled,
   next |-> next, until |-> until, completed |-> completed]

Init ==
  /\ status = "down"
  /\ tasks = Empty /\ promised = Empty
  /\ log = <<>> /\ partial = FALSE
  /\ granted = {} /\ issued = {} /\ finished = {}
  /\ inflight = Nothing
  /\ round = [n \in Tasks |-> 0]
  /\ crashes = 0

-----------------------------------------------------------------------------
(***************************************************************************)
(* replay                                                                  *)
(***************************************************************************)

\* The conditions under which applyEvent accepts an event.
Acceptable(map, e) ==
  CASE e.type = "initialize" -> map[e.name].next = 0 /\ e.next # 0
    [] e.type = "reserve"    -> /\ map[e.name].next # 0
                                /\ e.token # NoToken
                                /\ e.scheduled = map[e.name].next
                                /\ e.until # 0
    [] e.type = "complete"   -> /\ e.token # NoToken
                                /\ map[e.name].token = e.token
                                /\ e.scheduled = map[e.name].next
                                /\ e.next > e.completed

\* What applyEvent makes of the record the event is about.
Replayed(rec, e) ==
  CASE e.type = "initialize" -> [Unknown EXCEPT !.next = e.next]
    [] e.type = "reserve"    -> [rec EXCEPT !.token = e.token, !.until = e.until]
    [] e.type = "complete"   -> [rec EXCEPT !.next = e.next, !.last = e.scheduled,
                                            !.token = NoToken, !.until = 0]

applyEvent(state, e) ==
  IF state.ok /\ Acceptable(state.map, e)
  THEN [ok |-> TRUE, map |-> [state.map EXCEPT ![e.name] = Replayed(@, e)]]
  ELSE [ok |-> FALSE, map |-> state.map]

\* replay stops at the first line it cannot accept.
replay(lines) ==
  LET after[i \in 0..Len(lines)] ==
        IF i = 0 THEN [ok |-> TRUE, map |-> Empty]
                 ELSE applyEvent(after[i - 1], lines[i])
  IN after[Len(lines)]

-----------------------------------------------------------------------------
(***************************************************************************)
(* append and the operations that call it                                  *)
(***************************************************************************)
WriteLine(e, at) ==
  /\ Len(log) < MaxLog
  /\ log' = Append(log, e)
  /\ issued' = IF e.type = "reserve"
               THEN issued \cup {[task |-> e.name, token |-> e.token, next |-> e.scheduled,
                                  at |-> at, until |-> e.until, round |-> round[e.name]]}
               ELSE issued
  /\ round' = IF e.type = "complete" THEN [round EXCEPT ![e.name] = @ + 1] ELSE round
  /\ finished' = IF e.type = "complete"
                 THEN finished \cup {r \in issued : r.token = e.token} ELSE finished
  /\ UNCHANGED partial

Acknowledge(e, at, rec, reservations) ==
  /\ WriteLine(e, at)
  /\ tasks' = [tasks EXCEPT ![e.name] = rec]
  /\ promised' = [tasks EXCEPT ![e.name] = rec]
  /\ granted' = granted \cup reservations
  /\ UNCHANGED <<status, inflight, crashes>>

CrashInAppend(e, at) ==
  /\ crashes < MaxCrashes
  /\ crashes' = crashes + 1
  /\ \/ partial' = TRUE /\ UNCHANGED <<log, issued, finished, round>>
     \/ WriteLine(e, at)
  /\ status' = "down"
  /\ tasks' = Empty
  /\ granted' = {}
  /\ inflight' = e
  /\ UNCHANGED promised

append(e, at, rec, reservations) ==
  Acknowledge(e, at, rec, reservations) \/ CrashInAppend(e, at)

Initialize(n, next) ==
  /\ status = "open"
  /\ tasks[n].next = 0
  /\ Cardinality(Known) < MaxTasks
  /\ append(MakeEvent("initialize", n, NoToken, 0, next, 0, 0), 0,
            [Unknown EXCEPT !.next = next], {})

Free(n, at) == tasks[n].token = NoToken \/ tasks[n].until <= at

Reserve(n, at, token) ==
  /\ status = "open"
  /\ tasks[n].next # 0
  /\ Free(n, at)
  /\ tasks[n].next <= at
  /\ token \notin {r.token : r \in issued}
  /\ append(MakeEvent("reserve", n, token, tasks[n].next, 0, at + Lease, 0), at,
            [tasks[n] EXCEPT !.token = token, !.until = at + Lease],
            {[task |-> n, token |-> token, next |-> tasks[n].next]})

Held(r) == tasks[r.task].token = r.token /\ tasks[r.task].next = r.next

Complete(r, next, completedAt) ==
  /\ status = "open"
  /\ next > completedAt
  /\ Held(r)
  /\ round[r.task] < MaxRounds
  /\ append(MakeEvent("complete", r.task, r.token, r.next, next, 0, completedAt), 0,
            [next |-> next, last |-> r.next, token |-> NoToken, until |-> 0], {})

\* NewFileSchedulerStore replays the log and cuts an unterminated last line off.
Open ==
  LET state == replay(log)
  IN /\ status = "down"
     /\ status' = IF state.ok THEN "open" ELSE "corrupt"
     /\ tasks' = state.map
     /\ promised' = state.map
     /\ partial' = FALSE
     /\ inflight' = Nothing
     /\ UNCHANGED <<log, granted, issued, finished, round, crashes>>

Close ==
  /\ status = "open"
  /\ status' = "down"
  /\ tasks' = Empty
  /\ granted' = {}
  /\ UNCHANGED <<log, partial, promised, inflight, issued,
          finished, round, crashes>>

Next ==
  \/ \E n \in Tasks, next \in Times : Initialize(n, next)
  \/ \E n \in Tasks, at \in Times, token \in Tokens : Reserve(n, at, token)
  \/ \E r \in granted, next \in Times, completedAt \in Times : Complete(r, next, completedAt)
  \/ Open
  \/ Close

Spec == Init /\ [][Next]_vars

-----------------------------------------------------------------------------
(***************************************************************************)
(* Properties                                                              *)
(***************************************************************************)

\* A restart finds everything the callers were told, whatever a crash did to
\* the last line: only the task of the interrupted operation may differ.
RecoveryFaithful ==
  [][(status = "down" /\ status' # "down")
     => /\ status' = "open"
        /\ \A n \in Tasks :
             (inflight = Nothing \/ inflight.name # n) => tasks'[n] = promised[n]]_vars

\* The record of the contract that the store keeps, across crashes and restarts:
\* the map in memory, and what a restart would rebuild while the store is down.
durable == IF status = "open" THEN tasks ELSE replay(log).map
=============================================================================
