----------------------------- MODULE Application -----------------------------
(***************************************************************************)
(* Application: registration and boot of the service providers and their   *)
(* termination, with calls of Register, Boot and Shutdown from any         *)
(* goroutine.  Sections under application.mu are one step each; the calls  *)
(* of the providers' own methods lie between them and may fail.            *)
(*                                                                         *)
(* Time is counted in the unit of the budget of the first call of          *)
(* Shutdown.  A provider that honours its context has returned from        *)
(* Terminate when the context is done.                                     *)
(***************************************************************************)
EXTENDS Integers, Sequences, FiniteSets, Functions

CONSTANTS
  N,          \* providers, numbered in the order of their registration
  Bootable,   \* those with a Boot method
  Terminable, \* those with a Terminate method
  Honest,     \* those whose Terminate honours its context
  Callers,    \* calls of Shutdown
  Budget,     \* deadline of the first call, from the time it is made
  Grace,      \* applicationShutdownCleanupTimeout
  MaxTime     \* bounds the model

ApplicationAssumption ==
  /\ {N, MaxTime} \subseteq Nat
  /\ {Budget, Grace} \subseteq Nat \ {0}
  /\ Bootable \subseteq 1..N /\ Terminable \subseteq 1..N /\ Honest \subseteq 1..N

VARIABLES
  state,             \* application.state
  providers,         \* application.providers
  shutdownProviders, \* application.shutdownProviders
  todo,              \* providers the running Register or Boot has not called yet
  batch,             \* providers of the running Register that it has called
  shutdownState,     \* application.shutdownState
  remaining,         \* where in shutdownProviders the loop of terminateProviders
                     \* has a provider to terminate still ahead
  terminating,       \* the one in its Terminate, 0 if none
  limit,             \* when the context of that Terminate is done
  grace,             \* does that Terminate have a context of its own?
  deadline, aborted, \* the context of the call that started the shutdown
  failures,          \* does terminateProviders have failures?
  shutdownErr,       \* application.shutdownErr
  caller,            \* where each call of Shutdown is
  answer,            \* history: what it returned
  now,
  entered, booted, terminated \* history: providers in the order their Register, Boot
                              \* and Terminate were called

startup == <<state, providers, shutdownProviders, todo, batch, entered, booted>>
termination == <<remaining, terminating, limit, grace, failures, terminated>>
context == <<deadline, aborted>>
calls == <<caller, answer>>
vars == <<state, providers, shutdownProviders, todo, batch, shutdownState, remaining,
          terminating, limit, grace, deadline, aborted, failures, shutdownErr, caller,
          answer, now, entered, booted, terminated>>

Init ==
  /\ state = "collecting"
  /\ providers = <<>> /\ shutdownProviders = <<>>
  /\ todo = <<>> /\ batch = <<>>
  /\ shutdownState = "idle"
  /\ remaining = {} /\ terminating = 0 /\ limit = 0 /\ grace = FALSE
  /\ deadline = 0 /\ aborted = FALSE
  /\ failures = FALSE /\ shutdownErr = "nil"
  /\ caller = [c \in Callers |-> "none"]
  /\ answer = [c \in Callers |-> "none"]
  /\ now = 0
  /\ entered = <<>> /\ booted = <<>> /\ terminated = <<>>

Seen == Len(entered)

-----------------------------------------------------------------------------
(***************************************************************************)
(* Register and Boot.  Calls that are refused change nothing.              *)
(***************************************************************************)

MayStart == shutdownState = "idle" /\ state = "collecting"

\* Register with the next k providers.
Register(k) ==
  /\ MayStart
  /\ Seen + k <= N
  /\ state' = "registering"
  /\ todo' = [i \in 1..k |-> Seen + i]
  /\ batch' = <<>>
  /\ UNCHANGED <<providers, shutdownProviders, entered, booted, shutdownState, shutdownErr,
                 now>>
  /\ UNCHANGED termination /\ UNCHANGED context /\ UNCHANGED calls

\* One provider is tracked for the shutdown, then registers.
RegisterProvider(ok) ==
  /\ state = "registering" /\ todo # <<>>
  /\ entered' = Append(entered, Head(todo))
  /\ shutdownProviders' = Append(shutdownProviders, Head(todo))
  /\ IF ok
     THEN batch' = Append(batch, Head(todo)) /\ todo' = Tail(todo) /\ UNCHANGED state
     ELSE state' = "failed" /\ todo' = <<>> /\ UNCHANGED batch
  /\ UNCHANGED <<providers, booted, shutdownState, shutdownErr, now>>
  /\ UNCHANGED termination /\ UNCHANGED context /\ UNCHANGED calls

finishRegistration ==
  /\ state = "registering" /\ todo = <<>>
  /\ providers' = providers \o batch
  /\ state' = "collecting"
  /\ batch' = <<>>
  /\ UNCHANGED <<shutdownProviders, todo, entered, booted, shutdownState, shutdownErr, now>>
  /\ UNCHANGED termination /\ UNCHANGED context /\ UNCHANGED calls

IsBootable(p) == p \in Bootable

Boot ==
  /\ MayStart
  /\ state' = "booting"
  /\ todo' = SelectSeq(providers, IsBootable)
  /\ UNCHANGED <<providers, shutdownProviders, batch, entered, booted, shutdownState,
                 shutdownErr, now>>
  /\ UNCHANGED termination /\ UNCHANGED context /\ UNCHANGED calls

BootProvider(ok) ==
  /\ state = "booting" /\ todo # <<>>
  /\ IF ok
     THEN todo' = Tail(todo) /\ booted' = Append(booted, Head(todo)) /\ UNCHANGED state
     ELSE state' = "failed" /\ todo' = <<>> /\ UNCHANGED booted
  /\ UNCHANGED <<providers, shutdownProviders, batch, entered, shutdownState, shutdownErr,
                 now>>
  /\ UNCHANGED termination /\ UNCHANGED context /\ UNCHANGED calls

Booted ==
  /\ state = "booting" /\ todo = <<>>
  /\ state' = "booted"
  /\ UNCHANGED <<providers, shutdownProviders, todo, batch, entered, booted, shutdownState,
                 shutdownErr, now>>
  /\ UNCHANGED termination /\ UNCHANGED context /\ UNCHANGED calls

-----------------------------------------------------------------------------
(***************************************************************************)
(* Shutdown                                                                *)
(***************************************************************************)
Ready == shutdownState = "complete"

Answer(c, result) ==
  /\ caller' = [caller EXCEPT ![c] = "returned"]
  /\ answer' = [answer EXCEPT ![c] = result]

ToTerminate == {i \in DOMAIN shutdownProviders : shutdownProviders[i] \in Terminable}

Busy == state \in {"registering", "booting"}

\* The call that starts the shutdown.
Shutdown(c) ==
  /\ caller[c] = "none"
  /\ shutdownState = "idle"
  /\ ~Busy
  /\ shutdownState' = "shutting down"
  /\ remaining' = ToTerminate
  /\ deadline' = now + Budget
  /\ caller' = [caller EXCEPT ![c] = "waiting"]
  /\ UNCHANGED <<terminating, limit, grace, aborted, failures, terminated, shutdownErr,
                 answer, now>>
  /\ UNCHANGED startup

\* A call that finds the application starting up, or the shutdown ended.
ShutdownAnswered(c) ==
  /\ caller[c] = "none"
  /\ \/ Ready /\ Answer(c, shutdownErr)
     \/ shutdownState = "idle" /\ Busy /\ Answer(c, "busy")
  /\ UNCHANGED <<shutdownState, shutdownErr, now>>
  /\ UNCHANGED startup /\ UNCHANGED termination /\ UNCHANGED context

ShutdownJoins(c) ==
  /\ caller[c] = "none"
  /\ shutdownState = "shutting down"
  /\ caller' = [caller EXCEPT ![c] = "waiting"]
  /\ UNCHANGED <<shutdownState, shutdownErr, now, answer>>
  /\ UNCHANGED startup /\ UNCHANGED termination /\ UNCHANGED context

\* waitForShutdown: the result, or the end of the caller's own context.
ResultReady(c) ==
  /\ caller[c] = "waiting"
  /\ Ready
  /\ Answer(c, shutdownErr)
  /\ UNCHANGED <<shutdownState, shutdownErr, now>>
  /\ UNCHANGED startup /\ UNCHANGED termination /\ UNCHANGED context

ContextEnds(c) ==
  /\ caller[c] = "waiting"
  /\ Answer(c, "context")
  /\ UNCHANGED <<shutdownState, shutdownErr, now>>
  /\ UNCHANGED startup /\ UNCHANGED termination /\ UNCHANGED context

waitForShutdown(c) == ResultReady(c) \/ ContextEnds(c)

\* The context of the first call is cancelled; a Terminate under it must end.
Abort ==
  /\ shutdownState = "shutting down" /\ ~aborted
  /\ aborted' = TRUE
  /\ limit' = IF terminating # 0 /\ ~grace /\ now < limit THEN now ELSE limit
  /\ UNCHANGED <<shutdownState, shutdownErr, now, deadline, remaining, terminating, grace,
                 failures, terminated>>
  /\ UNCHANGED startup /\ UNCHANGED calls

Expired == aborted \/ now >= deadline

\* The context of the next Terminate: an equal share of what is left, or a grace
\* period of its own.
Slice == IF Expired THEN now + Grace ELSE now + (deadline - now) \div Cardinality(remaining)

\* The loop runs down the index and passes over the others.
BeginTerminate(index) ==
  /\ shutdownState = "shutting down"
  /\ terminating = 0
  /\ \A i \in remaining : i <= index
  /\ terminating' = shutdownProviders[index]
  /\ limit' = Slice
  /\ grace' = Expired
  /\ terminated' = Append(terminated, shutdownProviders[index])
  /\ remaining' = remaining \ {index}
  /\ UNCHANGED <<shutdownState, shutdownErr, now, failures>>
  /\ UNCHANGED startup /\ UNCHANGED context /\ UNCHANGED calls

EndTerminate(ok) ==
  /\ terminating # 0
  /\ terminating' = 0 /\ grace' = FALSE
  /\ failures' = (failures \/ ~ok)
  /\ UNCHANGED <<shutdownState, shutdownErr, now, limit, remaining, terminated>>
  /\ UNCHANGED startup /\ UNCHANGED context /\ UNCHANGED calls

\* The end of terminateProviders.
ShutdownComplete ==
  /\ shutdownState = "shutting down"
  /\ terminating = 0 /\ remaining = {}
  /\ shutdownState' = "complete"
  /\ shutdownErr' = IF failures THEN "failed" ELSE "nil"
  /\ UNCHANGED now
  /\ UNCHANGED startup /\ UNCHANGED termination /\ UNCHANGED context /\ UNCHANGED calls

\* Time counts from the shutdown on.  The loop itself takes none, an honest Terminate ends by its limit.
Tick ==
  /\ now < MaxTime
  /\ shutdownState = "shutting down" /\ terminating # 0
  /\ terminating \in Honest => now < limit
  /\ now' = now + 1
  /\ UNCHANGED <<shutdownState, shutdownErr>>
  /\ UNCHANGED startup /\ UNCHANGED termination /\ UNCHANGED context /\ UNCHANGED calls

Startup ==
  \/ \E k \in 1..2 : Register(k)
  \/ \E ok \in BOOLEAN : RegisterProvider(ok) \/ BootProvider(ok)
  \/ finishRegistration \/ Boot \/ Booted

ShutdownCall(c) == Shutdown(c) \/ ShutdownAnswered(c) \/ ShutdownJoins(c)

terminateProviders ==
  \/ \E index \in remaining : BeginTerminate(index)
  \/ \E ok \in BOOLEAN : EndTerminate(ok)
  \/ ShutdownComplete

Next ==
  \/ Startup
  \/ \E c \in Callers : ShutdownCall(c) \/ waitForShutdown(c)
  \/ terminateProviders \/ Abort \/ Tick

Spec == Init /\ [][Next]_vars

-----------------------------------------------------------------------------
(***************************************************************************)
(* Properties                                                              *)
(***************************************************************************)

\* Every provider whose Register was entered is terminated, failed ones included, each
\* once, in reverse order of their numbers, whatever fails on the way.
TerminatesAllInReverse ==
  shutdownState = "complete" =>
    /\ Range(terminated) = Range(entered) \cap Terminable
    /\ \A i, j \in DOMAIN terminated : i < j => terminated[i] > terminated[j]
=============================================================================
