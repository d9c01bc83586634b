------------------------------ MODULE DevSession ------------------------------
(***************************************************************************)
(* `bridra dev` (cmd/bridra/dev.go, dev_watch.go, dev_process_unix.go):    *)
(* the Go backend is built and run together with Flutter; a change of the  *)
(* sources rebuilds it and restarts what runs it: the HTTP backend, or     *)
(* Flutter, which owns the sidecar.  Every child is a process group of its *)
(* own.  A build is named by the source version it was made from.          *)
(***************************************************************************)
EXTENDS Integers, FiniteSets

CONSTANTS
  MaxEdits,   \* bound on the edits of the sources
  NoBuild     \* no executable

SessionAssumption == MaxEdits \in Nat /\ NoBuild \notin Nat

VARIABLES
  mode,      \* options.transport: "sidecar" or "http"
  watching,  \* options.watch
  source,    \* the version of the Go sources
  broken,    \* the versions that do not compile
  watcher,   \* the poller: the version it last saw, a change not yet sent, one queued
  exe,       \* the installed executable and the candidate beside it
  child,     \* each process: "none", "running", "exited" (not yet reaped) or "done", and its build
  pc,        \* where the supervisor is
  stop,      \* stopDevProcess, stopProcesses: killed yet, errors, another child's exit
  signals,   \* "default", "none" (notified, none received) or "received"
  stuck      \* a child did not exit after kill: the command says so

sessionVars == <<mode, watching, source, broken, watcher, exe, child, pc, stop, signals, stuck>>

Children == {"backend", "flutter"}
Quit == [killed |-> FALSE, faulty |-> FALSE, other |-> FALSE]
Restarted == IF mode = "sidecar" THEN "flutter" ELSE "backend"
Alive(c) == child[c].state \in {"running", "exited"}
Over == pc \in {"ended", "interrupted"}

\* resolveOptions: the transport of a session, if the options make sense.
resolveOptions(o) ==
  LET desktop == o.device \in {"host", "other desktop"}
      transport == IF o.transport # "auto" THEN o.transport
                   ELSE IF o.url = "none" /\ desktop THEN "sidecar" ELSE "http"
      reachable == o.url = "loopback" \/ (o.url = "remote" /\ ~ o.loopback)
  IN CASE transport = "sidecar" /\ o.device = "host" /\ o.url = "none" -> {"sidecar"}
       [] transport = "http" /\ (IF o.url = "none" THEN desktop \/ o.device = "browser" ELSE reachable) -> {"http"}
       [] OTHER -> {}
Options ==
  [device : {"host", "other desktop", "browser", "phone"}, transport : {"auto", "sidecar", "http"},
   url : {"none", "loopback", "remote", "other port"}, loopback : BOOLEAN]

SessionInit ==
  /\ mode \in UNION {resolveOptions(o) : o \in Options} /\ watching \in BOOLEAN
  /\ source = 0 /\ broken \in SUBSET (1 .. MaxEdits)
  /\ watcher = [seen |-> 0, pending |-> FALSE, queued |-> FALSE]
  /\ exe = [installed |-> NoBuild, candidate |-> NoBuild]
  /\ child = [c \in Children |-> [state |-> "none", build |-> NoBuild]]
  /\ pc = "build" /\ stop = Quit /\ signals = "default" /\ stuck = FALSE

-----------------------------------------------------------------------------
\* The world: the developer edits, children exit, the terminal interrupts.
Edit ==
  /\ source < MaxEdits /\ ~ Over /\ source' = source + 1
  /\ UNCHANGED <<mode, watching, broken, watcher, exe, child, pc, stop, signals, stuck>>

Exits(c) ==
  /\ child[c].state = "running" /\ child' = [child EXCEPT ![c].state = "exited"]
  /\ UNCHANGED <<mode, watching, source, broken, watcher, exe, pc, stop, signals, stuck>>

\* Until the supervisor asks for notification, an interrupt ends the command.
Interrupt ==
  /\ ~ Over
  /\ IF signals = "default" THEN pc' = "interrupted" /\ UNCHANGED signals
     ELSE signals' = "received" /\ UNCHANGED pc
  /\ UNCHANGED <<mode, watching, source, broken, watcher, exe, child, stop, stuck>>

\* Mutant: a change is dropped when the supervisor is not listening.
SendsUnbuffered(w) == [w EXCEPT !.pending = FALSE, !.queued = @ \/ pc = "session"]

Sends(w) == IF w.queued THEN w ELSE [w EXCEPT !.pending = FALSE, !.queued = TRUE]
SeesChange == [seen |-> source, pending |-> TRUE, queued |-> watcher.queued]
Poll ==
  /\ watching /\ ~ Over
  /\ watcher' = IF watcher.seen # source THEN SeesChange ELSE IF watcher.pending THEN Sends(watcher) ELSE watcher
  /\ watcher' # watcher
  /\ UNCHANGED <<mode, watching, source, broken, exe, child, pc, stop, signals, stuck>>

-----------------------------------------------------------------------------
\* How supervisor steps end.
At(here, next) == pc = here /\ pc' = next
Start(c) == child' = [child EXCEPT ![c] = [state |-> "running", build |-> exe.installed]]
Reap(c) == child[c].state = "exited" /\ child' = [child EXCEPT ![c].state = "done"]
\* stopProcesses, or straight to the end if there is nobody to stop.
Stopping == IF \E c \in Children : Alive(c)' THEN "stopping" ELSE "ended"
Settings == <<mode, watching, source, broken>>

\* buildBackend; the compiler reads the sources while they may change.
FirstBuild ==
  /\ \/ source \notin broken /\ At("build", "start") /\ exe' = [exe EXCEPT !.installed = source]
     \/ source \in broken /\ At("build", "ended") /\ UNCHANGED exe
  /\ UNCHANGED <<Settings, watcher, child, stop, signals, stuck>>

\* runDesktop starts Flutter; runHTTP the backend, and Flutter when it is ready.
FirstStart ==
  /\ \/ mode = "sidecar" /\ At("start", "session") /\ Start("flutter") /\ signals' = "none"
     \/ mode = "http" /\ At("start", "ready") /\ Start("backend") /\ UNCHANGED signals
     \/ At("start", "ended") /\ UNCHANGED <<child, signals>>
  /\ UNCHANGED <<Settings, watcher, exe, stop, stuck>>

FirstReady ==
  /\ \/ At("ready", "session") /\ Start("flutter") /\ signals' = "none"
     \/ At("ready", "stopping") /\ UNCHANGED <<child, signals>>    \* not ready, or no Flutter
     \/ At("ready", "ended") /\ Reap("backend") /\ UNCHANGED signals
  /\ UNCHANGED <<Settings, watcher, exe, stop, stuck>>

\* superviseDesktop, superviseHTTP, supervise: an interrupt or the exit of a
\* child ends the session, also while the rebuilt backend becomes ready.
Supervising == {"session", "built", "ready again"}
SessionInterrupted ==
  /\ pc \in Supervising /\ signals = "received"
  /\ UNCHANGED child /\ pc' = Stopping /\ stop' = Quit
  /\ exe' = [exe EXCEPT !.candidate = NoBuild]
  /\ UNCHANGED <<Settings, watcher, signals, stuck>>

ChildExited(c) ==
  /\ pc \in Supervising /\ Reap(c) /\ pc' = Stopping /\ stop' = Quit
  /\ exe' = [exe EXCEPT !.candidate = NoBuild]
  /\ UNCHANGED <<Settings, watcher, signals, stuck>>

\* A change: rebuildBackend makes a candidate, from what it finds.
RebuildStarts ==
  /\ At("session", "rebuild") /\ watcher.queued
  /\ watcher' = [watcher EXCEPT !.queued = FALSE]
  /\ exe' = [exe EXCEPT !.candidate = NoBuild]
  /\ UNCHANGED <<Settings, child, stop, signals, stuck>>

rebuildBackend(v) == [exe EXCEPT !.candidate = v]
Rebuilds ==
  /\ \/ source \in broken /\ At("rebuild", "session") /\ UNCHANGED exe
     \/ source \notin broken /\ At("rebuild", "built") /\ exe' = rebuildBackend(source)
  /\ UNCHANGED <<Settings, watcher, child, stop, signals, stuck>>

\* If nothing has happened meanwhile, stopDevProcess signals what runs the backend.
Replaces ==
  /\ At("built", "replace") /\ signals # "received" /\ \A c \in Children : child[c].state # "exited"
  /\ \E faulty \in BOOLEAN : stop' = [Quit EXCEPT !.faulty = faulty]
  /\ UNCHANGED <<Settings, watcher, exe, child, signals, stuck>>

OtherExits(c) ==
  /\ pc = "replace" /\ c # Restarted /\ Reap(c)
  /\ stop' = [stop EXCEPT !.other = TRUE]
  /\ UNCHANGED <<Settings, watcher, exe, pc, signals, stuck>>

Kills ==
  /\ pc \in {"replace", "stopping"} /\ ~ stop.killed /\ stop' = [stop EXCEPT !.killed = TRUE]
  /\ UNCHANGED <<Settings, watcher, exe, child, pc, signals, stuck>>

\* Mutant: the other child of an HTTP session is not stopped.
AbandonsAtOnce == pc' = "ended" /\ stop' = Quit

\* stopDevProcess returns.  Desktop sessions have nobody else to stop.
Abandons == pc' = (IF mode = "sidecar" THEN "ended" ELSE Stopping) /\ stop' = Quit
Stopped ==
  /\ pc = "replace" /\ Reap(Restarted)
  /\ IF stop.other \/ stop.faulty THEN Abandons /\ exe' = [exe EXCEPT !.candidate = NoBuild]
     ELSE pc' = "install" /\ UNCHANGED <<exe, stop>>
  /\ UNCHANGED <<Settings, watcher, signals, stuck>>

SurvivesKill ==
  /\ pc = "replace" /\ stop.killed
  /\ UNCHANGED child /\ Abandons /\ exe' = [exe EXCEPT !.candidate = NoBuild]
  /\ stuck' = TRUE
  /\ UNCHANGED <<Settings, watcher, signals>>

\* installDevBackend renames; a failure puts the previous executable back.
Installs ==
  /\ UNCHANGED child
  /\ \/ At("install", "restart") /\ exe' = [installed |-> exe.candidate, candidate |-> NoBuild] /\ UNCHANGED stop
     \/ pc = "install" /\ Abandons /\ exe' \in {exe, [exe EXCEPT !.installed = NoBuild]}
  /\ UNCHANGED <<Settings, watcher, signals, stuck>>

Restarts ==
  /\ \/ pc = "restart" /\ Start(Restarted) /\ pc' = (IF mode = "http" THEN "ready again" ELSE "session") /\ UNCHANGED stop
     \/ pc = "restart" /\ UNCHANGED child /\ Abandons
  /\ UNCHANGED <<Settings, watcher, exe, signals, stuck>>

ReadyAgain ==
  /\ UNCHANGED child
  /\ \/ At("ready again", "session") /\ UNCHANGED stop
     \/ pc = "ready again" /\ Abandons
  /\ UNCHANGED <<Settings, watcher, exe, signals, stuck>>

\* stopProcesses: wait for every child, kill after stopTimeout, give up after killTimeout.
StopReaps(c) ==
  /\ pc = "stopping" /\ Reap(c) /\ pc' = Stopping
  /\ UNCHANGED <<Settings, watcher, exe, stop, signals, stuck>>
StopGivesUp ==
  /\ At("stopping", "ended") /\ stop.killed /\ stuck' = TRUE
  /\ UNCHANGED <<Settings, watcher, exe, child, stop, signals>>

SupervisorNext ==
  \/ FirstBuild \/ FirstStart \/ FirstReady
  \/ SessionInterrupted \/ RebuildStarts \/ Rebuilds \/ Replaces \/ Kills \/ Stopped \/ SurvivesKill
  \/ Installs \/ Restarts \/ ReadyAgain \/ StopGivesUp
  \/ \E c \in Children : ChildExited(c) \/ OtherExits(c) \/ StopReaps(c)
SessionNext == SupervisorNext \/ Edit \/ Poll \/ Interrupt \/ \E c \in Children : Exits(c)

\* The poller's ticker and the supervisor's select run.  A select that finds a change
\* or an interrupt ready again and again takes it in the end.
Fairness ==
  /\ WF_sessionVars(Poll) /\ WF_sessionVars(SupervisorNext)
  /\ SF_sessionVars(RebuildStarts) /\ SF_sessionVars(SessionInterrupted)

-----------------------------------------------------------------------------
\* When the command has returned, however the session ended, no child is left
\* running, unless it said that one did not exit after kill.
NoChildOutlivesSession == pc = "ended" /\ ~ stuck => \A c \in Children : ~ Alive(c)

\* No edit is lost, also one made during a rebuild: when editing stops and the
\* sources compile, a session that goes on ends up running them.
LatestSourcesRun == <>[](Over \/ ~ watching \/ source \in broken \/ child[Restarted].build = source)
=============================================================================
