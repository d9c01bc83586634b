------------------------- MODULE EmbeddedApplication -------------------------
(***************************************************************************)
(* The application inside its host's process: NewRuntime builds the        *)
(* application and puts an EmbeddedRuntime in front of it, whose shutdown  *)
(* callback is Application.Shutdown.  The host calls the runtime; only     *)
(* when building fails, or while the runtime already closes, does it call  *)
(* Application.Shutdown itself.                                            *)
(***************************************************************************)
EXTENDS EmbeddedRuntime

CONSTANTS
  N, Bootable, Terminable, Honest, Budget, Grace, MaxTime,   \* Application
  Callback,   \* the call of Application.Shutdown made by finishClose
  Host        \* the one the host makes itself

VARIABLES
  embedded,   \* has NewRuntime returned a runtime?
  appState, providers, shutdownProviders, todo, batch, shutdownState, remaining,
  terminating, limit, grace, deadline, aborted, failures, shutdownErr, caller, appAnswer,
  now, entered, booted, terminated

App == INSTANCE Application
         WITH state <- appState, answer <- appAnswer, Callers <- {Callback, Host}

ASSUME EmbeddedApplicationAssumption == App!ApplicationAssumption /\ Callback # Host

application ==
  <<appState, providers, shutdownProviders, todo, batch, shutdownState, remaining,
    terminating, limit, grace, deadline, aborted, failures, shutdownErr, caller, appAnswer,
    now, entered, booted, terminated>>

allVars == <<vars, embedded, application>>

RuntimeInit == Init /\ embedded = FALSE /\ App!Init

-----------------------------------------------------------------------------
\* The host shuts down what it could not put to use, or joins the runtime's shutdown.
HostMayShutdown == ~embedded \/ caller[Callback] # "none"

\* The application on its own: startup, its shutdown goroutine, the host's call.  Only
\* a context of the host can be cancelled before its deadline.
ApplicationStep ==
  /\ \/ App!Startup \/ App!terminateProviders \/ App!Tick
     \/ ~embedded /\ App!Abort
     \/ HostMayShutdown /\ App!ShutdownCall(Host)
     \/ App!waitForShutdown(Host)
  /\ UNCHANGED <<vars, embedded>>

NewRuntime ==
  /\ ~embedded
  /\ appState = "booted" /\ shutdownState = "idle"
  /\ embedded' = TRUE
  /\ UNCHANGED <<vars, application>>

RuntimeStep == embedded /\ Operate /\ UNCHANGED <<embedded, application>>

\* runtime.shutdown(shutdownContext): its call and its wait.  It finds the application
\* idle: the runtime exists only where the host has not called Shutdown before.
CallbackStep ==
  /\ finisher = "shutdown"
  /\ \/ App!Shutdown(Callback)
     \/ App!ResultReady(Callback)
     \/ App!Expired /\ App!ContextEnds(Callback)
  /\ UNCHANGED <<vars, embedded>>

\* Mutant: the result of the callback is dropped.
CallbackReturnsNil ==
  /\ caller[Callback] = "returned"
  /\ finishClose("nil")
  /\ UNCHANGED <<embedded, application>>

CallbackReturns ==
  /\ caller[Callback] = "returned"
  /\ finishClose(appAnswer[Callback])
  /\ UNCHANGED <<embedded, application>>

RuntimeNext ==
  ApplicationStep \/ NewRuntime \/ RuntimeStep \/ CallbackStep \/ CallbackReturns

\* Goroutines run, handlers return and time passes.  The host need not pull, cancel or
\* close; only an honest Terminate returns, by the end of its context.
Fairness ==
  /\ \A r \in Requests :
       /\ WF_allVars(Run(r) /\ UNCHANGED <<embedded, application>>)
       /\ WF_allVars(NextEnds(r) /\ UNCHANGED <<embedded, application>>)
  /\ WF_allVars(WaitReturns /\ UNCHANGED <<embedded, application>>)
  /\ WF_allVars(CallbackStep) /\ WF_allVars(CallbackReturns)
  /\ WF_allVars(App!Tick /\ UNCHANGED <<vars, embedded>>)
  /\ WF_allVars(/\ App!terminateProviders /\ terminating \in {0} \cup Honest
                /\ UNCHANGED <<vars, embedded>>)

FairRuntime == RuntimeInit /\ [][RuntimeNext]_allVars /\ Fairness

-----------------------------------------------------------------------------
(***************************************************************************)
(* Properties                                                              *)
(***************************************************************************)

\* No handler runs on providers that are being torn down: the first Terminate comes
\* after the last request, and no request begins before all providers are booted.
RequestsFindProviders ==
  Active # {} => appState = "booted" /\ shutdownState = "idle" /\ terminated = <<>>

\* A Close completes although the host has stopped pulling frames, or a provider
\* never returns from Terminate.
CloseCompletes == state = "closing" ~> state = "closed"

\* Every provider whose Register was entered is terminated, once and in reverse order;
\* and a Close that reports success stands for an application in which that is done,
\* without a failure.
CloseReportsTermination ==
  /\ App!TerminatesAllInReverse
  /\ \A c \in Closers : answer[c] = "nil" =>
       shutdownState = "complete" /\ ~failures
=============================================================================
