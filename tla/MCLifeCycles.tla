---------------------------- MODULE MCLifeCycles ----------------------------
(***************************************************************************)
(* TLC instances of what has to come up in order and end cleanly.  A       *)
(* behaviour is of one of them; the others rest.                           *)
(*   embedded   an application in its host's process: a provider that      *)
(*              ignores the context of its Terminate before one that       *)
(*              honours it                                                 *)
(*   container  three services that two threads resolve, in one scope and  *)
(*              outside it                                                 *)
(*   session    `bridra dev`, by either transport                          *)
(***************************************************************************)
EXTENDS EmbeddedApplication, TLC

CONSTANTS
  Subjects,
  Services, Configurations, Resolvers, Scopes, NoScope, MaxResolutions,   \* Container
  s1, s2, s3, Cycles,
  MaxEdits, NoBuild                                                       \* DevSession

VARIABLES
  subject,
  plan, registered, published, thread,
  mode, watching, source, broken, watcher, exe, child, pc, stop, signals, stuck

container == <<plan, registered, published, thread>>
session == <<mode, watching, source, broken, watcher, exe, child, pc, stop, signals, stuck>>

\* The configurations: s1 needs s2, directly or as its alias, which needs s3; s1 may need s3 as well.
\* In a cycle s1 and s2 need each other.
Lifetimes ==
  {"singleton", "transient"} \X {"singleton", "transient", "scoped", "alias"} \X {"singleton", "scoped", "instance"}
Plan(l, ofS1, ofS2) ==
  [lifetime |-> s1 :> l[1] @@ s2 :> l[2] @@ s3 :> l[3],
   needs |-> s1 :> ofS1 @@ s2 :> ofS2 @@ s3 :> {}]
Plans ==
  IF Cycles THEN {Plan(<<"singleton", "singleton", "instance">>, {s2}, {s1})}
  ELSE {Plan(l, needs, {s3}) : l \in Lifetimes, needs \in {{s2}, {s2, s3}}}

Wired == INSTANCE Container
Dev == INSTANCE DevSession

ASSUME LifeCyclesAssumption ==
  /\ Subjects \subseteq {"embedded", "container", "session"}
  /\ Wired!ContainerAssumption /\ Dev!SessionAssumption

LifeCyclesInit ==
  /\ subject \in Subjects
  /\ RuntimeInit /\ Wired!ContainerInit /\ Dev!SessionInit
  /\ subject # "container" => plan = CHOOSE p \in Configurations : TRUE
  /\ subject # "session" => mode = "http" /\ ~ watching /\ broken = {}

LifeCyclesNext ==
  /\ UNCHANGED subject
  /\ \/ subject = "embedded" /\ RuntimeNext /\ UNCHANGED <<container, session>>
     \/ subject = "container" /\ Wired!ContainerNext /\ UNCHANGED <<allVars, session>>
     \/ subject = "session" /\ Dev!SessionNext /\ UNCHANGED <<allVars, container>>

LifeCyclesSpec ==
  LifeCyclesInit /\ [][LifeCyclesNext]_<<subject, allVars, container, session>>

\* The threads that resolve services go on.
Resolving == \A t \in Resolvers : WF_container(Wired!Resolving(t))

\* The container alone.
ContainerSpec == LifeCyclesSpec /\ Resolving

-----------------------------------------------------------------------------
\* EmbeddedApplication: a Close completes although the host has stopped pulling
\* frames, or a provider never returns from Terminate.
CloseEnds == subject = "embedded" /\ Fairness => CloseCompletes

\* Container: one value per singleton and per scope's entry, and none is built from
\* a service of a scope it outlives.
SharedOnceWithinScope == Wired!SharedOnceWithinScope

\* Container: every resolution ends, with a value or an error; a circular
\* dependency with an error.
ResolutionsEnd == Wired!ResolutionsEnd

\* Container: the mutexes held across nested factories never form a cycle of
\* waiting threads when no service needs itself through others.
AcyclicResolutionsEnd == subject = "container" /\ Resolving => Wired!AcyclicResolutionsEnd

\* DevSession: when the command has returned, no child is left running, unless it
\* said that one did not exit after kill.
NoChildOutlivesSession == Dev!NoChildOutlivesSession

\* DevSession: no edit is lost: when editing stops and the sources compile, a
\* session that goes on ends up running them.
LatestSourcesRun == subject = "session" /\ Dev!Fairness => Dev!LatestSourcesRun
=============================================================================
