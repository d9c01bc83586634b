------------------------------- MODULE Container -------------------------------
(***************************************************************************)
(* The service container (backend/framework/container.go).  A thread that  *)
(* resolves a service runs the factories of what it depends on, one inside *)
(* the other; the mutex of a singleton binding, or of a scope's entry, is  *)
(* held while its factory runs.  A value is abstracted to the set of       *)
(* scopes whose services it was built from.                                *)
(***************************************************************************)
EXTENDS Integers, Sequences, SequencesExt

CONSTANTS
  Services,
  Resolvers,      \* threads that resolve services
  Scopes, NoScope,
  Configurations, \* of the application: records of lifetime and needs, by service
  MaxResolutions  \* bound: how many times a thread starts to resolve

ContainerAssumption ==
  /\ Configurations \subseteq
       [lifetime : [Services -> {"singleton", "transient", "scoped", "alias", "instance"}],
        needs : [Services -> SUBSET Services]]
  /\ MaxResolutions \in Nat

VARIABLES
  plan,        \* the configuration: what each service is registered as
  registered,  \* the services registered so far
  published,   \* by service and scope: the values stored in the binding or entry
  thread       \* each thread: the resolution it is in

containerVars == <<plan, registered, published, thread>>

ContainerInit ==
  /\ plan \in Configurations
  /\ registered = {}
  /\ published = [s \in Services |-> [c \in Scopes \cup {NoScope} |-> <<>>]]
  /\ thread = [t \in Resolvers |-> [stack |-> <<>>, asks |-> {}, scope |-> NoScope, left |-> MaxResolutions]]

\* Instance, bind and Alias: a service is registered once; an alias needs its target.
Register(s) ==
  /\ s \notin registered
  /\ plan.lifetime[s] = "alias" => plan.needs[s] \subseteq registered
  /\ registered' = registered \cup {s}
  /\ UNCHANGED <<plan, published, thread>>

\* Resolve, on the container (NoScope) or on a scope.
Idle(t) == thread[t].stack = <<>> /\ thread[t].asks = {}
Resolve(t, s, c) ==
  /\ Idle(t) /\ thread[t].left > 0
  /\ thread' = [thread EXCEPT ![t].asks = {s}, ![t].scope = c, ![t].left = @ - 1]
  /\ UNCHANGED <<plan, registered, published>>

-----------------------------------------------------------------------------
\* resolution.resolve of the service s that thread t asks for.
Asks(t, s) == s \in thread[t].asks
Stack(t) == Range(thread[t].stack)
\* Mutant: only the innermost factory is looked at.
hasLifetimeOnTop(t) == thread[t].stack # <<>> /\ Last(thread[t].stack).lifetime = "singleton"

hasLifetime(t) == \E frame \in Stack(t) : frame.lifetime = "singleton"

Refused(t, s) ==
  \/ \E frame \in Stack(t) : frame.id = s
  \/ s \notin registered
  \/ plan.lifetime[s] = "scoped" /\ (hasLifetime(t) \/ thread[t].scope = NoScope)

\* The mutexes: binding.mu of a singleton, entry.mu of a scoped service.  A
\* thread holds those of the factories it is in.
Shared(s) == plan.lifetime[s] \in {"singleton", "scoped"}
Place(t, s) == IF plan.lifetime[s] = "scoped" THEN thread[t].scope ELSE NoScope
\* Mutant: all singletons share one mutex, which is not reentrant.
OneMutex(t, s) == \E u \in Resolvers : \E frame \in Stack(u) : frame.lifetime = "singleton"

Locked(t, s) ==
  \E u \in Resolvers : Place(u, s) = Place(t, s) /\ \E frame \in Stack(u) : frame.id = s

\* A value is handed to the factory below, or to the caller; an error is too,
\* and then every factory on the way returns it (the mutexes are deferred).
Returns(t, stack, value) ==
  thread' = [thread EXCEPT ![t].asks = {}, ![t].stack =
    IF stack = <<>> THEN <<>> ELSE [stack EXCEPT ![Len(stack)].uses = @ \cup value]]
Fails(t) ==
  /\ thread' = [thread EXCEPT ![t].asks = {}, ![t].stack = <<>>]
  /\ UNCHANGED <<plan, registered, published>>

Refuse(t) == \E s \in Services : Asks(t, s) /\ Refused(t, s) /\ Fails(t)

\* An instance, or what is stored in the binding or entry.
Found(t) ==
  /\ \E s \in Services :
       /\ Asks(t, s) /\ ~ Refused(t, s)
       /\ \/ plan.lifetime[s] = "instance" /\ Returns(t, thread[t].stack, {})
          \/ /\ Shared(s) /\ ~ Locked(t, s) /\ published[s][Place(t, s)] # <<>>
             /\ Returns(t, thread[t].stack, Last(published[s][Place(t, s)]))
  /\ UNCHANGED <<plan, registered, published>>

\* push: an alias goes on to its target; a binding runs its factory.
Push(t) ==
  /\ \E s \in Services :
       /\ Asks(t, s) /\ ~ Refused(t, s) /\ plan.lifetime[s] # "instance"
       /\ Shared(s) => ~ Locked(t, s) /\ published[s][Place(t, s)] = <<>>
       /\ thread' = [thread EXCEPT ![t].asks = {}, ![t].stack = Append(@,
            [id |-> s, lifetime |-> plan.lifetime[s], todo |-> plan.needs[s], uses |-> {}])]
  /\ UNCHANGED <<plan, registered, published>>

\* A factory asks for something it needs, fails by itself, ...
FactoryAsks(t) ==
  /\ thread[t].asks = {} /\ thread[t].stack # <<>>
  /\ \E s \in Last(thread[t].stack).todo :
       thread' = [thread EXCEPT ![t].asks = {s}, ![t].stack[Len(thread[t].stack)].todo = @ \ {s}]
  /\ UNCHANGED <<plan, registered, published>>

FactoryFails(t) ==
  /\ thread[t].asks = {} /\ thread[t].stack # <<>>
  /\ Last(thread[t].stack).todo = {} /\ Last(thread[t].stack).lifetime # "alias"
  /\ Fails(t)

\* ... or returns: the value is stored, and the mutex released.
FactoryReturns(t) ==
  /\ thread[t].asks = {} /\ thread[t].stack # <<>> /\ Last(thread[t].stack).todo = {}
  /\ LET s == Last(thread[t].stack).id
         value == Last(thread[t].stack).uses \cup ({Place(t, s)} \ {NoScope})
     IN /\ published' = IF Shared(s) THEN [published EXCEPT ![s][Place(t, s)] = Append(@, value)] ELSE published
        /\ Returns(t, Front(thread[t].stack), value)
  /\ UNCHANGED <<plan, registered>>

Resolving(t) ==
  \/ Refuse(t) \/ Found(t) \/ Push(t)
  \/ FactoryAsks(t) \/ FactoryFails(t) \/ FactoryReturns(t)
ContainerNext ==
  \/ \E s \in Services : Register(s)
  \/ \E t \in Resolvers : Resolving(t) \/ \E s \in Services, c \in Scopes \cup {NoScope} : Resolve(t, s, c)

-----------------------------------------------------------------------------
\* One value per singleton and per scope's entry, whoever resolves it first; and
\* a value is never built from a service of a scope it outlives: a singleton of
\* none, a scoped service of its own scope only, through any chain of
\* transients and aliases.
SharedOnceWithinScope ==
  \A s \in Services, c \in Scopes \cup {NoScope} :
    /\ Len(published[s][c]) <= 1
    /\ \A v \in Range(published[s][c]) : v \subseteq ({c} \ {NoScope})

\* Every resolution ends, with a value or an error.
ResolutionsEnd == \A t \in Resolvers : ~ Idle(t) ~> Idle(t)

\* The mutexes held across nested factories never form a cycle of waiting
\* threads when no service needs itself through others.
Reaches(s) ==
  LET step(T) == T \cup UNION {plan.needs[u] : u \in T}
  IN step(step(step(plan.needs[s])))
Acyclic == \A s \in Services : s \notin Reaches(s)
AcyclicResolutionsEnd == Acyclic => ResolutionsEnd
=============================================================================
