---------------------------- MODULE ResourceBroker ----------------------------
(***************************************************************************)
(* The broker of native resource leases (backend/framework/                *)
(* resource_broker.go), as the sidecar's control methods (server.go) and   *)
(* the mobile runtime (mobilebridge/runtime.go) use it.  A caller is a     *)
(* thread in Grant, Release or Close; the resolver and lease.Release() run *)
(* outside the mutex.  A capability is a random token and names its lease. *)
(***************************************************************************)
EXTENDS Integers, FiniteSets

CONSTANTS
  Capabilities,   \* tokens createCapability can produce
  NoCapability,
  Holders,        \* threads that call the broker
  MaxActiveGrants

BrokerAssumption == MaxActiveGrants \in Nat \ {0} /\ NoCapability \notin Capabilities

VARIABLES
  leases,    \* the keys of broker.leases
  pending,   \* broker.pending
  shut,      \* "open"; "waiting": closed, in active.Wait(); "releasing"; "closed"
  left,      \* the leases Close has still to release
  native,    \* each lease: "none", "held", or how often it was released
  step       \* where each holder is, and with which capability

brokerVars == <<leases, pending, shut, left, native, step>>

Rest == [at |-> "idle", of |-> NoCapability]
Is(h, at) == step[h].at = at
Move(h, at, of) == step' = [step EXCEPT ![h] = [at |-> at, of |-> of]]
\* broker.active: grants from beginGrant to finishGrant, and releases.
Busy == {h \in Holders : step[h].at \in {"resolving", "resolved", "undo", "granted", "releasing"}}
ReleaseLease(c) == native' = [native EXCEPT ![c] = IF @ = "held" THEN "released" ELSE "twice"]

BrokerInit ==
  /\ leases = {} /\ pending = 0 /\ shut = "open" /\ left = {}
  /\ native = [c \in Capabilities |-> "none"]
  /\ step = [h \in Holders |-> Rest]

-----------------------------------------------------------------------------
\* Grant, from beginGrant on.
HasRoom == Cardinality(leases) + pending < MaxActiveGrants

beginGrant(h) ==
  /\ Is(h, "idle") /\ shut = "open" /\ HasRoom
  /\ pending' = pending + 1
  /\ Move(h, "resolving", NoCapability)
  /\ UNCHANGED <<leases, shut, left, native>>

\* The resolver fails, or has a lease; one without a path is released again.
Resolve(h) ==
  /\ Is(h, "resolving")
  /\ \/ Move(h, "granted", NoCapability) /\ UNCHANGED native
     \/ \E c \in {k \in Capabilities : native[k] = "none"}, usable \in BOOLEAN :
          /\ native' = [native EXCEPT ![c] = "held"]
          /\ Move(h, IF usable THEN "resolved" ELSE "undo", c)
  /\ UNCHANGED <<leases, pending, shut, left>>

\* The lease is kept, unless the broker was closed while it was resolved.
RetainLease(h) ==
  IF shut = "open"
  THEN leases' = leases \cup {step[h].of} /\ Move(h, "granted", step[h].of)
  ELSE leases' = leases /\ Move(h, "undo", step[h].of)

Retain(h) ==
  /\ Is(h, "resolved")
  /\ RetainLease(h)
  /\ UNCHANGED <<pending, shut, left, native>>

Undo(h) ==
  /\ Is(h, "undo")
  /\ ReleaseLease(step[h].of)
  /\ Move(h, "granted", NoCapability)
  /\ UNCHANGED <<leases, pending, shut, left>>

finishGrant(h) ==
  /\ Is(h, "granted")
  /\ pending' = pending - 1
  /\ Move(h, "idle", NoCapability)
  /\ UNCHANGED <<leases, shut, left, native>>

\* Release of a capability that may have been released before.
Release(h, c) ==
  /\ Is(h, "idle") /\ shut = "open" /\ c \in leases
  /\ leases' = leases \ {c}
  /\ Move(h, "releasing", c)
  /\ UNCHANGED <<pending, shut, left, native>>

ReleaseEnds(h) ==
  /\ Is(h, "releasing")
  /\ ReleaseLease(step[h].of)
  /\ Move(h, "idle", NoCapability)
  /\ UNCHANGED <<leases, pending, shut, left>>

\* Close: the first one does the work, the others wait for it.
CloseBroker(h) ==
  /\ Is(h, "idle")
  /\ shut' = IF shut = "open" THEN "waiting" ELSE shut
  /\ Move(h, "closing", NoCapability)
  /\ UNCHANGED <<leases, pending, left, native>>

\* Mutant: Close waits for grants and not for releases.
CloseWaitsForGrants == \A h \in Busy : Is(h, "releasing")
CloseWaits == Busy = {}

CloseCollects ==
  /\ shut = "waiting" /\ CloseWaits
  /\ left' = leases /\ leases' = {}
  /\ shut' = "releasing"
  /\ UNCHANGED <<pending, native, step>>

CloseReleases ==
  /\ shut = "releasing"
  /\ IF left = {} THEN shut' = "closed" /\ UNCHANGED <<left, native>>
     ELSE \E c \in left : ReleaseLease(c) /\ left' = left \ {c} /\ UNCHANGED shut
  /\ UNCHANGED <<leases, pending, step>>

CloseReturns(h) ==
  /\ Is(h, "closing") /\ shut = "closed"
  /\ Move(h, "returned", NoCapability)
  /\ UNCHANGED <<leases, pending, shut, left, native>>

\* The sidecar's control methods, for a request with the token and a bookmark or a
\* capability of the right form; the mobile bridge calls the broker itself.
grantSidecarResource(h) == beginGrant(h)
releaseSidecarResource(h) == \E c \in Capabilities : Release(h, c)

BrokerNext ==
  \/ \E h \in Holders :
       \/ grantSidecarResource(h) \/ Resolve(h) \/ Retain(h) \/ Undo(h) \/ finishGrant(h)
       \/ releaseSidecarResource(h) \/ ReleaseEnds(h)
       \/ CloseBroker(h) \/ CloseReturns(h)
  \/ CloseCollects \/ CloseReleases

-----------------------------------------------------------------------------
\* Authority over a resource is given back exactly once: a path is handed out
\* (ResolvePath) only while the lease behind it is held, no lease is released
\* twice, and none is held any more when any caller's Close has returned.
AuthorityReturned ==
  /\ \A c \in leases : native[c] = "held"
  /\ \A c \in Capabilities : native[c] # "twice"
  /\ (\E h \in Holders : Is(h, "returned")) => \A c \in Capabilities : native[c] # "held"

\* The limit counts what is held and what is being resolved: a burst of grants
\* that all see a free place cannot exceed it.  A lease that Release has taken
\* out of the broker no longer counts.
WithinGrantLimit ==
  Cardinality({c \in Capabilities : native[c] = "held"
                 /\ ~ \E h \in Holders : Is(h, "releasing") /\ step[h].of = c}) <= MaxActiveGrants

\* What the broker accounts for: authority given back exactly once, and never more
\* of it given out than the limit allows.
GrantsAccountedFor == AuthorityReturned /\ WithinGrantLimit
=============================================================================
