------------------------------ MODULE MCStreams ------------------------------
(***************************************************************************)
(* TLC instances of what the sidecar sends: its request loop, and a        *)
(* subscription with its reconnecting client.  A behaviour is of one of    *)
(* the two; the other rests at its initial values.                         *)
(***************************************************************************)
EXTENDS Server

CONSTANTS
  Subjects,                                              \* a subset of the two
  Capacity, WireWindow, MaxReconnects, MaxEvents, MaxEpochs, MaxLosses   \* Subscription

VARIABLES
  subject,
  epoch, number, records, closed, changed, producer, wire, up, fault, losses,
  pc, paused, cursor, initialCursor, receivedFrame, failures, outcome, start, delivered

subscription ==
  <<epoch, number, records, closed, changed, producer, wire, up, fault, losses,
    pc, paused, cursor, initialCursor, receivedFrame, failures, outcome, start, delivered>>

Sub == INSTANCE Subscription WITH sequence <- number, Window <- WireWindow

ASSUME StreamsAssumption ==
  Subjects \subseteq {"server", "subscription"} /\ Sub!SubscriptionAssumption

StreamsInit ==
  /\ subject \in Subjects /\ Init /\ Sub!Init
  /\ subject = "server" => start = Sub!Empty

StreamsNext ==
  /\ UNCHANGED subject
  /\ \/ subject = "server" /\ Next /\ UNCHANGED subscription
     \/ subject = "subscription" /\ Sub!Next /\ UNCHANGED vars

StreamsSpec == StreamsInit /\ [][StreamsNext]_<<subject, vars, subscription>>

\* The request loop alone.
ServerSpec == StreamsSpec /\ Fairness

-----------------------------------------------------------------------------
\* The liveness properties hold under the fairness that each module states for its
\* own steps; the other subject, at rest, has no behaviour to be fair to.

\* Server: after the end of the input, or once nothing can be written, Serve returns.
ServeEnds == subject = "server" /\ Fairness => ServeReturns

\* Subscription: what the client delivers is what the buffers published, without
\* a gap, a repetition or a change of order, and no correct server is taken for a
\* broken one.
DeliversInOrder == Sub!DeliversInOrder

\* Subscription: what is published reaches a client that stays and can reconnect.
EventsArrive == subject = "subscription" /\ Sub!Fairness => Sub!EventsArrive
=============================================================================
