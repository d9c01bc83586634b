---------------------------- MODULE Subscription ----------------------------
(***************************************************************************)
(* One long-lived subscription from end to end: the replay buffer of the   *)
(* Go process (SubscriptionBuffer), the stream producer of the current     *)
(* connection (ProduceSubscription with SubscriptionBuffer.Next) and the   *)
(* Flutter client (_Subscription), which reconnects with the cursor of the *)
(* last event it delivered.                                                *)
(*                                                                         *)
(* A cursor is an epoch and a sequence number; 0 as its epoch stands for   *)
(* the empty cursor.  Reads change nothing in the buffer, so a producer    *)
(* whose connection is gone is left out.                                   *)
(***************************************************************************)
EXTENDS Integers, Sequences

CONSTANTS
  Capacity,      \* SubscriptionBufferOptions.Capacity
  Window,        \* frames the transport holds: stream_window
  MaxReconnects, \* RpcSubscriptionPolicy.maxConsecutiveReconnects
  MaxEvents,     \* events per epoch: bounds the model
  MaxEpochs,     \* starts of the process: bounds the model
  MaxLosses      \* lost connections: bounds the model

SubscriptionAssumption ==
  /\ {Capacity, Window, MaxEpochs} \subseteq Nat \ {0}
  /\ {MaxReconnects, MaxEvents, MaxLosses} \subseteq Nat

VARIABLES
  epoch, sequence, records, closed, \* the buffer; records as a sequence of numbers
  changed,     \* the buffer's current channel, numbered
  producer,    \* the handler of the current connection
  wire,        \* frames sent and not yet consumed
  up,          \* does the connection exist?
  fault,       \* how the connection was lost
  losses,
  pc,          \* where _run is
  paused,      \* resumed # null
  cursor, initialCursor, receivedFrame, failures,  \* variables of _run
  outcome,     \* how the subscription ended
  start,       \* history: the cursor the subscription began with
  delivered    \* history: what it delivered

buffer == <<epoch, sequence, records, closed, changed>>
connection == <<producer, wire, up, fault, losses>>
client == <<pc, paused, cursor, initialCursor, receivedFrame, failures, outcome>>
history == <<start, delivered>>
vars == <<epoch, sequence, records, closed, changed, producer, wire, up, fault, losses,
          pc, paused, cursor, initialCursor, receivedFrame, failures, outcome, start,
          delivered>>

Empty == [epoch |-> 0, n |-> 0]
At(e, n) == [epoch |-> e, n |-> n]
Unissued == At(1, 1)   \* a cursor that the buffer has not issued when the model starts
Idle == [stage |-> "none", cursor |-> Empty, item |-> 0, seen |-> 0]
Frame(kind, c) == [kind |-> kind, cursor |-> c]

Init ==
  /\ epoch = 1 /\ sequence = 0 /\ records = <<>> /\ closed = FALSE /\ changed = 1
  /\ producer = Idle /\ wire = <<>> /\ up = FALSE /\ fault = "none" /\ losses = 0
  /\ pc = "connect" /\ paused = FALSE
  /\ cursor \in {Empty, At(1, 0), Unissued}
  /\ initialCursor = cursor /\ receivedFrame = FALSE /\ failures = 0 /\ outcome = "none"
  /\ start = cursor /\ delivered = <<>>

-----------------------------------------------------------------------------
(***************************************************************************)
(* The buffer                                                              *)
(***************************************************************************)

\* Mutant: a new event does not close the channel that readers wait on.
PublishSilently ==
  /\ ~closed
  /\ sequence < MaxEvents
  /\ sequence' = sequence + 1
  /\ records' = Append(IF Len(records) = Capacity THEN Tail(records) ELSE records, sequence')
  /\ UNCHANGED <<epoch, closed, changed>>
  /\ UNCHANGED connection /\ UNCHANGED client /\ UNCHANGED history

Publish ==
  /\ ~closed
  /\ sequence < MaxEvents
  /\ sequence' = sequence + 1
  /\ records' = Append(IF Len(records) = Capacity THEN Tail(records) ELSE records, sequence')
  /\ changed' = changed + 1
  /\ UNCHANGED <<epoch, closed>>
  /\ UNCHANGED connection /\ UNCHANGED client /\ UNCHANGED history

Close ==
  /\ ~closed
  /\ closed' = TRUE
  /\ UNCHANGED <<epoch, sequence, records, changed>>
  /\ UNCHANGED connection /\ UNCHANGED client /\ UNCHANGED history

-----------------------------------------------------------------------------
(***************************************************************************)
(* The connection                                                          *)
(***************************************************************************)

\* What the client has received of the frames under way is still consumed.
Lost(kind) ==
  /\ up' = FALSE
  /\ fault' = kind
  /\ producer' = Idle
  /\ \E n \in 0..Len(wire) : wire' = SubSeq(wire, 1, n)

\* Transport errors, the idle watchdog and the connection timeout.
Lose(kind) ==
  /\ up
  /\ losses < MaxLosses
  /\ losses' = losses + 1
  /\ Lost(kind)
  /\ UNCHANGED buffer /\ UNCHANGED client /\ UNCHANGED history

\* The process starts anew, with a new buffer.
Restart ==
  /\ epoch < MaxEpochs
  /\ epoch' = epoch + 1
  /\ sequence' = 0 /\ records' = <<>> /\ closed' = FALSE /\ changed' = 1
  /\ IF up THEN Lost("interrupted") ELSE UNCHANGED <<producer, wire, up, fault>>
  /\ UNCHANGED losses
  /\ UNCHANGED client /\ UNCHANGED history

-----------------------------------------------------------------------------
(***************************************************************************)
(* The producer: SubscriptionBuffer.Next called from ProduceSubscription   *)
(***************************************************************************)
Stage(place) == producer' = [producer EXCEPT !.stage = place]
Send(frame) == wire' = Append(wire, frame)

\* Mutant: one event may be missing before a cursor counts as expired.
ExpiredLate(c) ==
  /\ c # Empty
  /\ \/ c.epoch # epoch
     \/ records # <<>> /\ c.n < Head(records) - 2

Expired(c) ==
  /\ c # Empty
  /\ \/ c.epoch # epoch
     \/ records # <<>> /\ c.n < Head(records) - 1

\* Numbers of another epoch are never looked at.
Invalid(c) == c # Empty /\ c.epoch = epoch /\ c.n > sequence

After(c) == {i \in DOMAIN records : c = Empty \/ records[i] > c.n}
Next1(c) == records[CHOOSE i \in After(c) : \A j \in After(c) : i <= j]

\* The final frame ends the handler.
Refuse(kind) == Send(Frame(kind, Empty)) /\ Stage("done")

\* One pass of the loop in Next, up to its select.
Read ==
  /\ producer.stage \in {"top", "woken"}
  /\ LET c == producer.cursor IN
       \/ Expired(c) /\ Refuse("expired")
       \/ Invalid(c) /\ Refuse("invalid")
       \/ /\ ~Expired(c) /\ ~Invalid(c)
          /\ \/ /\ After(c) # {}
                /\ producer' = [producer EXCEPT !.stage = "got", !.item = Next1(c)]
                /\ UNCHANGED wire
             \/ After(c) = {} /\ closed /\ Refuse("complete")
             \/ /\ After(c) = {} /\ ~closed
                /\ producer' = [producer EXCEPT !.stage = "waiting", !.seen = changed]
                /\ UNCHANGED wire
  /\ UNCHANGED buffer /\ UNCHANGED <<up, fault, losses>>
  /\ UNCHANGED client /\ UNCHANGED history

\* The channel the reader holds is closed.
Signalled == producer.seen # changed \/ closed

Wake ==
  /\ producer.stage = "waiting"
  /\ Signalled
  /\ Stage("woken")
  /\ UNCHANGED buffer /\ UNCHANGED <<wire, up, fault, losses>>
  /\ UNCHANGED client /\ UNCHANGED history

\* The deadline of the read passes, in the select or before a later pass; the first
\* pass of a read comes before its deadline.
Timeout ==
  /\ producer.stage \in {"waiting", "woken"}
  /\ Stage("heartbeat")
  /\ UNCHANGED buffer /\ UNCHANGED <<wire, up, fault, losses>>
  /\ UNCHANGED client /\ UNCHANGED history

HeartbeatCursor == producer.cursor

SendHeartbeat ==
  /\ producer.stage = "heartbeat"
  /\ Len(wire) < Window
  /\ Send(Frame("heartbeat", HeartbeatCursor))
  /\ Stage("top")
  /\ UNCHANGED buffer /\ UNCHANGED <<up, fault, losses>>
  /\ UNCHANGED client /\ UNCHANGED history

SendData ==
  /\ producer.stage = "got"
  /\ Len(wire) < Window
  /\ LET c == At(epoch, producer.item) IN
       /\ Send(Frame("data", c))
       /\ producer' = [producer EXCEPT !.stage = "top", !.cursor = c]
  /\ UNCHANGED buffer /\ UNCHANGED <<up, fault, losses>>
  /\ UNCHANGED client /\ UNCHANGED history

-----------------------------------------------------------------------------
(***************************************************************************)
(* The client                                                              *)
(***************************************************************************)
End(how) == pc' = "ended" /\ outcome' = how

Connect ==
  /\ pc = "connect" /\ ~paused
  /\ pc' = "reading"
  /\ initialCursor' = cursor /\ receivedFrame' = FALSE
  /\ producer' = [Idle EXCEPT !.stage = "top", !.cursor = cursor]
  /\ up' = TRUE /\ wire' = <<>> /\ fault' = "none"
  /\ UNCHANGED buffer /\ UNCHANGED <<losses, paused, cursor, failures, outcome>>
  /\ UNCHANGED history

\* _moveNext and _deliver.
Receive ==
  /\ pc = "reading" /\ ~paused
  /\ wire # <<>>
  /\ LET frame == Head(wire) IN
       \/ /\ frame.kind = "data"
          /\ IF frame.cursor = cursor
             THEN UNCHANGED <<cursor, delivered>>
             ELSE /\ cursor' = frame.cursor
                  /\ delivered' = Append(delivered, frame.cursor)
          /\ UNCHANGED <<pc, outcome>>
       \/ /\ frame.kind = "heartbeat"
          /\ IF frame.cursor = cursor THEN UNCHANGED <<pc, outcome>> ELSE End("protocol")
          /\ UNCHANGED <<cursor, delivered>>
       \/ /\ frame.kind \notin {"data", "heartbeat"}
          /\ End(frame.kind)
          /\ UNCHANGED <<cursor, delivered>>
  /\ wire' = Tail(wire)
  /\ receivedFrame' = (receivedFrame \/ Head(wire).kind \in {"data", "heartbeat"})
  /\ UNCHANGED buffer /\ UNCHANGED <<producer, up, fault, losses>>
  /\ UNCHANGED <<paused, initialCursor, failures, start>>

\* The budget after a lost connection: new data or a stable connection resets it.
Failures(stable) ==
  1 + IF cursor # initialCursor \/ (receivedFrame /\ stable) THEN 0 ELSE failures

\* The error of a lost connection comes after the frames received before it.
Notice(stable) ==
  /\ pc = "reading" /\ ~paused
  /\ ~up /\ wire = <<>>
  /\ IF fault = "rotation" /\ receivedFrame
     THEN failures' = 0 /\ pc' = "connect" /\ UNCHANGED outcome
     ELSE /\ failures' = Failures(stable)
          /\ IF failures' > MaxReconnects
             THEN End("exhausted")
             ELSE pc' = "backoff" /\ UNCHANGED outcome
  /\ UNCHANGED buffer /\ UNCHANGED connection
  /\ UNCHANGED <<paused, cursor, initialCursor, receivedFrame>> /\ UNCHANGED history

Backoff ==
  /\ pc = "backoff"
  /\ pc' = "connect"
  /\ UNCHANGED buffer /\ UNCHANGED connection
  /\ UNCHANGED <<paused, cursor, initialCursor, receivedFrame, failures, outcome>>
  /\ UNCHANGED history

Pause ==
  /\ pc # "ended" /\ ~paused
  /\ paused' = TRUE
  /\ UNCHANGED buffer /\ UNCHANGED connection
  /\ UNCHANGED <<pc, cursor, initialCursor, receivedFrame, failures, outcome>>
  /\ UNCHANGED history

Resume ==
  /\ pc # "ended" /\ paused
  /\ paused' = FALSE
  /\ UNCHANGED buffer /\ UNCHANGED connection
  /\ UNCHANGED <<pc, cursor, initialCursor, receivedFrame, failures, outcome>>
  /\ UNCHANGED history

\* The token, the total timeout or the end of the listener; the connection goes.
Stop ==
  /\ pc # "ended"
  /\ End("stopped")
  /\ paused' = FALSE
  /\ producer' = Idle /\ up' = FALSE /\ wire' = <<>> /\ fault' = "none"
  /\ UNCHANGED buffer
  /\ UNCHANGED <<losses, cursor, initialCursor, receivedFrame, failures>>
  /\ UNCHANGED history

\* The application fetches a snapshot with the buffer's Cursor and subscribes again.
Resubscribe ==
  /\ pc = "ended" /\ outcome = "expired"
  /\ pc' = "connect" /\ outcome' = "none"
  /\ cursor' = At(epoch, sequence) /\ failures' = 0
  /\ start' = cursor' /\ delivered' = <<>>
  /\ producer' = Idle /\ up' = FALSE /\ wire' = <<>> /\ fault' = "none"
  /\ UNCHANGED buffer
  /\ UNCHANGED <<losses, paused, initialCursor, receivedFrame>>

Produce == Read \/ Wake \/ Timeout \/ SendHeartbeat \/ SendData
Consume == Connect \/ Receive \/ (\E stable \in BOOLEAN : Notice(stable)) \/ Backoff

Next ==
  \/ Publish \/ Close \/ Restart
  \/ \E kind \in {"interrupted", "rotation"} : Lose(kind)
  \/ Produce \/ Consume
  \/ Pause \/ Resume \/ Stop \/ Resubscribe

Spec == Init /\ [][Next]_vars

\* The handler and the client run, pauses end and leave the client its turns; heartbeats
\* and losses need not come.
Fairness ==
  /\ WF_vars(Read \/ Wake \/ SendHeartbeat \/ SendData)
  /\ SF_vars(Consume)
  /\ WF_vars(Resume)

FairSpec == Spec /\ Fairness

-----------------------------------------------------------------------------
(***************************************************************************)
(* Properties                                                              *)
(***************************************************************************)

Follows(c, d) == d.epoch = c.epoch /\ d.n = c.n + 1

\* What a subscription delivers is the published sequence from its starting point,
\* without a gap, a repetition or a change of order, across reconnections, overflow
\* of the buffer and restarts of the process; and the client never takes a correct
\* server for a broken one: no heartbeat disagrees with its cursor and no cursor that
\* the buffer issued is rejected as invalid.
DeliversInOrder ==
  /\ start # Empty /\ delivered # <<>> => Follows(start, delivered[1])
  /\ \A i \in 1..Len(delivered) - 1 : Follows(delivered[i], delivered[i + 1])
  /\ outcome # "protocol"
  /\ outcome = "invalid" => start = Unissued

\* The client has every event of the current process, or it was told how its
\* subscription ended.
CaughtUp ==
  \/ pc = "ended"
  \/ cursor = At(epoch, sequence)
  \/ cursor = Empty /\ sequence = 0

\* The client catches up again and again, and so for good once the events stop
\* coming: no publication, timeout, pause or lost connection leaves an event
\* behind in a live buffer, or the client waiting for one, without an outcome.
EventsArrive == []<>CaughtUp
=============================================================================
