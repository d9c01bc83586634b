---------------------------- MODULE ServerProofs ----------------------------
(***************************************************************************)
(* The sidecar's request loop, for any number of requests, workers and     *)
(* ids, any queue length and any stream window: the registry names the     *)
(* live requests, no credit is lost or minted, frames leave in order.      *)
(* And the subscription, for any buffer, window and number of restarts and *)
(* lost connections: its client gets the published sequence.               *)
(***************************************************************************)
EXTENDS MCStreams, TLAPS

FrameKinds == {"response", "duplicate_request", "server_busy", "data", "complete"}
Frames == [kind : FrameKinds, sequence : Nat]
Flows == [credits : Nat, sent : Nat, acked : Nat]
Stages == {"none", "registered", "queued", "refused", "taken", "handling", "acquiring",
           "credited", "emitting", "completing", "done"}

TypeOK ==
  /\ count \in 0..MaxRequests
  /\ request \in [Requests -> [id : Ids \cup {NoId}, token : Tokens \cup {"none"}, kind : Kinds]]
  /\ stage \in [Requests -> Stages]
  /\ requests \in [Ids -> 0..MaxRequests]
  /\ jobs \in Seq(Requests)
  /\ cancelled \in [Requests -> BOOLEAN]
  /\ sequence \in [Requests -> Nat]
  /\ werr \in [Requests -> BOOLEAN]
  /\ flow \in [Requests -> Flows]
  /\ scan \in {"scan", "select", "release", "ending", "closed", "returned"}
  /\ releasing \in [request : 0..MaxRequests, left : Nat]
  /\ dispatch \in BOOLEAN /\ broken \in BOOLEAN
  /\ out \in [Requests -> Seq(Frames)]

(***************************************************************************)
(* RegistryAgrees is not inductive alone: a new request must find its      *)
(* number unused, the one in the scanner's hands is the last registered,   *)
(* and the queue holds exactly requests that wait in it, each once.        *)
(***************************************************************************)
NumbersUnused == \A r \in Requests : r > count => stage[r] = "none"
SelectsLast ==
  /\ scan = "select" => count > 0 /\ stage[count] = "registered"
  /\ \A r \in Requests : stage[r] = "registered" => scan = "select" /\ r = count
QueueHoldsQueued ==
  /\ \A i \in 1..Len(jobs) : stage[jobs[i]] = "queued"
  /\ \A i, j \in 1..Len(jobs) : jobs[i] = jobs[j] => i = j

RegistryInv == NumbersUnused /\ SelectsLast /\ QueueHoldsQueued /\ RegistryAgrees

(***************************************************************************)
(* CreditsConserved needs that a producer's frame is the one after those   *)
(* it has noted as sent, unless its last acquisition was given up, and     *)
(* that nothing is acknowledged before it is sent.                         *)
(***************************************************************************)
ReleasesSome ==
  IF scan = "release" THEN releasing.request \in Requests /\ releasing.left > 0
  ELSE releasing.request = 0
Numbered(r) ==
  /\ flow[r].acked <= flow[r].sent
  /\ stage[r] \in {"none", "registered", "queued", "taken"} =>
       sequence[r] = 0 /\ flow[r].sent = 0 /\ ~werr[r]
  /\ stage[r] \in {"acquiring", "credited"} => sequence[r] = flow[r].sent + 1 /\ ~werr[r]
  /\ stage[r] = "emitting" => sequence[r] = flow[r].sent /\ ~werr[r]
  /\ stage[r] = "handling" /\ ~werr[r] => sequence[r] = flow[r].sent
NumberedNext == \A r \in Requests : Numbered(r)

CreditsInv == ReleasesSome /\ NumberedNext /\ CreditsConserved

(***************************************************************************)
(* FramesInOrder needs to know, as long as something can be written, how   *)
(* many frames a stream has written, and that none of them was its last.   *)
(***************************************************************************)
UnderWay == {"acquiring", "credited", "emitting"}
Written(r) ==
  /\ stage[r] \in {"none", "registered", "queued", "taken"} => out[r] = <<>>
  /\ Streams(r) /\ ~broken =>
       /\ stage[r] = "handling" /\ ~werr[r] => Len(out[r]) = sequence[r]
       /\ stage[r] \in UnderWay => Len(out[r]) + 1 = sequence[r]
  /\ Streams(r) /\ stage[r] \in UnderWay \cup {"handling"} =>
       \A i \in 1..Len(out[r]) : out[r][i].kind = "data"
WrittenSoFar == \A r \in Requests : Written(r)

FramesInv == WrittenSoFar /\ FramesInOrder

IInv == TypeOK /\ RegistryInv /\ CreditsInv /\ FramesInv

\* What the encoder keeps has its types after a write, whether it succeeds or not.
LEMMA EncodeType ==
  ASSUME TypeOK, NEW r \in Requests, NEW frame \in Frames, Encode(r, frame)
  PROVE  out' \in [Requests -> Seq(Frames)] /\ dispatch' \in BOOLEAN /\ broken' \in BOOLEAN
<1>1. out \in [Requests -> Seq(Frames)] /\ dispatch \in BOOLEAN /\ broken \in BOOLEAN
  BY DEF TypeOK
<1>2. CASE UNCHANGED encoder
  BY <1>1, <1>2 DEF encoder
<1>3. CASE out' = [out EXCEPT ![r] = Append(@, frame)] /\ UNCHANGED <<dispatch, broken>>
  <2>1. Append(out[r], frame) \in Seq(Frames)
    BY <1>1
  <2>2. QED
    BY <1>1, <1>3, <2>1, Zenon
<1>4. CASE broken' = TRUE /\ dispatch' = TRUE /\ UNCHANGED out
  BY <1>1, <1>4
<1>5. QED
  BY <1>2, <1>3, <1>4 DEF Encode

\* Responses and frames have the form the encoder keeps.
LEMMA FrameType ==
  ASSUME NEW kind \in FrameKinds, NEW n \in Nat
  PROVE  Response(kind) \in Frames /\ Frame(kind, n) \in Frames
BY DEF Response, Frame, Frames

\* A change of one of a flow's counts leaves a flow.
LEMMA FlowType ==
  ASSUME NEW f \in Flows, NEW n \in Nat
  PROVE  /\ [f EXCEPT !.credits = n] \in Flows
         /\ [f EXCEPT !.sent = n] \in Flows
         /\ [f EXCEPT !.acked = n] \in Flows
BY DEF Flows

\* The scanner's request is one of the requests.
LEMMA CountInRequests ==
  ASSUME IInv, scan = "select"
  PROVE  count \in Requests /\ stage[count] = "registered"
BY ServerAssumption DEF IInv, TypeOK, RegistryInv, SelectsLast, Requests


\* Every step keeps the types.
LEMMA TypeStep == IInv /\ [Next]_vars => TypeOK'
<1> SUFFICES ASSUME IInv, [Next]_vars
             PROVE  TypeOK'
  OBVIOUS
<1> USE ServerAssumption
    DEF IInv, TypeOK, Kinds, Stages, Goto, Cancel, worker, reader, encoder
<1>1. ASSUME InvalidLine
      PROVE  TypeOK'
  BY <1>1 DEF InvalidLine
<1>2. ASSUME NEW id \in RequestIds, NEW token \in Tokens, NEW kind \in Kinds, Register(id, token, kind)
      PROVE  TypeOK'
  <2>1. count' \in Requests
    BY <1>2 DEF Register, Requests
  <2>2. requests' \in [Ids -> 0..MaxRequests]
    BY <1>2, <2>1 DEF Register, Entered, Requests
  <2>3. QED
    BY <1>2, <2>1, <2>2 DEF Register, Requests
<1>3. ASSUME NEW id \in RequestIds, NEW token \in Tokens, NEW kind \in Kinds, Duplicate(id, token, kind)
      PROVE  TypeOK'
  <2>1. count' \in Requests
    BY <1>3 DEF Duplicate, Requests
  <2>2. out' \in [Requests -> Seq(Frames)] /\ dispatch' \in BOOLEAN /\ broken' \in BOOLEAN
    <3>1. Encode(count', Response("duplicate_request"))
      BY <1>3, Zenon DEF Duplicate
    <3>2. Response("duplicate_request") \in Frames
      BY FrameType DEF FrameKinds
    <3>3. QED
      BY <2>1, <3>1, <3>2, EncodeType, Zenon
  <2>3. QED
    BY <1>3, <2>1, <2>2 DEF Duplicate, Requests
<1>4. ASSUME Busy
      PROVE  TypeOK'
  <2>1. count \in Requests
    BY <1>4, CountInRequests DEF Busy
  <2>2. out' \in [Requests -> Seq(Frames)] /\ dispatch' \in BOOLEAN /\ broken' \in BOOLEAN
    <3>1. Encode(count, Response("server_busy"))
      BY <1>4, Zenon DEF Busy
    <3>2. Response("server_busy") \in Frames
      BY FrameType DEF FrameKinds
    <3>3. QED
      BY <2>1, <3>1, <3>2, EncodeType, Zenon
  <2>3. requests' \in [Ids -> 0..MaxRequests]
    BY <1>4 DEF Busy, Removed
  <2>4. QED
    BY <1>4, <2>1, <2>2, <2>3 DEF Busy
<1>5. ASSUME Enqueue
      PROVE  TypeOK'
  <2>1. count \in Requests
    BY <1>5, CountInRequests DEF Enqueue
  <2>2. jobs' \in Seq(Requests)
    BY <1>5, <2>1 DEF Enqueue
  <2>3. QED
    BY <1>5, <2>1, <2>2 DEF Enqueue
<1>6. ASSUME Abandon
      PROVE  TypeOK'
  <2>1. count \in Requests
    BY <1>6, CountInRequests DEF Abandon
  <2>2. requests' \in [Ids -> 0..MaxRequests]
    BY <1>6 DEF Abandon, Removed
  <2>3. QED
    BY <1>6, <2>1, <2>2 DEF Abandon
<1>7. ASSUME NEW id \in Ids, NEW token \in Tokens, CancelLine(id, token)
      PROVE  TypeOK'
  BY <1>7 DEF CancelLine
<1>8. ASSUME NEW id \in Ids, NEW token \in Tokens, NEW n \in 0..MaxFrames + 2, AckLine(id, token, n)
      PROVE  TypeOK'
  <2> DEFINE q == requests[id]
  <2>1. q \in Requests
    BY <1>8 DEF AckLine, Requests
  <2>2. flow[q].acked \in Nat /\ n \in Nat /\ n - flow[q].acked \in Nat
    BY <1>8, <2>1 DEF AckLine, Acknowledgeable, Flows
  <2>3. flow' \in [Requests -> Flows]
    BY <1>8, <2>1, <2>2, FlowType DEF AckLine
  <2>4. releasing' \in [request : 0..MaxRequests, left : Nat]
    BY <1>8, <2>1, <2>2 DEF AckLine, Requests
  <2>5. QED
    BY <1>8, <2>3, <2>4 DEF AckLine
<1>9. ASSUME ReleaseCredit
      PROVE  TypeOK'
  <2> DEFINE q == releasing.request
  <2>1. q \in Requests /\ releasing.left \in Nat \ {0}
    BY <1>9 DEF ReleaseCredit, CreditsInv, ReleasesSome
  <2>2. flow[q].credits \in Nat
    BY <2>1 DEF Flows
  <2>3. flow' \in [Requests -> Flows]
    <3>1. \/ flow' = [flow EXCEPT ![q].credits = flow[q].credits]
          \/ flow' = [flow EXCEPT ![q].credits = flow[q].credits + 1]
      BY <1>9, <2>1 DEF ReleaseCredit
    <3>2. flow[q] \in Flows /\ flow[q].credits + 1 \in Nat
      BY <2>1, <2>2
    <3>3. CASE flow' = [flow EXCEPT ![q].credits = flow[q].credits]
      BY <2>1, <2>2, <3>2, <3>3, FlowType
    <3>4. CASE flow' = [flow EXCEPT ![q].credits = flow[q].credits + 1]
      BY <2>1, <3>2, <3>4, FlowType
    <3>5. QED
      BY <3>1, <3>3, <3>4
  <2>4. releasing' \in [request : 0..MaxRequests, left : Nat]
    BY <1>9, <2>1 DEF ReleaseCredit, Requests
  <2>5. QED
    BY <1>9, <2>3, <2>4 DEF ReleaseCredit
<1>10. ASSUME EndScan
      PROVE  TypeOK'
  BY <1>10 DEF EndScan
<1>11. ASSUME Return
      PROVE  TypeOK'
  BY <1>11 DEF Return
<1>12. ASSUME ParentCancel
      PROVE  TypeOK'
  BY <1>12 DEF ParentCancel
<1>13. ASSUME Take
      PROVE  TypeOK'
  <2>1. Head(jobs) \in Requests /\ jobs' \in Seq(Requests)
    BY <1>13 DEF Take
  <2>2. QED
    BY <1>13, <2>1 DEF Take
<1>14. ASSUME NEW r \in Requests, Begin(r)
      PROVE  TypeOK'
  BY <1>14 DEF Begin
<1>15. ASSUME NEW r \in Requests, Reply(r)
      PROVE  TypeOK'
  <2>1. out' \in [Requests -> Seq(Frames)] /\ dispatch' \in BOOLEAN /\ broken' \in BOOLEAN
    <3>1. Encode(r, Response("response"))
      BY <1>15, Zenon DEF Reply
    <3>2. Response("response") \in Frames
      BY FrameType DEF FrameKinds
    <3>3. QED
      BY <3>1, <3>2, EncodeType, Zenon
  <2>2. QED
    BY <1>15, <2>1 DEF Reply
<1>16. ASSUME NEW r \in Requests, Send(r)
      PROVE  TypeOK'
  <2>1. sequence' \in [Requests -> Nat]
    BY <1>16 DEF Send
  <2>2. QED
    BY <1>16, <2>1 DEF Send
<1>17. ASSUME NEW r \in Requests, Acquire(r)
      PROVE  TypeOK'
  <2>1. flow' \in [Requests -> Flows]
    <3>1. flow[r] \in Flows /\ flow[r].credits \in Nat
      BY DEF Flows
    <3>2. CASE UNCHANGED flow
      BY <3>2
    <3>3. CASE flow[r].credits > 0 /\ flow' = [flow EXCEPT ![r].credits = @ - 1]
      <4>1. flow[r].credits - 1 \in Nat
        BY <3>1, <3>3
      <4>2. QED
        BY <3>1, <3>3, <4>1, FlowType
    <3>4. QED
      BY <1>17, <3>2, <3>3 DEF Acquire
  <2>2. stage' \in [Requests -> Stages] /\ werr' \in [Requests -> BOOLEAN]
    BY <1>17 DEF Acquire
  <2>3. QED
    BY <1>17, <2>1, <2>2 DEF Acquire
<1>18. ASSUME NEW r \in Requests, NoteSent(r)
      PROVE  TypeOK'
  <2>1. flow[r] \in Flows /\ flow[r].sent \in Nat /\ sequence[r] \in Nat
    BY DEF Flows
  <2>2. flow' \in [Requests -> Flows]
    BY <1>18, <2>1, FlowType DEF NoteSent
  <2>3. QED
    BY <1>18, <2>2 DEF NoteSent
<1>19. ASSUME NEW r \in Requests, Emit(r)
      PROVE  TypeOK'
  <2>1. out' \in [Requests -> Seq(Frames)] /\ dispatch' \in BOOLEAN /\ broken' \in BOOLEAN
    <3>1. Encode(r, Frame("data", sequence[r]))
      BY <1>19, Zenon DEF Emit
    <3>2. Frame("data", sequence[r]) \in Frames
      BY FrameType DEF FrameKinds
    <3>3. QED
      BY <3>1, <3>2, EncodeType, Zenon
  <2>2. QED
    BY <1>19, <2>1 DEF Emit
<1>20. ASSUME NEW r \in Requests, Finish(r)
      PROVE  TypeOK'
  <2>1. CASE werr[r] \/ Done(r)
    BY <1>20, <2>1 DEF Finish
  <2>2. CASE ~(werr[r] \/ Done(r))
    <3>1. sequence' \in [Requests -> Nat]
      <4>1. sequence' = [sequence EXCEPT ![r] = @ + 1]
        BY <1>20, <2>2 DEF Finish
      <4>2. QED
        BY <4>1
    <3>2. out' \in [Requests -> Seq(Frames)] /\ dispatch' \in BOOLEAN /\ broken' \in BOOLEAN
      <4>1. Encode(r, Frame("complete", sequence'[r]))
        BY <1>20, <2>2, <3>1, Zenon DEF Finish
      <4>2. Frame("complete", sequence'[r]) \in Frames
        BY <3>1, FrameType DEF FrameKinds
      <4>3. QED
        BY <4>1, <4>2, EncodeType, Zenon
    <3>3. QED
      BY <1>20, <2>2, <3>1, <3>2 DEF Finish
  <2>3. QED
    BY <2>1, <2>2
<1>21. ASSUME NEW r \in Requests, Complete(r)
      PROVE  TypeOK'
  <2>1. requests' \in [Ids -> 0..MaxRequests]
    BY <1>21 DEF Complete, Removed
  <2>2. QED
    BY <1>21, <2>1 DEF Complete
<1>22. CASE UNCHANGED vars
  BY <1>22 DEF vars
<1> HIDE DEF IInv, TypeOK
<1>23. QED
  BY <1>1, <1>2, <1>3, <1>4, <1>5, <1>6, <1>7, <1>8, <1>9, <1>10, <1>11, <1>12, <1>13, <1>14, <1>15, <1>16, <1>17, <1>18, <1>19, <1>20, <1>21, <1>22
  DEF Next, Scan, Work

(***************************************************************************)
(* The registry.  Most steps do one of three things to it: nothing, move a *)
(* running request on, or end a request together with its entry.           *)
(***************************************************************************)
\* A step that touches neither registry nor stages keeps the agreement.
LEMMA RegistryRests ==
  ASSUME IInv, UNCHANGED <<count, request, stage, requests, jobs>>,
         scan' = "select" <=> scan = "select"
  PROVE  RegistryInv'
BY DEF IInv, RegistryInv, NumbersUnused, SelectsLast, QueueHoldsQueued, RegistryAgrees,
       Live, Running

\* So does a step of a worker on its request, which stays a running one.
LEMMA RequestMovesOn ==
  ASSUME IInv, NEW r \in Running, NEW p \in Stages,
         p \notin {"none", "registered", "queued", "refused", "done"},
         stage' = [stage EXCEPT ![r] = p], UNCHANGED <<count, request, requests, jobs, scan>>
  PROVE  RegistryInv'
<1> USE DEF IInv, TypeOK, RegistryInv, Running, Stages
<1>1. r \in Requests /\ stage[r] \notin {"none", "registered", "queued"}
  OBVIOUS
<1>2. \A q \in Requests : q # r => stage'[q] = stage[q]
  BY <1>1
<1>3. stage'[r] = p
  BY <1>1
<1>4. NumbersUnused'
  BY <1>1, <1>2, <1>3 DEF NumbersUnused
<1>5. SelectsLast'
  BY <1>1, <1>2, <1>3 DEF SelectsLast, Requests
<1>6. QueueHoldsQueued'
  BY <1>1, <1>2, <1>3 DEF QueueHoldsQueued
<1>7. \A q \in Requests : Live(q)' <=> Live(q)
  BY <1>1, <1>2, <1>3 DEF Live
<1>8. RegistryAgrees'
  BY <1>7 DEF RegistryAgrees, Requests
<1>9. QED
  BY <1>4, <1>5, <1>6, <1>8

\* And so does the end of a request that is not in the queue, if its entry goes with it.
LEMMA RequestEnds ==
  ASSUME IInv, NEW r \in Requests, stage[r] # "queued", stage[r] # "none",
         NEW p \in {"refused", "done"}, stage' = [stage EXCEPT ![r] = p],
         requests' = Removed(r), UNCHANGED <<count, request, jobs>>,
         scan' = "select" <=> scan = "select" /\ stage[r] # "registered"
  PROVE  RegistryInv'
<1> USE DEF IInv, TypeOK, RegistryInv, Stages
<1>1. \A q \in Requests : q # r => stage'[q] = stage[q]
  OBVIOUS
<1>2. stage'[r] = p
  OBVIOUS
<1>3. NumbersUnused'
  BY <1>1, <1>2 DEF NumbersUnused
<1>4. SelectsLast'
  BY <1>1, <1>2 DEF SelectsLast, Requests
<1>5. QueueHoldsQueued'
  BY <1>1, <1>2 DEF QueueHoldsQueued
<1>6. /\ ~ Live(r)'
      /\ \A q \in Requests : q # r => (Live(q)' <=> Live(q))
  BY <1>1, <1>2 DEF Live, Running
<1>7. RegistryAgrees'
  <2>1. ASSUME NEW id \in Ids, requests'[id] # 0
        PROVE  (Live(requests[id]) /\ request[requests[id]].id = id)'
    <3>1. requests'[id] = requests[id] /\ requests[id] # r /\ requests[id] \in Requests
      BY <2>1 DEF Removed, Requests
    <3>2. Live(requests[id]) /\ request[requests[id]].id = id
      BY <3>1 DEF RegistryAgrees, Requests
    <3>3. PICK q \in Requests : q = requests[id] /\ q = requests'[id]
      BY <3>1
    <3>4. Live(q)'
      BY <1>6, <3>1, <3>2, <3>3
    <3>5. QED
      BY <3>2, <3>3, <3>4 DEF Live, Running
  <2>2. ASSUME NEW q \in Requests, Live(q)', request'[q].id # NoId
        PROVE  requests'[request'[q].id] = q
    BY <1>6, <2>2 DEF Removed, RegistryAgrees
  <2>3. QED
    BY <2>1, <2>2 DEF RegistryAgrees
<1>8. QED
  BY <1>3, <1>4, <1>5, <1>7

\* Every step keeps the registry in agreement with the live requests.
LEMMA RegistryStep == IInv /\ [Next]_vars => RegistryInv'
<1> SUFFICES ASSUME IInv, [Next]_vars
             PROVE  RegistryInv'
  OBVIOUS
<1> USE DEF worker, reader, encoder, Goto
<1>1. CASE InvalidLine
  BY <1>1, RegistryRests DEF InvalidLine, Scanning
<1>2. ASSUME NEW id \in RequestIds, NEW token \in Tokens, NEW kind \in Kinds,
             Register(id, token, kind)
      PROVE  RegistryInv'
  <2>0. PICK new \in Requests : new = count + 1
    BY <1>2, ServerAssumption DEF Register, IInv, TypeOK, Requests
  <2>1. /\ count' = new /\ stage[new] = "none"
        /\ request' = [request EXCEPT ![new] = [id |-> id, token |-> token, kind |-> kind]]
        /\ stage' = [stage EXCEPT ![new] = "registered"]
        /\ requests' = Entered(new, id) /\ Free(id)
        /\ scan = "scan" /\ scan' = "select" /\ jobs' = jobs
    BY <1>2, <2>0, ServerAssumption DEF Register, Scanning, IInv, TypeOK, RegistryInv, NumbersUnused, Requests
  <2>2. /\ stage'[new] = "registered" /\ request'[new].id = id
        /\ \A q \in Requests : q # new => stage'[q] = stage[q] /\ request'[q] = request[q]
    BY <2>1 DEF IInv, TypeOK
  <2>3. NumbersUnused'
    BY <2>0, <2>1, <2>2 DEF IInv, TypeOK, RegistryInv, NumbersUnused, Requests
  <2>4. SelectsLast'
    BY <2>1, <2>2 DEF IInv, TypeOK, RegistryInv, SelectsLast, Requests
  <2>5. QueueHoldsQueued'
    <3>1. \A i \in 1..Len(jobs) : jobs[i] \in Requests /\ stage'[jobs[i]] = stage[jobs[i]]
      BY <2>1, <2>2 DEF IInv, TypeOK, RegistryInv, QueueHoldsQueued
    <3>2. jobs' = jobs
      BY <2>1
    <3>3. QED
      BY <3>1, <3>2 DEF IInv, RegistryInv, QueueHoldsQueued
  <2>6. RegistryAgrees'
    <3>1. /\ Live(new)' /\ ~ Live(new)
          /\ \A q \in Requests : q # new => (Live(q)' <=> Live(q))
      BY <2>1, <2>2 DEF Live, Running
    <3>2. \A i \in Ids : requests[i] # new
      BY <2>1, <3>1 DEF IInv, TypeOK, RegistryInv, RegistryAgrees, Requests
    <3>3. /\ id = NoId => requests' = requests
          /\ id # NoId => id \in Ids /\ requests[id] = 0 /\ requests' = [requests EXCEPT ![id] = new]
      BY <2>1, ServerAssumption DEF Entered, Free
    <3>4. ASSUME NEW i \in Ids, requests'[i] # 0
          PROVE  (Live(requests[i]) /\ request[requests[i]].id = i)'
      <4>1. CASE requests'[i] = new
        BY <2>1, <2>2, <3>1, <3>2, <3>3, <4>1 DEF IInv, TypeOK, Live, Running
      <4>2. CASE requests'[i] # new
        <5>1. requests'[i] = requests[i] /\ requests[i] \in Requests
          BY <3>3, <3>4, <4>2 DEF IInv, TypeOK, Requests
        <5>2. Live(requests[i]) /\ request[requests[i]].id = i
          BY <5>1, <3>4 DEF IInv, RegistryInv, RegistryAgrees
        <5>3. stage'[requests[i]] = stage[requests[i]] /\ request'[requests[i]] = request[requests[i]]
          BY <2>2, <4>2, <5>1
        <5>4. QED
          BY <5>1, <5>2, <5>3 DEF Live, Running
      <4>3. QED
        BY <4>1, <4>2
    <3>5. ASSUME NEW q \in Requests, Live(q)', request'[q].id # NoId
          PROVE  requests'[request'[q].id] = q
      <4>1. CASE q = new
        BY <2>2, <3>3, <3>5, <4>1 DEF IInv, TypeOK
      <4>2. CASE q # new
        <5>1. Live(q) /\ request'[q] = request[q] /\ request[q].id \in Ids
          BY <2>2, <3>1, <3>5, <4>2 DEF IInv, TypeOK
        <5>2. requests[request[q].id] = q
          BY <3>5, <5>1 DEF IInv, RegistryInv, RegistryAgrees
        <5>3. q # 0
          BY ServerAssumption DEF Requests
        <5>4. QED
          BY <3>3, <5>1, <5>2, <5>3 DEF IInv, TypeOK
      <4>3. QED
        BY <4>1, <4>2
    <3>6. QED
      BY <3>4, <3>5 DEF RegistryAgrees
  <2>7. QED
    BY <2>3, <2>4, <2>5, <2>6 DEF RegistryInv
<1>3. ASSUME NEW id \in RequestIds, NEW token \in Tokens, NEW kind \in Kinds,
             Duplicate(id, token, kind)
      PROVE  RegistryInv'
  <2>0. PICK new \in Requests : new = count + 1
    BY <1>3, ServerAssumption DEF Duplicate, IInv, TypeOK, Requests
  <2>1. /\ count' = new /\ stage[new] = "none"
        /\ request' = [request EXCEPT ![new] = [id |-> id, token |-> token, kind |-> kind]]
        /\ stage' = [stage EXCEPT ![new] = "refused"]
        /\ UNCHANGED <<requests, jobs>> /\ scan = "scan" /\ scan' # "select"
    BY <1>3, <2>0, ServerAssumption DEF Duplicate, Scanning, IInv, TypeOK, RegistryInv, NumbersUnused, Requests
  <2>2. /\ stage'[new] = "refused"
        /\ \A q \in Requests : q # new => stage'[q] = stage[q] /\ request'[q] = request[q]
    BY <2>1 DEF IInv, TypeOK
  <2>3. NumbersUnused'
    BY <2>0, <2>1, <2>2 DEF IInv, TypeOK, RegistryInv, NumbersUnused, Requests
  <2>4. SelectsLast'
    BY <2>1, <2>2 DEF IInv, TypeOK, RegistryInv, SelectsLast, Requests
  <2>5. QueueHoldsQueued'
    <3>1. \A i \in 1..Len(jobs) : jobs[i] \in Requests /\ stage'[jobs[i]] = stage[jobs[i]]
      BY <2>1, <2>2 DEF IInv, TypeOK, RegistryInv, QueueHoldsQueued
    <3>2. jobs' = jobs
      BY <2>1
    <3>3. QED
      BY <3>1, <3>2 DEF IInv, RegistryInv, QueueHoldsQueued
  <2>6. RegistryAgrees'
    <3>1. /\ ~ Live(new)' /\ ~ Live(new)
          /\ \A q \in Requests : q # new => (Live(q)' <=> Live(q))
      BY <2>1, <2>2 DEF Live, Running
    <3>2. \A i \in Ids : requests[i] # new
      BY <2>1, <3>1 DEF IInv, TypeOK, RegistryInv, RegistryAgrees, Requests
    <3>3. QED
      BY <2>1, <2>2, <3>1, <3>2 DEF IInv, TypeOK, RegistryInv, RegistryAgrees, Requests
  <2>7. QED
    BY <2>3, <2>4, <2>5, <2>6 DEF RegistryInv
<1>4. CASE Busy
  BY <1>4, CountInRequests, RequestEnds DEF Busy
<1>5. CASE Enqueue
  <2>1. /\ count \in Requests /\ stage[count] = "registered"
        /\ stage' = [stage EXCEPT ![count] = "queued"] /\ jobs' = Append(jobs, count)
        /\ UNCHANGED <<count, request, requests>> /\ scan' = "scan"
    BY <1>5, CountInRequests DEF Enqueue
  <2>2. /\ stage'[count] = "queued"
        /\ \A q \in Requests : q # count => stage'[q] = stage[q]
    BY <2>1 DEF IInv, TypeOK
  <2>3. NumbersUnused'
    BY <2>1, <2>2 DEF IInv, TypeOK, RegistryInv, NumbersUnused
  <2>4. SelectsLast'
    BY <2>1, <2>2 DEF IInv, TypeOK, RegistryInv, SelectsLast
  <2>5. QueueHoldsQueued'
    <3>1. /\ jobs \in Seq(Requests) /\ Len(jobs') = Len(jobs) + 1 /\ Len(jobs) \in Nat
          /\ jobs'[Len(jobs) + 1] = count
          /\ \A i \in 1..Len(jobs) : jobs'[i] = jobs[i] /\ jobs[i] # count /\ jobs[i] \in Requests
      BY <2>1 DEF IInv, TypeOK, RegistryInv, QueueHoldsQueued
    <3>2. QED
      BY <2>2, <3>1 DEF IInv, RegistryInv, QueueHoldsQueued
  <2>6. RegistryAgrees'
    <3>1. \A q \in Requests : Live(q)' <=> Live(q)
      BY <2>1, <2>2 DEF Live, Running
    <3>2. QED
      BY <2>1, <3>1 DEF IInv, TypeOK, RegistryInv, RegistryAgrees, Requests
  <2>7. QED
    BY <2>3, <2>4, <2>5, <2>6 DEF RegistryInv
<1>6. CASE Abandon
  BY <1>6, CountInRequests, RequestEnds DEF Abandon
<1>7. ASSUME NEW id \in Ids, NEW token \in Tokens, CancelLine(id, token)
      PROVE  RegistryInv'
  BY <1>7, RegistryRests DEF CancelLine
<1>8. ASSUME NEW id \in Ids, NEW token \in Tokens, NEW n \in 0..MaxFrames + 2,
             AckLine(id, token, n)
      PROVE  RegistryInv'
  BY <1>8, RegistryRests DEF AckLine, Scanning
<1>9. CASE ReleaseCredit
  BY <1>9, RegistryRests DEF ReleaseCredit
<1>10. CASE EndScan
  BY <1>10, RegistryRests DEF EndScan
<1>11. CASE Return
  BY <1>11, RegistryRests DEF Return
<1>12. CASE ParentCancel
  BY <1>12, RegistryRests DEF ParentCancel
<1>13. CASE Take
  <2> DEFINE h == Head(jobs)
  <2>1. /\ jobs # <<>> /\ jobs' = Tail(jobs) /\ stage' = [stage EXCEPT ![h] = "taken"]
        /\ UNCHANGED <<count, request, requests, scan>>
    BY <1>13 DEF Take
  <2>2. /\ Len(jobs) \in Nat \ {0} /\ h = jobs[1] /\ h \in Requests
        /\ Len(jobs') = Len(jobs) - 1
        /\ \A i \in 1..Len(jobs') : jobs'[i] = jobs[i + 1]
    BY <2>1 DEF IInv, TypeOK
  <2>3. stage[h] = "queued"
    BY <2>2 DEF IInv, RegistryInv, QueueHoldsQueued
  <2>4. /\ stage'[h] = "taken"
        /\ \A q \in Requests : q # h => stage'[q] = stage[q]
    BY <2>1, <2>2 DEF IInv, TypeOK
  <2>5. NumbersUnused'
    BY <2>1, <2>3, <2>4 DEF IInv, RegistryInv, NumbersUnused
  <2>6. SelectsLast'
    BY <2>1, <2>3, <2>4, CountInRequests DEF IInv, RegistryInv, SelectsLast
  <2>7. QueueHoldsQueued'
    <3>1. \A i \in 1..Len(jobs') : i + 1 \in 1..Len(jobs) /\ jobs[i + 1] # h /\ jobs[i + 1] \in Requests
      BY <2>2 DEF IInv, TypeOK, RegistryInv, QueueHoldsQueued
    <3>2. QED
      BY <2>2, <2>4, <3>1 DEF IInv, RegistryInv, QueueHoldsQueued
  <2>8. RegistryAgrees'
    <3>1. \A q \in Requests : Live(q)' <=> Live(q)
      BY <2>3, <2>4 DEF Live, Running
    <3>2. QED
      BY <2>1, <3>1 DEF IInv, TypeOK, RegistryInv, RegistryAgrees, Requests
  <2>9. QED
    BY <2>5, <2>6, <2>7, <2>8 DEF RegistryInv
<1>14. ASSUME NEW r \in Requests, Begin(r)
       PROVE  RegistryInv'
  BY <1>14, RequestMovesOn DEF Begin, Running, Stages
<1>15. ASSUME NEW r \in Requests, Reply(r)
       PROVE  RegistryInv'
  BY <1>15, RequestMovesOn DEF Reply, Running, Stages
<1>16. ASSUME NEW r \in Requests, Send(r)
       PROVE  RegistryInv'
  BY <1>16, RequestMovesOn DEF Send, Running, Stages
<1>17. ASSUME NEW r \in Requests, Acquire(r)
       PROVE  RegistryInv'
  BY <1>17, RequestMovesOn DEF Acquire, Running, Stages
<1>18. ASSUME NEW r \in Requests, NoteSent(r)
       PROVE  RegistryInv'
  BY <1>18, RequestMovesOn DEF NoteSent, Running, Stages
<1>19. ASSUME NEW r \in Requests, Emit(r)
       PROVE  RegistryInv'
  BY <1>19, RequestMovesOn DEF Emit, Running, Stages
<1>20. ASSUME NEW r \in Requests, Finish(r)
       PROVE  RegistryInv'
  BY <1>20, RequestMovesOn DEF Finish, Running, Stages
<1>21. ASSUME NEW r \in Requests, Complete(r)
       PROVE  RegistryInv'
  BY <1>21, RequestEnds DEF Complete
<1>22. CASE UNCHANGED vars
  BY <1>22, RegistryRests DEF vars
<1>23. QED
  BY <1>1, <1>2, <1>3, <1>4, <1>5, <1>6, <1>7, <1>8, <1>9, <1>10, <1>11, <1>12, <1>13, <1>14,
     <1>15, <1>16, <1>17, <1>18, <1>19, <1>20, <1>21, <1>22
  DEF Next, Scan, Work

(***************************************************************************)
(* The credits of a stream change with its own flow, number and stage, and *)
(* with what the scanner is returning.                                     *)
(***************************************************************************)
Returning(r) == IF releasing.request = r THEN releasing.left ELSE 0
Taken(r) == IF stage[r] = "credited" THEN 1 ELSE 0
Balanced(r) == flow[r].credits + (flow[r].sent - flow[r].acked) + Returning(r) + Taken(r) = Window
CreditsOf(r) == Numbered(r) /\ Balanced(r)

\* The invariant speaks of each stream by itself.
LEMMA CreditsByStream ==
  /\ NumberedNext /\ CreditsConserved <=> \A r \in Requests : CreditsOf(r)
  /\ (NumberedNext /\ CreditsConserved)' <=> \A r \in Requests : CreditsOf(r)'
BY DEF NumberedNext, CreditsConserved, CreditsOf, Balanced, Returning, Taken

\* Credits of streams that a step does not touch stay as they are.
LEMMA CreditsRest ==
  ASSUME NEW q \in Requests, CreditsOf(q),
         UNCHANGED <<flow[q], sequence[q], werr[q]>>, UNCHANGED Returning(q),
         \/ UNCHANGED stage[q]
         \/ /\ stage[q] \in {"none", "registered", "queued"}
            /\ stage'[q] \in {"registered", "queued", "taken", "refused", "done"}
  PROVE  CreditsOf(q)'
BY DEF CreditsOf, Numbered, Balanced, Returning, Taken

\* The scanner has credits to return exactly while it is in the loop that returns them.
LEMMA ReleasesStep == IInv /\ [Next]_vars => ReleasesSome'
<1> SUFFICES ASSUME IInv, [Next]_vars
             PROVE  ReleasesSome'
  OBVIOUS
<1> USE ServerAssumption DEF ReleasesSome, reader
<1>1. ReleasesSome /\ releasing.left \in Nat
  BY DEF IInv, TypeOK, CreditsInv
<1>2. CASE UNCHANGED releasing /\ (UNCHANGED scan \/ (scan # "release" /\ scan' # "release"))
  BY <1>1, <1>2
<1>3. ASSUME NEW id \in Ids, NEW token \in Tokens, NEW n \in 0..MaxFrames + 2,
             AckLine(id, token, n)
      PROVE  ReleasesSome'
  <2>1. requests[id] \in Requests /\ flow[requests[id]].acked \in Nat
    BY <1>3 DEF AckLine, IInv, TypeOK, Requests, Flows
  <2>2. QED
    BY <1>3, <2>1 DEF AckLine, Acknowledgeable
<1>4. CASE ReleaseCredit
  BY <1>1, <1>4 DEF ReleaseCredit
<1>5. QED
  BY <1>2, <1>3, <1>4
  DEF Next, Scan, Work, vars, InvalidLine, Register, Duplicate, Busy, Enqueue, Abandon, CancelLine,
      EndScan, Return, ParentCancel, Take, Begin, Reply, Send, Acquire, NoteSent, Emit, Finish,
      Complete, Scanning

\* A step of a worker keeps the credits of its own stream.
LEMMA WorkKeepsCredits ==
  ASSUME IInv, TypeOK', NEW r \in Requests, Work(r), CreditsOf(r)
  PROVE  CreditsOf(r)'
<1> USE DEF CreditsOf, Numbered, Balanced, Taken, Goto, worker, reader, Returning
<1>1. /\ flow[r].credits \in Nat /\ flow[r].sent \in Nat /\ flow[r].acked \in Nat
      /\ sequence[r] \in Nat /\ Returning(r) \in Nat /\ Window \in Nat
      /\ stage \in [Requests -> Stages] /\ sequence \in [Requests -> Nat]
      /\ flow \in [Requests -> Flows] /\ werr \in [Requests -> BOOLEAN]
  BY ServerAssumption DEF IInv, TypeOK, Flows
<1>2. CASE Begin(r)
  BY <1>1, <1>2 DEF Begin
<1>3. CASE Reply(r)
  BY <1>1, <1>3 DEF Reply
<1>4. CASE Send(r)
  BY <1>1, <1>4 DEF Send
<1>5. CASE Acquire(r)
  <2>1. stage[r] = "acquiring" /\ UNCHANGED <<releasing, sequence>>
    BY <1>5 DEF Acquire
  <2>2. CASE stage' = [stage EXCEPT ![r] = "handling"] /\ werr' = [werr EXCEPT ![r] = TRUE]
             /\ UNCHANGED flow
    BY <1>1, <2>1, <2>2
  <2>3. CASE stage' = [stage EXCEPT ![r] = "credited"] /\ UNCHANGED werr
             /\ flow[r].credits > 0 /\ flow' = [flow EXCEPT ![r].credits = @ - 1]
    <3>1. /\ flow'[r].credits = flow[r].credits - 1 /\ flow'[r].sent = flow[r].sent
          /\ flow'[r].acked = flow[r].acked /\ stage'[r] = "credited"
      BY <1>1, <2>3 DEF Flows
    <3>2. QED
      BY <1>1, <2>1, <2>3, <3>1
  <2>4. QED
    BY <1>5, <2>2, <2>3 DEF Acquire
<1>6. CASE NoteSent(r)
  BY <1>1, <1>6 DEF NoteSent
<1>7. CASE Emit(r)
  BY <1>1, <1>7 DEF Emit
<1>8. CASE Finish(r)
  BY <1>1, <1>8 DEF Finish
<1>9. CASE Complete(r)
  BY <1>1, <1>9 DEF Complete
<1>10. QED
  BY <1>2, <1>3, <1>4, <1>5, <1>6, <1>7, <1>8, <1>9 DEF Work

\* Every step keeps the balance of every stream.
LEMMA CreditsStep == IInv /\ TypeOK' /\ [Next]_vars => CreditsInv'
<1> SUFFICES ASSUME IInv, TypeOK', [Next]_vars, NEW q \in Requests
             PROVE  CreditsOf(q)'
  BY ReleasesStep, CreditsByStream DEF CreditsInv
<1>1. CreditsOf(q) /\ ReleasesSome
  BY CreditsByStream DEF IInv, CreditsInv
<1>2. /\ stage \in [Requests -> Stages] /\ flow \in [Requests -> Flows]
      /\ sequence \in [Requests -> Nat] /\ werr \in [Requests -> BOOLEAN]
      /\ flow[q].credits \in Nat /\ flow[q].sent \in Nat /\ flow[q].acked \in Nat
  BY DEF IInv, TypeOK, Flows
<1> USE DEF Goto, worker, reader
<1>3. ASSUME UNCHANGED <<stage, flow, sequence, werr, releasing>>
      PROVE  CreditsOf(q)'
  BY <1>1, <1>3, CreditsRest DEF Returning
<1>4. ASSUME NEW id \in RequestIds, NEW token \in Tokens, NEW kind \in Kinds,
             Register(id, token, kind) \/ Duplicate(id, token, kind)
      PROVE  CreditsOf(q)'
  <2>1. PICK new \in Requests : new = count + 1
    BY <1>4, ServerAssumption DEF Register, Duplicate, IInv, TypeOK, Requests
  <2>2. stage[new] = "none"
    BY <2>1 DEF IInv, TypeOK, RegistryInv, NumbersUnused, Requests
  <2>3. stage' = [stage EXCEPT ![new] = "registered"] \/ stage' = [stage EXCEPT ![new] = "refused"]
    BY <1>4, <2>1 DEF Register, Duplicate
  <2>4. UNCHANGED <<flow, sequence, werr, releasing>>
    BY <1>4 DEF Register, Duplicate
  <2>5. QED
    BY <1>1, <1>2, <2>2, <2>3, <2>4, CreditsRest DEF Returning
<1>5. CASE Busy \/ Enqueue \/ Abandon
  <2>1. count \in Requests /\ stage[count] = "registered"
    BY <1>5, CountInRequests DEF Busy, Enqueue, Abandon
  <2>2. \E p \in {"refused", "queued", "done"} : stage' = [stage EXCEPT ![count] = p]
    BY <1>5 DEF Busy, Enqueue, Abandon
  <2>3. UNCHANGED <<flow, sequence, werr, releasing>>
    BY <1>5 DEF Busy, Enqueue, Abandon
  <2>4. QED
    BY <1>1, <1>2, <2>1, <2>2, <2>3, CreditsRest DEF Returning
<1>6. CASE Take
  <2>1. Head(jobs) \in Requests /\ stage[Head(jobs)] = "queued"
    BY <1>6 DEF Take, IInv, TypeOK, RegistryInv, QueueHoldsQueued
  <2>2. QED
    BY <1>1, <1>2, <1>6, <2>1, CreditsRest DEF Take, Returning
<1>7. ASSUME NEW id \in Ids, NEW token \in Tokens, NEW n \in 0..MaxFrames + 2,
             AckLine(id, token, n)
      PROVE  CreditsOf(q)'
  <2>1. PICK r \in Requests : r = requests[id]
    BY <1>7 DEF AckLine, IInv, TypeOK, Requests
  <2>2. /\ releasing' = [request |-> r, left |-> n - flow[r].acked]
        /\ flow' = [flow EXCEPT ![r].acked = n]
        /\ n > flow[r].acked /\ n <= flow[r].sent
        /\ UNCHANGED <<stage, sequence, werr>> /\ scan = "scan"
    BY <1>7, <2>1 DEF AckLine, Acknowledgeable, Scanning
  <2>3. releasing.request = 0 /\ q # 0
    BY <1>1, <2>2, ServerAssumption DEF ReleasesSome, Requests
  <2>4. CASE q = r
    <3>1. /\ flow'[q].credits = flow[q].credits /\ flow'[q].sent = flow[q].sent /\ flow'[q].acked = n
          /\ Returning(q) = 0 /\ Returning(q)' = n - flow[q].acked
      BY <1>2, <2>2, <2>3, <2>4 DEF Returning, Flows
    <3>2. UNCHANGED <<stage[q], sequence[q], werr[q]>> /\ n \in Int
      BY <2>2
    <3>3. QED
      BY <1>1, <1>2, <2>2, <2>4, <3>1, <3>2, ServerAssumption DEF CreditsOf, Numbered, Balanced, Taken
  <2>5. CASE q # r
    BY <1>1, <1>2, <2>2, <2>3, <2>5, CreditsRest DEF Returning
  <2>6. QED
    BY <2>4, <2>5
<1>8. CASE ReleaseCredit
  <2>1. PICK r \in Requests : r = releasing.request /\ releasing.left > 0
    BY <1>1, <1>8 DEF ReleaseCredit, ReleasesSome
  <2>2. CreditsOf(r) /\ flow[r].credits \in Nat /\ flow[r].sent \in Nat /\ flow[r].acked \in Nat
        /\ releasing.left \in Nat
    BY CreditsByStream DEF IInv, TypeOK, CreditsInv, Flows
  <2>3. flow[r].credits < Window
    BY <2>1, <2>2, ServerAssumption DEF CreditsOf, Numbered, Balanced, Returning, Taken
  <2>4. /\ flow' = [flow EXCEPT ![r].credits = @ + 1]
        /\ releasing' = IF releasing.left - 1 = 0 THEN [request |-> 0, left |-> 0]
                        ELSE [request |-> r, left |-> releasing.left - 1]
        /\ UNCHANGED <<stage, sequence, werr>>
    <3>1. ~ (flow[r].credits >= Window)
      BY <2>2, <2>3, ServerAssumption
    <3>2. flow' = [flow EXCEPT ![r].credits = @ + 1]
      BY <1>8, <2>1, <3>1 DEF ReleaseCredit
    <3>3. releasing' = IF releasing.left - 1 = 0 THEN [request |-> 0, left |-> 0]
                       ELSE [request |-> r, left |-> releasing.left - 1]
      BY <1>8, <2>1, <3>1 DEF ReleaseCredit
    <3>4. QED
      BY <1>8, <3>2, <3>3 DEF ReleaseCredit
  <2>5. q # 0
    BY ServerAssumption DEF Requests
  <2>6. CASE q = r
    <3>1. /\ flow'[q].credits = flow[q].credits + 1 /\ flow'[q].sent = flow[q].sent
          /\ flow'[q].acked = flow[q].acked
      BY <1>2, <2>4, <2>6 DEF Flows
    <3>2. Returning(q) = releasing.left /\ Returning(q)' = releasing.left - 1
      BY <2>1, <2>2, <2>4, <2>5, <2>6 DEF Returning
    <3>3. QED
      BY <1>1, <1>2, <2>2, <2>4, <3>1, <3>2, ServerAssumption DEF CreditsOf, Numbered, Balanced, Taken
  <2>7. CASE q # r
    BY <1>1, <1>2, <2>1, <2>4, <2>5, <2>7, CreditsRest DEF Returning
  <2>8. QED
    BY <2>6, <2>7
<1>9. ASSUME NEW r \in Requests, Work(r)
      PROVE  CreditsOf(q)'
  <2>1. CASE q = r
    BY <1>1, <1>9, <2>1, WorkKeepsCredits
  <2>2. CASE q # r
    <3>1. /\ UNCHANGED releasing
          /\ UNCHANGED <<flow[q], sequence[q], werr[q], stage[q]>>
      BY <1>2, <1>9, <2>2
      DEF Work, Begin, Reply, Send, Acquire, NoteSent, Emit, Finish, Complete
    <3>2. QED
      BY <1>1, <3>1, CreditsRest DEF Returning
  <2>3. QED
    BY <2>1, <2>2
<1>10. QED
  BY <1>3, <1>4, <1>5, <1>6, <1>7, <1>8, <1>9
  DEF Next, Scan, vars, InvalidLine, CancelLine, EndScan, Return, ParentCancel

(***************************************************************************)
(* Frames.  Only Emit and Finish write on a stream that is not refused.    *)
(***************************************************************************)
InOrder(r) ==
  Streams(r) /\ stage[r] # "refused" =>
    \A i \in 1..Len(out[r]) :
      out[r][i].sequence = i /\ (out[r][i].kind = "complete" => i = Len(out[r]))
FramesOf(r) == Written(r) /\ InOrder(r)

\* The invariant speaks of each stream by itself.
LEMMA FramesByStream ==
  /\ TypeOK => (FramesInv <=> \A r \in Requests : FramesOf(r))
  /\ TypeOK' => (FramesInv' <=> \A r \in Requests : FramesOf(r)')
<1>1. TypeOK => \A r \in Requests : DOMAIN out[r] = 1..Len(out[r])
  BY DEF TypeOK
<1>2. TypeOK' => \A r \in Requests : DOMAIN out'[r] = 1..Len(out'[r])
  BY DEF TypeOK
<1>3. QED
  BY <1>1, <1>2 DEF FramesInv, WrittenSoFar, FramesInOrder, FramesOf, InOrder

\* Frames of a stream that a step does not touch stay as they are; that an encoder
\* breaks only takes claims away.
LEMMA FramesRest ==
  ASSUME NEW q \in Requests, FramesOf(q),
         UNCHANGED <<request[q], out[q], sequence[q], werr[q]>>, broken => broken',
         \/ UNCHANGED stage[q]
         \/ /\ stage[q] \in {"registered", "queued"}
            /\ stage'[q] \in {"queued", "taken", "refused", "done"}
         \/ stage[q] # "refused" /\ stage'[q] \in {"completing", "done"}
  PROVE  FramesOf(q)'
BY DEF FramesOf, Written, InOrder, Streams, UnderWay

\* A frame that is appended with the next number keeps the order.
LEMMA AppendFrame ==
  ASSUME NEW r \in Requests, TypeOK, InOrder(r), Streams(r), stage[r] # "refused",
         \A i \in 1..Len(out[r]) : out[r][i].kind = "data",
         NEW kind \in FrameKinds, NEW n \in Nat, n = Len(out[r]) + 1,
         out' = [out EXCEPT ![r] = Append(@, Frame(kind, n))]
  PROVE  /\ Len(out'[r]) = n
         /\ \A i \in 1..Len(out'[r]) : out'[r][i].sequence = i
         /\ \A i \in 1..Len(out'[r]) : out'[r][i].kind = "complete" => i = Len(out'[r])
         /\ kind = "data" => \A i \in 1..Len(out'[r]) : out'[r][i].kind = "data"
<1>1. out[r] \in Seq(Frames) /\ out'[r] = Append(out[r], Frame(kind, n))
  BY DEF TypeOK
<1>2. Frame(kind, n) \in Frames /\ Frame(kind, n).sequence = n /\ Frame(kind, n).kind = kind
  BY FrameType DEF Frame
<1>3. /\ Len(out'[r]) = Len(out[r]) + 1 /\ Len(out[r]) \in Nat
      /\ out'[r][Len(out[r]) + 1] = Frame(kind, n)
      /\ \A i \in 1..Len(out[r]) : out'[r][i] = out[r][i]
  BY <1>1, <1>2
<1>4. QED
  BY <1>2, <1>3 DEF InOrder

\* A write changes what is kept for one request, and an encoder stays broken.
LEMMA EncodeFrame ==
  ASSUME TypeOK, NEW r \in Requests, NEW frame, Encode(r, frame)
  PROVE  /\ broken => broken' /\ UNCHANGED out
         /\ \A q \in Requests : q # r => out'[q] = out[q]
         /\ ~broken' => out' = [out EXCEPT ![r] = Append(@, frame)]
         /\ out' # out => out' = [out EXCEPT ![r] = Append(@, frame)]
BY DEF Encode, encoder, TypeOK

\* A step of a worker keeps the frames of its own stream in order.
LEMMA WorkKeepsFrames ==
  ASSUME IInv, TypeOK', NEW r \in Requests, Work(r), FramesOf(r)
  PROVE  FramesOf(r)'
<1> USE DEF FramesOf, Written, InOrder, UnderWay, Goto, worker, reader, Streams
<1>1. /\ stage \in [Requests -> Stages] /\ sequence \in [Requests -> Nat]
      /\ werr \in [Requests -> BOOLEAN] /\ broken \in BOOLEAN /\ Numbered(r)
      /\ Len(out[r]) \in Nat /\ TypeOK
  <2>1. TypeOK /\ Numbered(r)
    BY DEF IInv, CreditsInv, NumberedNext
  <2>2. out[r] \in Seq(Frames)
    BY <2>1 DEF TypeOK
  <2>3. Len(out[r]) \in Nat
    BY <2>2
  <2>4. QED
    BY <2>1, <2>3 DEF TypeOK
<1>2. CASE Begin(r)
  <2>1. out[r] = <<>> /\ sequence[r] = 0 /\ ~werr[r] /\ UNCHANGED <<out, sequence, werr, request, broken>>
    BY <1>1, <1>2 DEF Begin, Numbered, encoder
  <2>2. stage'[r] \in {"completing", "handling"}
    BY <1>1, <1>2 DEF Begin
  <2>3. QED
    BY <2>1, <2>2
<1>3. CASE Reply(r)
  BY <1>1, <1>3 DEF Reply
<1>4. CASE Send(r)
  BY <1>1, <1>4 DEF Send, encoder
<1>5. CASE Acquire(r)
  <2>1. /\ stage[r] = "acquiring" /\ UNCHANGED <<out, sequence, request, broken>>
        /\ (stage'[r] = "handling" /\ werr'[r]) \/ (stage'[r] = "credited" /\ UNCHANGED werr)
    BY <1>1, <1>5 DEF Acquire, encoder
  <2>2. QED
    BY <2>1
<1>6. CASE NoteSent(r)
  BY <1>1, <1>6 DEF NoteSent, encoder
<1>7. CASE Emit(r)
  <2>1. /\ stage[r] = "emitting" /\ Encode(r, Frame("data", sequence[r])) /\ stage'[r] = "handling"
        /\ UNCHANGED <<sequence, request>> /\ werr'[r] = broken'
    BY <1>1, <1>7 DEF Emit
  <2>2. CASE UNCHANGED out /\ broken'
    BY <2>1, <2>2
  <2>3. CASE ~broken /\ out' = [out EXCEPT ![r] = Append(@, Frame("data", sequence[r]))]
    <3>1. CASE Streams(r)
      <4>1. sequence[r] = Len(out[r]) + 1 /\ \A i \in 1..Len(out[r]) : out[r][i].kind = "data"
        BY <2>1, <2>3, <3>1
      <4>2. /\ Len(out'[r]) = sequence[r]
            /\ \A i \in 1..Len(out'[r]) : out'[r][i].sequence = i
            /\ \A i \in 1..Len(out'[r]) : out'[r][i].kind = "complete" => i = Len(out'[r])
            /\ \A i \in 1..Len(out'[r]) : out'[r][i].kind = "data"
        BY <1>1, <2>1, <2>3, <3>1, <4>1, AppendFrame DEF FrameKinds
      <4>3. QED
        BY <2>1, <4>2
    <3>2. CASE ~Streams(r)
      BY <2>1, <3>2
    <3>3. QED
      BY <3>1, <3>2
  <2>4. QED
    BY <1>1, <2>1, <2>2, <2>3 DEF Encode, encoder
<1>8. CASE Finish(r)
  <2>1. /\ stage[r] = "handling" /\ stage'[r] = "completing" /\ UNCHANGED request
        /\ Streams(r)
    BY <1>1, <1>8 DEF Finish
  <2>2. CASE UNCHANGED out
    BY <2>1, <2>2
  <2>3. CASE ~broken /\ ~werr[r] /\ out' = [out EXCEPT ![r] = Append(@, Frame("complete", sequence[r] + 1))]
    <3>1. sequence[r] = Len(out[r]) /\ sequence[r] + 1 \in Nat /\ sequence[r] + 1 = Len(out[r]) + 1
          /\ \A i \in 1..Len(out[r]) : out[r][i].kind = "data"
      BY <1>1, <2>1, <2>3
    <3>2. /\ \A i \in 1..Len(out'[r]) : out'[r][i].sequence = i
          /\ \A i \in 1..Len(out'[r]) : out'[r][i].kind = "complete" => i = Len(out'[r])
      BY <1>1, <2>1, <2>3, <3>1, AppendFrame DEF FrameKinds
    <3>3. QED
      BY <2>1, <3>2
  <2>4. QED
    <3>1. CASE werr[r] \/ Done(r)
      BY <1>8, <2>2, <3>1 DEF Finish, encoder
    <3>2. CASE ~ (werr[r] \/ Done(r))
      <4>1. sequence'[r] = sequence[r] + 1 /\ Encode(r, Frame("complete", sequence'[r]))
        BY <1>1, <1>8, <3>2 DEF Finish
      <4>2. QED
        BY <2>2, <2>3, <3>2, <4>1 DEF Encode, encoder
    <3>3. QED
      BY <3>1, <3>2
<1>9. CASE Complete(r)
  BY <1>1, <1>9 DEF Complete, encoder
<1>10. QED
  BY <1>2, <1>3, <1>4, <1>5, <1>6, <1>7, <1>8, <1>9 DEF Work

\* Every step keeps the frames of every stream in order.
LEMMA FramesStep == IInv /\ TypeOK' /\ [Next]_vars => FramesInv'
<1> SUFFICES ASSUME IInv, TypeOK', [Next]_vars, NEW q \in Requests
             PROVE  FramesOf(q)'
  BY FramesByStream
<1>1. FramesOf(q) /\ TypeOK
  BY FramesByStream DEF IInv
<1>2. /\ stage \in [Requests -> Stages] /\ out \in [Requests -> Seq(Frames)] /\ broken \in BOOLEAN
      /\ sequence \in [Requests -> Nat] /\ werr \in [Requests -> BOOLEAN]
      /\ request \in [Requests -> [id : Ids \cup {NoId}, token : Tokens \cup {"none"}, kind : Kinds]]
  BY <1>1 DEF TypeOK
<1> USE DEF Goto, worker, reader
<1>3. ASSUME UNCHANGED <<stage, request, sequence, werr, out>>, broken => broken'
      PROVE  FramesOf(q)'
  BY <1>1, <1>3, FramesRest
<1>4. ASSUME NEW id \in RequestIds, NEW token \in Tokens, NEW kind \in Kinds,
             Register(id, token, kind) \/ Duplicate(id, token, kind)
      PROVE  FramesOf(q)'
  <2>1. PICK new \in Requests : new = count + 1
    BY <1>4, ServerAssumption DEF Register, Duplicate, IInv, TypeOK, Requests
  <2>2. stage[new] = "none"
    BY <2>1 DEF IInv, TypeOK, RegistryInv, NumbersUnused, Requests
  <2>3. /\ request' = [request EXCEPT ![new] = [id |-> id, token |-> token, kind |-> kind]]
        /\ UNCHANGED <<sequence, werr>>
    BY <1>4, <2>1 DEF Register, Duplicate
  <2>4. \/ stage' = [stage EXCEPT ![new] = "registered"] /\ UNCHANGED <<out, broken>>
        \/ stage' = [stage EXCEPT ![new] = "refused"] /\ Encode(new, Response("duplicate_request"))
    BY <1>4, <2>1 DEF Register, Duplicate, encoder
  <2>5. CASE q = new
    <3>1. CASE stage'[q] = "registered" /\ UNCHANGED out
      <4>1. out'[q] = <<>>
        BY <1>1, <2>2, <2>5, <3>1 DEF FramesOf, Written
      <4>2. QED
        BY <3>1, <4>1 DEF FramesOf, Written, InOrder, UnderWay
    <3>2. CASE stage'[q] = "refused"
      BY <3>2 DEF FramesOf, Written, InOrder, UnderWay
    <3>3. QED
      BY <1>2, <2>4, <2>5, <3>1, <3>2
  <2>6. CASE q # new
    <3>1. UNCHANGED out[q] /\ (broken => broken')
      BY <1>1, <2>4, <2>6, EncodeFrame
    <3>2. UNCHANGED <<request[q], sequence[q], werr[q], stage[q]>>
      BY <1>2, <2>3, <2>4, <2>6
    <3>3. QED
      BY <1>1, <3>1, <3>2, FramesRest
  <2>7. QED
    BY <2>5, <2>6
<1>5. CASE Busy
  <2>1. count \in Requests /\ stage[count] = "registered"
    BY <1>5, CountInRequests DEF Busy
  <2>2. /\ stage' = [stage EXCEPT ![count] = "refused"] /\ UNCHANGED <<request, sequence, werr>>
        /\ Encode(count, Response("server_busy"))
    BY <1>5 DEF Busy
  <2>3. CASE q = count
    <3>1. stage'[q] = "refused"
      BY <1>2, <2>1, <2>2, <2>3
    <3>2. QED
      BY <3>1 DEF FramesOf, Written, InOrder, UnderWay
  <2>4. CASE q # count
    <3>1. UNCHANGED out[q] /\ (broken => broken')
      BY <1>1, <2>1, <2>2, <2>4, EncodeFrame
    <3>2. UNCHANGED <<request[q], sequence[q], werr[q], stage[q]>>
      BY <1>2, <2>2, <2>4
    <3>3. QED
      BY <1>1, <3>1, <3>2, FramesRest
  <2>5. QED
    BY <2>3, <2>4
<1>6. CASE Enqueue \/ Abandon
  <2>1. count \in Requests /\ stage[count] = "registered"
    BY <1>6, CountInRequests DEF Enqueue, Abandon
  <2>2. \E p \in {"queued", "done"} : stage' = [stage EXCEPT ![count] = p]
    BY <1>6 DEF Enqueue, Abandon
  <2>3. UNCHANGED <<request, out, broken, sequence, werr>>
    BY <1>6 DEF Enqueue, Abandon, encoder
  <2>4. QED
    BY <1>1, <1>2, <2>1, <2>2, <2>3, FramesRest
<1>7. CASE Take
  <2>1. Head(jobs) \in Requests /\ stage[Head(jobs)] = "queued"
    BY <1>7 DEF Take, IInv, TypeOK, RegistryInv, QueueHoldsQueued
  <2>2. QED
    BY <1>1, <1>2, <1>7, <2>1, FramesRest DEF Take, encoder
<1>8. ASSUME NEW r \in Requests, Work(r)
      PROVE  FramesOf(q)'
  <2>1. CASE q = r
    BY <1>1, <1>8, <2>1, WorkKeepsFrames
  <2>2. CASE q # r
    <3>1. UNCHANGED out[q] /\ (broken => broken')
      <4>1. CASE UNCHANGED <<out, broken>>
        BY <4>1
      <4>2. ASSUME NEW frame, Encode(r, frame)
            PROVE  UNCHANGED out[q] /\ (broken => broken')
        BY <1>1, <2>2, <4>2, EncodeFrame
      <4>3. QED
        BY <1>8, <4>1, <4>2
        DEF Work, Begin, Reply, Send, Acquire, NoteSent, Emit, Finish, Complete, encoder
    <3>2. UNCHANGED <<request[q], sequence[q], werr[q], stage[q]>>
      BY <1>2, <1>8, <2>2
      DEF Work, Begin, Reply, Send, Acquire, NoteSent, Emit, Finish, Complete
    <3>3. QED
      BY <1>1, <3>1, <3>2, FramesRest
  <2>3. QED
    BY <2>1, <2>2
<1>9. CASE InvalidLine
  <2>1. broken => broken'
    BY <1>2, <1>9, Zenon DEF InvalidLine
  <2>2. QED
    BY <1>3, <1>9, <2>1 DEF InvalidLine
<1>10. CASE UNCHANGED <<stage, request, sequence, werr, out, broken>>
  BY <1>3, <1>10
<1>11. QED
  BY <1>4, <1>5, <1>6, <1>7, <1>8, <1>9, <1>10
  DEF Next, Scan, vars, CancelLine, AckLine, ReleaseCredit, EndScan, Return, ParentCancel, encoder

-----------------------------------------------------------------------------
\* The inductive invariant of the request loop: types, registry, credits and frames.
THEOREM ServerInvariant == Spec => []IInv
<1>1. Init => IInv
  <2> SUFFICES ASSUME Init
               PROVE  IInv
    OBVIOUS
  <2> USE ServerAssumption DEF Init, Requests, Nobody, Kinds
  <2>1. TypeOK
    <3>1. /\ count \in 0..MaxRequests /\ requests \in [Ids -> 0..MaxRequests]
          /\ releasing \in [request : 0..MaxRequests, left : Nat]
      OBVIOUS
    <3>2. request \in [Requests -> [id : Ids \cup {NoId}, token : Tokens \cup {"none"}, kind : Kinds]]
      OBVIOUS
    <3>3. flow \in [Requests -> Flows] /\ jobs \in Seq(Requests) /\ out \in [Requests -> Seq(Frames)]
      BY DEF Flows
    <3>4. QED
      BY <3>1, <3>2, <3>3 DEF TypeOK, Stages
  <2>2. RegistryInv
    BY DEF RegistryInv, NumbersUnused, SelectsLast, QueueHoldsQueued, RegistryAgrees, Live, Running
  <2>3. CreditsInv
    BY DEF CreditsInv, ReleasesSome, NumberedNext, Numbered, CreditsConserved
  <2>4. FramesInv
    BY DEF FramesInv, WrittenSoFar, Written, FramesInOrder, Streams, UnderWay
  <2>5. QED
    BY <2>1, <2>2, <2>3, <2>4 DEF IInv
<1>2. IInv /\ [Next]_vars => IInv'
  BY TypeStep, RegistryStep, CreditsStep, FramesStep DEF IInv
<1>3. QED
  BY <1>1, <1>2, PTL DEF Spec

\* For any number of requests and workers: the registry names exactly the live
\* requests that carry an id, through duplicates, refusals, cancellations and the end
\* of the input, so no control line reaches a request that has ended.
THEOREM RegistryCorrect == Spec => []RegistryAgrees
BY ServerInvariant, PTL DEF IInv, RegistryInv

\* For any window: however acknowledgements, their release credit by credit and the
\* producer interleave, no credit is lost or minted.
THEOREM CreditsCorrect == Spec => []CreditsConserved
BY ServerInvariant, PTL DEF IInv, CreditsInv

\* Whatever fails or is cancelled, the frames a stream has written are numbered without
\* gap or repetition and nothing follows its final frame.
THEOREM FramesCorrect == Spec => []FramesInOrder
BY ServerInvariant, PTL DEF IInv, FramesInv

-----------------------------------------------------------------------------
(***************************************************************************)
(* The subscription                                                        *)
(***************************************************************************)
SubStages == {"none", "top", "woken", "got", "waiting", "heartbeat", "done"}
SubWorking == {"top", "woken", "got", "waiting", "heartbeat"}
SubCursors == [epoch : Nat, n : Nat]
SubFrames == [kind : {"data", "heartbeat", "expired", "invalid", "complete"}, cursor : SubCursors]
SubProducers == [stage : SubStages, cursor : SubCursors, item : Nat, seen : Nat]

SubTypeOK ==
  /\ epoch \in Nat \ {0} /\ number \in Nat /\ records \in Seq(Nat) /\ changed \in Nat
  /\ producer \in SubProducers /\ wire \in Seq(SubFrames)
  /\ cursor \in SubCursors /\ start \in SubCursors /\ delivered \in Seq(SubCursors)

\* The buffer holds the last numbers published.
BufferInv ==
  /\ Len(records) <= number /\ (number > 0 => Len(records) > 0)
  /\ \A i \in 1..Len(records) : records[i] = number - Len(records) + i

\* Event d is the one after c, or the first one of a client without a cursor.
Joins(c, d) == d.epoch # 0 /\ (c = Sub!Empty \/ Sub!Follows(c, d))

\* A cursor that a buffer has issued, or the one that none had issued at the start.
Vouched(c) == c.epoch < epoch \/ (c.epoch = epoch /\ c.n <= number) \/ start = Sub!Unissued

\* Where the client is when the frames before number i have been consumed.
Previous(i) == IF i = 1 THEN cursor ELSE wire[i - 1].cursor

(***************************************************************************)
(* DeliversInOrder speaks of what was delivered; inductive is that the     *)
(* frames under way continue it one by one up to where the producer is,    *)
(* and that the number the producer has in hand comes after that.          *)
(***************************************************************************)
InLine(i) ==
  /\ wire[i].kind = "data" => Joins(Previous(i), wire[i].cursor)
  /\ wire[i].kind = "heartbeat" => wire[i].cursor = Previous(i)
  /\ wire[i].kind \notin {"data", "heartbeat"} => i = Len(wire) /\ producer.stage \notin SubWorking
  /\ wire[i].kind = "invalid" => start = Sub!Unissued
  /\ Vouched(wire[i].cursor)
WireInv == \A i \in 1..Len(wire) : InLine(i)

ProducerInv ==
  /\ producer.stage \in SubWorking => up /\ pc = "reading" /\ producer.cursor = Previous(Len(wire) + 1)
  /\ producer.stage = "got" => /\ Joins(producer.cursor, Sub!At(epoch, producer.item))
                               /\ producer.item <= number

DeliveredInv ==
  /\ IF delivered = <<>> THEN cursor = start
     ELSE /\ cursor = delivered[Len(delivered)] /\ cursor.epoch # 0
          /\ start # Sub!Empty => Sub!Follows(start, delivered[1])
  /\ \A i \in 1..Len(delivered) - 1 : Sub!Follows(delivered[i], delivered[i + 1])

ClientInv ==
  /\ pc # "reading" => wire = <<>>
  /\ Vouched(cursor)
  /\ outcome # "protocol" /\ (outcome = "invalid" => start = Sub!Unissued)

SubInv == SubTypeOK /\ BufferInv /\ WireInv /\ ProducerInv /\ DeliveredInv /\ ClientInv

\* What holds of the cursors of the subscription.
LEMMA SubCursorTypes ==
  /\ Sub!Empty \in SubCursors /\ Sub!Empty.epoch = 0 /\ Sub!Unissued \in SubCursors
  /\ \A e, n \in Nat : /\ Sub!At(e, n) \in SubCursors /\ Sub!At(e, n).epoch = e /\ Sub!At(e, n).n = n
                       /\ \A k \in {"data", "heartbeat", "expired", "invalid", "complete"} :
                            /\ Sub!Frame(k, Sub!At(e, n)) \in SubFrames
                            /\ Sub!Frame(k, Sub!At(e, n)).kind = k
                            /\ Sub!Frame(k, Sub!At(e, n)).cursor = Sub!At(e, n)
  /\ Sub!Idle \in SubProducers /\ Sub!Idle.stage = "none" /\ Sub!Idle.cursor = Sub!Empty
BY DEF Sub!Empty, Sub!Unissued, Sub!At, Sub!Frame, Sub!Idle, SubCursors, SubFrames, SubProducers, SubStages

\* The client's last position on the wire, or its own.
LEMMA PreviousType ==
  ASSUME SubInv, NEW i \in 1..Len(wire) + 1
  PROVE  Previous(i) \in SubCursors /\ Vouched(Previous(i))
<1>1. CASE i = 1
  BY <1>1 DEF SubInv, SubTypeOK, ClientInv, Previous
<1>2. CASE i # 1
  <2>1. i - 1 \in 1..Len(wire)
    BY <1>2 DEF SubInv, SubTypeOK
  <2>2. wire[i - 1] \in SubFrames /\ Vouched(wire[i - 1].cursor)
    BY <2>1 DEF SubInv, SubTypeOK, WireInv, InLine
  <2>3. QED
    BY <1>2, <2>2 DEF Previous, SubFrames
<1>3. QED
  BY <1>1, <1>2

\* A frame that the producer adds.
LEMMA WireGrows ==
  ASSUME SubInv, NEW f \in SubFrames, wire' = Append(wire, f), producer.stage \in SubWorking,
         UNCHANGED <<epoch, number, cursor, start>>,
         f.kind = "data" => Joins(producer.cursor, f.cursor),
         f.kind = "heartbeat" => f.cursor = producer.cursor,
         f.kind \notin {"data", "heartbeat"} => producer'.stage \notin SubWorking,
         f.kind = "invalid" => start = Sub!Unissued, Vouched(f.cursor)
  PROVE  /\ wire' \in Seq(SubFrames) /\ WireInv'
         /\ Previous(Len(wire) + 1)' = f.cursor
<1>1. PICK len \in Nat : len = Len(wire)
  BY DEF SubInv, SubTypeOK
<1>2. /\ wire' \in Seq(SubFrames) /\ Len(wire') = len + 1 /\ wire'[len + 1] = f
      /\ \A i \in 1..len : wire'[i] = wire[i]
  BY <1>1 DEF SubInv, SubTypeOK
<1>3. \A i \in 1..len + 1 : Previous(i)' = Previous(i)
  BY <1>2 DEF Previous
<1>4. Previous(Len(wire) + 1)' = f.cursor
  BY <1>2 DEF Previous
<1>5. ASSUME NEW i \in 1..len  PROVE InLine(i)'
  <2>1. InLine(i) /\ wire[i].kind \in {"data", "heartbeat"}
    BY <1>1, <1>5 DEF SubInv, WireInv, InLine
  <2>2. wire'[i] = wire[i] /\ Previous(i)' = Previous(i)
    BY <1>2, <1>3
  <2>3. QED
    BY <2>1, <2>2 DEF InLine, Vouched
<1>6. InLine(len + 1)'
  <2>1. Previous(len + 1)' = producer.cursor
    BY <1>1, <1>3 DEF SubInv, ProducerInv
  <2>2. QED
    BY <1>2, <2>1 DEF InLine, Vouched
<1>7. WireInv'
  <2>1. \A i \in 1..len + 1 : i \in 1..len \/ i = len + 1
    OBVIOUS
  <2>2. \A i \in 1..Len(wire') : InLine(i)'
    BY <1>2, <1>5, <1>6, <2>1
  <2>3. QED
    BY <2>2 DEF WireInv
<1>8. QED
  BY <1>1, <1>2, <1>4, <1>7

\* The rest of the subscription while the client's state stays.
LEMMA ClientRests ==
  ASSUME SubInv, UNCHANGED <<cursor, start, delivered, epoch, number, outcome, pc>>,
         pc # "reading" => wire' = <<>>
  PROVE  DeliveredInv' /\ ClientInv'
BY DEF SubInv, DeliveredInv, ClientInv, Vouched

\* Publish, Close and a restart's new buffer.
LEMMA BufferStep ==
  ASSUME SubInv, Sub!Publish \/ Sub!Close
  PROVE  SubInv'
<1>1. UNCHANGED <<epoch, producer, wire, up, pc, cursor, outcome, start, delivered>>
  BY DEF Sub!Publish, Sub!Close, Sub!connection, Sub!client, Sub!history
<1>2. number' \in Nat /\ number <= number' /\ records' \in Seq(Nat) /\ changed' \in Nat /\ BufferInv'
  <2>1. CASE Sub!Close
    BY <2>1 DEF Sub!Close, SubInv, SubTypeOK, BufferInv
  <2>2. CASE Sub!Publish
    <3>1. PICK kept : kept = IF Len(records) = Capacity THEN Tail(records) ELSE records
      OBVIOUS
    <3>2. number' = number + 1 /\ records' = Append(kept, number') /\ changed' = changed + 1
      BY <2>2, <3>1 DEF Sub!Publish
    <3>3. number \in Nat /\ changed \in Nat /\ records \in Seq(Nat) /\ Capacity \in Nat \ {0}
      BY StreamsAssumption DEF SubInv, SubTypeOK, Sub!SubscriptionAssumption
    <3>4. PICK len \in Nat : len = Len(records) /\ len <= number
      BY <3>3 DEF SubInv, BufferInv
    <3>5. /\ kept \in Seq(Nat) /\ Len(kept) <= len
          /\ \A i \in 1..Len(kept) : kept[i] = number - Len(kept) + i
      <4>1. CASE len = Capacity
        <5>1. kept = Tail(records) /\ records # <<>>
          BY <3>1, <3>3, <3>4, <4>1
        <5>2. kept \in Seq(Nat) /\ Len(kept) = len - 1 /\ \A i \in 1..len - 1 : kept[i] = records[i + 1]
          BY <3>3, <3>4, <5>1
        <5>3. \A i \in 1..len - 1 : records[i + 1] = number - len + (i + 1)
          BY <3>3, <3>4 DEF SubInv, BufferInv
        <5>4. QED
          BY <3>3, <3>4, <5>2, <5>3
      <4>2. CASE len # Capacity
        <5>1. kept = records
          BY <3>1, <3>4, <4>2
        <5>2. \A i \in 1..Len(records) : records[i] = number - Len(records) + i
          BY DEF SubInv, BufferInv
        <5>3. QED
          BY <3>3, <3>4, <5>1, <5>2
      <4>3. QED
        BY <4>1, <4>2
    <3>6. PICK m \in Nat : m = Len(kept)
      BY <3>5
    <3>7. /\ records' \in Seq(Nat) /\ Len(records') = m + 1 /\ records'[m + 1] = number + 1
          /\ \A i \in 1..m : records'[i] = kept[i]
      BY <3>2, <3>3, <3>5, <3>6
    <3>8. BufferInv'
      <4>1. m + 1 <= number' /\ m + 1 > 0
        BY <3>2, <3>3, <3>4, <3>5, <3>6
      <4>2. ASSUME NEW i \in 1..m + 1  PROVE records'[i] = number' - (m + 1) + i
        <5>1. CASE i = m + 1
          BY <3>2, <3>3, <3>7, <5>1
        <5>2. CASE i # m + 1
          <6>1. i \in 1..m
            BY <5>2
          <6>2. records'[i] = number - m + i
            BY <3>5, <3>6, <3>7, <6>1
          <6>3. number' = number + 1 /\ number \in Nat /\ i \in Nat
            BY <3>2, <3>3
          <6>4. QED
            BY <6>2, <6>3
        <5>3. QED
          BY <5>1, <5>2
      <4>3. QED
        BY <3>7, <4>1, <4>2 DEF BufferInv
    <3>9. QED
      BY <3>2, <3>3, <3>7, <3>8
  <2>3. QED
    BY <2>1, <2>2
<1>3. \A c \in SubCursors : Vouched(c) => Vouched(c)'
  BY <1>1, <1>2 DEF Vouched, SubCursors, SubInv, SubTypeOK
<1>4. SubTypeOK'
  BY <1>1, <1>2 DEF SubInv, SubTypeOK
<1>5. WireInv'
  <2>1. ASSUME NEW i \in 1..Len(wire)  PROVE InLine(i)'
    <3>1. InLine(i) /\ wire[i] \in SubFrames
      BY DEF SubInv, SubTypeOK, WireInv
    <3>2. wire[i].cursor \in SubCursors
      BY <3>1 DEF SubFrames
    <3>3. Vouched(wire[i].cursor)'
      BY <1>1, <1>3, <3>1, <3>2 DEF InLine, Vouched
    <3>4. QED
      BY <1>1, <3>1, <3>3 DEF InLine, Previous
  <2>2. QED
    BY <1>1, <2>1 DEF WireInv
<1>6. ProducerInv'
  BY <1>1, <1>2 DEF SubInv, SubTypeOK, ProducerInv, Previous, SubProducers
<1>7. DeliveredInv' /\ ClientInv'
  <2>1. cursor \in SubCursors /\ Vouched(cursor)
    BY DEF SubInv, SubTypeOK, ClientInv
  <2>2. Vouched(cursor)'
    BY <1>1, <1>3, <2>1 DEF Vouched
  <2>3. QED
    BY <1>1, <2>2 DEF SubInv, DeliveredInv, ClientInv
<1>8. QED
  BY <1>2, <1>4, <1>5, <1>6, <1>7 DEF SubInv

\* A lost connection leaves the client some of the frames under way.
LEMMA ConnectionLost ==
  ASSUME SubInv, Sub!Lost("interrupted") \/ Sub!Lost("rotation"), UNCHANGED <<cursor, start, pc, delivered, outcome>>,
         \/ UNCHANGED <<epoch, number, records, changed>>
         \/ epoch' = epoch + 1 /\ number' = 0 /\ records' = <<>> /\ changed' = 1
  PROVE  SubInv'
<1>1. PICK n \in 0..Len(wire) : wire' = SubSeq(wire, 1, n)
  BY DEF Sub!Lost
<1>2. producer' = Sub!Idle
  BY DEF Sub!Lost
<1>3. wire \in Seq(SubFrames) /\ Len(wire) \in Nat
  BY DEF SubInv, SubTypeOK
<1>4. wire' \in Seq(SubFrames) /\ Len(wire') = n /\ \A i \in 1..n : wire'[i] = wire[i]
  BY <1>1, <1>3
<1>5. \A c \in SubCursors : Vouched(c) => Vouched(c)'
  BY DEF Vouched, SubCursors, SubInv, SubTypeOK
<1>6. SubTypeOK'
  <2>1. epoch' \in Nat \ {0} /\ number' \in Nat /\ records' \in Seq(Nat) /\ changed' \in Nat
    <3>1. epoch \in Nat \ {0} /\ number \in Nat /\ records \in Seq(Nat) /\ changed \in Nat
      BY DEF SubInv, SubTypeOK
    <3>2. <<>> \in Seq(Nat) /\ epoch + 1 \in Nat \ {0}
      BY <3>1
    <3>3. CASE UNCHANGED <<epoch, number, records, changed>>
      BY <3>1, <3>3
    <3>4. CASE epoch' = epoch + 1 /\ number' = 0 /\ records' = <<>> /\ changed' = 1
      BY <3>2, <3>4
    <3>5. QED
      BY <3>3, <3>4
  <2>2. cursor' \in SubCursors /\ start' \in SubCursors /\ delivered' \in Seq(SubCursors)
    BY DEF SubInv, SubTypeOK
  <2>3. producer' \in SubProducers
    BY <1>2, SubCursorTypes
  <2>4. QED
    BY <1>4, <2>1, <2>2, <2>3 DEF SubTypeOK
<1>7. BufferInv'
  BY DEF SubInv, BufferInv
<1>8. WireInv'
  <2>1. ASSUME NEW i \in 1..n  PROVE InLine(i)'
    <3>1. i \in 1..Len(wire)
      BY <1>1, <1>3
    <3>2. InLine(i) /\ wire[i] \in SubFrames
      BY <1>3, <3>1 DEF SubInv, WireInv
    <3>3. Previous(i)' = Previous(i)
      BY <1>4 DEF Previous
    <3>4. wire[i].kind \notin {"data", "heartbeat"} => i = Len(wire')
      BY <1>1, <1>3, <1>4, <3>2 DEF InLine
    <3>5. wire'[i] = wire[i] /\ producer'.stage \notin SubWorking
      BY <1>2, <1>4, SubCursorTypes DEF SubWorking
    <3>6. Vouched(wire[i].cursor)'
      <4>1. PICK c \in SubCursors : c = wire[i].cursor
        BY <3>2 DEF SubFrames
      <4>2. Vouched(c)'
        BY <1>5, <3>2, <4>1 DEF InLine
      <4>3. QED
        BY <3>5, <4>1, <4>2 DEF Vouched
    <3>7. QED
      BY <3>2, <3>3, <3>4, <3>5, <3>6 DEF InLine, Vouched
  <2>2. QED
    BY <1>4, <2>1 DEF WireInv
<1>9. ProducerInv'
  BY <1>2, SubCursorTypes DEF ProducerInv, SubWorking
<1>10. DeliveredInv' /\ ClientInv'
  <2>1. cursor \in SubCursors /\ Vouched(cursor)
    BY DEF SubInv, SubTypeOK, ClientInv
  <2>2. Vouched(cursor)'
    BY <1>5, <2>1 DEF Vouched
  <2>3. pc # "reading" => wire' = <<>>
    BY <1>1, <1>3, <1>4 DEF SubInv, ClientInv
  <2>4. QED
    BY <2>2, <2>3 DEF SubInv, DeliveredInv, ClientInv
<1>11. QED
  BY <1>6, <1>7, <1>8, <1>9, <1>10 DEF SubInv

\* The first number that the buffer holds after a cursor it has not lost sight of.
LEMMA NextFollows ==
  ASSUME SubInv, NEW c \in SubCursors, ~Sub!Expired(c), ~Sub!Invalid(c), Sub!After(c) # {}
  PROVE  /\ Sub!Next1(c) \in Nat /\ Sub!Next1(c) <= number
         /\ Joins(c, Sub!At(epoch, Sub!Next1(c)))
<1>1. PICK A : A = Sub!After(c)
  OBVIOUS
<1>2. records \in Seq(Nat) /\ number \in Nat /\ epoch \in Nat \ {0}
  BY DEF SubInv, SubTypeOK
<1>3. PICK len \in Nat : len = Len(records) /\ DOMAIN records = 1..len
  BY <1>2
<1>4. \A i \in 1..len : records[i] = number - len + i /\ records[i] \in Nat
  BY <1>2, <1>3 DEF SubInv, BufferInv
<1>5. A \subseteq 1..len /\ A # {} /\ \A i \in 1..len : i \in A <=> c = Sub!Empty \/ records[i] > c.n
  BY <1>1, <1>3 DEF Sub!After
<1>6. PICK m \in A : \A j \in A : m <= j
  <2>1. ASSUME c = Sub!Empty  PROVE \E m \in A : \A j \in A : m <= j
    <3>1. PICK a \in 1..len : a \in A
      BY <1>5
    <3>2. 1 \in 1..len
      BY <3>1
    <3>3. 1 \in A /\ \A j \in A : 1 <= j
      BY <1>5, <2>1, <3>2
    <3>4. QED
      BY <3>3
  <2>2. ASSUME c # Sub!Empty  PROVE \E m \in A : \A j \in A : m <= j
    <3>1. PICK n \in Nat : n = c.n
      BY DEF SubCursors
    <3>2. PICK a \in 1..len : a \in A /\ records[a] > n
      BY <1>5, <2>2, <3>1
    <3>3. PICK k \in Int : k = n + 1 - (number - len)
      BY <1>2
    <3>4. \A i \in 1..len : i \in A <=> i >= k
      BY <1>2, <1>4, <1>5, <2>2, <3>1, <3>3
    <3>5. CASE k >= 1
      <4>1. k \in 1..len
        BY <3>2, <3>4, <3>5
      <4>2. QED
        BY <1>5, <3>4, <4>1
    <3>6. CASE k < 1
      <4>1. 1 \in 1..len /\ 1 \in A
        BY <3>2, <3>4, <3>6
      <4>2. QED
        BY <1>5, <4>1
    <3>7. QED
      BY <3>5, <3>6
  <2>3. QED
    BY <2>1, <2>2
<1>7. PICK f : f = CHOOSE i \in A : \A j \in A : i <= j
  OBVIOUS
<1>8. f \in A /\ \A j \in A : f <= j
  BY <1>6, <1>7
<1>9. Sub!Next1(c) = records[f]
  BY <1>1, <1>7 DEF Sub!Next1
<1>10. f \in 1..len /\ records[f] = number - len + f /\ records[f] \in Nat
  BY <1>4, <1>5, <1>8
<1>11. records[f] <= number
  BY <1>2, <1>10
<1>12. Sub!At(epoch, records[f]).epoch = epoch /\ Sub!At(epoch, records[f]).n = records[f]
  BY DEF Sub!At
<1>13. ASSUME c # Sub!Empty  PROVE c.epoch = epoch /\ records[f] = c.n + 1
  <2>1. PICK n \in Nat : n = c.n
    BY DEF SubCursors
  <2>2. records # <<>>
    BY <1>3, <1>10
  <2>3. Head(records) = records[1] /\ 1 \in 1..len
    BY <1>2, <1>3, <1>10, <2>2
  <2>4. c.epoch = epoch /\ ~(n < records[1] - 1)
    BY <1>13, <2>1, <2>2, <2>3 DEF Sub!Expired
  <2>5. records[f] > n
    BY <1>5, <1>8, <1>10, <1>13, <2>1
  <2>6. CASE f = 1
    BY <1>10, <2>1, <2>4, <2>5, <2>6
  <2>7. CASE f # 1
    <3>1. f - 1 \in 1..len /\ f - 1 \notin A
      BY <1>8, <1>10, <2>7
    <3>2. ~(records[f - 1] > n) /\ records[f - 1] = number - len + (f - 1)
      BY <1>4, <1>5, <1>13, <2>1, <3>1
    <3>3. PICK x \in Nat : x = records[f] /\ x = number - len + f /\ x > n
      BY <1>10, <2>5
    <3>4. ~(number - len + (f - 1) > n)
      BY <3>2
    <3>5. x = n + 1
      BY <1>2, <1>10, <3>3, <3>4
    <3>6. QED
      BY <2>1, <2>4, <3>3, <3>5
  <2>8. QED
    BY <2>6, <2>7
<1>14. Joins(c, Sub!At(epoch, records[f]))
  BY <1>2, <1>12, <1>13 DEF Joins, Sub!Follows
<1>15. QED
  BY <1>9, <1>10, <1>11, <1>14

\* The producer and its buffer.
LEMMA ProducerStep ==
  ASSUME SubInv, Sub!Produce
  PROVE  SubInv'
<1>1. /\ UNCHANGED <<epoch, number, records, changed, up, pc, cursor, outcome, start, delivered>>
      /\ BufferInv'
  BY DEF Sub!Produce, Sub!Read, Sub!Wake, Sub!Timeout, Sub!SendHeartbeat, Sub!SendData, Sub!buffer,
         Sub!client, Sub!history, SubInv, BufferInv
<1>2. producer.stage \in SubWorking
  BY DEF Sub!Produce, Sub!Read, Sub!Wake, Sub!Timeout, Sub!SendHeartbeat, Sub!SendData, SubWorking
<1>3. /\ up /\ pc = "reading" /\ producer.cursor = Previous(Len(wire) + 1) /\ wire \in Seq(SubFrames)
      /\ producer \in SubProducers /\ producer.cursor \in SubCursors /\ epoch \in Nat \ {0} /\ changed \in Nat
      /\ number \in Nat
  BY <1>2 DEF SubInv, ProducerInv, SubTypeOK, SubProducers
<1>4. Vouched(producer.cursor)
  <2>1. Len(wire) + 1 \in 1..Len(wire) + 1
    BY <1>3
  <2>2. QED
    BY <1>3, <2>1, PreviousType
<1>5. DeliveredInv' /\ ClientInv'
  BY <1>1, <1>3, ClientRests
<1>6. ASSUME producer' \in SubProducers, wire' = wire, producer'.cursor = producer.cursor,
             producer'.stage = "got" => /\ Joins(producer.cursor, Sub!At(epoch, producer'.item))
                                        /\ producer'.item <= number
      PROVE  SubInv'
  <2>1. SubTypeOK'
    BY <1>1, <1>6 DEF SubInv, SubTypeOK
  <2>2. WireInv'
    <3>1. ASSUME NEW i \in 1..Len(wire)  PROVE InLine(i)'
      <4>1. InLine(i) /\ wire[i].kind \in {"data", "heartbeat"}
        BY <1>2 DEF SubInv, WireInv, InLine
      <4>2. QED
        BY <1>1, <1>6, <4>1 DEF InLine, Previous, Vouched
    <3>2. QED
      BY <1>6, <3>1 DEF WireInv
  <2>3. ProducerInv'
    BY <1>1, <1>3, <1>6 DEF ProducerInv, Previous
  <2>4. QED
    BY <1>1, <1>5, <2>1, <2>2, <2>3 DEF SubInv
<1>7. ASSUME NEW f \in SubFrames, wire' = Append(wire, f), producer' \in SubProducers,
             f.kind = "data" => Joins(producer.cursor, f.cursor),
             f.kind = "heartbeat" => f.cursor = producer.cursor,
             f.kind = "invalid" => start = Sub!Unissued, Vouched(f.cursor),
             \/ producer'.stage = "top" /\ producer'.cursor = f.cursor /\ f.kind \in {"data", "heartbeat"}
             \/ producer'.stage = "done"
      PROVE  SubInv'
  <2>1. producer'.stage \notin SubWorking \/ f.kind \in {"data", "heartbeat"}
    BY <1>7 DEF SubWorking
  <2>2. /\ wire' \in Seq(SubFrames) /\ WireInv'
        /\ Previous(Len(wire) + 1)' = f.cursor
    BY <1>1, <1>2, <1>7, <2>1, WireGrows
  <2>3. SubTypeOK'
    BY <1>1, <1>7, <2>2 DEF SubInv, SubTypeOK
  <2>4. ProducerInv'
    BY <1>1, <1>3, <1>7, <2>2 DEF ProducerInv, SubWorking
  <2>5. QED
    BY <1>1, <1>5, <2>2, <2>3, <2>4 DEF SubInv
<1>8. ASSUME NEW kind \in {"expired", "invalid", "complete"}, Sub!Refuse(kind),
             kind = "invalid" => start = Sub!Unissued
      PROVE  SubInv'
  <2>1. PICK f : f = Sub!Frame(kind, Sub!Empty)
    OBVIOUS
  <2>2. f \in SubFrames /\ f.kind = kind /\ f.cursor = Sub!Empty
    BY <2>1 DEF Sub!Frame, Sub!Empty, SubFrames, SubCursors
  <2>3. wire' = Append(wire, f) /\ producer' = [producer EXCEPT !.stage = "done"]
    BY <1>8, <2>1 DEF Sub!Refuse, Sub!Send, Sub!Stage
  <2>4. producer' \in SubProducers /\ producer'.stage = "done"
    BY <1>3, <2>3 DEF SubProducers, SubStages
  <2>5. Vouched(f.cursor)
    BY <1>3, <2>2, SubCursorTypes DEF Vouched
  <2>6. QED
    BY <1>7, <1>8, <2>2, <2>3, <2>4, <2>5
<1>9. CASE Sub!Read
  <2>1. PICK c \in SubCursors : c = producer.cursor
    BY <1>3
  <2>2. \/ Sub!Expired(c) /\ Sub!Refuse("expired")
        \/ Sub!Invalid(c) /\ Sub!Refuse("invalid")
        \/ /\ ~Sub!Expired(c) /\ ~Sub!Invalid(c) /\ Sub!After(c) # {}
           /\ producer' = [producer EXCEPT !.stage = "got", !.item = Sub!Next1(c)] /\ UNCHANGED wire
        \/ Sub!Refuse("complete")
        \/ producer' = [producer EXCEPT !.stage = "waiting", !.seen = changed] /\ UNCHANGED wire
    BY <1>9, <2>1 DEF Sub!Read
  <2>3. Sub!Invalid(c) => start = Sub!Unissued
    BY <1>3, <1>4, <2>1 DEF Sub!Invalid, Vouched, SubCursors
  <2>4. ASSUME ~Sub!Expired(c), ~Sub!Invalid(c), Sub!After(c) # {}, UNCHANGED wire,
               producer' = [producer EXCEPT !.stage = "got", !.item = Sub!Next1(c)]
        PROVE  SubInv'
    <3>1. PICK n \in Nat : n = Sub!Next1(c) /\ n <= number /\ Joins(c, Sub!At(epoch, n))
      BY <2>4, NextFollows
    <3>2. producer' \in SubProducers /\ producer'.cursor = c /\ producer'.item = n
      BY <1>3, <2>1, <2>4, <3>1 DEF SubProducers, SubStages
    <3>3. QED
      BY <1>6, <2>1, <2>4, <3>1, <3>2
  <2>5. ASSUME producer' = [producer EXCEPT !.stage = "waiting", !.seen = changed], UNCHANGED wire
        PROVE  SubInv'
    <3>1. producer' \in SubProducers /\ producer'.cursor = producer.cursor /\ producer'.stage = "waiting"
      BY <1>3, <2>5 DEF SubProducers, SubStages
    <3>2. QED
      BY <1>6, <2>5, <3>1
  <2>6. QED
    BY <1>8, <2>2, <2>3, <2>4, <2>5
<1>10. CASE Sub!Wake \/ Sub!Timeout
  <2>1. PICK place \in {"woken", "heartbeat"} : producer' = [producer EXCEPT !.stage = place]
    BY <1>10 DEF Sub!Wake, Sub!Timeout, Sub!Stage
  <2>2. wire' = wire
    BY <1>10 DEF Sub!Wake, Sub!Timeout
  <2>3. producer' \in SubProducers /\ producer'.cursor = producer.cursor /\ producer'.stage = place
    BY <1>3, <2>1 DEF SubProducers, SubStages
  <2>4. QED
    BY <1>6, <2>2, <2>3
<1>11. CASE Sub!SendHeartbeat
  <2>1. PICK f : f = Sub!Frame("heartbeat", producer.cursor)
    OBVIOUS
  <2>2. f \in SubFrames /\ f.kind = "heartbeat" /\ f.cursor = producer.cursor
    BY <1>3, <2>1 DEF Sub!Frame, SubFrames
  <2>3. wire' = Append(wire, f) /\ producer' = [producer EXCEPT !.stage = "top"]
    BY <1>11, <2>1 DEF Sub!SendHeartbeat, Sub!HeartbeatCursor, Sub!Send, Sub!Stage
  <2>4. producer' \in SubProducers /\ producer'.stage = "top" /\ producer'.cursor = producer.cursor
    BY <1>3, <2>3 DEF SubProducers, SubStages
  <2>5. QED
    BY <1>4, <1>7, <2>2, <2>3, <2>4
<1>12. CASE Sub!SendData
  <2>1. PICK n \in Nat : n = producer.item /\ n <= number /\ Joins(producer.cursor, Sub!At(epoch, n))
    BY <1>3, <1>12 DEF Sub!SendData, SubInv, ProducerInv, SubProducers
  <2>2. PICK c \in SubCursors : c = Sub!At(epoch, n) /\ c.epoch = epoch /\ c.n = n
    <3>1. PICK c : c = Sub!At(epoch, n)
      OBVIOUS
    <3>2. c \in SubCursors /\ c.epoch = epoch /\ c.n = n
      BY <1>3, <3>1 DEF Sub!At, SubCursors
    <3>3. QED
      BY <3>1, <3>2
  <2>3. PICK f : f = Sub!Frame("data", c)
    OBVIOUS
  <2>4. f \in SubFrames /\ f.kind = "data" /\ f.cursor = c
    BY <2>3 DEF Sub!Frame, SubFrames
  <2>5. wire' = Append(wire, f) /\ producer' = [producer EXCEPT !.stage = "top", !.cursor = c]
    BY <1>12, <2>1, <2>2, <2>3 DEF Sub!SendData, Sub!Send
  <2>6. producer' \in SubProducers /\ producer'.stage = "top" /\ producer'.cursor = c
    BY <1>3, <2>5 DEF SubProducers, SubStages
  <2>7. Vouched(c)
    BY <2>1, <2>2 DEF Vouched
  <2>8. QED
    BY <1>7, <2>1, <2>2, <2>4, <2>5, <2>6, <2>7
<1>13. QED
  BY <1>9, <1>10, <1>11, <1>12 DEF Sub!Produce

\* The client connects, waits or ends: nothing is under way and nobody produces.
LEMMA ClientAlone ==
  ASSUME SubInv, UNCHANGED <<epoch, number, records, changed>>, wire' = <<>>,
         cursor' \in SubCursors, start' \in SubCursors, delivered' \in Seq(SubCursors), producer' \in SubProducers,
         DeliveredInv', Vouched(cursor)',
         outcome' # "protocol" /\ (outcome' = "invalid" => start' = Sub!Unissued),
         producer'.stage \in SubWorking => up' /\ pc' = "reading" /\ producer'.cursor = cursor' /\ producer'.stage = "top"
  PROVE  SubInv'
<1>1. Len(wire') = 0 /\ wire' \in Seq(SubFrames)
  OBVIOUS
<1>2. SubTypeOK' /\ BufferInv'
  BY <1>1 DEF SubInv, SubTypeOK, BufferInv
<1>3. WireInv'
  BY <1>1 DEF WireInv
<1>4. ProducerInv'
  BY <1>1 DEF ProducerInv, Previous, SubWorking
<1>5. ClientInv'
  BY DEF ClientInv
<1>6. QED
  BY <1>2, <1>3, <1>4, <1>5 DEF SubInv

\* The client consumes a frame.
LEMMA ClientReceives ==
  ASSUME SubInv, Sub!Receive
  PROVE  SubInv'
<1>1. /\ UNCHANGED <<epoch, number, records, changed, producer, up, start>>
      /\ pc = "reading" /\ wire # <<>> /\ wire' = Tail(wire)
  BY DEF Sub!Receive, Sub!buffer
<1>2. PICK f : f = wire[1] /\ f = Head(wire)
  BY <1>1 DEF SubInv, SubTypeOK
<1>3. PICK len \in Nat : len = Len(wire) - 1
  <2>1. wire \in Seq(SubFrames)
    BY DEF SubInv, SubTypeOK
  <2>2. Len(wire) \in Nat /\ Len(wire) # 0
    BY <1>1, <2>1
  <2>3. QED
    BY <2>2
<1>4. /\ wire \in Seq(SubFrames) /\ Len(wire) = len + 1 /\ wire' \in Seq(SubFrames) /\ Len(wire') = len
      /\ \A i \in 1..len : wire'[i] = wire[i + 1]
  BY <1>1, <1>3 DEF SubInv, SubTypeOK
<1>5. f \in SubFrames /\ InLine(1) /\ f.cursor \in SubCursors
  <2>1. 1 \in 1..Len(wire)
    BY <1>4
  <2>2. f \in SubFrames /\ InLine(1)
    BY <1>2, <1>4, <2>1 DEF SubInv, WireInv
  <2>3. QED
    BY <2>2 DEF SubFrames
<1>6. Previous(1) = cursor
  BY DEF Previous
<1>7. \/ /\ f.kind \in {"data", "heartbeat"} /\ cursor' = f.cursor /\ UNCHANGED <<pc, outcome>>
         /\ IF f.cursor = cursor THEN UNCHANGED delivered
            ELSE f.kind = "data" /\ delivered' = Append(delivered, f.cursor)
      \/ /\ f.kind \notin {"data", "heartbeat"} /\ pc' = "ended" /\ outcome' = f.kind
         /\ UNCHANGED <<cursor, delivered>>
  BY <1>2, <1>5, <1>6 DEF Sub!Receive, Sub!End, InLine
<1>8. CASE f.kind \in {"data", "heartbeat"}
  <2>1. cursor' = f.cursor /\ UNCHANGED <<pc, outcome>>
    BY <1>7, <1>8
  <2>2. \A i \in 1..len + 1 : Previous(i)' = Previous(i + 1)
    <3>1. ASSUME NEW i \in 1..len + 1  PROVE Previous(i)' = Previous(i + 1)
      <4>1. CASE i = 1
        BY <1>2, <2>1, <4>1 DEF Previous
      <4>2. CASE i # 1
        <5>1. i - 1 \in 1..len /\ (i - 1) + 1 = i /\ (i + 1) - 1 = i /\ i + 1 # 1
          BY <4>2
        <5>2. wire'[i - 1] = wire[i]
          BY <1>4, <5>1
        <5>3. QED
          BY <4>2, <5>1, <5>2 DEF Previous
      <4>3. QED
        BY <4>1, <4>2
    <3>2. QED
      BY <3>1
  <2>3. ASSUME NEW i \in 1..len  PROVE InLine(i)'
    <3>1. i + 1 \in 1..Len(wire)
      BY <1>4
    <3>2. InLine(i + 1)
      BY <3>1 DEF SubInv, WireInv
    <3>3. wire'[i] = wire[i + 1] /\ Previous(i)' = Previous(i + 1) /\ (i + 1 = Len(wire) => i = Len(wire'))
      BY <1>4, <2>2
    <3>4. QED
      BY <1>1, <3>2, <3>3 DEF InLine, Vouched
  <2>4. WireInv'
    BY <1>4, <2>3 DEF WireInv
  <2>5. ProducerInv'
    <3>1. Previous(Len(wire) + 1)' = Previous(Len(wire) + 1)
      <4>1. Previous(len + 1)' = Previous(len + 2)
        BY <2>2
      <4>2. QED
        BY <1>4, <4>1 DEF Previous
    <3>2. QED
      BY <1>1, <2>1, <3>1 DEF SubInv, ProducerInv
  <2>6. delivered' \in Seq(SubCursors) /\ DeliveredInv'
    <3>1. CASE f.cursor = cursor
      BY <1>1, <1>7, <1>8, <2>1, <3>1 DEF SubInv, SubTypeOK, DeliveredInv
    <3>2. CASE f.cursor # cursor
      <4>1. delivered' = Append(delivered, f.cursor) /\ Joins(cursor, f.cursor)
        BY <1>2, <1>5, <1>6, <1>7, <1>8, <3>2 DEF InLine
      <4>2. PICK m \in Nat : m = Len(delivered)
        BY DEF SubInv, SubTypeOK
      <4>3. /\ delivered' \in Seq(SubCursors) /\ Len(delivered') = m + 1 /\ delivered'[m + 1] = f.cursor
            /\ \A i \in 1..m : delivered'[i] = delivered[i]
        BY <1>5, <4>1, <4>2 DEF SubInv, SubTypeOK
      <4>4. cursor = Sub!Empty => delivered = <<>> /\ start = Sub!Empty
        BY SubCursorTypes DEF SubInv, DeliveredInv
      <4>5. f.cursor.epoch # 0 /\ delivered' # <<>>
        BY <4>1, <4>3 DEF Joins
      <4>6. start # Sub!Empty => Sub!Follows(start, delivered'[1])
        <5>1. CASE delivered = <<>>
          <6>1. m = 0 /\ cursor = start
            BY <4>2, <5>1 DEF SubInv, DeliveredInv
          <6>2. QED
            BY <4>1, <4>3, <6>1 DEF Joins
        <5>2. CASE delivered # <<>>
          <6>1. 1 \in 1..m
            BY <4>2, <5>2 DEF SubInv, SubTypeOK
          <6>2. QED
            BY <4>3, <5>2, <6>1 DEF SubInv, DeliveredInv
        <5>3. QED
          BY <5>1, <5>2
      <4>7. ASSUME NEW i \in 1..m  PROVE Sub!Follows(delivered'[i], delivered'[i + 1])
        <5>1. CASE i = m
          <6>1. delivered # <<>> /\ cursor = delivered[m] /\ cursor # Sub!Empty
            BY <4>2, <4>4, <4>7 DEF SubInv, DeliveredInv
          <6>2. QED
            BY <4>1, <4>3, <5>1, <6>1 DEF Joins
        <5>2. CASE i # m
          <6>1. i \in 1..m - 1 /\ i + 1 \in 1..m
            BY <5>2
          <6>2. Sub!Follows(delivered[i], delivered[i + 1])
            BY <4>2, <6>1 DEF SubInv, DeliveredInv
          <6>3. QED
            BY <4>3, <6>1, <6>2
        <5>3. QED
          BY <5>1, <5>2
      <4>8. DeliveredInv'
        <5>1. \A i \in 1..Len(delivered') - 1 : Sub!Follows(delivered'[i], delivered'[i + 1])
          BY <4>3, <4>7
        <5>2. QED
          BY <1>1, <2>1, <4>3, <4>5, <4>6, <5>1 DEF DeliveredInv, Sub!Follows
      <4>9. QED
        BY <4>3, <4>8
    <3>3. QED
      BY <3>1, <3>2
  <2>7. ClientInv'
    <3>1. Vouched(f.cursor)
      BY <1>2, <1>5 DEF InLine
    <3>2. QED
      BY <1>1, <2>1, <3>1 DEF SubInv, ClientInv, Vouched
  <2>8. SubTypeOK' /\ BufferInv'
    BY <1>1, <1>4, <1>5, <2>1, <2>6 DEF SubInv, SubTypeOK, BufferInv
  <2>9. QED
    BY <2>4, <2>5, <2>6, <2>7, <2>8 DEF SubInv
<1>9. CASE f.kind \notin {"data", "heartbeat"}
  <2>1. pc' = "ended" /\ outcome' = f.kind /\ UNCHANGED <<cursor, delivered>>
    BY <1>7, <1>9
  <2>2. 1 = Len(wire) /\ producer.stage \notin SubWorking /\ (f.kind = "invalid" => start = Sub!Unissued)
    BY <1>2, <1>5, <1>9 DEF InLine
  <2>3. wire' = <<>>
    BY <1>4, <2>2
  <2>4. DeliveredInv' /\ Vouched(cursor)'
    BY <1>1, <2>1 DEF SubInv, DeliveredInv, ClientInv, Vouched
  <2>5. outcome' # "protocol" /\ (outcome' = "invalid" => start' = Sub!Unissued)
    BY <1>1, <1>5, <2>1, <2>2 DEF SubFrames
  <2>6. /\ cursor' \in SubCursors /\ start' \in SubCursors /\ delivered' \in Seq(SubCursors) /\ producer' \in SubProducers
        /\ UNCHANGED <<epoch, number, records, changed>> /\ producer'.stage \notin SubWorking
    BY <1>1, <2>1, <2>2 DEF SubInv, SubTypeOK
  <2>7. QED
    BY <2>3, <2>4, <2>5, <2>6, ClientAlone
<1>10. QED
  BY <1>8, <1>9

\* Every other step of the client.
LEMMA ClientStep ==
  ASSUME SubInv,
         Sub!Connect \/ (\E stable \in BOOLEAN : Sub!Notice(stable)) \/ Sub!Backoff \/ Sub!Pause \/ Sub!Resume
           \/ Sub!Stop \/ Sub!Resubscribe
  PROVE  SubInv'
<1>1. /\ SubTypeOK /\ DeliveredInv /\ Vouched(cursor)
      /\ outcome # "protocol" /\ (outcome = "invalid" => start = Sub!Unissued)
  BY DEF SubInv, ClientInv
<1>2. /\ cursor \in SubCursors /\ start \in SubCursors /\ delivered \in Seq(SubCursors) /\ producer \in SubProducers
      /\ epoch \in Nat \ {0} /\ number \in Nat
  BY <1>1 DEF SubTypeOK
<1>3. Sub!Idle \in SubProducers /\ Sub!Idle.stage \notin SubWorking
  BY SubCursorTypes DEF SubWorking
<1>4. CASE Sub!Connect
  <2>1. /\ UNCHANGED <<epoch, number, records, changed, cursor, start, delivered, outcome>>
        /\ wire' = <<>> /\ up' = TRUE /\ pc' = "reading"
        /\ producer' = [Sub!Idle EXCEPT !.stage = "top", !.cursor = cursor]
    BY <1>4 DEF Sub!Connect, Sub!buffer, Sub!history
  <2>2. producer' \in SubProducers /\ producer'.stage = "top" /\ producer'.cursor = cursor
    BY <1>2, <1>3, <2>1 DEF SubProducers, SubStages
  <2>3. DeliveredInv' /\ Vouched(cursor)'
    BY <1>1, <2>1 DEF DeliveredInv, Vouched
  <2>4. QED
    BY <1>1, <1>2, <2>1, <2>2, <2>3, ClientAlone
<1>5. CASE Sub!Stop
  <2>1. /\ UNCHANGED <<epoch, number, records, changed, cursor, start, delivered>>
        /\ wire' = <<>> /\ producer' = Sub!Idle /\ outcome' = "stopped"
    BY <1>5 DEF Sub!Stop, Sub!End, Sub!buffer, Sub!history
  <2>2. DeliveredInv' /\ Vouched(cursor)'
    BY <1>1, <2>1 DEF DeliveredInv, Vouched
  <2>3. QED
    BY <1>2, <1>3, <2>1, <2>2, ClientAlone
<1>6. CASE Sub!Resubscribe
  <2>1. /\ UNCHANGED <<epoch, number, records, changed>> /\ outcome' = "none"
        /\ wire' = <<>> /\ producer' = Sub!Idle /\ cursor' = Sub!At(epoch, number) /\ start' = cursor'
        /\ delivered' = <<>>
    BY <1>6 DEF Sub!Resubscribe, Sub!buffer
  <2>2. Sub!At(epoch, number) \in SubCursors /\ Sub!At(epoch, number).epoch = epoch /\ Sub!At(epoch, number).n = number
    BY <1>2, SubCursorTypes
  <2>3. DeliveredInv' /\ Vouched(cursor)' /\ delivered' \in Seq(SubCursors)
    BY <1>2, <2>1, <2>2 DEF DeliveredInv, Vouched
  <2>4. QED
    BY <1>3, <2>1, <2>2, <2>3, ClientAlone
<1>7. CASE (\E stable \in BOOLEAN : Sub!Notice(stable)) \/ Sub!Backoff
  <2>1. /\ UNCHANGED <<epoch, number, records, changed, producer, wire, up, cursor, start, delivered>>
        /\ wire = <<>> /\ pc' # "reading" /\ producer.stage \notin SubWorking
        /\ outcome' = outcome \/ outcome' = "exhausted"
    BY <1>7 DEF Sub!Notice, Sub!Backoff, Sub!End, Sub!buffer, Sub!connection, Sub!history, SubInv, ClientInv, ProducerInv
  <2>2. DeliveredInv' /\ Vouched(cursor)'
    BY <1>1, <2>1 DEF DeliveredInv, Vouched
  <2>3. QED
    BY <1>1, <1>2, <2>1, <2>2, ClientAlone
<1>8. CASE Sub!Pause \/ Sub!Resume
  <2>1. /\ UNCHANGED <<epoch, number, records, changed, producer, wire, up, cursor, start, delivered, pc, outcome>>
    BY <1>8 DEF Sub!Pause, Sub!Resume, Sub!buffer, Sub!connection, Sub!history
  <2>2. QED
    BY <2>1 DEF SubInv, SubTypeOK, BufferInv, WireInv, InLine, ProducerInv, DeliveredInv, ClientInv, Vouched, Previous
<1>9. QED
  BY <1>4, <1>5, <1>6, <1>7, <1>8

\* A connection or a process that is lost.
LEMMA LossStep ==
  ASSUME SubInv, (\E kind \in {"interrupted", "rotation"} : Sub!Lose(kind)) \/ Sub!Restart
  PROVE  SubInv'
<1>1. CASE \E kind \in {"interrupted", "rotation"} : Sub!Lose(kind)
  <2>1. /\ Sub!Lost("interrupted") \/ Sub!Lost("rotation")
        /\ UNCHANGED <<epoch, number, records, changed, cursor, start, pc, delivered, outcome>>
    BY <1>1 DEF Sub!Lose, Sub!buffer, Sub!client, Sub!history
  <2>2. QED
    BY <2>1, ConnectionLost
<1>2. CASE Sub!Restart
  <2>1. /\ epoch' = epoch + 1 /\ number' = 0 /\ records' = <<>> /\ changed' = 1
        /\ UNCHANGED <<cursor, start, pc, delivered, outcome>>
        /\ IF up THEN Sub!Lost("interrupted") ELSE UNCHANGED <<producer, wire, up>>
    BY <1>2 DEF Sub!Restart, Sub!client, Sub!history
  <2>2. CASE up
    BY <2>1, <2>2, ConnectionLost
  <2>3. CASE ~up
    <3>1. UNCHANGED <<producer, wire, up>> /\ producer.stage \notin SubWorking
      BY <2>1, <2>3 DEF SubInv, ProducerInv
    <3>2. SubTypeOK
      BY DEF SubInv
    <3>3. SubTypeOK'
      <4>1. epoch + 1 \in Nat \ {0} /\ <<>> \in Seq(Nat)
        BY <3>2 DEF SubTypeOK
      <4>2. QED
        BY <2>1, <3>1, <3>2, <4>1 DEF SubTypeOK
    <3>4. BufferInv'
      BY <2>1 DEF BufferInv
    <3>5. \A c \in SubCursors : Vouched(c) => Vouched(c)'
      BY <2>1, <3>2 DEF Vouched, SubCursors, SubTypeOK
    <3>6. WireInv'
      <4>1. ASSUME NEW i \in 1..Len(wire)  PROVE InLine(i)'
        <5>1. InLine(i) /\ wire[i] \in SubFrames
          BY <3>2 DEF SubInv, WireInv, SubTypeOK
        <5>2. PICK c \in SubCursors : c = wire[i].cursor
          BY <5>1 DEF SubFrames
        <5>3. Vouched(c)'
          BY <3>5, <5>1, <5>2 DEF InLine
        <5>4. Vouched(wire[i].cursor)'
          BY <3>1, <5>2, <5>3 DEF Vouched
        <5>5. QED
          BY <2>1, <3>1, <5>1, <5>4 DEF InLine, Previous
      <4>2. QED
        BY <3>1, <4>1 DEF WireInv
    <3>7. ProducerInv'
      BY <3>1 DEF ProducerInv, SubWorking
    <3>8. DeliveredInv' /\ ClientInv'
      <4>1. cursor \in SubCursors /\ Vouched(cursor)
        BY <3>2 DEF SubInv, SubTypeOK, ClientInv
      <4>2. Vouched(cursor)'
        BY <2>1, <3>5, <4>1 DEF Vouched
      <4>3. QED
        BY <2>1, <3>1, <4>2 DEF SubInv, DeliveredInv, ClientInv
    <3>9. QED
      BY <3>3, <3>4, <3>6, <3>7, <3>8 DEF SubInv
  <2>4. QED
    BY <2>2, <2>3
<1>3. QED
  BY <1>1, <1>2

\* For any buffer and any window: the frames under way and what the producer has in hand
\* continue what the client has delivered, through pauses, lost connections, restarts
\* and new subscriptions.
THEOREM SubscriptionInvariant == StreamsSpec => []SubInv
<1>1. ASSUME StreamsInit  PROVE SubInv
  <2>1. /\ epoch = 1 /\ number = 0 /\ records = <<>> /\ changed = 1 /\ producer = Sub!Idle /\ wire = <<>>
        /\ cursor \in {Sub!Empty, Sub!At(1, 0), Sub!Unissued} /\ start = cursor /\ delivered = <<>>
        /\ outcome = "none"
    BY <1>1 DEF StreamsInit, Sub!Init
  <2>2. cursor \in SubCursors /\ (cursor = Sub!Unissued \/ cursor.epoch < 1 \/ (cursor.epoch = 1 /\ cursor.n = 0))
    BY <2>1, SubCursorTypes DEF Sub!At, Sub!Empty, SubCursors
  <2>3. SubTypeOK
    BY <2>1, <2>2, SubCursorTypes DEF SubTypeOK
  <2>4. Len(wire) = 0 /\ Len(records) = 0 /\ Len(delivered) = 0
    BY <2>1
  <2>5. BufferInv /\ WireInv /\ DeliveredInv
    BY <2>1, <2>4 DEF BufferInv, WireInv, DeliveredInv
  <2>6. ProducerInv
    BY <2>1, SubCursorTypes DEF ProducerInv, SubWorking
  <2>7. ClientInv
    BY <2>1, <2>2 DEF ClientInv, Vouched
  <2>8. QED
    BY <2>3, <2>5, <2>6, <2>7 DEF SubInv
<1>2. ASSUME SubInv, [StreamsNext]_<<subject, vars, subscription>>  PROVE SubInv'
  <2>1. CASE Sub!Next
    BY <1>2, <2>1, BufferStep, LossStep, ProducerStep, ClientReceives, ClientStep DEF Sub!Next, Sub!Consume
  <2>2. CASE UNCHANGED subscription
    BY <1>2, <2>2 DEF subscription, SubInv, SubTypeOK, BufferInv, WireInv, InLine, ProducerInv, DeliveredInv,
         ClientInv, Vouched, Previous
  <2>3. QED
    BY <1>2, <2>1, <2>2 DEF StreamsNext
<1>3. QED
  BY <1>1, <1>2, PTL DEF StreamsSpec

\* For any capacity of the buffer, window and number of reconnections: a subscription
\* delivers the published sequence without gap, repetition or change of order, and no
\* correct server is taken for a broken one.
THEOREM EventsCorrect == StreamsSpec => []DeliversInOrder
<1>1. SubInv => DeliversInOrder
  BY DEF SubInv, DeliveredInv, ClientInv, DeliversInOrder, Sub!DeliversInOrder
<1>2. QED
  BY <1>1, SubscriptionInvariant, PTL
=============================================================================
