------------------------------- MODULE Server -------------------------------
(***************************************************************************)
(* Server.Serve, the sidecar's request loop: the goroutine that scans the  *)
(* input, the pool of workers behind a bounded queue, the registry of      *)
(* active requests, the credit window of every stream and the one encoder  *)
(* they all write to.                                                      *)
(*                                                                         *)
(* A request is named by its number, the identity of its serverRequest; a  *)
(* worker is the request it works on.  Handlers are application code: they *)
(* return, or send frames, when they like.                                 *)
(***************************************************************************)
EXTENDS Integers, Sequences, FiniteSets

CONSTANTS
  Ids,           \* request ids
  NoId,          \* the empty id
  RequestIds,    \* the ids that requests of this instance carry
  Tokens,        \* the values of meta["token"], the empty one left out
  MaxRequests,   \* request lines on the input: bounds the model
  MaxConcurrent, \* Server.MaxConcurrentRequests
  MaxPending,    \* Server.MaxPendingRequests
  Window,        \* stream_window of every stream
  MaxFrames      \* frames a handler sends on one stream: bounds the model

ASSUME ServerAssumption ==
  /\ NoId \notin Ids
  /\ RequestIds \subseteq Ids \cup {NoId}
  /\ {MaxRequests, MaxPending, MaxFrames} \subseteq Nat
  /\ {MaxConcurrent, Window} \subseteq Nat \ {0}

VARIABLES
  count,      \* how many requests were registered or refused
  request,    \* id, token and kind of each of them
  stage,      \* where each of them is
  requests,   \* serverRequestRegistry.requests, 0 where an id is free
  jobs,       \* the queue of the workers
  cancelled,  \* is the request's own context done?
  sequence,   \* StreamWriter.sequence
  werr,       \* StreamWriter.err # nil
  flow,       \* streamFlow of each request
  scan,       \* where the scanning goroutine is
  releasing,  \* the credits it still has to return, and to whom
  dispatch,   \* is dispatchCtx done?
  broken,     \* serverResponseEncoder.err # nil
  out         \* the responses written for each request

worker == <<sequence, werr>>
reader == <<count, request, scan, releasing>>
encoder == <<dispatch, broken, out>>
vars == <<count, request, stage, requests, jobs, cancelled, sequence, werr, flow, scan,
          releasing, dispatch, broken, out>>

Requests == 1..MaxRequests
Kinds == {"unary", "stream"}
Nobody == [id |-> NoId, token |-> "none", kind |-> "unary"]

Init ==
  /\ count = 0
  /\ request = [r \in Requests |-> Nobody]
  /\ stage = [r \in Requests |-> "none"]
  /\ requests = [id \in Ids |-> 0]
  /\ jobs = <<>>
  /\ cancelled = [r \in Requests |-> FALSE]
  /\ sequence = [r \in Requests |-> 0]
  /\ werr = [r \in Requests |-> FALSE]
  /\ flow = [r \in Requests |-> [credits |-> Window, sent |-> 0, acked |-> 0]]
  /\ scan = "scan"
  /\ releasing = [request |-> 0, left |-> 0]
  /\ dispatch = FALSE /\ broken = FALSE
  /\ out = [r \in Requests |-> <<>>]

\* Every request context is derived from dispatchCtx.
Done(r) == cancelled[r] \/ dispatch
Streams(r) == request[r].kind = "stream"
Goto(r, place) == stage' = [stage EXCEPT ![r] = place]
Cancel(rs) == cancelled' = [r \in Requests |-> cancelled[r] \/ r \in rs]

\* serverResponseEncoder.Encode: after the first error nothing is written, and
\* the first error cancels dispatchCtx.
Encode(r, frame) ==
  \/ broken /\ UNCHANGED encoder
  \/ /\ ~broken
     /\ out' = [out EXCEPT ![r] = Append(@, frame)]
     /\ UNCHANGED <<dispatch, broken>>
  \/ /\ ~broken
     /\ broken' = TRUE /\ dispatch' = TRUE
     /\ UNCHANGED out

Response(code) == [kind |-> code, sequence |-> 0]
Frame(kind, n) == [kind |-> kind, sequence |-> n]

-----------------------------------------------------------------------------
(***************************************************************************)
(* The registry.  Each operation is one section under its mutex.           *)
(***************************************************************************)

Free(id) == id \notin {i \in Ids : requests[i] # 0}

Entered(r, id) ==
  IF id = NoId THEN requests ELSE [requests EXCEPT ![id] = r]

\* serverRequestRegistry.Complete: the entry goes only if it is this request's.
Removed(r) == [id \in Ids |-> IF requests[id] = r THEN 0 ELSE requests[id]]

\* Mutant: the end of the input leaves streams alone.
NoStreams == {}

\* What CancelStreams cancels.
ActiveStreams == {r \in {requests[id] : id \in Ids} \ {0} : Streams(r)}

-----------------------------------------------------------------------------
(***************************************************************************)
(* The scanning goroutine.  A line that arrives after dispatchCtx is done  *)
(* ends the loop.                                                          *)
(***************************************************************************)
Scanning == scan = "scan" /\ ~dispatch

\* A line that is not JSON is answered without an id.
InvalidLine ==
  /\ Scanning
  /\ broken' \in {broken, TRUE}
  /\ dispatch' = broken'
  /\ scan' = IF broken' THEN "ending" ELSE "scan"
  /\ UNCHANGED <<count, request, stage, requests, jobs, cancelled, releasing, flow,
                 out>>
  /\ UNCHANGED worker

Register(id, token, kind) ==
  /\ Scanning
  /\ count < MaxRequests
  /\ Free(id)
  /\ count' = count + 1
  /\ request' = [request EXCEPT ![count'] = [id |-> id, token |-> token, kind |-> kind]]
  /\ requests' = Entered(count', id)
  /\ Goto(count', "registered")
  /\ scan' = "select"
  /\ UNCHANGED <<jobs, cancelled, flow, releasing>>
  /\ UNCHANGED worker /\ UNCHANGED encoder

Duplicate(id, token, kind) ==
  /\ Scanning
  /\ count < MaxRequests
  /\ ~Free(id)
  /\ count' = count + 1
  /\ request' = [request EXCEPT ![count'] = [id |-> id, token |-> token, kind |-> kind]]
  /\ Goto(count', "refused")
  /\ Encode(count', Response("duplicate_request"))
  /\ scan' = IF broken' THEN "ending" ELSE "scan"
  /\ UNCHANGED <<requests, jobs, cancelled, flow, releasing>>
  /\ UNCHANGED worker

\* Mutant: a request that finds the queue full stays registered.
BusyStaysRegistered ==
  /\ scan = "select"
  /\ Len(jobs) >= MaxPending /\ ~dispatch
  /\ Cancel({count})
  /\ Goto(count, "refused")
  /\ Encode(count, Response("server_busy"))
  /\ scan' = IF broken' THEN "ending" ELSE "scan"
  /\ UNCHANGED <<count, request, requests, jobs, flow, releasing>>
  /\ UNCHANGED worker

\* The default branch of the select.
Busy ==
  /\ scan = "select"
  /\ Len(jobs) >= MaxPending /\ ~dispatch
  /\ requests' = Removed(count)
  /\ Cancel({count})
  /\ Goto(count, "refused")
  /\ Encode(count, Response("server_busy"))
  /\ scan' = IF broken' THEN "ending" ELSE "scan"
  /\ UNCHANGED <<count, request, jobs, flow, releasing>>
  /\ UNCHANGED worker

Enqueue ==
  /\ scan = "select"
  /\ Len(jobs) < MaxPending
  /\ jobs' = Append(jobs, count)
  /\ Goto(count, "queued")
  /\ scan' = "scan"
  /\ UNCHANGED <<count, request, requests, cancelled, flow, releasing>>
  /\ UNCHANGED worker /\ UNCHANGED encoder

Abandon ==
  /\ scan = "select"
  /\ dispatch
  /\ requests' = Removed(count)
  /\ Cancel({count})
  /\ Goto(count, "done")
  /\ scan' = "ending"
  /\ UNCHANGED <<count, request, jobs, flow, releasing>>
  /\ UNCHANGED worker /\ UNCHANGED encoder

\* rpc.cancel: id and token must be those of an active request.
CancelLine(id, token) ==
  /\ Scanning
  /\ requests[id] # 0
  /\ request[requests[id]].token = token
  /\ Cancel({requests[id]})
  /\ UNCHANGED <<count, request, stage, requests, jobs, flow, scan, releasing>>
  /\ UNCHANGED worker /\ UNCHANGED encoder

\* Mutant: acknowledgements beyond the frames sent count.
AcknowledgeableAhead(f, n) == n > f.acked

Acknowledgeable(f, n) == n > f.acked /\ n <= f.sent

\* rpc.stream_ack of frame n: the section under streamFlow.mu.
AckLine(id, token, n) ==
  /\ Scanning
  /\ requests[id] # 0
  /\ LET r == requests[id] IN
       /\ Streams(r)
       /\ request[r].token = token
       /\ Acknowledgeable(flow[r], n)
       /\ releasing' = [request |-> r, left |-> n - flow[r].acked]
       /\ flow' = [flow EXCEPT ![r].acked = n]
  /\ scan' = "release"
  /\ UNCHANGED <<count, request, stage, requests, jobs, cancelled>>
  /\ UNCHANGED worker /\ UNCHANGED encoder

\* The loop after it returns one credit after the other, until the channel is full.
ReleaseCredit ==
  /\ scan = "release"
  /\ LET r == releasing.request
         full == flow[r].credits >= Window
         left == IF full THEN 0 ELSE releasing.left - 1
     IN /\ flow' = [flow EXCEPT ![r].credits = IF full THEN @ ELSE @ + 1]
        /\ releasing' = IF left = 0 THEN [request |-> 0, left |-> 0]
                                    ELSE [request |-> r, left |-> left]
        /\ scan' = IF left = 0 THEN "scan" ELSE "release"
  /\ UNCHANGED <<count, request, stage, requests, jobs, cancelled>>
  /\ UNCHANGED worker /\ UNCHANGED encoder

\* End of the input, a scanner error or a break; then CancelStreams and close(jobs).
EndScan ==
  /\ scan \in {"scan", "ending"}
  /\ Cancel(ActiveStreams)
  /\ scan' = "closed"
  /\ UNCHANGED <<count, request, stage, requests, jobs, flow, releasing>>
  /\ UNCHANGED worker /\ UNCHANGED encoder

\* The context given to Serve is cancelled.
ParentCancel ==
  /\ ~dispatch
  /\ scan # "returned"
  /\ dispatch' = TRUE
  /\ UNCHANGED <<count, request, stage, requests, jobs, cancelled, flow, scan, releasing,
                 broken, out>>
  /\ UNCHANGED worker

-----------------------------------------------------------------------------
(***************************************************************************)
(* The workers                                                             *)
(***************************************************************************)
Running == {r \in Requests :
              stage[r] \in {"taken", "handling", "acquiring", "credited", "emitting",
                            "completing"}}

Take ==
  /\ jobs # <<>>
  /\ Cardinality(Running) < MaxConcurrent
  /\ jobs' = Tail(jobs)
  /\ Goto(Head(jobs), "taken")
  /\ UNCHANGED <<requests, cancelled, flow>>
  /\ UNCHANGED reader /\ UNCHANGED worker /\ UNCHANGED encoder

\* A request cancelled in the queue is not dispatched.
Begin(r) ==
  /\ stage[r] = "taken"
  /\ Goto(r, IF Done(r) THEN "completing" ELSE "handling")
  /\ UNCHANGED <<requests, jobs, cancelled, flow>>
  /\ UNCHANGED reader /\ UNCHANGED worker /\ UNCHANGED encoder

\* A unary handler returns, cancelled or not, and its response is written.
Reply(r) ==
  /\ stage[r] = "handling" /\ ~Streams(r)
  /\ Encode(r, Response("response"))
  /\ Goto(r, "completing")
  /\ UNCHANGED <<requests, jobs, cancelled, flow>>
  /\ UNCHANGED reader /\ UNCHANGED worker

\* StreamWriter.Send or Report up to the call of emit.
Send(r) ==
  /\ stage[r] = "handling" /\ Streams(r)
  /\ sequence[r] < MaxFrames
  /\ ~werr[r] /\ ~Done(r)
  /\ sequence' = [sequence EXCEPT ![r] = @ + 1]
  /\ Goto(r, "acquiring")
  /\ UNCHANGED <<requests, jobs, cancelled, flow, werr>>
  /\ UNCHANGED reader /\ UNCHANGED encoder

\* The select of streamFlow.Acquire.
Acquire(r) ==
  /\ stage[r] = "acquiring"
  /\ \/ /\ Done(r)
        /\ werr' = [werr EXCEPT ![r] = TRUE]
        /\ Goto(r, "handling")
        /\ UNCHANGED flow
     \/ /\ flow[r].credits > 0
        /\ flow' = [flow EXCEPT ![r].credits = @ - 1]
        /\ Goto(r, "credited")
        /\ UNCHANGED werr
  /\ UNCHANGED <<requests, jobs, cancelled, sequence>>
  /\ UNCHANGED reader /\ UNCHANGED encoder

\* The section of Acquire under streamFlow.mu.
NoteSent(r) ==
  /\ stage[r] = "credited"
  /\ flow' = [flow EXCEPT ![r].sent = IF sequence[r] > @ THEN sequence[r] ELSE @]
  /\ Goto(r, "emitting")
  /\ UNCHANGED <<requests, jobs, cancelled>>
  /\ UNCHANGED reader /\ UNCHANGED worker /\ UNCHANGED encoder

Emit(r) ==
  /\ stage[r] = "emitting"
  /\ Encode(r, Frame("data", sequence[r]))
  /\ werr' = [werr EXCEPT ![r] = broken']
  /\ Goto(r, "handling")
  /\ UNCHANGED <<requests, jobs, cancelled, flow, sequence>>
  /\ UNCHANGED reader

\* Mutant: the final frame repeats the number of the last one.
FinishSameNumber(r) ==
  /\ stage[r] = "handling" /\ Streams(r)
  /\ IF werr[r] \/ Done(r)
     THEN UNCHANGED encoder
     ELSE Encode(r, Frame("complete", sequence[r]))
  /\ Goto(r, "completing")
  /\ UNCHANGED <<requests, jobs, cancelled, flow, sequence, werr>>
  /\ UNCHANGED reader

\* The handler of a stream returns; the final frame needs no credit and is left
\* out if an emit failed or the request is cancelled.
Finish(r) ==
  /\ stage[r] = "handling" /\ Streams(r)
  /\ IF werr[r] \/ Done(r)
     THEN UNCHANGED encoder /\ UNCHANGED worker
     ELSE /\ sequence' = [sequence EXCEPT ![r] = @ + 1]
          /\ Encode(r, Frame("complete", sequence'[r]))
          /\ werr' = [werr EXCEPT ![r] = broken']
  /\ Goto(r, "completing")
  /\ UNCHANGED <<requests, jobs, cancelled, flow>>
  /\ UNCHANGED reader

Complete(r) ==
  /\ stage[r] = "completing"
  /\ requests' = Removed(r)
  /\ Cancel({r})
  /\ Goto(r, "done")
  /\ UNCHANGED <<jobs, flow>>
  /\ UNCHANGED reader /\ UNCHANGED worker /\ UNCHANGED encoder

\* workers.Wait returns once the closed queue is empty and no worker is busy.
Return ==
  /\ scan = "closed"
  /\ jobs = <<>> /\ Running = {}
  /\ scan' = "returned"
  /\ UNCHANGED <<count, request, stage, requests, jobs, cancelled, flow, releasing>>
  /\ UNCHANGED worker /\ UNCHANGED encoder

Scan ==
  \/ InvalidLine
  \/ \E id \in RequestIds, token \in Tokens, kind \in Kinds : Register(id, token, kind)
  \/ \E id \in RequestIds, token \in Tokens, kind \in Kinds : Duplicate(id, token, kind)
  \/ Busy \/ Enqueue \/ Abandon
  \/ \E id \in Ids, token \in Tokens : CancelLine(id, token)
  \/ \E id \in Ids, token \in Tokens, n \in 0..MaxFrames + 2 : AckLine(id, token, n)
  \/ ReleaseCredit \/ EndScan \/ Return

Work(r) ==
  \/ Begin(r) \/ Reply(r) \/ Send(r) \/ Acquire(r) \/ NoteSent(r) \/ Emit(r)
  \/ Finish(r) \/ Complete(r)

Next ==
  \/ Scan \/ ParentCancel \/ Take
  \/ \E r \in Requests : Work(r)

Spec == Init /\ [][Next]_vars

\* Goroutines run, writes end and handlers return.  Lines, the end of the input and
\* the frames of a handler come when they like.
Fairness ==
  /\ WF_vars(Busy \/ Enqueue \/ Abandon \/ ReleaseCredit \/ Return)
  /\ WF_vars(scan = "ending" /\ EndScan)
  /\ WF_vars(Take)
  /\ \A r \in Requests :
       WF_vars(Begin(r) \/ Reply(r) \/ Acquire(r) \/ NoteSent(r) \/ Emit(r) \/ Finish(r)
               \/ Complete(r))

FairSpec == Spec /\ Fairness

-----------------------------------------------------------------------------
(***************************************************************************)
(* Properties                                                              *)
(***************************************************************************)
Live(r) == r \in Running \/ stage[r] \in {"registered", "queued"}

\* The registry names exactly the live requests that carry an id, each under its
\* id: nothing leaks, no late control line finds a request that has ended, and no
\* two live requests share an id.
RegistryAgrees ==
  /\ \A id \in Ids : requests[id] # 0 =>
       Live(requests[id]) /\ request[requests[id]].id = id
  /\ \A r \in Requests : Live(r) /\ request[r].id # NoId => requests[request[r].id] = r

\* Credits are neither lost nor minted, whatever is acknowledged and however the
\* releases interleave with a producer: those in the channel, those of frames under
\* way and those being returned or just taken add up to the window.
CreditsConserved ==
  \A r \in Requests :
    flow[r].credits + (flow[r].sent - flow[r].acked)
      + (IF releasing.request = r THEN releasing.left ELSE 0)
      + (IF stage[r] = "credited" THEN 1 ELSE 0)
    = Window

\* The frames of a stream are numbered 1, 2, 3 without gap or repetition, and
\* nothing follows the final frame (stream.go emitFrame).
FramesInOrder ==
  \A r \in Requests : Streams(r) /\ stage[r] # "refused" =>
    \A i \in DOMAIN out[r] :
      /\ out[r][i].sequence = i
      /\ out[r][i].kind = "complete" => i = Len(out[r])

\* Serve returns once the input has ended, streams that nobody acknowledges included.
ServeReturns == scan = "closed" ~> scan = "returned"
=============================================================================
