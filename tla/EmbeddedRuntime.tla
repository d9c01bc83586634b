--------------------------- MODULE EmbeddedRuntime ---------------------------
(***************************************************************************)
(* EmbeddedRuntime: requests dispatched inside the application process,    *)
(* streams whose frames the host pulls one by one from an unbuffered       *)
(* channel, cancellation by id and a Close that waits for all of them and  *)
(* then shuts the application down once.                                   *)
(*                                                                         *)
(* Sections under runtime.mu are one step each.  Handlers are application  *)
(* code: they send frames and return when they like.                       *)
(***************************************************************************)
EXTENDS Integers, Sequences, FiniteSets

CONSTANTS
  Ids,        \* request ids
  NoId,       \* the empty id, allowed for unary requests
  Closers,    \* calls of Close
  MaxRequests, \* requests: bounds the model
  MaxFrames   \* frames of one stream before the final one: bounds the model

ASSUME EmbeddedRuntimeAssumption ==
  /\ NoId \notin Ids
  /\ {MaxRequests, MaxFrames} \subseteq Nat

VARIABLES
  state,      \* runtime.state
  root,       \* is rootContext done?
  requests,   \* runtime.requests, 0 where an id is free
  count,      \* requests begun or refused so far
  request,    \* id and kind of each
  stage,      \* where its goroutine is
  cancelled,  \* is its own context done?
  sequence, werr, sent,   \* its stream writer, and whether the final frame is out
  err,        \* what DispatchStream returned; "open" before the channel is closed
  pulling,    \* a NextJSON of the host waits for it
  got,        \* history: what NextJSON returned for it
  finisher,   \* where finishClose is
  closeErr,   \* runtime.closeErr
  closer,     \* where each call of Close is
  answer      \* history: what it returned

writer == <<sequence, werr, sent>>
stream == <<err, pulling, got>>
lifecycle == <<state, root, finisher, closeErr, closer, answer>>
vars == <<state, root, requests, count, request, stage, cancelled, sequence, werr, sent,
          err, pulling, got, finisher, closeErr, closer, answer>>

Requests == 1..MaxRequests
Kinds == {"unary", "stream"}

Init ==
  /\ state = "open" /\ root = FALSE
  /\ requests = [id \in Ids |-> 0]
  /\ count = 0
  /\ request = [r \in Requests |-> [id |-> NoId, kind |-> "unary"]]
  /\ stage = [r \in Requests |-> "none"]
  /\ cancelled = [r \in Requests |-> FALSE]
  /\ sequence = [r \in Requests |-> 0]
  /\ werr = [r \in Requests |-> FALSE]
  /\ sent = [r \in Requests |-> FALSE]
  /\ err = [r \in Requests |-> "open"]
  /\ pulling = [r \in Requests |-> FALSE]
  /\ got = [r \in Requests |-> <<>>]
  /\ finisher = "none" /\ closeErr = "nil"
  /\ closer = [c \in Closers |-> "none"]
  /\ answer = [c \in Closers |-> "none"]

Goto(r, place) == stage' = [stage EXCEPT ![r] = place]
Done(r) == cancelled[r] \/ root
Streams(r) == request[r].kind = "stream"
Active == {r \in Requests : stage[r] \notin {"none", "refused", "done"}}

-----------------------------------------------------------------------------
(***************************************************************************)
(* Requests                                                                *)
(***************************************************************************)

\* Mutant: a runtime that is closing still accepts requests.
MayBeginClosing(id) == state # "closed" /\ id \notin {i \in Ids : requests[i] # 0}

MayBegin(id) == state = "open" /\ id \notin {i \in Ids : requests[i] # 0}

\* CallJSON or StreamJSON up to the return of beginRequest.
beginRequest(id, kind) ==
  /\ count < MaxRequests
  /\ kind = "stream" => id # NoId
  /\ count' = count + 1
  /\ request' = [request EXCEPT ![count'] = [id |-> id, kind |-> kind]]
  /\ IF MayBegin(id)
     THEN /\ Goto(count', "handling")
          /\ requests' = IF id = NoId THEN requests ELSE [requests EXCEPT ![id] = count']
     ELSE Goto(count', "refused") /\ UNCHANGED requests
  /\ UNCHANGED cancelled /\ UNCHANGED writer /\ UNCHANGED stream /\ UNCHANGED lifecycle

\* The handler of a unary request returns.
Return(r) ==
  /\ stage[r] = "handling" /\ ~Streams(r)
  /\ Goto(r, "finish")
  /\ UNCHANGED <<requests, count, request, cancelled>>
  /\ UNCHANGED writer /\ UNCHANGED stream /\ UNCHANGED lifecycle

\* StreamWriter.emitFrame up to the select that offers the frame.
Send(r) ==
  /\ stage[r] = "handling" /\ Streams(r)
  /\ sequence[r] < MaxFrames
  /\ ~werr[r] /\ ~Done(r)
  /\ sequence' = [sequence EXCEPT ![r] = @ + 1]
  /\ Goto(r, "offering")
  /\ UNCHANGED <<requests, count, request, cancelled, werr, sent>>
  /\ UNCHANGED stream /\ UNCHANGED lifecycle

\* The handler of a stream returns and DispatchStream sends the final frame.
ReturnStream(r) ==
  /\ stage[r] = "handling" /\ Streams(r)
  /\ IF werr[r] \/ Done(r)
     THEN Goto(r, "dispatched") /\ UNCHANGED sequence
     ELSE Goto(r, "completing") /\ sequence' = [sequence EXCEPT ![r] = @ + 1]
  /\ UNCHANGED <<requests, count, request, cancelled, werr, sent>>
  /\ UNCHANGED stream /\ UNCHANGED lifecycle

Resumed(r) == IF stage[r] = "offering" THEN "handling" ELSE "dispatched"

\* The host takes the frame: the two sides of the channel meet.
HandOver(r) ==
  /\ stage[r] \in {"offering", "completing"}
  /\ pulling[r]
  /\ pulling' = [pulling EXCEPT ![r] = FALSE]
  /\ got' = [got EXCEPT ![r] = Append(@, sequence[r])]
  /\ sent' = [sent EXCEPT ![r] = stage[r] = "completing"]
  /\ Goto(r, Resumed(r))
  /\ UNCHANGED <<requests, count, request, cancelled, sequence, werr, err>>
  /\ UNCHANGED lifecycle

\* Mutant: an offered frame waits for the host only.
NeverGivesUp(r) == FALSE

GivesUp(r) == Done(r)

\* The other branch of the select.
Interrupted(r) ==
  /\ stage[r] \in {"offering", "completing"}
  /\ GivesUp(r)
  /\ werr' = [werr EXCEPT ![r] = TRUE]
  /\ Goto(r, Resumed(r))
  /\ UNCHANGED <<requests, count, request, cancelled, sequence, sent>>
  /\ UNCHANGED stream /\ UNCHANGED lifecycle

\* Mutant: the result of DispatchStream is dropped.
ResultDropped(r) == "nil"

Result(r) == IF sent[r] THEN "nil" ELSE "error"

\* EmbeddedJSONStream.finish: error and close of the channel under its mutex.
FinishStream(r) ==
  /\ stage[r] = "dispatched"
  /\ err' = [err EXCEPT ![r] = Result(r)]
  /\ Goto(r, "finish")
  /\ UNCHANGED <<requests, count, request, cancelled, pulling, got>>
  /\ UNCHANGED writer /\ UNCHANGED lifecycle

\* The function beginRequest returned: the context, then the entry ...
Finish(r) ==
  /\ stage[r] = "finish"
  /\ cancelled' = [cancelled EXCEPT ![r] = TRUE]
  /\ requests' = [id \in Ids |-> IF id = request[r].id THEN 0 ELSE requests[id]]
  /\ Goto(r, "deleted")
  /\ UNCHANGED <<count, request>>
  /\ UNCHANGED writer /\ UNCHANGED stream /\ UNCHANGED lifecycle

\* ... then the wait group.
ActiveDone(r) ==
  /\ stage[r] = "deleted"
  /\ Goto(r, "done")
  /\ UNCHANGED <<requests, count, request, cancelled>>
  /\ UNCHANGED writer /\ UNCHANGED stream /\ UNCHANGED lifecycle

Cancel(id) ==
  /\ requests[id] # 0
  /\ cancelled' = [cancelled EXCEPT ![requests[id]] = TRUE]
  /\ UNCHANGED <<requests, count, request, stage>>
  /\ UNCHANGED writer /\ UNCHANGED stream /\ UNCHANGED lifecycle

-----------------------------------------------------------------------------
(***************************************************************************)
(* The host's NextJSON                                                     *)
(***************************************************************************)
Ended(r) == \E i \in DOMAIN got[r] : got[r][i] = 0

NextJSON(r) ==
  /\ Streams(r) /\ stage[r] \notin {"none", "refused"}
  /\ ~pulling[r] /\ ~Ended(r)
  /\ pulling' = [pulling EXCEPT ![r] = TRUE]
  /\ UNCHANGED <<requests, count, request, stage, cancelled, err, got>>
  /\ UNCHANGED writer /\ UNCHANGED lifecycle

\* The closed channel yields the end of the stream, 0 in the history.
NextEnds(r) ==
  /\ pulling[r] /\ err[r] # "open"
  /\ pulling' = [pulling EXCEPT ![r] = FALSE]
  /\ got' = [got EXCEPT ![r] = Append(@, 0)]
  /\ UNCHANGED <<requests, count, request, stage, cancelled, err>>
  /\ UNCHANGED writer /\ UNCHANGED lifecycle

-----------------------------------------------------------------------------
(***************************************************************************)
(* Close                                                                   *)
(***************************************************************************)

FirstClose == state = "open"

Close(c) ==
  /\ closer[c] = "none"
  /\ IF FirstClose
     THEN state' = "closing" /\ root' = TRUE /\ finisher' = "waiting"
     ELSE UNCHANGED <<state, root, finisher>>
  /\ closer' = [closer EXCEPT ![c] = "waiting"]
  /\ UNCHANGED <<closeErr, answer, requests, count, request, stage, cancelled>>
  /\ UNCHANGED writer /\ UNCHANGED stream

MayAnswer == state = "closed"   \* closeDone is closed

CloseReturns(c) ==
  /\ closer[c] = "waiting"
  /\ \/ MayAnswer /\ answer' = [answer EXCEPT ![c] = closeErr]
     \/ answer' = [answer EXCEPT ![c] = "deadline"]
  /\ closer' = [closer EXCEPT ![c] = "returned"]
  /\ UNCHANGED <<state, root, finisher, closeErr, requests, count, request,
                 stage, cancelled>>
  /\ UNCHANGED writer /\ UNCHANGED stream

\* finishClose: active.Wait, the shutdown callback, the result.
WaitReturns ==
  /\ finisher = "waiting"
  /\ Active = {}
  /\ finisher' = "shutdown"
  /\ UNCHANGED <<state, root, closeErr, closer, answer, requests, count, request, stage,
                 cancelled>>
  /\ UNCHANGED writer /\ UNCHANGED stream

finishClose(result) ==
  /\ finisher = "shutdown"
  /\ finisher' = "done"
  /\ closeErr' = result /\ state' = "closed"
  /\ UNCHANGED <<root, closer, answer, requests, count, request, stage, cancelled>>
  /\ UNCHANGED writer /\ UNCHANGED stream

Run(r) ==
  \/ Return(r) \/ ReturnStream(r) \/ HandOver(r) \/ Interrupted(r) \/ FinishStream(r)
  \/ Finish(r) \/ ActiveDone(r)

\* Everything but the return of the shutdown callback.
Operate ==
  \/ \E id \in Ids \cup {NoId}, kind \in Kinds : beginRequest(id, kind)
  \/ \E r \in Requests : Run(r) \/ Send(r) \/ NextJSON(r) \/ NextEnds(r)
  \/ \E id \in Ids : Cancel(id)
  \/ \E c \in Closers : Close(c) \/ CloseReturns(c)
  \/ WaitReturns

Next == Operate \/ \E result \in {"nil", "error"} : finishClose(result)

Spec == Init /\ [][Next]_vars

-----------------------------------------------------------------------------
(***************************************************************************)
(* Properties                                                              *)
(***************************************************************************)

\* NextJSON yields the frames in order, one per call, and ends without an error only
\* after the final frame.
PullsInOrder ==
  \A r \in Requests : \A i \in DOMAIN got[r] :
    IF got[r][i] = 0
    THEN /\ i = Len(got[r])
         /\ err[r] = "nil" => i > 1 /\ sent[r] /\ got[r][i - 1] = sequence[r]
    ELSE got[r][i] = i
=============================================================================
