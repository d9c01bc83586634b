--------------------------- MODULE LifeCycleProofs ---------------------------
(***************************************************************************)
(* What comes up in order ends cleanly, for every number of requests,      *)
(* frames, calls of Close and providers, and every way a dev session ends. *)
(***************************************************************************)
EXTENDS MCLifeCycles, TLAPS

RuntimeSpec == RuntimeInit /\ [][RuntimeNext]_allVars

-----------------------------------------------------------------------------
(***************************************************************************)
(* The frames of a stream                                                  *)
(***************************************************************************)
Idle == {"none", "refused"}
Writing == {"handling", "offering", "completing"}
Over == {"finish", "deleted", "done"}
Stages == Idle \cup Writing \cup {"dispatched"} \cup Over

StreamTypeOK ==
  /\ count \in Nat
  /\ stage \in [Requests -> Stages]
  /\ sequence \in [Requests -> Nat]
  /\ got \in [Requests -> Seq(Nat)]
  /\ werr \in [Requests -> BOOLEAN] /\ sent \in [Requests -> BOOLEAN]
  /\ pulling \in [Requests -> BOOLEAN]
  /\ err \in [Requests -> {"open", "nil", "error"}]

\* What the host has been given are the first frames, in order ...
Prefix(r) == \A i \in DOMAIN got[r] : got[r][i] = i

\* ... and, at most, the end of the stream behind them.
Closed(r) ==
  /\ Len(got[r]) > 0 /\ got[r][Len(got[r])] = 0
  /\ \A i \in 1..(Len(got[r]) - 1) : got[r][i] = i

\* The frame that is offered, and no other, is missing from what the host has got; a
\* writer that was interrupted offers no further one.
OfferInv(r) ==
  /\ stage[r] \in Idle => sequence[r] = 0 /\ got[r] = <<>> /\ ~pulling[r] /\ ~werr[r]
  /\ stage[r] \in {"offering", "completing"} => sequence[r] = Len(got[r]) + 1
  /\ stage[r] = "handling" /\ ~werr[r] => sequence[r] = Len(got[r])
  /\ stage[r] \in Idle \cup Writing => ~sent[r]

\* A stream is closed after the writer is done, and only then does the host see its end.
EndInv(r) ==
  /\ err[r] # "open" => stage[r] \in Over
  /\ err[r] = "nil" => sent[r]
  /\ pulling[r] => Prefix(r)
  /\ Prefix(r) \/ (Closed(r) /\ err[r] # "open")
  /\ sent[r] => /\ sequence[r] > 0
                /\ Prefix(r) => Len(got[r]) = sequence[r]
                /\ Closed(r) => Len(got[r]) = sequence[r] + 1

StreamInv ==
  /\ StreamTypeOK
  /\ \A r \in Requests : r > count => stage[r] = "none"
  /\ \A r \in Requests : OfferInv(r) /\ EndInv(r)

\* The state of a request that no step touches keeps its invariant.
LEMMA SameRequest ==
  ASSUME NEW s \in Requests, OfferInv(s), EndInv(s),
         stage'[s] = stage[s], sequence'[s] = sequence[s], got'[s] = got[s],
         werr'[s] = werr[s], sent'[s] = sent[s], pulling'[s] = pulling[s], err'[s] = err[s]
  PROVE  OfferInv(s)' /\ EndInv(s)'
<1>1. (Prefix(s)' <=> Prefix(s)) /\ (Closed(s)' <=> Closed(s))
  BY DEF Prefix, Closed
<1>2. OfferInv(s)'
  BY DEF OfferInv
<1>3. EndInv(s)'
  BY <1>1 DEF EndInv
<1>4. QED
  BY <1>2, <1>3

\* The end of a stream is not one of its frames.
LEMMA PrefixOpen ==
  ASSUME StreamTypeOK, NEW r \in Requests
  PROVE  ~(Prefix(r) /\ Closed(r))
<1>1. got[r] \in Seq(Nat)
  BY DEF StreamTypeOK
<1>2. QED
  BY <1>1 DEF Prefix, Closed

\* A step of one request.
LEMMA OneRequest ==
  ASSUME StreamInv, StreamTypeOK', NEW r \in Requests, OfferInv(r)', EndInv(r)',
         \A s \in Requests : s # r =>
           /\ stage'[s] = stage[s] /\ sequence'[s] = sequence[s] /\ got'[s] = got[s]
           /\ werr'[s] = werr[s] /\ sent'[s] = sent[s] /\ pulling'[s] = pulling[s]
           /\ err'[s] = err[s],
         count' >= count, r <= count'
  PROVE  StreamInv'
<1>1. ASSUME NEW s \in Requests PROVE OfferInv(s)' /\ EndInv(s)'
  <2>1. CASE s = r
    BY <2>1
  <2>2. CASE s # r
    <3>1. OfferInv(s) /\ EndInv(s)
      BY DEF StreamInv
    <3>2. /\ stage'[s] = stage[s] /\ sequence'[s] = sequence[s] /\ got'[s] = got[s]
          /\ werr'[s] = werr[s] /\ sent'[s] = sent[s] /\ pulling'[s] = pulling[s]
          /\ err'[s] = err[s]
      BY <2>2
    <3>3. QED
      BY <3>1, <3>2, SameRequest
  <2>3. QED
    BY <2>1, <2>2
<1>2. ASSUME NEW s \in Requests, s > count' PROVE stage'[s] = "none"
  <2>1. s # r /\ s > count
    BY <1>2, EmbeddedRuntimeAssumption DEF StreamInv, StreamTypeOK, Requests
  <2>2. QED
    BY <2>1 DEF StreamInv
<1>3. QED
  BY <1>1, <1>2 DEF StreamInv

\* Nothing of a stream changes.
LEMMA NoRequest ==
  ASSUME StreamInv,
         UNCHANGED <<count, stage, sequence, werr, sent, err, pulling, got>>
  PROVE  StreamInv'
<1>1. StreamTypeOK'
  BY DEF StreamInv, StreamTypeOK
<1>2. ASSUME NEW s \in Requests PROVE OfferInv(s)' /\ EndInv(s)'
  <2>1. OfferInv(s) /\ EndInv(s)
    BY DEF StreamInv
  <2>2. QED
    BY <2>1, SameRequest
<1>3. QED
  BY <1>1, <1>2 DEF StreamInv

\* A request begins or is refused.
LEMMA BeginStream ==
  ASSUME StreamInv, NEW id \in Ids \cup {NoId}, NEW kind \in Kinds, beginRequest(id, kind)
  PROVE  StreamInv'
<1>1. PICK r \in Requests : r = count + 1 /\ count' = r
  BY EmbeddedRuntimeAssumption DEF beginRequest, StreamInv, StreamTypeOK, Requests
<1>2. PICK place \in {"handling", "refused"} : stage' = [stage EXCEPT ![r] = place]
  BY <1>1 DEF beginRequest, Goto
<1>3. UNCHANGED <<sequence, werr, sent, err, pulling, got>>
  BY DEF beginRequest, writer, stream
<1>4. stage[r] = "none" /\ count \in Nat
  BY <1>1 DEF StreamInv, StreamTypeOK
<1>5. stage'[r] = place /\ \A s \in Requests : s # r => stage'[s] = stage[s]
  BY <1>2 DEF StreamInv, StreamTypeOK
<1>6. StreamTypeOK'
  BY <1>1, <1>2, <1>3, <1>4 DEF StreamInv, StreamTypeOK, Stages, Idle, Writing
<1>7. OfferInv(r) /\ EndInv(r)
  BY DEF StreamInv
<1>8. /\ sequence[r] = 0 /\ got[r] = <<>> /\ ~pulling[r] /\ ~sent[r] /\ ~werr[r]
      /\ err[r] = "open"
  BY <1>4, <1>7 DEF OfferInv, EndInv, Idle, Over, StreamInv
<1>9. OfferInv(r)'
  BY <1>3, <1>5, <1>8 DEF OfferInv, Idle, Writing
<1>10. EndInv(r)'
  <2>1. Prefix(r)'
    BY <1>3, <1>8 DEF Prefix
  <2>2. QED
    BY <1>3, <1>8, <2>1 DEF EndInv
<1>11. QED
  BY <1>1, <1>3, <1>4, <1>5, <1>6, <1>9, <1>10, OneRequest

\* A stage of a request, where the writer and the host are not involved.
LEMMA StageStream ==
  ASSUME StreamInv, NEW r \in Requests,
         Return(r) \/ Finish(r) \/ ActiveDone(r)
  PROVE  StreamInv'
<1>1. UNCHANGED <<count, sequence, werr, sent, err, pulling, got>>
  BY DEF Return, Finish, ActiveDone, writer, stream
<1>2. PICK place \in Over : stage' = [stage EXCEPT ![r] = place]
  BY DEF Return, Finish, ActiveDone, Goto, Over
<1>3. stage'[r] = place /\ \A s \in Requests : s # r => stage'[s] = stage[s]
  BY <1>2 DEF StreamInv, StreamTypeOK
<1>4. StreamTypeOK'
  BY <1>1, <1>2 DEF StreamInv, StreamTypeOK, Stages
<1>5. stage[r] # "none" /\ count \in Nat /\ r <= count
  <2>1. stage[r] # "none"
    BY DEF Return, Finish, ActiveDone
  <2>2. QED
    BY <2>1, EmbeddedRuntimeAssumption DEF StreamInv, StreamTypeOK, Requests
<1>6. OfferInv(r) /\ EndInv(r)
  BY DEF StreamInv
<1>7. OfferInv(r)'
  BY <1>3 DEF OfferInv, Idle, Writing, Over
<1>8. EndInv(r)'
  <2>1. (Prefix(r)' <=> Prefix(r)) /\ (Closed(r)' <=> Closed(r))
    BY <1>1 DEF Prefix, Closed
  <2>2. QED
    BY <1>1, <1>3, <1>6, <2>1 DEF EndInv
<1>9. QED
  BY <1>1, <1>3, <1>4, <1>5, <1>7, <1>8, OneRequest

\* A request that has begun is one of those counted.
LEMMA Counted ==
  ASSUME StreamInv, NEW r \in Requests, stage[r] # "none"
  PROVE  count \in Nat /\ r <= count
BY EmbeddedRuntimeAssumption DEF StreamInv, StreamTypeOK, Requests

\* The writer offers a frame, gives up or is done.
LEMMA WriterStream ==
  ASSUME StreamInv, NEW r \in Requests,
         Send(r) \/ ReturnStream(r) \/ Interrupted(r) \/ FinishStream(r)
  PROVE  StreamInv'
<1>1. UNCHANGED <<count, sent, pulling, got>>
  BY DEF Send, ReturnStream, Interrupted, FinishStream, writer, stream
<1>2. stage[r] \in Writing \cup {"dispatched"} /\ stage[r] # "none"
  BY DEF Send, ReturnStream, Interrupted, FinishStream, Writing
<1>3. OfferInv(r) /\ EndInv(r) /\ StreamTypeOK
  BY DEF StreamInv
<1>4. err[r] = "open"
  BY <1>2, <1>3 DEF EndInv, Writing, Over
<1>5. Prefix(r) /\ ~Closed(r)
  BY <1>3, <1>4, PrefixOpen DEF EndInv
<1>6. Prefix(r)' /\ ~Closed(r)'
  BY <1>1, <1>5 DEF Prefix, Closed
<1>7. count' >= count /\ r <= count'
  BY <1>1, <1>2, <1>3, Counted
<1>8. CASE Send(r) \/ (ReturnStream(r) /\ ~(werr[r] \/ Done(r)))
  <2>1. PICK place \in {"offering", "completing"} : stage' = [stage EXCEPT ![r] = place]
    BY <1>8 DEF Send, ReturnStream, Goto
  <2>2. /\ sequence' = [sequence EXCEPT ![r] = sequence[r] + 1] /\ werr' = werr /\ err' = err
        /\ stage[r] = "handling" /\ ~werr[r]
    BY <1>8 DEF Send, ReturnStream, stream
  <2>3. StreamTypeOK'
    BY <1>1, <1>3, <2>1, <2>2 DEF StreamTypeOK, Stages, Writing
  <2>4. /\ stage'[r] = place /\ sequence'[r] = sequence[r] + 1
        /\ \A s \in Requests : s # r => stage'[s] = stage[s] /\ sequence'[s] = sequence[s]
    BY <1>3, <2>1, <2>2 DEF StreamTypeOK
  <2>5. ~sent[r] /\ sequence[r] = Len(got[r])
    BY <1>3, <2>2 DEF OfferInv, Writing
  <2>6. OfferInv(r)'
    BY <1>1, <2>4, <2>5 DEF OfferInv, Idle
  <2>7. EndInv(r)'
    BY <1>1, <1>4, <1>6, <2>2, <2>5 DEF EndInv
  <2>8. QED
    BY <1>1, <1>7, <2>2, <2>3, <2>4, <2>6, <2>7, OneRequest
<1>9. CASE (ReturnStream(r) /\ (werr[r] \/ Done(r))) \/ Interrupted(r)
  <2>1. PICK place \in {"handling", "dispatched"} : stage' = [stage EXCEPT ![r] = place]
    BY <1>9 DEF ReturnStream, Interrupted, Goto, Resumed
  <2>2. /\ sequence' = sequence /\ err' = err
        /\ werr' = werr \/ werr' = [werr EXCEPT ![r] = TRUE]
    BY <1>9 DEF ReturnStream, Interrupted, stream
  <2>3. StreamTypeOK'
    BY <1>1, <1>3, <2>1, <2>2 DEF StreamTypeOK, Stages, Writing
  <2>4. place = "handling" => werr' = [werr EXCEPT ![r] = TRUE]
    BY <1>3, <1>9, <2>1 DEF ReturnStream, Interrupted, Goto, StreamTypeOK
  <2>5. /\ stage'[r] = place /\ (place = "handling" => werr'[r])
        /\ \A s \in Requests : s # r => stage'[s] = stage[s] /\ werr'[s] = werr[s]
    BY <1>3, <2>1, <2>2, <2>4 DEF StreamTypeOK
  <2>6. stage[r] \in Writing
    BY <1>9 DEF ReturnStream, Interrupted, Writing
  <2>7. ~sent[r]
    BY <1>3, <2>6 DEF OfferInv
  <2>8. OfferInv(r)'
    BY <1>1, <2>5, <2>7 DEF OfferInv, Idle
  <2>9. EndInv(r)'
    BY <1>1, <1>4, <1>6, <2>2, <2>7 DEF EndInv
  <2>10. QED
    BY <1>1, <1>7, <2>2, <2>3, <2>5, <2>8, <2>9, OneRequest
<1>10. CASE FinishStream(r)
  <2>1. PICK result \in {"nil", "error"} :
          /\ err' = [err EXCEPT ![r] = result]
          /\ result = "nil" => sent[r]
    BY <1>10 DEF FinishStream, Result
  <2>2. /\ stage' = [stage EXCEPT ![r] = "finish"] /\ sequence' = sequence /\ werr' = werr
    BY <1>10 DEF FinishStream, Goto, writer
  <2>3. StreamTypeOK'
    BY <1>1, <1>3, <2>1, <2>2 DEF StreamTypeOK, Stages, Over
  <2>4. /\ stage'[r] = "finish" /\ err'[r] = result
        /\ \A s \in Requests : s # r => stage'[s] = stage[s] /\ err'[s] = err[s]
    BY <1>3, <2>1, <2>2 DEF StreamTypeOK
  <2>5. OfferInv(r)'
    BY <2>4 DEF OfferInv, Idle, Writing
  <2>6. EndInv(r)'
    <3>1. "finish" \in Over
      BY DEF Over
    <3>2. QED
      BY <1>1, <1>3, <1>5, <1>6, <2>1, <2>2, <2>4, <3>1 DEF EndInv
  <2>7. QED
    BY <1>1, <1>7, <2>2, <2>3, <2>4, <2>5, <2>6, OneRequest
<1>11. QED
  BY <1>8, <1>9, <1>10

\* The host takes a frame.
LEMMA HandOverStream ==
  ASSUME StreamInv, NEW r \in Requests, HandOver(r)
  PROVE  StreamInv'
<1>1. UNCHANGED <<count, sequence, werr, err>>
  BY DEF HandOver
<1>2. /\ stage[r] \in {"offering", "completing"} /\ pulling[r]
      /\ pulling' = [pulling EXCEPT ![r] = FALSE]
      /\ got' = [got EXCEPT ![r] = Append(got[r], sequence[r])]
      /\ sent' = [sent EXCEPT ![r] = stage[r] = "completing"]
  BY DEF HandOver
<1>3. PICK place \in {"handling", "dispatched"} : stage' = [stage EXCEPT ![r] = place]
  BY DEF HandOver, Goto, Resumed
<1>4. OfferInv(r) /\ EndInv(r) /\ StreamTypeOK
  BY DEF StreamInv
<1>5. got[r] \in Seq(Nat) /\ sequence[r] \in Nat
  BY <1>4 DEF StreamTypeOK
<1>6. StreamTypeOK'
  <2>1. Append(got[r], sequence[r]) \in Seq(Nat)
    BY <1>5
  <2>2. QED
    BY <1>1, <1>2, <1>3, <1>4, <2>1 DEF StreamTypeOK, Stages, Writing
<1>7. \A s \in Requests : s # r =>
        /\ stage'[s] = stage[s] /\ got'[s] = got[s] /\ sent'[s] = sent[s]
        /\ pulling'[s] = pulling[s]
  BY <1>2, <1>3, <1>4 DEF StreamTypeOK
<1>8. /\ stage'[r] = place /\ got'[r] = Append(got[r], sequence[r]) /\ ~pulling'[r]
      /\ sent'[r] => stage[r] = "completing"
  BY <1>2, <1>3, <1>4 DEF StreamTypeOK
<1>9. sequence[r] = Len(got[r]) + 1 /\ Prefix(r) /\ err[r] = "open"
  BY <1>2, <1>4 DEF OfferInv, EndInv, Over
<1>10. Len(got'[r]) = sequence[r] /\ Prefix(r)'
  BY <1>5, <1>8, <1>9 DEF Prefix
<1>11. ~Closed(r)'
  BY <1>5, <1>8, <1>9, <1>10 DEF Closed
<1>12. place = "handling" => stage[r] = "offering"
  BY <1>3, <1>4 DEF HandOver, Goto, Resumed, StreamTypeOK
<1>13. OfferInv(r)'
  BY <1>1, <1>8, <1>10, <1>12 DEF OfferInv, Idle, Writing
<1>14. EndInv(r)'
  BY <1>1, <1>5, <1>8, <1>9, <1>10, <1>11 DEF EndInv
<1>15. count' >= count /\ r <= count'
  BY <1>1, <1>2, Counted
<1>16. QED
  BY <1>1, <1>6, <1>7, <1>13, <1>14, <1>15, OneRequest

\* The host asks for the next frame, or is told that there is none.
LEMMA HostStream ==
  ASSUME StreamInv, NEW r \in Requests, NextJSON(r) \/ NextEnds(r)
  PROVE  StreamInv'
<1>1. UNCHANGED <<count, stage, sequence, werr, sent, err>>
  BY DEF NextJSON, NextEnds, writer
<1>2. OfferInv(r) /\ EndInv(r) /\ StreamTypeOK
  BY DEF StreamInv
<1>3. got[r] \in Seq(Nat) /\ sequence[r] \in Nat
  BY <1>2 DEF StreamTypeOK
<1>4. stage[r] \notin Idle
  BY <1>2 DEF NextJSON, NextEnds, OfferInv, EndInv, Idle, Over
<1>5. count' >= count /\ r <= count'
  BY <1>1, <1>4, Counted DEF Idle
<1>6. CASE NextJSON(r)
  <2>1. got' = got /\ pulling' = [pulling EXCEPT ![r] = TRUE] /\ ~Ended(r)
    BY <1>6 DEF NextJSON
  <2>2. ~Closed(r)
    BY <1>3, <2>1 DEF Closed, Ended
  <2>3. Prefix(r)' /\ ~Closed(r)' /\ Prefix(r)
    BY <1>2, <2>1, <2>2 DEF EndInv, Prefix, Closed
  <2>4. StreamTypeOK' /\ \A s \in Requests : s # r => pulling'[s] = pulling[s]
    BY <1>1, <1>2, <2>1 DEF StreamTypeOK
  <2>5. OfferInv(r)'
    BY <1>1, <1>2, <1>4, <2>1 DEF OfferInv
  <2>6. EndInv(r)'
    BY <1>1, <1>2, <2>1, <2>3 DEF EndInv
  <2>7. QED
    BY <1>1, <1>5, <2>1, <2>4, <2>5, <2>6, OneRequest
<1>7. CASE NextEnds(r)
  <2>1. /\ pulling[r] /\ err[r] # "open"
        /\ pulling' = [pulling EXCEPT ![r] = FALSE]
        /\ got' = [got EXCEPT ![r] = Append(got[r], 0)]
    BY <1>7 DEF NextEnds
  <2>2. Append(got[r], 0) \in Seq(Nat)
    BY <1>3
  <2>3. StreamTypeOK'
    BY <1>1, <1>2, <2>1, <2>2 DEF StreamTypeOK
  <2>4. /\ got'[r] = Append(got[r], 0) /\ ~pulling'[r]
        /\ \A s \in Requests : s # r => pulling'[s] = pulling[s] /\ got'[s] = got[s]
    BY <1>2, <2>1 DEF StreamTypeOK
  <2>5. Prefix(r) /\ stage[r] \in Over
    BY <1>2, <2>1 DEF EndInv
  <2>6. Closed(r)' /\ ~Prefix(r)' /\ Len(got'[r]) = Len(got[r]) + 1
    BY <1>3, <2>4, <2>5 DEF Closed, Prefix
  <2>7. OfferInv(r)'
    BY <1>1, <2>5 DEF OfferInv, Over, Idle, Writing
  <2>8. EndInv(r)'
    BY <1>1, <1>2, <2>1, <2>4, <2>5, <2>6 DEF EndInv
  <2>9. QED
    BY <1>1, <1>5, <2>3, <2>4, <2>7, <2>8, OneRequest
<1>8. QED
  BY <1>6, <1>7

\* A step of the runtime keeps the streams in order.
LEMMA OperateStream ==
  ASSUME StreamInv, Operate
  PROVE  StreamInv'
<1>1. ASSUME NEW id \in Ids \cup {NoId}, NEW kind \in Kinds, beginRequest(id, kind)
      PROVE  StreamInv'
  BY <1>1, BeginStream
<1>2. ASSUME NEW r \in Requests, Run(r) \/ Send(r) \/ NextJSON(r) \/ NextEnds(r)
      PROVE  StreamInv'
  BY <1>2, StageStream, WriterStream, HandOverStream, HostStream DEF Run
<1>3. ASSUME NEW id \in Ids, Cancel(id)
      PROVE  StreamInv'
  <2>1. UNCHANGED <<count, stage, sequence, werr, sent, err, pulling, got>>
    BY <1>3 DEF Cancel, writer, stream
  <2>2. QED
    BY <2>1, NoRequest
<1>4. ASSUME NEW c \in Closers, Close(c) \/ CloseReturns(c)
      PROVE  StreamInv'
  <2>1. UNCHANGED <<count, stage, sequence, werr, sent, err, pulling, got>>
    BY <1>4 DEF Close, CloseReturns, writer, stream
  <2>2. QED
    BY <2>1, NoRequest
<1>5. CASE WaitReturns
  <2>1. UNCHANGED <<count, stage, sequence, werr, sent, err, pulling, got>>
    BY <1>5 DEF WaitReturns, writer, stream
  <2>2. QED
    BY <2>1, NoRequest
<1>6. QED
  BY <1>1, <1>2, <1>3, <1>4, <1>5 DEF Operate

\* In every reachable state a stream's frames stand in order before the host, at most
\* one is on offer, and its end follows the last.
THEOREM StreamInvariant == RuntimeSpec => []StreamInv
<1>1. RuntimeInit => StreamInv
  <2> SUFFICES ASSUME Init PROVE StreamInv
    BY DEF RuntimeInit
  <2>1. StreamTypeOK
    BY DEF Init, StreamTypeOK, Stages, Idle
  <2>2. ASSUME NEW r \in Requests PROVE OfferInv(r) /\ EndInv(r)
    BY DEF Init, OfferInv, EndInv, Prefix, Idle, Writing
  <2>3. QED
    BY <2>1, <2>2 DEF StreamInv, Init
<1>2. StreamInv /\ [RuntimeNext]_allVars => StreamInv'
  <2> SUFFICES ASSUME StreamInv, [RuntimeNext]_allVars
               PROVE  StreamInv'
    OBVIOUS
  <2>1. CASE RuntimeStep
    BY <2>1, OperateStream DEF RuntimeStep
  <2>2. CASE CallbackReturns
    <3>1. UNCHANGED <<count, stage, sequence, werr, sent, err, pulling, got>>
      BY <2>2 DEF CallbackReturns, finishClose, writer, stream
    <3>2. QED
      BY <3>1, NoRequest
  <2>3. CASE UNCHANGED vars
    <3>1. UNCHANGED <<count, stage, sequence, werr, sent, err, pulling, got>>
      BY <2>3 DEF vars
    <3>2. QED
      BY <3>1, NoRequest
  <2>4. ApplicationStep \/ NewRuntime \/ CallbackStep \/ UNCHANGED allVars => UNCHANGED vars
    BY DEF ApplicationStep, NewRuntime, CallbackStep, allVars
  <2>5. QED
    BY <2>1, <2>2, <2>3, <2>4 DEF RuntimeNext
<1>3. QED
  BY <1>1, <1>2, PTL DEF RuntimeSpec

\* NextJSON yields the frames in order and ends without an error only after the last,
\* however handlers, cancellation, Close and the host interleave.
THEOREM PullsCorrect == RuntimeSpec => []PullsInOrder
<1>1. StreamInv => PullsInOrder
  <2> SUFFICES ASSUME StreamInv, NEW r \in Requests, NEW i \in DOMAIN got[r]
               PROVE  IF got[r][i] = 0
                      THEN /\ i = Len(got[r])
                           /\ err[r] = "nil" => i > 1 /\ sent[r] /\ got[r][i - 1] = sequence[r]
                      ELSE got[r][i] = i
    BY DEF PullsInOrder
  <2>1. EndInv(r) /\ got[r] \in Seq(Nat) /\ sequence[r] \in Nat
    BY DEF StreamInv, StreamTypeOK
  <2>2. CASE Prefix(r)
    BY <2>1, <2>2 DEF Prefix
  <2>3. CASE Closed(r)
    <3>1. err[r] = "nil" => sent[r] /\ sequence[r] > 0 /\ Len(got[r]) = sequence[r] + 1
      BY <2>1, <2>3 DEF EndInv
    <3>2. i \in 1..Len(got[r])
      BY <2>1
    <3>3. CASE i < Len(got[r])
      <4>1. got[r][i] = i /\ i # 0
        BY <2>1, <2>3, <3>2, <3>3 DEF Closed
      <4>2. QED
        BY <4>1
    <3>4. CASE i = Len(got[r])
      <4>1. got[r][i] = 0
        BY <2>3, <3>4 DEF Closed
      <4>2. err[r] = "nil" => i - 1 = sequence[r] /\ i - 1 \in 1..(Len(got[r]) - 1)
        BY <2>1, <3>1, <3>2, <3>4
      <4>3. err[r] = "nil" => got[r][i - 1] = sequence[r]
        BY <2>3, <4>2 DEF Closed
      <4>4. QED
        BY <2>1, <3>1, <3>2, <3>4, <4>1, <4>3
    <3>5. QED
      BY <2>1, <3>2, <3>3, <3>4
  <2>4. QED
    BY <2>1, <2>2, <2>3 DEF EndInv
<1>2. QED
  BY <1>1, StreamInvariant, PTL

-----------------------------------------------------------------------------
(***************************************************************************)
(* The providers of the application                                        *)
(***************************************************************************)
ShutdownCalls == {Callback, Host}

ApplicationTypeOK ==
  /\ shutdownState \in {"idle", "shutting down", "complete"}
  /\ entered \in Seq(Nat) /\ terminated \in Seq(Nat)
  /\ caller \in [ShutdownCalls -> {"none", "waiting", "returned"}]
  /\ DOMAIN appAnswer = ShutdownCalls

\* Providers enter in the order of their numbers, each is tracked as it does, and none
\* enters once the shutdown has begun.
ProvidersInv ==
  /\ \A i \in DOMAIN entered : entered[i] = i
  /\ shutdownProviders = entered
  /\ appState = "registering" =>
       todo \in Seq(Nat) /\ \A i \in DOMAIN todo : todo[i] = Len(entered) + i
  /\ shutdownState # "idle" => ~App!Busy

\* The loop has terminated exactly what it has passed, downwards.
TerminationInv ==
  IF shutdownState = "idle"
  THEN terminated = <<>> /\ terminating = 0
  ELSE /\ remaining \subseteq App!ToTerminate
       /\ App!Range(terminated) = App!ToTerminate \ remaining
       /\ \A i \in DOMAIN terminated : \A index \in remaining : terminated[i] > index
       /\ \A i, j \in DOMAIN terminated : i < j => terminated[i] > terminated[j]
       /\ shutdownState = "complete" => remaining = {} /\ terminating = 0

Succeeded == shutdownState = "complete" /\ ~failures

\* Whoever was told that the shutdown went well was told the truth.
AnswersInv ==
  /\ shutdownState = "complete" /\ shutdownErr = "nil" => Succeeded
  /\ \A c \in ShutdownCalls : appAnswer[c] = "nil" => Succeeded

ApplicationInv == ApplicationTypeOK /\ ProvidersInv /\ TerminationInv /\ AnswersInv

\* What the proofs need to know of sequences.
LEMMA Domain ==
  ASSUME NEW S, NEW q \in Seq(S)
  PROVE  Len(q) \in Nat /\ DOMAIN q = 1..Len(q) /\ \A i \in 1..Len(q) : q[i] \in S
OBVIOUS

\* A sequence with one more element.
LEMMA Appended ==
  ASSUME NEW S, NEW q \in Seq(S), NEW x \in S, NEW p, p = Append(q, x)
  PROVE  /\ p \in Seq(S) /\ Len(p) = Len(q) + 1 /\ p[Len(q) + 1] = x
         /\ \A i \in 1..Len(q) : p[i] = q[i]
OBVIOUS

\* A sequence without its first element.
LEMMA Tailed ==
  ASSUME NEW S, NEW q \in Seq(S), q # <<>>
  PROVE  /\ Head(q) = q[1] /\ Head(q) \in S /\ Tail(q) \in Seq(S)
         /\ Len(q) > 0 /\ Len(Tail(q)) = Len(q) - 1
         /\ \A i \in 1..Len(Tail(q)) : Tail(q)[i] = q[i + 1]
OBVIOUS

\* A sequence given element by element.
LEMMA Listed ==
  ASSUME NEW k \in Nat, NEW n \in Nat, NEW q, q = [i \in 1..k |-> n + i]
  PROVE  q \in Seq(Nat) /\ \A i \in 1..k : q[i] = n + i
OBVIOUS

\* A provider's place among those that entered is its number.
LEMMA PlaceIsNumber ==
  ASSUME ApplicationTypeOK, ProvidersInv
  PROVE  /\ App!Range(entered) = 1..Len(entered)
         /\ App!ToTerminate = {i \in 1..Len(entered) : i \in Terminable}
         /\ \A i \in App!ToTerminate : shutdownProviders[i] = i
<1>1. DOMAIN entered = 1..Len(entered)
  BY Domain DEF ApplicationTypeOK
<1>2. App!Range(entered) = 1..Len(entered)
  BY <1>1 DEF ProvidersInv, App!Range
<1>3. QED
  BY <1>1, <1>2 DEF ProvidersInv, App!ToTerminate

\* Providers register and boot.
LEMMA StartupKeeps ==
  ASSUME ApplicationInv, App!Startup
  PROVE  /\ ApplicationInv' /\ shutdownState = "idle"
         /\ appState # "booted" /\ UNCHANGED <<shutdownState, caller>>
<1>1. /\ UNCHANGED <<remaining, terminating, failures, terminated>>
      /\ UNCHANGED <<caller, appAnswer, shutdownState, shutdownErr>>
  BY DEF App!Startup, App!Register, App!RegisterProvider, App!BootProvider,
         App!finishRegistration, App!Boot, App!Booted, App!termination, App!calls
<1>2. appState \in {"collecting", "registering", "booting"}
  BY DEF App!Startup, App!Register, App!RegisterProvider, App!BootProvider,
         App!finishRegistration, App!Boot, App!Booted, App!MayStart
<1>3. shutdownState = "idle"
  <2>1. App!Busy \/ App!MayStart
    BY DEF App!Startup, App!Register, App!RegisterProvider, App!BootProvider,
           App!finishRegistration, App!Boot, App!Booted, App!Busy
  <2>2. QED
    BY <2>1 DEF App!MayStart, ApplicationInv, ProvidersInv
<1>4. entered' \in Seq(Nat) /\ ProvidersInv'
  <2> entered \in Seq(Nat)
    BY DEF ApplicationInv, ApplicationTypeOK
  <2> /\ Len(entered) \in Nat /\ DOMAIN entered = 1..Len(entered)
      /\ \A i \in 1..Len(entered) : entered[i] = i
    BY Domain DEF ApplicationInv, ProvidersInv
  <2>1. ASSUME NEW k \in 1..2, App!Register(k)
        PROVE  entered' \in Seq(Nat) /\ ProvidersInv'
    <3>1. /\ UNCHANGED <<entered, shutdownProviders>>
          /\ todo' = [i \in 1..k |-> Len(entered) + i]
      BY <2>1 DEF App!Register, App!Seen
    <3>2. k \in Nat
      OBVIOUS
    <3>3. todo' \in Seq(Nat) /\ \A i \in 1..k : todo'[i] = Len(entered) + i
      BY <3>1, <3>2, Listed
    <3>4. DOMAIN todo' = 1..k
      BY <3>1
    <3>5. QED
      BY <1>1, <1>3, <3>1, <3>3, <3>4 DEF ApplicationInv, ProvidersInv
  <2>2. ASSUME NEW ok \in BOOLEAN, App!RegisterProvider(ok)
        PROVE  entered' \in Seq(Nat) /\ ProvidersInv'
    <3>1. /\ appState = "registering" /\ todo # <<>>
          /\ entered' = Append(entered, Head(todo))
          /\ shutdownProviders' = Append(shutdownProviders, Head(todo))
          /\ appState' = "registering" => todo' = Tail(todo)
      BY <2>2 DEF App!RegisterProvider
    <3>0. todo \in Seq(Nat) /\ \A i \in DOMAIN todo : todo[i] = Len(entered) + i
      BY <3>1 DEF ApplicationInv, ProvidersInv
    <3>2. /\ todo \in Seq(Nat) /\ Len(todo) \in Nat
          /\ \A i \in 1..Len(todo) : todo[i] = Len(entered) + i
      BY <3>0, Domain
    <3>3. /\ Tail(todo) \in Seq(Nat) /\ Head(todo) \in Nat /\ Len(todo) > 0
          /\ Head(todo) = todo[1] /\ Len(Tail(todo)) = Len(todo) - 1
          /\ \A i \in 1..Len(Tail(todo)) : Tail(todo)[i] = todo[i + 1]
      BY <3>1, <3>2, Tailed
    <3>4. Head(todo) = Len(entered) + 1
      BY <3>2, <3>3
    <3>5. /\ entered' \in Seq(Nat) /\ Len(entered') = Len(entered) + 1
          /\ entered'[Len(entered) + 1] = Len(entered) + 1
          /\ \A i \in 1..Len(entered) : entered'[i] = entered[i]
      BY <3>1, <3>3, <3>4, Appended
    <3>6. DOMAIN entered' = 1..(Len(entered) + 1) /\ DOMAIN Tail(todo) = 1..(Len(todo) - 1)
      BY <3>3, <3>5, Domain
    <3>7. \A i \in DOMAIN entered' : entered'[i] = i
      BY <3>5, <3>6
    <3>8. \A i \in DOMAIN Tail(todo) : Tail(todo)[i] = Len(entered') + i
      BY <3>2, <3>3, <3>5, <3>6
    <3>9. QED
      BY <1>1, <1>3, <3>1, <3>3, <3>5, <3>7, <3>8 DEF ApplicationInv, ProvidersInv
  <2>3. ASSUME App!finishRegistration \/ App!Boot \/ App!Booted
               \/ \E ok \in BOOLEAN : App!BootProvider(ok)
        PROVE  entered' \in Seq(Nat) /\ ProvidersInv'
    <3>1. UNCHANGED <<entered, shutdownProviders>> /\ appState' # "registering"
      BY <2>3 DEF App!finishRegistration, App!Boot, App!Booted, App!BootProvider
    <3>2. QED
      BY <1>1, <1>3, <3>1 DEF ApplicationInv, ProvidersInv
  <2>4. QED
    BY <2>1, <2>2, <2>3 DEF App!Startup
<1>5. ApplicationTypeOK' /\ TerminationInv' /\ AnswersInv'
  BY <1>1, <1>3, <1>4 DEF ApplicationInv, ApplicationTypeOK, TerminationInv, AnswersInv, Succeeded
<1>6. QED
  BY <1>1, <1>2, <1>3, <1>4, <1>5 DEF ApplicationInv

\* The providers stay as they are, whatever else happens.
LEMMA StartedStays ==
  ASSUME ApplicationInv, UNCHANGED <<appState, shutdownProviders, todo, entered>>,
         shutdownState' = "idle" \/ ~App!Busy
  PROVE  ProvidersInv' /\ App!ToTerminate' = App!ToTerminate /\ App!Busy' = App!Busy
BY DEF ApplicationInv, ProvidersInv, App!Busy, App!ToTerminate

\* A call of Shutdown starts it, joins it or has its answer.
LEMMA CallsKeep ==
  ASSUME ApplicationInv, NEW c \in ShutdownCalls,
         App!ShutdownCall(c) \/ App!waitForShutdown(c)
  PROVE  /\ ApplicationInv' /\ UNCHANGED appState
         /\ \A d \in ShutdownCalls : d # c => caller'[d] = caller[d]
<1>1. /\ UNCHANGED <<appState, shutdownProviders, todo, entered>>
      /\ UNCHANGED <<terminating, failures, terminated, shutdownErr>>
  BY DEF App!ShutdownCall, App!waitForShutdown, App!Shutdown, App!ShutdownAnswered,
         App!ShutdownJoins, App!ResultReady, App!ContextEnds, App!startup, App!termination
<1>2. PICK place \in {"waiting", "returned"} : caller' = [caller EXCEPT ![c] = place]
  BY DEF App!ShutdownCall, App!waitForShutdown, App!Shutdown, App!ShutdownAnswered,
         App!ShutdownJoins, App!ResultReady, App!ContextEnds, App!Answer
<1>3. CASE App!Shutdown(c)
  <2>1. /\ shutdownState = "idle" /\ shutdownState' = "shutting down" /\ ~App!Busy
        /\ remaining' = App!ToTerminate /\ appAnswer' = appAnswer
    BY <1>3 DEF App!Shutdown
  <2>2. ProvidersInv' /\ App!ToTerminate' = App!ToTerminate
    BY <1>1, <2>1, StartedStays
  <2>3. terminated' = <<>>
    BY <1>1, <2>1 DEF ApplicationInv, TerminationInv
  <2>4. TerminationInv'
    <3>1. DOMAIN terminated' = {} /\ App!Range(terminated)' = {}
      BY <2>3 DEF App!Range
    <3>2. QED
      BY <2>1, <2>2, <3>1 DEF TerminationInv
  <2>5. AnswersInv'
    BY <1>1, <2>1 DEF ApplicationInv, AnswersInv, Succeeded
  <2>6. ApplicationTypeOK'
    BY <1>1, <1>2, <2>1 DEF ApplicationInv, ApplicationTypeOK
  <2>7. QED
    BY <1>1, <1>2, <2>2, <2>4, <2>5, <2>6 DEF ApplicationInv, ApplicationTypeOK
<1>4. CASE ~App!Shutdown(c)
  <2>1. UNCHANGED <<shutdownState, remaining>>
    BY <1>4 DEF App!ShutdownCall, App!waitForShutdown, App!ShutdownAnswered,
         App!ShutdownJoins, App!ResultReady, App!ContextEnds, App!termination
  <2>2. \/ appAnswer' = appAnswer
        \/ appAnswer' = [appAnswer EXCEPT ![c] = shutdownErr] /\ shutdownState = "complete"
        \/ appAnswer' = [appAnswer EXCEPT ![c] = "busy"]
        \/ appAnswer' = [appAnswer EXCEPT ![c] = "context"]
    BY <1>4 DEF App!ShutdownCall, App!waitForShutdown, App!ShutdownAnswered,
         App!ShutdownJoins, App!ResultReady, App!ContextEnds, App!Answer, App!Ready
  <2>3. ProvidersInv' /\ App!ToTerminate' = App!ToTerminate
    <3>1. shutdownState' = "idle" \/ ~App!Busy
      BY <2>1 DEF ApplicationInv, ProvidersInv
    <3>2. QED
      BY <1>1, <3>1, StartedStays
  <2>4. TerminationInv'
    BY <1>1, <2>1, <2>3 DEF ApplicationInv, TerminationInv
  <2>5. AnswersInv'
    BY <1>1, <2>1, <2>2 DEF ApplicationInv, ApplicationTypeOK, AnswersInv, Succeeded
  <2>6. ApplicationTypeOK'
    BY <1>1, <1>2, <2>1, <2>2 DEF ApplicationInv, ApplicationTypeOK
  <2>7. QED
    BY <1>1, <1>2, <2>3, <2>4, <2>5, <2>6 DEF ApplicationInv, ApplicationTypeOK
<1>5. QED
  BY <1>3, <1>4

\* What the loop of terminateProviders, the clock and a cancelled context leave alone.
LEMMA LoopLeaves ==
  ASSUME ApplicationInv, shutdownState # "idle", shutdownState' # "idle",
         App!terminateProviders \/ App!Tick \/ App!Abort
  PROVE  /\ UNCHANGED <<appState, shutdownProviders, todo, entered, caller, appAnswer>>
         /\ ProvidersInv' /\ App!ToTerminate' = App!ToTerminate
<1>1. UNCHANGED <<appState, shutdownProviders, todo, entered, caller, appAnswer>>
  BY DEF App!terminateProviders, App!BeginTerminate, App!EndTerminate, App!ShutdownComplete,
         App!Tick, App!Abort, App!startup, App!calls
<1>2. ~App!Busy
  BY DEF ApplicationInv, ProvidersInv
<1>3. QED
  BY <1>1, <1>2, StartedStays

\* Terminate is called for the provider with the highest number ahead.
LEMMA BeginKeeps ==
  ASSUME ApplicationInv, NEW index \in remaining, App!BeginTerminate(index)
  PROVE  ApplicationInv' /\ UNCHANGED <<appState, shutdownState, caller>>
<1>1. /\ shutdownState = "shutting down" /\ UNCHANGED <<shutdownState, shutdownErr, failures>>
      /\ \A i \in remaining : i <= index
      /\ terminated' = Append(terminated, shutdownProviders[index])
      /\ remaining' = remaining \ {index}
  BY DEF App!BeginTerminate
<1>2. /\ UNCHANGED <<appState, shutdownProviders, todo, entered, caller, appAnswer>>
      /\ ProvidersInv' /\ App!ToTerminate' = App!ToTerminate
  BY <1>1, LoopLeaves DEF App!terminateProviders
<1>3. /\ remaining \subseteq App!ToTerminate
      /\ App!Range(terminated) = App!ToTerminate \ remaining
      /\ \A i \in DOMAIN terminated : \A k \in remaining : terminated[i] > k
      /\ \A i, j \in DOMAIN terminated : i < j => terminated[i] > terminated[j]
  BY <1>1 DEF ApplicationInv, TerminationInv
<1>4. App!ToTerminate \subseteq Nat /\ shutdownProviders[index] = index
  BY <1>3, PlaceIsNumber DEF ApplicationInv
<1>5. terminated \in Seq(Nat) /\ index \in Nat /\ terminated' = Append(terminated, index)
  BY <1>1, <1>3, <1>4 DEF ApplicationInv, ApplicationTypeOK
<1>6. /\ Len(terminated) \in Nat /\ DOMAIN terminated = 1..Len(terminated)
      /\ \A i \in 1..Len(terminated) : terminated[i] \in Nat
  BY <1>5, Domain
<1>7. /\ terminated' \in Seq(Nat) /\ Len(terminated') = Len(terminated) + 1
      /\ terminated'[Len(terminated) + 1] = index
      /\ \A i \in 1..Len(terminated) : terminated'[i] = terminated[i]
  BY <1>5, Appended
<1>8. DOMAIN terminated' = 1..(Len(terminated) + 1)
  BY <1>7, Domain
<1>9. ASSUME NEW i \in DOMAIN terminated'
      PROVE  i = Len(terminated) + 1 \/ i \in DOMAIN terminated
  BY <1>6, <1>8
<1>10. App!Range(terminated)' = App!ToTerminate \ remaining'
  <2>1. App!Range(terminated)' = App!Range(terminated) \cup {index}
    BY <1>6, <1>7, <1>8, <1>9 DEF App!Range
  <2>2. QED
    BY <1>1, <1>3, <2>1
<1>11. ASSUME NEW i \in DOMAIN terminated', NEW k \in remaining'
       PROVE  terminated'[i] > k
  <2>1. k \in remaining /\ k # index /\ k <= index /\ k \in Nat
    BY <1>1, <1>3, <1>4
  <2>2. CASE i = Len(terminated) + 1
    BY <1>5, <1>7, <2>1, <2>2
  <2>3. CASE i \in DOMAIN terminated
    BY <1>3, <1>6, <1>7, <2>1, <2>3
  <2>4. QED
    BY <1>9, <2>2, <2>3
<1>12. ASSUME NEW i \in DOMAIN terminated', NEW j \in DOMAIN terminated', i < j
       PROVE  terminated'[i] > terminated'[j]
  <2>1. i \in DOMAIN terminated
    BY <1>6, <1>8, <1>12
  <2>2. CASE j = Len(terminated) + 1
    BY <1>3, <1>6, <1>7, <2>1, <2>2
  <2>3. CASE j \in DOMAIN terminated
    BY <1>3, <1>6, <1>7, <1>12, <2>1, <2>3
  <2>4. QED
    BY <1>9, <2>2, <2>3
<1>13. TerminationInv'
  BY <1>1, <1>2, <1>3, <1>10, <1>11, <1>12 DEF TerminationInv
<1>14. AnswersInv'
  BY <1>1, <1>2 DEF ApplicationInv, AnswersInv, Succeeded
<1>15. ApplicationTypeOK'
  BY <1>1, <1>2, <1>7 DEF ApplicationInv, ApplicationTypeOK
<1>16. QED
  BY <1>1, <1>2, <1>13, <1>14, <1>15 DEF ApplicationInv

\* Terminate returns, the loop ends, time passes or the context is cancelled.
LEMMA LoopKeeps ==
  ASSUME ApplicationInv,
         \/ \E ok \in BOOLEAN : App!EndTerminate(ok)
         \/ App!ShutdownComplete \/ App!Tick \/ App!Abort
  PROVE  /\ ApplicationInv' /\ UNCHANGED <<appState, caller>>
         /\ shutdownState # "idle" /\ shutdownState' # "idle"
<1>1. shutdownState = "shutting down"
  BY DEF App!EndTerminate, App!ShutdownComplete, App!Tick, App!Abort, ApplicationInv,
         ApplicationTypeOK, TerminationInv
<1>2. UNCHANGED <<remaining, terminated>> /\ shutdownState' \in {"shutting down", "complete"}
  BY <1>1 DEF App!EndTerminate, App!ShutdownComplete, App!Tick, App!Abort, App!termination
<1>3. /\ UNCHANGED <<appState, shutdownProviders, todo, entered, caller, appAnswer>>
      /\ ProvidersInv' /\ App!ToTerminate' = App!ToTerminate
  BY <1>1, <1>2, LoopLeaves DEF App!terminateProviders
<1>4. shutdownState' = "complete" =>
        /\ remaining' = {} /\ terminating' = 0 /\ failures' = failures
        /\ shutdownErr' = IF failures THEN "failed" ELSE "nil"
  BY <1>1 DEF App!EndTerminate, App!ShutdownComplete, App!Tick, App!Abort, App!termination
<1>5. TerminationInv'
  BY <1>1, <1>2, <1>3, <1>4 DEF ApplicationInv, TerminationInv
<1>6. AnswersInv'
  <2>1. \A c \in ShutdownCalls : appAnswer[c] # "nil"
    BY <1>1 DEF ApplicationInv, AnswersInv, Succeeded
  <2>2. QED
    BY <1>3, <1>4, <2>1 DEF AnswersInv, Succeeded
<1>7. ApplicationTypeOK'
  BY <1>2, <1>3 DEF ApplicationInv, ApplicationTypeOK
<1>8. QED
  BY <1>1, <1>2, <1>3, <1>5, <1>6, <1>7 DEF ApplicationInv

\* A step outside the application.
LEMMA ApplicationAlone ==
  ASSUME ApplicationInv, UNCHANGED application
  PROVE  ApplicationInv'
<1>1. ApplicationTypeOK'
  BY DEF application, ApplicationInv, ApplicationTypeOK
<1>2. ProvidersInv' /\ App!ToTerminate' = App!ToTerminate
  <2>1. UNCHANGED <<appState, shutdownProviders, todo, entered, shutdownState>>
    BY DEF application
  <2>2. shutdownState' = "idle" \/ ~App!Busy
    BY <2>1 DEF ApplicationInv, ProvidersInv
  <2>3. QED
    BY <2>1, <2>2, StartedStays
<1>3. TerminationInv'
  <2>1. UNCHANGED <<remaining, terminating, terminated, shutdownState>>
    BY DEF application
  <2>2. App!Range(terminated)' = App!Range(terminated)
    BY <2>1 DEF App!Range
  <2>3. QED
    BY <1>2, <2>1, <2>2 DEF ApplicationInv, TerminationInv
<1>4. AnswersInv'
  BY DEF application, ApplicationInv, AnswersInv, Succeeded
<1>5. QED
  BY <1>1, <1>2, <1>3, <1>4 DEF ApplicationInv

-----------------------------------------------------------------------------
(***************************************************************************)
(* The runtime in front of the application                                 *)
(***************************************************************************)
Early == finisher \in {"none", "waiting"}   \* the shutdown callback is not called yet

\* The runtime serves a booted application, and calls its shutdown after the last request.
OrderInv ==
  /\ finisher \in {"none", "waiting", "shutdown", "done"}
  /\ state = "open" <=> finisher = "none"
  /\ state = "closed" => ~Early
  /\ ~embedded => finisher = "none" /\ Active = {}
  /\ Early => caller[Callback] = "none"
  /\ embedded /\ Early => appState = "booted" /\ shutdownState = "idle"
  /\ ~Early => Active = {}

\* A Close passes on what the shutdown callback returned.
CloseInv ==
  /\ DOMAIN answer = Closers
  /\ state = "closed" /\ closeErr = "nil" => Succeeded
  /\ \A c \in Closers : answer[c] = "nil" => Succeeded

EmbeddedIInv == ApplicationInv /\ OrderInv /\ CloseInv

\* A success, once reported, is not taken back.
LEMMA SuccessStays ==
  ASSUME ApplicationInv, Succeeded,
         \/ App!Startup \/ App!terminateProviders \/ App!Tick \/ App!Abort
         \/ \E c \in ShutdownCalls : App!ShutdownCall(c) \/ App!waitForShutdown(c)
  PROVE  Succeeded'
<1>1. shutdownState = "complete" /\ terminating = 0 /\ ~failures
  BY DEF Succeeded, ApplicationInv, TerminationInv
<1>2. ~App!Startup
  BY <1>1, StartupKeeps
<1>3. ~App!terminateProviders /\ ~App!Tick /\ ~App!Abort
  BY <1>1 DEF App!terminateProviders, App!BeginTerminate, App!EndTerminate,
              App!ShutdownComplete, App!Tick, App!Abort
<1>4. UNCHANGED <<shutdownState, failures>>
  BY <1>1, <1>2, <1>3
  DEF App!ShutdownCall, App!waitForShutdown, App!Shutdown, App!ShutdownAnswered,
      App!ShutdownJoins, App!ResultReady, App!ContextEnds, App!termination
<1>5. QED
  BY <1>1, <1>4 DEF Succeeded

\* The answers of Close stay true while the application moves.
LEMMA CloseStays ==
  ASSUME CloseInv, Succeeded => Succeeded', UNCHANGED <<state, closeErr, answer>>
  PROVE  CloseInv'
BY DEF CloseInv

\* A step of the application, or of the host's call of Shutdown.
LEMMA ApplicationKeeps ==
  ASSUME EmbeddedIInv, ApplicationStep
  PROVE  EmbeddedIInv'
<1>1. UNCHANGED <<state, finisher, closeErr, answer, stage, embedded>>
  BY DEF ApplicationStep, vars
<1>2. Active' = Active
  BY <1>1 DEF Active
<1>3. Host \in ShutdownCalls /\ Callback \in ShutdownCalls /\ Host # Callback
  BY EmbeddedApplicationAssumption DEF ShutdownCalls
<1>4. Succeeded => Succeeded'
  BY <1>3, SuccessStays DEF ApplicationStep, EmbeddedIInv
<1>5. CloseInv'
  BY <1>1, <1>4, CloseStays DEF EmbeddedIInv
<1>6. ASSUME ApplicationInv', caller'[Callback] = caller[Callback],
             \/ ~(embedded /\ Early)
             \/ UNCHANGED <<appState, shutdownState>>
      PROVE  EmbeddedIInv'
  BY <1>1, <1>2, <1>5, <1>6 DEF EmbeddedIInv, OrderInv, Early
<1>7. embedded /\ Early =>
        appState = "booted" /\ shutdownState = "idle" /\ caller[Callback] = "none"
  BY DEF EmbeddedIInv, OrderInv
<1>8. CASE App!Startup
  <2>1. ApplicationInv' /\ appState # "booted" /\ caller' = caller
    BY <1>8, StartupKeeps DEF EmbeddedIInv
  <2>2. QED
    BY <1>6, <1>7, <2>1
<1>9. CASE App!terminateProviders
  <2>1. ApplicationInv' /\ shutdownState # "idle" /\ caller' = caller
    <3>1. ASSUME NEW index \in remaining, App!BeginTerminate(index)
          PROVE  ApplicationInv' /\ shutdownState # "idle" /\ caller' = caller
      <4>1. shutdownState # "idle"
        BY <3>1 DEF App!BeginTerminate
      <4>2. QED
        BY <3>1, <4>1, BeginKeeps DEF EmbeddedIInv
    <3>2. QED
      BY <1>9, <3>1, LoopKeeps DEF App!terminateProviders, EmbeddedIInv
  <2>2. QED
    BY <1>6, <1>7, <2>1
<1>10. CASE App!Tick \/ App!Abort
  <2>1. ApplicationInv' /\ shutdownState # "idle" /\ caller' = caller
    BY <1>10, LoopKeeps DEF EmbeddedIInv
  <2>2. QED
    BY <1>6, <1>7, <2>1
<1>11. CASE HostMayShutdown /\ App!ShutdownCall(Host)
  <2>1. ApplicationInv' /\ caller'[Callback] = caller[Callback]
    BY <1>3, <1>11, CallsKeep DEF EmbeddedIInv
  <2>2. ~(embedded /\ Early)
    BY <1>7, <1>11 DEF HostMayShutdown
  <2>3. QED
    BY <1>6, <2>1, <2>2
<1>12. CASE App!waitForShutdown(Host)
  <2>1. ApplicationInv' /\ caller'[Callback] = caller[Callback] /\ appState' = appState
    BY <1>3, <1>12, CallsKeep DEF EmbeddedIInv
  <2>2. shutdownState' = shutdownState
    BY <1>12 DEF App!waitForShutdown, App!ResultReady, App!ContextEnds
  <2>3. QED
    BY <1>6, <2>1, <2>2
<1>13. QED
  BY <1>8, <1>9, <1>10, <1>11, <1>12 DEF ApplicationStep

\* The shutdown callback, which finishClose calls after the last request.
LEMMA CallbackKeeps ==
  ASSUME EmbeddedIInv, CallbackStep
  PROVE  EmbeddedIInv'
<1>1. UNCHANGED <<state, finisher, closeErr, answer, stage, embedded>> /\ finisher = "shutdown"
  BY DEF CallbackStep, vars
<1>2. Active' = Active
  BY <1>1 DEF Active
<1>3. Callback \in ShutdownCalls /\ (App!ShutdownCall(Callback) \/ App!waitForShutdown(Callback))
  BY DEF CallbackStep, App!ShutdownCall, App!waitForShutdown, ShutdownCalls
<1>4. ApplicationInv'
  BY <1>3, CallsKeep DEF EmbeddedIInv
<1>5. CloseInv'
  <2>1. Succeeded => Succeeded'
    BY <1>3, SuccessStays DEF EmbeddedIInv
  <2>2. QED
    BY <1>1, <2>1, CloseStays DEF EmbeddedIInv
<1>6. OrderInv'
  BY <1>1, <1>2 DEF EmbeddedIInv, OrderInv, Early
<1>7. QED
  BY <1>4, <1>5, <1>6 DEF EmbeddedIInv

\* The callback has returned and its result is the result of Close.
LEMMA CallbackReturnsKeeps ==
  ASSUME EmbeddedIInv, CallbackReturns
  PROVE  EmbeddedIInv'
<1>1. /\ finisher = "shutdown" /\ finisher' = "done" /\ closeErr' = appAnswer[Callback]
      /\ state' = "closed" /\ UNCHANGED <<answer, stage, embedded, application>>
  BY DEF CallbackReturns, finishClose
<1>2. ApplicationInv'
  BY <1>1, ApplicationAlone DEF EmbeddedIInv
<1>3. Active' = Active
  BY <1>1 DEF Active
<1>4. OrderInv'
  BY <1>1, <1>3 DEF EmbeddedIInv, OrderInv, Early
<1>5. UNCHANGED <<shutdownState, failures>>
  BY <1>1 DEF application
<1>6. appAnswer[Callback] = "nil" => Succeeded
  BY DEF EmbeddedIInv, ApplicationInv, AnswersInv, ShutdownCalls
<1>7. CloseInv'
  BY <1>1, <1>5, <1>6 DEF EmbeddedIInv, CloseInv, Succeeded
<1>8. QED
  BY <1>2, <1>4, <1>7 DEF EmbeddedIInv

\* Once the runtime is closing and its requests have ended, none begins.
LEMMA NoLateRequest ==
  ASSUME StreamTypeOK, StreamTypeOK', Active = {}, state # "open",
         \/ \E id \in Ids \cup {NoId}, kind \in Kinds : beginRequest(id, kind)
         \/ \E r \in Requests : Run(r) \/ Send(r) \/ NextJSON(r) \/ NextEnds(r)
         \/ \E id \in Ids : Cancel(id)
  PROVE  Active' = {}
<1>1. \A r \in Requests : stage[r] \in {"none", "refused", "done"}
  BY DEF Active
<1>2. \A r \in Requests : ~Run(r) /\ ~Send(r)
  BY <1>1 DEF Run, Return, ReturnStream, HandOver, Interrupted, FinishStream, Finish,
              ActiveDone, Send
<1>3. ASSUME NEW id \in Ids \cup {NoId}, NEW kind \in Kinds, beginRequest(id, kind)
      PROVE  Active' = {}
  <2>1. stage' = [stage EXCEPT ![count'] = "refused"]
    BY <1>3 DEF beginRequest, MayBegin, Goto
  <2>2. \A r \in Requests : stage'[r] \in {"none", "refused", "done"}
    BY <1>1, <2>1 DEF StreamTypeOK
  <2>3. QED
    BY <2>2 DEF Active
<1>4. ASSUME stage' = stage PROVE Active' = {}
  BY <1>4 DEF Active
<1>5. (\E r \in Requests : NextJSON(r) \/ NextEnds(r)) \/ (\E id \in Ids : Cancel(id))
        => stage' = stage
  BY DEF NextJSON, NextEnds, Cancel
<1>6. QED
  BY <1>2, <1>3, <1>4, <1>5

\* A step of the runtime itself.
LEMMA RuntimeKeeps ==
  ASSUME EmbeddedIInv, StreamTypeOK, StreamTypeOK', RuntimeStep
  PROVE  EmbeddedIInv'
<1>1. embedded /\ embedded' = embedded /\ UNCHANGED application /\ Operate
  BY DEF RuntimeStep
<1>2. ApplicationInv'
  BY <1>1, ApplicationAlone DEF EmbeddedIInv
<1>3. UNCHANGED <<appState, shutdownState, failures, caller>>
  BY <1>1 DEF application
<1>4. CASE \/ \E id \in Ids \cup {NoId}, kind \in Kinds : beginRequest(id, kind)
           \/ \E r \in Requests : Run(r) \/ Send(r) \/ NextJSON(r) \/ NextEnds(r)
           \/ \E id \in Ids : Cancel(id)
  <2>1. UNCHANGED lifecycle
    BY <1>4 DEF beginRequest, Run, Return, ReturnStream, HandOver, Interrupted, FinishStream,
                Finish, ActiveDone, Send, NextJSON, NextEnds, Cancel
  <2>2. UNCHANGED <<state, finisher, closeErr, answer>>
    BY <2>1 DEF lifecycle
  <2>3. ~Early => Active' = {}
    <3>1. ~Early => Active = {} /\ state # "open"
      BY DEF EmbeddedIInv, OrderInv, Early
    <3>2. QED
      BY <1>4, <3>1, NoLateRequest
  <2>4. OrderInv'
    BY <1>1, <1>3, <2>2, <2>3 DEF EmbeddedIInv, OrderInv, Early
  <2>5. CloseInv'
    BY <1>3, <2>2 DEF EmbeddedIInv, CloseInv, Succeeded
  <2>6. QED
    BY <1>2, <2>4, <2>5 DEF EmbeddedIInv
<1>5. CASE (\E c \in Closers : Close(c) \/ CloseReturns(c)) \/ WaitReturns
  <2>1. stage' = stage /\ closeErr' = closeErr
    BY <1>5 DEF Close, CloseReturns, WaitReturns
  <2>2. Active' = Active
    BY <2>1 DEF Active
  <2>3. ASSUME NEW c \in Closers, Close(c) PROVE EmbeddedIInv'
    <3>1. /\ answer' = answer
          /\ \/ state = "open" /\ state' = "closing" /\ finisher' = "waiting"
             \/ UNCHANGED <<state, finisher>>
      BY <2>3 DEF Close, FirstClose
    <3>2. OrderInv'
      BY <1>1, <1>3, <2>2, <3>1 DEF EmbeddedIInv, OrderInv, Early
    <3>3. CloseInv'
      BY <1>3, <2>1, <3>1 DEF EmbeddedIInv, CloseInv, Succeeded
    <3>4. QED
      BY <1>2, <3>2, <3>3 DEF EmbeddedIInv
  <2>4. ASSUME NEW c \in Closers, CloseReturns(c) PROVE EmbeddedIInv'
    <3>1. /\ UNCHANGED <<state, finisher>>
          /\ \/ state = "closed" /\ answer' = [answer EXCEPT ![c] = closeErr]
             \/ answer' = [answer EXCEPT ![c] = "deadline"]
      BY <2>4 DEF CloseReturns, MayAnswer
    <3>2. OrderInv'
      BY <1>1, <1>3, <2>2, <3>1 DEF EmbeddedIInv, OrderInv, Early
    <3>3. CloseInv'
      BY <1>3, <2>1, <3>1 DEF EmbeddedIInv, CloseInv, Succeeded
    <3>4. QED
      BY <1>2, <3>2, <3>3 DEF EmbeddedIInv
  <2>5. ASSUME WaitReturns PROVE EmbeddedIInv'
    <3>1. /\ finisher = "waiting" /\ finisher' = "shutdown" /\ Active = {}
          /\ UNCHANGED <<state, answer>>
      BY <2>5 DEF WaitReturns
    <3>2. OrderInv'
      BY <1>1, <1>3, <2>2, <3>1 DEF EmbeddedIInv, OrderInv, Early
    <3>3. CloseInv'
      BY <1>3, <2>1, <3>1 DEF EmbeddedIInv, CloseInv, Succeeded
    <3>4. QED
      BY <1>2, <3>2, <3>3 DEF EmbeddedIInv
  <2>6. QED
    BY <1>5, <2>3, <2>4, <2>5
<1>6. QED
  BY <1>1, <1>4, <1>5 DEF Operate

\* In every reachable state the runtime serves a booted application, the shutdown has
\* terminated exactly the providers it has passed, and nobody was told otherwise.
THEOREM EmbeddedInvariant == RuntimeSpec => []EmbeddedIInv
<1>1. RuntimeInit => EmbeddedIInv
  <2> SUFFICES ASSUME RuntimeInit PROVE EmbeddedIInv
    OBVIOUS
  <2>1. ApplicationInv
    <3>1. ApplicationTypeOK
      BY DEF RuntimeInit, App!Init, ApplicationTypeOK, ShutdownCalls
    <3>2. ProvidersInv
      BY DEF RuntimeInit, App!Init, ProvidersInv
    <3>3. TerminationInv /\ AnswersInv
      BY DEF RuntimeInit, App!Init, TerminationInv, AnswersInv, ShutdownCalls
    <3>4. QED
      BY <3>1, <3>2, <3>3 DEF ApplicationInv
  <2>2. Active = {}
    BY DEF RuntimeInit, Init, Active
  <2>3. OrderInv
    BY <2>2 DEF RuntimeInit, Init, App!Init, OrderInv, Early
  <2>4. CloseInv
    BY DEF RuntimeInit, Init, CloseInv
  <2>5. QED
    BY <2>1, <2>3, <2>4 DEF EmbeddedIInv
<1>2. EmbeddedIInv /\ StreamInv /\ StreamInv' /\ [RuntimeNext]_allVars => EmbeddedIInv'
  <2> SUFFICES ASSUME EmbeddedIInv, StreamInv, StreamInv', [RuntimeNext]_allVars
               PROVE  EmbeddedIInv'
    OBVIOUS
  <2>1. CASE ApplicationStep
    BY <2>1, ApplicationKeeps
  <2>2. CASE RuntimeStep
    BY <2>2, RuntimeKeeps DEF StreamInv
  <2>3. CASE CallbackStep
    BY <2>3, CallbackKeeps
  <2>4. CASE CallbackReturns
    BY <2>4, CallbackReturnsKeeps
  <2>5. CASE NewRuntime \/ UNCHANGED allVars
    <3>1. /\ UNCHANGED application /\ UNCHANGED <<state, finisher, closeErr, answer, stage>>
          /\ \/ embedded' = embedded
             \/ embedded' /\ appState = "booted" /\ shutdownState = "idle" /\ ~embedded
      BY <2>5 DEF NewRuntime, allVars, vars
    <3>2. ApplicationInv'
      BY <3>1, ApplicationAlone DEF EmbeddedIInv
    <3>3. UNCHANGED <<appState, shutdownState, failures, caller>> /\ Active' = Active
      BY <3>1 DEF application, Active
    <3>4. OrderInv'
      BY <3>1, <3>3 DEF EmbeddedIInv, OrderInv, Early
    <3>5. CloseInv'
      BY <3>1, <3>3 DEF EmbeddedIInv, CloseInv, Succeeded
    <3>6. QED
      BY <3>2, <3>4, <3>5 DEF EmbeddedIInv
  <2>6. QED
    BY <2>1, <2>2, <2>3, <2>4, <2>5 DEF RuntimeNext
<1>3. QED
  BY <1>1, <1>2, StreamInvariant, PTL DEF RuntimeSpec

\* No handler runs on providers that are being torn down, and none before they are up.
THEOREM ProvidersFound == RuntimeSpec => []RequestsFindProviders
<1>1. EmbeddedIInv => RequestsFindProviders
  BY DEF EmbeddedIInv, ApplicationInv, TerminationInv, OrderInv, RequestsFindProviders
<1>2. QED
  BY <1>1, EmbeddedInvariant, PTL

\* A completed shutdown has terminated every provider that entered Register, once and in
\* reverse order, and a Close that reports success reports that.
THEOREM CloseTruthful == RuntimeSpec => []CloseReportsTermination
<1>1. EmbeddedIInv => CloseReportsTermination
  <2> SUFFICES ASSUME EmbeddedIInv
               PROVE  /\ App!TerminatesAllInReverse
                      /\ \A c \in Closers : answer[c] = "nil" => Succeeded
    BY DEF CloseReportsTermination, Succeeded
  <2>1. ASSUME shutdownState = "complete"
        PROVE  App!Range(terminated) = App!Range(entered) \cap Terminable
    <3>1. App!Range(terminated) = App!ToTerminate
      BY <2>1 DEF EmbeddedIInv, ApplicationInv, TerminationInv
    <3>2. QED
      BY <3>1, PlaceIsNumber DEF EmbeddedIInv, ApplicationInv
  <2>2. App!TerminatesAllInReverse
    BY <2>1 DEF App!TerminatesAllInReverse, EmbeddedIInv, ApplicationInv, TerminationInv
  <2>3. QED
    BY <2>2 DEF EmbeddedIInv, CloseInv
<1>2. QED
  BY <1>1, EmbeddedInvariant, PTL

-----------------------------------------------------------------------------
(***************************************************************************)
(* The children of a dev session                                           *)
(***************************************************************************)
SessionSpec == Dev!SessionInit /\ [][Dev!SessionNext]_session

Builds == Nat \cup {NoBuild}
Child == [state : {"none", "running", "exited", "done"}, build : Builds]

SessionTypeOK ==
  /\ source \in Nat
  /\ exe \in [installed : Builds, candidate : Builds]
  /\ child \in [Dev!Children -> Child]

\* Who can be alive where the supervisor is: a desktop session has no backend of its
\* own, and what runs the backend has been reaped before it is replaced.
ChildrenInv ==
  /\ mode = "sidecar" => ~Dev!Alive("backend")
  /\ pc \in {"build", "start"} => \A c \in Dev!Children : ~Dev!Alive(c)
  /\ pc = "ready" => mode # "sidecar" /\ ~Dev!Alive("flutter")
  /\ pc = "ready again" => mode # "sidecar"
  /\ pc \in {"install", "restart"} => ~Dev!Alive(Dev!Restarted)
  /\ NoChildOutlivesSession

SessionInv == SessionTypeOK /\ ChildrenInv

\* A child starts, exits or is reaped; the other one does not notice.
LEMMA ChildSteps ==
  ASSUME SessionTypeOK, NEW c \in Dev!Children
  PROVE  /\ Dev!Start(c) => /\ child' \in [Dev!Children -> Child]
                            /\ \A d \in Dev!Children : d # c => child'[d] = child[d]
         /\ Dev!Reap(c) => /\ child' \in [Dev!Children -> Child] /\ child'[c].state = "done"
                           /\ \A d \in Dev!Children : d # c => child'[d] = child[d]
         /\ child' = [child EXCEPT ![c].state = "exited"] =>
              /\ child' \in [Dev!Children -> Child] /\ child'[c].state = "exited"
              /\ \A d \in Dev!Children : d # c => child'[d] = child[d]
BY DEF SessionTypeOK, Child, Builds, Dev!Start, Dev!Reap

\* Unless a child starts, nobody comes alive.
Fewer == \A c \in Dev!Children : Dev!Alive(c)' => Dev!Alive(c)

\* A reaped child is not alive.
LEMMA ReapFewer ==
  ASSUME SessionTypeOK, NEW c \in Dev!Children, Dev!Reap(c)
  PROVE  child' \in [Dev!Children -> Child] /\ Fewer /\ ~Dev!Alive(c)'
<1>1. /\ child' \in [Dev!Children -> Child] /\ child'[c].state = "done"
      /\ \A d \in Dev!Children : d # c => child'[d] = child[d]
  BY ChildSteps
<1>2. ~Dev!Alive(c)'
  BY <1>1 DEF Dev!Alive
<1>3. QED
  BY <1>1, <1>2 DEF Fewer, Dev!Alive

\* A session that stops waits for whoever is alive.
LEMMA StoppingIsTrue ==
  ASSUME Fewer, UNCHANGED mode, ChildrenInv, pc' = Dev!Stopping
  PROVE  ChildrenInv'
<1>1. pc' \in {"stopping", "ended"}
  BY DEF Dev!Stopping
<1>2. pc' = "ended" => \A c \in Dev!Children : ~Dev!Alive(c)'
  BY DEF Dev!Stopping
<1>3. mode' = "sidecar" => ~Dev!Alive("backend")'
  BY DEF ChildrenInv, Fewer, Dev!Children
<1>4. NoChildOutlivesSession'
  BY <1>2 DEF NoChildOutlivesSession, Dev!NoChildOutlivesSession, Dev!Alive
<1>5. QED
  BY <1>1, <1>3, <1>4 DEF ChildrenInv

\* A session that gives up a replacement leaves nobody alive unheard of.
LEMMA AbandoningIsTrue ==
  ASSUME Fewer, UNCHANGED mode, ChildrenInv, Dev!Abandons,
         mode = "sidecar" => ~Dev!Alive(Dev!Restarted)' \/ stuck'
  PROVE  ChildrenInv'
<1>1. CASE mode # "sidecar"
  BY <1>1, StoppingIsTrue DEF Dev!Abandons
<1>2. CASE mode = "sidecar"
  <2>1. pc' = "ended" /\ Dev!Restarted' = Dev!Restarted
    BY <1>2 DEF Dev!Abandons, Dev!Restarted
  <2>2. ~Dev!Alive("backend")'
    BY <1>2 DEF ChildrenInv, Fewer, Dev!Children
  <2>3. ASSUME NEW c \in Dev!Children, ~stuck'  PROVE ~Dev!Alive(c)'
    <3>1. CASE c = "backend"
      BY <2>2, <3>1 DEF Dev!Alive
    <3>2. CASE c = "flutter"
      BY <1>2, <2>1, <2>3, <3>2 DEF Dev!Alive, Dev!Restarted
    <3>3. QED
      BY <3>1, <3>2 DEF Dev!Children
  <2>4. NoChildOutlivesSession'
    BY <2>3 DEF NoChildOutlivesSession, Dev!NoChildOutlivesSession, Dev!Alive
  <2>5. QED
    BY <2>1, <2>2, <2>4 DEF ChildrenInv
<1>3. QED
  BY <1>1, <1>2

\* Where the supervisor asks nothing more of the children, or stays where it is,
\* a step that starts nobody keeps the account.
Easy == {"session", "rebuild", "built", "replace", "stopping", "interrupted"}
LEMMA EasyStep ==
  ASSUME ChildrenInv, Fewer, UNCHANGED <<mode, stuck>>, pc' \in Easy \/ pc' = pc
  PROVE  ChildrenInv'
<1>1. Dev!Restarted' = Dev!Restarted /\ Dev!Restarted \in Dev!Children /\ "backend" \in Dev!Children /\ "flutter" \in Dev!Children
  BY DEF Dev!Restarted, Dev!Children
<1>2. mode' = "sidecar" => ~Dev!Alive("backend")'
  BY <1>1 DEF ChildrenInv, Fewer
<1>3. CASE pc' \in Easy
  BY <1>2, <1>3 DEF Easy, ChildrenInv, NoChildOutlivesSession, Dev!NoChildOutlivesSession
<1>4. CASE pc' = pc
  <2>1. pc' \in {"build", "start"} => \A c \in Dev!Children : ~Dev!Alive(c)'
    BY <1>4 DEF ChildrenInv, Fewer
  <2>2. pc' = "ready" => mode' # "sidecar" /\ ~Dev!Alive("flutter")'
    BY <1>1, <1>4 DEF ChildrenInv, Fewer
  <2>3. pc' \in {"install", "restart"} => ~Dev!Alive(Dev!Restarted)'
    BY <1>1, <1>4 DEF ChildrenInv, Fewer, Dev!Alive
  <2>4. NoChildOutlivesSession'
    BY <1>4 DEF ChildrenInv, Fewer, NoChildOutlivesSession, Dev!NoChildOutlivesSession, Dev!Alive
  <2>5. pc' = "ready again" => mode' # "sidecar"
    BY <1>4 DEF ChildrenInv
  <2>6. QED
    BY <1>2, <2>1, <2>2, <2>3, <2>4, <2>5 DEF ChildrenInv
<1>5. QED
  BY <1>3, <1>4

\* A start of whoever runs the backend, or of Flutter, for a session that goes on.
LEMMA StartStep ==
  ASSUME SessionTypeOK, ChildrenInv, UNCHANGED mode, NEW c \in Dev!Children, Dev!Start(c),
         pc' = "session" \/ (pc' = "ready again" /\ mode # "sidecar")
           \/ (pc' = "ready" /\ mode # "sidecar" /\ c = "backend" /\ ~Dev!Alive("flutter")),
         mode = "sidecar" => c = "flutter"
  PROVE  ChildrenInv' /\ child' \in [Dev!Children -> Child]
<1>1. child' \in [Dev!Children -> Child] /\ \A d \in Dev!Children : d # c => child'[d] = child[d]
  BY ChildSteps
<1>2. mode' = "sidecar" => ~Dev!Alive("backend")'
  BY <1>1 DEF ChildrenInv, Dev!Alive, Dev!Children
<1>3. pc' = "ready" => mode' # "sidecar" /\ ~Dev!Alive("flutter")'
  BY <1>1 DEF Dev!Alive, Dev!Children
<1>4. NoChildOutlivesSession'
  BY DEF NoChildOutlivesSession, Dev!NoChildOutlivesSession
<1>5. QED
  BY <1>1, <1>2, <1>3, <1>4 DEF ChildrenInv

\* When nothing changes for the children, nobody comes alive.
LEMMA UnchangedFewer ==
  ASSUME UNCHANGED child
  PROVE  Fewer
BY DEF Fewer, Dev!Alive

\* The executables a session writes.
LEMMA Executables ==
  ASSUME SessionTypeOK
  PROVE  /\ [exe EXCEPT !.candidate = NoBuild] \in [installed : Builds, candidate : Builds]
         /\ [exe EXCEPT !.installed = NoBuild] \in [installed : Builds, candidate : Builds]
         /\ [exe EXCEPT !.installed = source] \in [installed : Builds, candidate : Builds]
         /\ [exe EXCEPT !.candidate = source] \in [installed : Builds, candidate : Builds]
         /\ [installed |-> exe.candidate, candidate |-> NoBuild] \in [installed : Builds, candidate : Builds]
BY DEF SessionTypeOK, Builds

\* A supervisor step of either kind keeps the account of the children.
LEMMA SupervisorStep ==
  ASSUME SessionInv, Dev!SupervisorNext
  PROVE  SessionInv'
<1> USE DEF SessionInv
<1>1. "backend" \in Dev!Children /\ "flutter" \in Dev!Children /\ Dev!Restarted \in Dev!Children
  BY DEF Dev!Children, Dev!Restarted
<1>2. CASE Dev!FirstBuild
  <2>1. UNCHANGED <<mode, source, child, stuck>> /\ exe' \in [installed : Builds, candidate : Builds]
    BY <1>2, Executables DEF Dev!FirstBuild, Dev!Settings, Dev!At, SessionTypeOK
  <2>2. pc = "build" /\ pc' \in {"start", "ended"}
    BY <1>2 DEF Dev!FirstBuild, Dev!At
  <2>3. Fewer
    BY <2>1, UnchangedFewer
  <2>4. \A c \in Dev!Children : ~Dev!Alive(c)'
    BY <2>2, <2>3 DEF ChildrenInv, Fewer
  <2>5. ~Dev!Alive("backend")'
    BY <1>1, <2>4
  <2>6. NoChildOutlivesSession'
    BY <2>4 DEF NoChildOutlivesSession, Dev!NoChildOutlivesSession, Dev!Alive
  <2>7. QED
    BY <2>1, <2>2, <2>4, <2>5, <2>6 DEF SessionTypeOK, ChildrenInv
<1>3. CASE Dev!FirstStart
  <2>1. UNCHANGED <<mode, source, exe, stuck>> /\ pc = "start"
    BY <1>3 DEF Dev!FirstStart, Dev!Settings, Dev!At
  <2>2. CASE mode = "sidecar" /\ pc' = "session" /\ Dev!Start("flutter")
    BY <1>1, <2>1, <2>2, StartStep DEF SessionTypeOK
  <2>3. CASE mode = "http" /\ pc' = "ready" /\ Dev!Start("backend")
    <3>1. ~Dev!Alive("flutter")
      BY <1>1, <2>1 DEF ChildrenInv
    <3>2. QED
      BY <1>1, <2>1, <2>3, <3>1, StartStep DEF SessionTypeOK
  <2>4. CASE pc' = "ended" /\ UNCHANGED child
    <3>1. \A c \in Dev!Children : ~Dev!Alive(c)'
      BY <2>1, <2>4, UnchangedFewer DEF ChildrenInv, Fewer
    <3>2. ~Dev!Alive("backend")'
      BY <1>1, <3>1
    <3>3. NoChildOutlivesSession'
      BY <3>1 DEF NoChildOutlivesSession, Dev!NoChildOutlivesSession, Dev!Alive
    <3>4. QED
      BY <2>1, <2>4, <3>2, <3>3 DEF SessionTypeOK, ChildrenInv
  <2>5. QED
    BY <1>3, <2>2, <2>3, <2>4 DEF Dev!FirstStart, Dev!At
<1>4. CASE Dev!FirstReady
  <2>1. UNCHANGED <<mode, source, exe, stuck>> /\ pc = "ready" /\ mode # "sidecar" /\ ~Dev!Alive("flutter")
    BY <1>4 DEF Dev!FirstReady, Dev!Settings, Dev!At, ChildrenInv
  <2>2. CASE pc' = "session" /\ Dev!Start("flutter")
    BY <1>1, <2>1, <2>2, StartStep DEF SessionTypeOK
  <2>3. CASE pc' = "stopping" /\ UNCHANGED child
    BY <2>1, <2>3, UnchangedFewer, EasyStep DEF SessionTypeOK, Easy
  <2>4. CASE pc' = "ended" /\ Dev!Reap("backend")
    <3>1. child' \in [Dev!Children -> Child] /\ Fewer /\ ~Dev!Alive("backend")'
      BY <1>1, <2>4, ReapFewer
    <3>2. ~Dev!Alive("flutter")'
      BY <1>1, <2>1, <3>1 DEF Fewer
    <3>3. NoChildOutlivesSession'
      BY <3>1, <3>2 DEF NoChildOutlivesSession, Dev!NoChildOutlivesSession, Dev!Alive, Dev!Children
    <3>4. QED
      BY <2>1, <2>4, <3>1, <3>3 DEF SessionTypeOK, ChildrenInv
  <2>5. QED
    BY <1>4, <2>2, <2>3, <2>4 DEF Dev!FirstReady, Dev!At
<1>5. CASE Dev!SessionInterrupted
  <2>1. UNCHANGED <<mode, source, child>> /\ pc' = Dev!Stopping /\ exe' \in [installed : Builds, candidate : Builds]
    BY <1>5, Executables DEF Dev!SessionInterrupted, Dev!Settings
  <2>2. QED
    BY <2>1, UnchangedFewer, StoppingIsTrue DEF SessionTypeOK
<1>6. CASE Dev!RebuildStarts \/ Dev!Rebuilds \/ Dev!Replaces \/ Dev!Kills
  <2>1. UNCHANGED <<mode, source, child, stuck>> /\ exe' \in [installed : Builds, candidate : Builds]
    BY <1>6, Executables DEF Dev!RebuildStarts, Dev!Rebuilds, Dev!rebuildBackend, Dev!Replaces, Dev!Kills, Dev!Settings, SessionTypeOK
  <2>2. pc' \in Easy \/ pc' = pc
    BY <1>6 DEF Dev!RebuildStarts, Dev!Rebuilds, Dev!Replaces, Dev!Kills, Dev!At, Easy
  <2>3. QED
    BY <2>1, <2>2, UnchangedFewer, EasyStep DEF SessionTypeOK
<1>7. CASE Dev!Stopped
  <2>1. UNCHANGED <<mode, source, stuck>> /\ pc = "replace" /\ exe' \in [installed : Builds, candidate : Builds]
    BY <1>7, Executables DEF Dev!Stopped, Dev!Settings, SessionTypeOK
  <2>2. child' \in [Dev!Children -> Child] /\ Fewer /\ ~Dev!Alive(Dev!Restarted)' /\ Dev!Restarted' = Dev!Restarted
    <3>1. PICK c \in Dev!Children : c = Dev!Restarted /\ Dev!Reap(c)
      BY <1>1, <1>7 DEF Dev!Stopped
    <3>2. child' \in [Dev!Children -> Child] /\ Fewer /\ ~Dev!Alive(c)'
      BY <3>1, ReapFewer
    <3>3. Dev!Restarted' = c
      BY <2>1, <3>1 DEF Dev!Restarted
    <3>4. QED
      BY <3>1, <3>2, <3>3 DEF Dev!Alive
  <2>3. CASE Dev!Abandons
    BY <2>1, <2>2, <2>3, AbandoningIsTrue DEF SessionTypeOK
  <2>4. CASE pc' = "install"
    <3>1. mode' = "sidecar" => ~Dev!Alive("backend")'
      BY <1>1, <2>1, <2>2 DEF ChildrenInv, Fewer
    <3>2. NoChildOutlivesSession'
      BY <2>4 DEF NoChildOutlivesSession, Dev!NoChildOutlivesSession
    <3>3. QED
      BY <2>1, <2>2, <2>4, <3>1, <3>2 DEF SessionTypeOK, ChildrenInv
  <2>5. QED
    BY <1>7, <2>3, <2>4 DEF Dev!Stopped
<1>8. CASE Dev!SurvivesKill
  <2>1. UNCHANGED <<mode, source, child>> /\ stuck' /\ Dev!Abandons /\ exe' \in [installed : Builds, candidate : Builds]
    BY <1>8, Executables DEF Dev!SurvivesKill, Dev!Settings
  <2>2. QED
    BY <2>1, UnchangedFewer, AbandoningIsTrue DEF SessionTypeOK
<1>9. CASE Dev!Installs
  <2>1. UNCHANGED <<mode, source, child, stuck>> /\ pc = "install" /\ exe' \in [installed : Builds, candidate : Builds]
    BY <1>9, Executables DEF Dev!Installs, Dev!Settings, Dev!At, SessionTypeOK
  <2>2. ~Dev!Alive(Dev!Restarted)' /\ Fewer
    BY <2>1, UnchangedFewer DEF ChildrenInv, Dev!Alive, Dev!Restarted
  <2>3. CASE Dev!Abandons
    BY <2>1, <2>2, <2>3, AbandoningIsTrue DEF SessionTypeOK
  <2>4. CASE pc' = "restart"
    <3>1. mode' = "sidecar" => ~Dev!Alive("backend")'
      BY <1>1, <2>1, <2>2 DEF ChildrenInv, Fewer
    <3>2. NoChildOutlivesSession'
      BY <2>4 DEF NoChildOutlivesSession, Dev!NoChildOutlivesSession
    <3>3. QED
      BY <2>1, <2>2, <2>4, <3>1, <3>2 DEF SessionTypeOK, ChildrenInv
  <2>5. QED
    BY <1>9, <2>3, <2>4 DEF Dev!Installs, Dev!At
<1>10. CASE Dev!Restarts
  <2>1. UNCHANGED <<mode, source, exe, stuck>> /\ pc = "restart"
    BY <1>10 DEF Dev!Restarts, Dev!Settings
  <2>2. CASE Dev!Start(Dev!Restarted) /\ pc' = (IF mode = "http" THEN "ready again" ELSE "session")
    <3>1. PICK c \in Dev!Children : c = Dev!Restarted /\ Dev!Start(c)
      BY <1>1, <2>2
    <3>2. (mode = "sidecar" => c = "flutter") /\ (pc' = "session" \/ (pc' = "ready again" /\ mode # "sidecar"))
      BY <2>2, <3>1 DEF Dev!Restarted
    <3>3. QED
      BY <2>1, <3>1, <3>2, StartStep DEF SessionTypeOK
  <2>3. CASE UNCHANGED child /\ Dev!Abandons
    <3>1. ~Dev!Alive(Dev!Restarted)' /\ Fewer
      BY <2>1, <2>3, UnchangedFewer DEF ChildrenInv, Dev!Alive, Dev!Restarted
    <3>2. QED
      BY <2>1, <2>3, <3>1, AbandoningIsTrue DEF SessionTypeOK
  <2>4. QED
    BY <1>10, <2>2, <2>3 DEF Dev!Restarts
<1>11. CASE Dev!ReadyAgain
  <2>1. UNCHANGED <<mode, source, exe, child, stuck>> /\ mode # "sidecar" /\ Fewer
    BY <1>11, UnchangedFewer DEF Dev!ReadyAgain, Dev!Settings, Dev!At, ChildrenInv
  <2>2. CASE pc' = "session"
    BY <2>1, <2>2, EasyStep DEF SessionTypeOK, Easy
  <2>3. CASE Dev!Abandons
    BY <2>1, <2>3, AbandoningIsTrue DEF SessionTypeOK
  <2>4. QED
    BY <1>11, <2>2, <2>3 DEF Dev!ReadyAgain, Dev!At
<1>12. CASE Dev!StopGivesUp
  <2>1. UNCHANGED <<mode, source, exe, child>> /\ stuck' /\ pc' = "ended" /\ Fewer
    BY <1>12, UnchangedFewer DEF Dev!StopGivesUp, Dev!Settings, Dev!At
  <2>2. mode' = "sidecar" => ~Dev!Alive("backend")'
    BY <1>1, <2>1 DEF ChildrenInv, Fewer
  <2>3. NoChildOutlivesSession'
    BY <2>1 DEF NoChildOutlivesSession, Dev!NoChildOutlivesSession
  <2>4. QED
    BY <2>1, <2>2, <2>3 DEF SessionTypeOK, ChildrenInv
<1>13. ASSUME NEW c \in Dev!Children, Dev!ChildExited(c) \/ Dev!OtherExits(c) \/ Dev!StopReaps(c)
       PROVE  SessionInv'
  <2>1. UNCHANGED <<mode, source, stuck>> /\ Dev!Reap(c) /\ exe' \in [installed : Builds, candidate : Builds]
    BY <1>13, Executables DEF Dev!ChildExited, Dev!OtherExits, Dev!StopReaps, Dev!Settings, SessionTypeOK
  <2>2. child' \in [Dev!Children -> Child] /\ Fewer
    BY <2>1, ReapFewer
  <2>3. CASE pc' = Dev!Stopping
    BY <2>1, <2>2, <2>3, StoppingIsTrue DEF SessionTypeOK
  <2>4. CASE pc' = pc
    BY <2>1, <2>2, <2>4, EasyStep DEF SessionTypeOK
  <2>5. QED
    BY <1>13, <2>3, <2>4 DEF Dev!ChildExited, Dev!OtherExits, Dev!StopReaps
<1>14. QED
  BY <1>2, <1>3, <1>4, <1>5, <1>6, <1>7, <1>8, <1>9, <1>10, <1>11, <1>12, <1>13 DEF Dev!SupervisorNext

\* At any moment of `bridra dev`, with any number of edits, the children that can be
\* alive are the ones the supervisor still waits for.
THEOREM SessionInvariant == SessionSpec => []SessionInv
<1>1. Dev!SessionInit => SessionInv
  <2>1. SUFFICES ASSUME Dev!SessionInit  PROVE SessionInv
    OBVIOUS
  <2>2. \A c \in Dev!Children : child[c].state = "none"
    BY <2>1 DEF Dev!SessionInit
  <2>3. \A c \in Dev!Children : ~Dev!Alive(c)
    BY <2>2 DEF Dev!Alive
  <2>4. SessionTypeOK
    BY <2>1 DEF Dev!SessionInit, SessionTypeOK, Builds, Child
  <2>5. ~Dev!Alive("backend")
    BY <2>3 DEF Dev!Children
  <2>6. pc = "build"
    BY <2>1 DEF Dev!SessionInit
  <2>7. QED
    BY <2>3, <2>4, <2>5, <2>6 DEF SessionInv, ChildrenInv, NoChildOutlivesSession, Dev!NoChildOutlivesSession
<1>2. SessionInv /\ [Dev!SessionNext]_session => SessionInv'
  <2>1. SUFFICES ASSUME SessionInv, [Dev!SessionNext]_session  PROVE SessionInv'
    OBVIOUS
  <2>2. CASE Dev!SupervisorNext
    BY <2>1, <2>2, SupervisorStep
  <2>3. CASE Dev!Edit \/ Dev!Poll \/ Dev!Interrupt \/ UNCHANGED session
    <3>1. UNCHANGED <<mode, exe, child, stuck>> /\ source' \in Nat
      BY <2>1, <2>3 DEF Dev!Edit, Dev!Poll, Dev!Interrupt, session, SessionInv, SessionTypeOK
    <3>2. pc' \in Easy \/ pc' = pc
      BY <2>3 DEF Dev!Edit, Dev!Poll, Dev!Interrupt, session, Easy
    <3>3. QED
      BY <2>1, <3>1, <3>2, UnchangedFewer, EasyStep DEF SessionInv, SessionTypeOK
  <2>4. ASSUME NEW c \in Dev!Children, Dev!Exits(c)  PROVE SessionInv'
    <3>1. UNCHANGED <<mode, source, exe, pc, stuck>> /\ child[c].state = "running"
      BY <2>4 DEF Dev!Exits
    <3>2. /\ child' \in [Dev!Children -> Child] /\ child'[c].state = "exited"
          /\ \A d \in Dev!Children : d # c => child'[d] = child[d]
      BY <2>1, <2>4, ChildSteps DEF Dev!Exits, SessionInv
    <3>3. Fewer
      BY <3>1, <3>2 DEF Fewer, Dev!Alive
    <3>4. QED
      BY <2>1, <3>1, <3>2, <3>3, EasyStep DEF SessionInv, SessionTypeOK
  <2>5. QED
    BY <2>1, <2>2, <2>3, <2>4 DEF Dev!SessionNext
<1>3. QED
  BY <1>1, <1>2, PTL DEF SessionSpec

\* When `bridra dev` has returned, by whatever path, no child is left running unless
\* the command said that one did not exit after kill.
THEOREM SessionsEndClean == SessionSpec => []NoChildOutlivesSession
<1>1. SessionInv => NoChildOutlivesSession
  BY DEF SessionInv, ChildrenInv
<1>2. QED
  BY <1>1, SessionInvariant, PTL

-----------------------------------------------------------------------------
(***************************************************************************)
(* The values of a container, for any services and any configuration       *)
(***************************************************************************)
ResolutionSpec == Wired!ContainerInit /\ [][Wired!ContainerNext]_container

Lifetime == {"singleton", "transient", "scoped", "alias", "instance"}
Places == Scopes \cup {NoScope}
Frame == [id : Services, lifetime : Lifetime, todo : SUBSET Services, uses : SUBSET Scopes]
Thread == [stack : Seq(Frame), asks : SUBSET Services, scope : Places, left : Nat]

ContainerTypeOK ==
  /\ plan \in [lifetime : [Services -> Lifetime], needs : [Services -> SUBSET Services]]
  /\ published \in [Services -> [Places -> Seq(SUBSET Scopes)]]
  /\ thread \in [Resolvers -> Thread]

\* Where a service resolved in scope c is kept.
Kept(s, c) == IF plan.lifetime[s] = "scoped" THEN c ELSE NoScope

\* The factories a resolution is in: each of another service, what they have used so far
\* of their own scope only, and nothing at all from a singleton upwards.
StackInv(stack, c) ==
  /\ \A i \in 1..Len(stack) :
       /\ stack[i].lifetime = plan.lifetime[stack[i].id]
       /\ stack[i].uses \subseteq ({c} \ {NoScope})
  /\ \A i, j \in 1..Len(stack) : stack[i].id = stack[j].id => i = j
  /\ \A i, j \in 1..Len(stack) :
       stack[i].lifetime = "singleton" /\ i <= j => stack[j].lifetime # "scoped" /\ stack[j].uses = {}

\* What a factory under way will publish is not there yet, ...
AwaitedInv(t) ==
  \A i \in 1..Len(thread[t].stack) :
    Wired!Shared(thread[t].stack[i].id) =>
      published[thread[t].stack[i].id][Kept(thread[t].stack[i].id, thread[t].scope)] = <<>>

\* ... and no other thread is making it.
ApartInv(t, u) ==
  \A i \in 1..Len(thread[t].stack), j \in 1..Len(thread[u].stack) :
    thread[t].stack[i].id = thread[u].stack[j].id /\ Wired!Shared(thread[t].stack[i].id) =>
      Kept(thread[t].stack[i].id, thread[t].scope) # Kept(thread[t].stack[i].id, thread[u].scope)

ResolutionInv ==
  /\ ContainerTypeOK
  /\ \A t \in Resolvers : StackInv(thread[t].stack, thread[t].scope) /\ AwaitedInv(t)
  /\ \A t, u \in Resolvers : t # u => ApartInv(t, u)
  /\ Wired!SharedOnceWithinScope

\* What a factory is handed, from its own scope and, above a singleton, from none.
LEMMA Handed ==
  ASSUME NEW stack \in Seq(Frame), NEW c \in Places, StackInv(stack, c), stack # <<>>,
         NEW value \in SUBSET Scopes, value \subseteq ({c} \ {NoScope}),
         (\E i \in 1..Len(stack) : stack[i].lifetime = "singleton") => value = {}
  PROVE  /\ [stack EXCEPT ![Len(stack)].uses = @ \cup value] \in Seq(Frame)
         /\ StackInv([stack EXCEPT ![Len(stack)].uses = @ \cup value], c)
         /\ Len([stack EXCEPT ![Len(stack)].uses = @ \cup value]) = Len(stack)
         /\ \A i \in 1..Len(stack) : [stack EXCEPT ![Len(stack)].uses = @ \cup value][i].id = stack[i].id
<1>1. PICK new : new = [stack EXCEPT ![Len(stack)].uses = @ \cup value]
  OBVIOUS
<1>2. Len(stack) \in 1..Len(stack) /\ stack[Len(stack)] \in Frame
  OBVIOUS
<1>3. [stack[Len(stack)] EXCEPT !.uses = @ \cup value] \in Frame
  BY <1>2 DEF Frame
<1>4. new \in Seq(Frame) /\ Len(new) = Len(stack)
  BY <1>1, <1>2, <1>3
<1>5. \A i \in 1..Len(stack) :
        /\ new[i].id = stack[i].id /\ new[i].lifetime = stack[i].lifetime
        /\ new[i].uses = IF i = Len(stack) THEN stack[i].uses \cup value ELSE stack[i].uses
  <2>1. TAKE i \in 1..Len(stack)
  <2>2. stack[i] \in Frame
    OBVIOUS
  <2>3. CASE i = Len(stack)
    <3>1. new[i] = [stack[i] EXCEPT !.uses = @ \cup value]
      <4>1. PICK frame : frame = [stack[Len(stack)] EXCEPT !.uses = @ \cup value]
        OBVIOUS
      <4>2. new = [stack EXCEPT ![Len(stack)] = frame]
        BY <1>1, <4>1
      <4>3. DOMAIN stack = 1..Len(stack)
        OBVIOUS
      <4>4. new[Len(stack)] = frame
        BY <1>2, <4>2, <4>3
      <4>5. QED
        BY <2>3, <4>1, <4>4
    <3>2. QED
      BY <2>2, <2>3, <3>1 DEF Frame
  <2>4. CASE i # Len(stack)
    <3>1. new[i] = stack[i]
      BY <1>1, <2>4
    <3>2. QED
      BY <2>4, <3>1
  <2>5. QED
    BY <2>3, <2>4
<1>6. StackInv(new, c)
  <2>1. \A i \in 1..Len(new) : new[i].lifetime = plan.lifetime[new[i].id] /\ new[i].uses \subseteq ({c} \ {NoScope})
    BY <1>4, <1>5 DEF StackInv
  <2>2. \A i, j \in 1..Len(new) : new[i].id = new[j].id => i = j
    BY <1>4, <1>5 DEF StackInv
  <2>3. ASSUME NEW i \in 1..Len(new), NEW j \in 1..Len(new), new[i].lifetime = "singleton", i <= j
        PROVE  new[j].lifetime # "scoped" /\ new[j].uses = {}
    <3>1. stack[j].lifetime # "scoped" /\ stack[j].uses = {} /\ value = {}
      BY <1>4, <1>5, <2>3 DEF StackInv
    <3>2. QED
      BY <1>4, <1>5, <3>1
  <2>4. QED
    BY <2>1, <2>2, <2>3 DEF StackInv
<1>7. QED
  BY <1>1, <1>4, <1>5, <1>6

\* The factories below the one that returns.
LEMMA Popped ==
  ASSUME NEW stack \in Seq(Frame), NEW c, StackInv(stack, c), stack # <<>>
  PROVE  /\ Wired!Front(stack) \in Seq(Frame) /\ Len(Wired!Front(stack)) = Len(stack) - 1
         /\ StackInv(Wired!Front(stack), c)
         /\ \A i \in 1..(Len(stack) - 1) : Wired!Front(stack)[i] = stack[i]
<1>1. PICK front : front = Wired!Front(stack)
  OBVIOUS
<1>2. front \in Seq(Frame) /\ Len(front) = Len(stack) - 1 /\ \A i \in 1..(Len(stack) - 1) : front[i] = stack[i]
  <2>1. Len(stack) \in Nat /\ Len(stack) # 0
    OBVIOUS
  <2>2. front = SubSeq(stack, 1, Len(stack) - 1)
    BY <1>1 DEF Wired!Front
  <2>3. Len(front) = Len(stack) - 1
    <3>1. PICK n \in Nat : n = Len(stack) - 1
      BY <2>1
    <3>2. front = SubSeq(stack, 1, n)
      BY <2>2, <3>1
    <3>3. front = [i \in 1..n |-> stack[i]]
      BY <3>2
    <3>4. QED
      BY <3>1, <3>3
  <2>4. \A i \in 1..(Len(stack) - 1) : front[i] = stack[i]
    BY <2>1, <2>2
  <2>5. front \in Seq(Frame)
    BY <2>1, <2>2
  <2>6. QED
    BY <2>3, <2>4, <2>5
<1>3. StackInv(front, c)
  BY <1>2 DEF StackInv
<1>4. QED
  BY <1>1, <1>2, <1>3

\* One thread moves, within its scope; the factories it is in are old ones, or a new
\* one that found nothing published and nobody at it.
LEMMA ThreadMoves ==
  ASSUME ResolutionInv, UNCHANGED <<plan, published>>, NEW t \in Resolvers,
         thread' \in [Resolvers -> Thread],
         \A u \in Resolvers : u # t => thread'[u] = thread[u],
         StackInv(thread'[t].stack, thread'[t].scope),
         thread'[t].stack # <<>> => thread'[t].scope = thread[t].scope,
         \A i \in 1..Len(thread'[t].stack) :
           \/ \E j \in 1..Len(thread[t].stack) : thread'[t].stack[i].id = thread[t].stack[j].id
           \/ LET s == thread'[t].stack[i].id
              IN Wired!Shared(s) => ~Wired!Locked(t, s) /\ published[s][Wired!Place(t, s)] = <<>>
  PROVE  ResolutionInv'
<1>1. ContainerTypeOK'
  BY DEF ResolutionInv, ContainerTypeOK
<1>2. \A u \in Resolvers : thread[u].stack \in Seq(Frame) /\ thread'[u].stack \in Seq(Frame)
  BY DEF ResolutionInv, ContainerTypeOK, Thread
<1>3. \A s, c : Kept(s, c)' = Kept(s, c) /\ (Wired!Shared(s)' <=> Wired!Shared(s))
  BY DEF Kept, Wired!Shared
<1>4. \A u \in Resolvers : \A s : Wired!Place(u, s) = Kept(s, thread[u].scope)
  BY DEF Wired!Place, Kept
<1>5. ASSUME NEW u \in Resolvers  PROVE StackInv(thread[u].stack, thread[u].scope)'
  <2>1. StackInv(thread'[u].stack, thread'[u].scope)
    BY DEF ResolutionInv
  <2>2. QED
    BY <2>1 DEF StackInv
<1>6. ASSUME NEW i \in 1..Len(thread'[t].stack)
      PROVE  /\ thread'[t].scope = thread[t].scope
             /\ Wired!Shared(thread'[t].stack[i].id) =>
                  published[thread'[t].stack[i].id][Kept(thread'[t].stack[i].id, thread[t].scope)] = <<>>
             /\ \A u \in Resolvers : u # t => \A j \in 1..Len(thread[u].stack) :
                  thread'[t].stack[i].id = thread[u].stack[j].id /\ Wired!Shared(thread'[t].stack[i].id) =>
                    Kept(thread'[t].stack[i].id, thread[t].scope) # Kept(thread'[t].stack[i].id, thread[u].scope)
  <2>1. thread'[t].scope = thread[t].scope
    BY <1>2
  <2>2. PICK s : s = thread'[t].stack[i].id
    OBVIOUS
  <2>3. CASE \E j \in 1..Len(thread[t].stack) : s = thread[t].stack[j].id
    <3>1. PICK j \in 1..Len(thread[t].stack) : s = thread[t].stack[j].id
      BY <2>3
    <3>2. AwaitedInv(t) /\ \A u \in Resolvers : u # t => ApartInv(t, u)
      BY DEF ResolutionInv
    <3>3. QED
      BY <2>1, <2>2, <3>1, <3>2 DEF AwaitedInv, ApartInv
  <2>4. CASE Wired!Shared(s) => ~Wired!Locked(t, s) /\ published[s][Wired!Place(t, s)] = <<>>
    <3>1. SUFFICES ASSUME Wired!Shared(s)
                   PROVE  /\ published[s][Kept(s, thread[t].scope)] = <<>>
                          /\ \A u \in Resolvers : u # t => \A j \in 1..Len(thread[u].stack) :
                               s = thread[u].stack[j].id => Kept(s, thread[t].scope) # Kept(s, thread[u].scope)
      BY <2>1, <2>2
    <3>2. published[s][Kept(s, thread[t].scope)] = <<>>
      BY <1>4, <2>4, <3>1
    <3>3. ASSUME NEW u \in Resolvers, NEW j \in 1..Len(thread[u].stack), s = thread[u].stack[j].id
          PROVE  Kept(s, thread[t].scope) # Kept(s, thread[u].scope)
      <4>1. thread[u].stack[j] \in Wired!Stack(u)
        BY <1>2 DEF Wired!Stack, Wired!Range
      <4>2. Wired!Place(u, s) # Wired!Place(t, s)
        BY <2>4, <3>1, <3>3, <4>1 DEF Wired!Locked
      <4>3. QED
        BY <1>4, <4>2
    <3>4. QED
      BY <3>2, <3>3
  <2>5. QED
    BY <2>2, <2>3, <2>4
<1>7. ASSUME NEW u \in Resolvers  PROVE AwaitedInv(u)'
  <2>1. CASE u = t
    BY <1>3, <1>6, <2>1 DEF AwaitedInv
  <2>2. CASE u # t
    <3>1. AwaitedInv(u) /\ thread'[u] = thread[u]
      BY <2>2 DEF ResolutionInv
    <3>2. QED
      BY <1>3, <3>1 DEF AwaitedInv
  <2>3. QED
    BY <2>1, <2>2
<1>8. ASSUME NEW u \in Resolvers, NEW w \in Resolvers, u # w  PROVE ApartInv(u, w)'
  <2>1. CASE u = t
    <3>1. thread'[w] = thread[w]
      BY <1>8, <2>1
    <3>2. QED
      BY <1>3, <1>6, <1>8, <2>1, <3>1 DEF ApartInv
  <2>2. CASE w = t
    <3>1. thread'[u] = thread[u]
      BY <1>8, <2>2
    <3>2. QED
      BY <1>3, <1>6, <1>8, <2>2, <3>1 DEF ApartInv
  <2>3. CASE u # t /\ w # t
    <3>1. ApartInv(u, w) /\ thread'[u] = thread[u] /\ thread'[w] = thread[w]
      BY <1>8, <2>3 DEF ResolutionInv
    <3>2. QED
      BY <1>3, <3>1 DEF ApartInv
  <2>4. QED
    BY <2>1, <2>2, <2>3
<1>9. Wired!SharedOnceWithinScope'
  BY DEF ResolutionInv, Wired!SharedOnceWithinScope, Wired!Range
<1>10. QED
  BY <1>1, <1>5, <1>7, <1>8, <1>9 DEF ResolutionInv

Writes(t, asks, stack) == thread' = [thread EXCEPT ![t].asks = asks, ![t].stack = stack]

\* Another thread is not touched by what thread t writes of itself.
LEMMA OneThread ==
  ASSUME ContainerTypeOK, NEW t \in Resolvers, NEW stack \in Seq(Frame),
         NEW asks \in SUBSET Services, Writes(t, asks, stack)
  PROVE  /\ thread' \in [Resolvers -> Thread]
         /\ \A u \in Resolvers : u # t => thread'[u] = thread[u]
         /\ thread'[t].stack = stack /\ thread'[t].scope = thread[t].scope
<1>1. thread[t] \in Thread
  BY DEF ContainerTypeOK
<1>2. PICK new : new = [[thread[t] EXCEPT !.asks = asks] EXCEPT !.stack = stack]
  OBVIOUS
<1>3. new \in Thread /\ new.stack = stack /\ new.scope = thread[t].scope
  BY <1>1, <1>2 DEF Thread
<1>4. thread' = [thread EXCEPT ![t] = new]
  BY <1>2 DEF ContainerTypeOK, Writes
<1>5. QED
  BY <1>3, <1>4 DEF ContainerTypeOK

\* A resolution that fails leaves all its factories.
LEMMA FailsKeeps ==
  ASSUME ResolutionInv, NEW t \in Resolvers, Wired!Fails(t)
  PROVE  ResolutionInv'
<1>1. <<>> \in Seq(Frame) /\ Len(<<>>) = 0 /\ Writes(t, {}, <<>>) /\ ContainerTypeOK
  BY DEF Wired!Fails, Writes, ResolutionInv
<1>2. /\ thread' \in [Resolvers -> Thread]
      /\ \A u \in Resolvers : u # t => thread'[u] = thread[u]
      /\ thread'[t].stack = <<>>
  BY <1>1, OneThread
<1>3. StackInv(<<>>, thread'[t].scope)
  BY <1>1 DEF StackInv
<1>4. QED
  BY <1>1, <1>2, <1>3, ThreadMoves DEF Wired!Fails

\* What is found for a service is of its place, and so of the scope it was asked in.
LEMMA FoundKeeps ==
  ASSUME ResolutionInv, NEW t \in Resolvers, Wired!Found(t)
  PROVE  ResolutionInv'
<1>1. PICK s \in Services :
        /\ Wired!Asks(t, s) /\ ~Wired!Refused(t, s)
        /\ \/ plan.lifetime[s] = "instance" /\ Wired!Returns(t, thread[t].stack, {})
           \/ /\ Wired!Shared(s) /\ ~Wired!Locked(t, s) /\ published[s][Wired!Place(t, s)] # <<>>
              /\ Wired!Returns(t, thread[t].stack, Wired!Last(published[s][Wired!Place(t, s)]))
  BY DEF Wired!Found
<1>2. /\ thread[t] \in Thread /\ thread[t].stack \in Seq(Frame) /\ thread[t].scope \in Places
      /\ StackInv(thread[t].stack, thread[t].scope) /\ ContainerTypeOK
  BY DEF ResolutionInv, ContainerTypeOK, Thread
<1>3. PICK value \in SUBSET Scopes :
        /\ Wired!Returns(t, thread[t].stack, value)
        /\ value \subseteq ({thread[t].scope} \ {NoScope})
        /\ (\E i \in 1..Len(thread[t].stack) : thread[t].stack[i].lifetime = "singleton") => value = {}
  <2>1. CASE plan.lifetime[s] = "instance" /\ Wired!Returns(t, thread[t].stack, {})
    BY <2>1
  <2>2. CASE /\ Wired!Shared(s) /\ published[s][Wired!Place(t, s)] # <<>>
             /\ Wired!Returns(t, thread[t].stack, Wired!Last(published[s][Wired!Place(t, s)]))
    <3>1. PICK place : place = Wired!Place(t, s)
      OBVIOUS
    <3>2. place \in Places /\ (place = NoScope \/ (place = thread[t].scope /\ plan.lifetime[s] = "scoped"))
      BY <1>2, <3>1 DEF Wired!Place, Places
    <3>3. PICK values \in Seq(SUBSET Scopes) : values = published[s][place]
      BY <1>2, <3>2 DEF ContainerTypeOK
    <3>4. PICK value : value = values[Len(values)]
      OBVIOUS
    <3>5. Len(values) \in DOMAIN values /\ value \in SUBSET Scopes
      BY <2>2, <3>1, <3>3, <3>4
    <3>6. value \in Wired!Range(values)
      BY <3>4, <3>5 DEF Wired!Range
    <3>7. value \subseteq ({place} \ {NoScope})
      BY <3>2, <3>3, <3>6 DEF ResolutionInv, Wired!SharedOnceWithinScope, Places
    <3>8. Wired!Returns(t, thread[t].stack, value)
      BY <2>2, <3>1, <3>3, <3>4 DEF Wired!Last
    <3>9. ASSUME NEW i \in 1..Len(thread[t].stack), thread[t].stack[i].lifetime = "singleton"
          PROVE  value = {}
      <4>1. thread[t].stack[i] \in Wired!Stack(t)
        BY <1>2 DEF Wired!Stack, Wired!Range
      <4>2. plan.lifetime[s] # "scoped"
        BY <1>1, <3>9, <4>1 DEF Wired!Refused, Wired!hasLifetime
      <4>3. QED
        BY <3>2, <3>7, <4>2
    <3>10. QED
      BY <3>2, <3>5, <3>7, <3>8, <3>9
  <2>3. QED
    BY <1>1, <2>1, <2>2
<1>4. UNCHANGED <<plan, published>>
  BY DEF Wired!Found
<1>5. CASE thread[t].stack = <<>>
  <2>1. /\ thread' \in [Resolvers -> Thread]
        /\ \A u \in Resolvers : u # t => thread'[u] = thread[u]
        /\ thread'[t].stack = <<>>
    <3>1. <<>> \in Seq(Frame) /\ Writes(t, {}, <<>>)
      BY <1>3, <1>5 DEF Wired!Returns, Writes
    <3>2. QED
      BY <1>2, <3>1, OneThread
  <2>2. StackInv(<<>>, thread'[t].scope)
    BY DEF StackInv
  <2>3. QED
    BY <1>4, <2>1, <2>2, ThreadMoves
<1>6. CASE thread[t].stack # <<>>
  <2>1. PICK new : new = [thread[t].stack EXCEPT ![Len(thread[t].stack)].uses = @ \cup value]
    OBVIOUS
  <2>2. /\ new \in Seq(Frame) /\ StackInv(new, thread[t].scope) /\ Len(new) = Len(thread[t].stack)
        /\ \A i \in 1..Len(thread[t].stack) : new[i].id = thread[t].stack[i].id
    BY <1>2, <1>3, <1>6, <2>1, Handed
  <2>3. Writes(t, {}, new)
    BY <1>3, <1>6, <2>1 DEF Wired!Returns, Writes
  <2>4. /\ thread' \in [Resolvers -> Thread]
        /\ \A u \in Resolvers : u # t => thread'[u] = thread[u]
        /\ thread'[t].stack = new /\ thread'[t].scope = thread[t].scope
    BY <1>2, <2>2, <2>3, OneThread
  <2>5. QED
    BY <1>4, <2>2, <2>4, ThreadMoves
<1>7. QED
  BY <1>5, <1>6

\* A factory is entered when nothing is published and nobody else is in it.
LEMMA PushKeeps ==
  ASSUME ResolutionInv, NEW t \in Resolvers, Wired!Push(t)
  PROVE  ResolutionInv'
<1>1. PICK s \in Services :
        /\ Wired!Asks(t, s) /\ ~Wired!Refused(t, s) /\ plan.lifetime[s] # "instance"
        /\ Wired!Shared(s) => ~Wired!Locked(t, s) /\ published[s][Wired!Place(t, s)] = <<>>
        /\ thread' = [thread EXCEPT ![t].asks = {}, ![t].stack = Append(@,
             [id |-> s, lifetime |-> plan.lifetime[s], todo |-> plan.needs[s], uses |-> {}])]
  BY DEF Wired!Push
<1>2. PICK stack : stack = thread[t].stack
  OBVIOUS
<1>3. stack \in Seq(Frame) /\ StackInv(stack, thread[t].scope) /\ ContainerTypeOK
  BY <1>2 DEF ResolutionInv, ContainerTypeOK, Thread
<1>4. PICK frame \in Frame : frame = [id |-> s, lifetime |-> plan.lifetime[s], todo |-> plan.needs[s], uses |-> {}]
  BY <1>3 DEF ContainerTypeOK, Frame
<1>5. PICK new : new = Append(stack, frame)
  OBVIOUS
<1>6. /\ new \in Seq(Frame) /\ Len(new) = Len(stack) + 1 /\ Len(stack) \in Nat /\ new[Len(stack) + 1] = frame
      /\ \A i \in 1..Len(stack) : new[i] = stack[i]
  BY <1>3, <1>5
<1>7. frame.id = s /\ frame.lifetime = plan.lifetime[s] /\ frame.uses = {}
  BY <1>4
<1>8. \A i \in 1..Len(stack) : stack[i] \in Wired!Stack(t)
  BY <1>2, <1>3 DEF Wired!Stack, Wired!Range
<1>9. StackInv(new, thread[t].scope)
  <2>1. \A i \in 1..Len(new) : new[i].lifetime = plan.lifetime[new[i].id] /\ new[i].uses \subseteq ({thread[t].scope} \ {NoScope})
    BY <1>3, <1>6, <1>7 DEF StackInv
  <2>2. \A i \in 1..Len(stack) : stack[i].id # s
    BY <1>1, <1>8 DEF Wired!Refused
  <2>3. \A i, j \in 1..Len(new) : new[i].id = new[j].id => i = j
    BY <1>3, <1>6, <1>7, <2>2 DEF StackInv
  <2>4. (\E i \in 1..Len(stack) : stack[i].lifetime = "singleton") => plan.lifetime[s] # "scoped"
    BY <1>1, <1>8 DEF Wired!Refused, Wired!hasLifetime
  <2>5. ASSUME NEW i \in 1..Len(new), NEW j \in 1..Len(new), new[i].lifetime = "singleton", i <= j
        PROVE  new[j].lifetime # "scoped" /\ new[j].uses = {}
    <3>1. CASE j \in 1..Len(stack)
      BY <1>3, <1>6, <2>5, <3>1 DEF StackInv
    <3>2. CASE j = Len(stack) + 1
      BY <1>6, <1>7, <2>4, <2>5, <3>2
    <3>3. QED
      BY <1>6, <3>1, <3>2
  <2>6. QED
    BY <2>1, <2>3, <2>5 DEF StackInv
<1>10. Writes(t, {}, new)
  BY <1>1, <1>2, <1>3, <1>4, <1>5 DEF ContainerTypeOK, Thread, Writes
<1>11. /\ thread' \in [Resolvers -> Thread]
       /\ \A u \in Resolvers : u # t => thread'[u] = thread[u]
       /\ thread'[t].stack = new /\ thread'[t].scope = thread[t].scope
  BY <1>3, <1>6, <1>10, OneThread
<1>12. ASSUME NEW i \in 1..Len(new)
       PROVE  \/ \E j \in 1..Len(stack) : new[i].id = stack[j].id
              \/ new[i].id = s
  BY <1>6, <1>7
<1>13. UNCHANGED <<plan, published>>
  BY DEF Wired!Push
<1>14. \A i \in 1..Len(thread'[t].stack) :
           \/ \E j \in 1..Len(thread[t].stack) : thread'[t].stack[i].id = thread[t].stack[j].id
           \/ LET r == thread'[t].stack[i].id
              IN Wired!Shared(r) => ~Wired!Locked(t, r) /\ published[r][Wired!Place(t, r)] = <<>>
  <2>1. TAKE i \in 1..Len(thread'[t].stack)
  <2>2. CASE \E j \in 1..Len(stack) : new[i].id = stack[j].id
    BY <1>2, <1>11, <2>2
  <2>3. CASE new[i].id = s
    BY <1>1, <1>11, <2>3
  <2>4. QED
    BY <1>11, <1>12, <2>2, <2>3
<1>15. QED
  BY <1>9, <1>11, <1>13, <1>14, ThreadMoves

\* A factory asks for what it needs; of the stack only its own list gets shorter.
LEMMA AsksKeeps ==
  ASSUME ResolutionInv, NEW t \in Resolvers, Wired!FactoryAsks(t)
  PROVE  ResolutionInv'
<1>1. PICK stack : stack = thread[t].stack
  OBVIOUS
<1>2. /\ stack \in Seq(Frame) /\ StackInv(stack, thread[t].scope) /\ ContainerTypeOK /\ stack # <<>>
      /\ UNCHANGED <<plan, published>>
  BY <1>1 DEF ResolutionInv, ContainerTypeOK, Thread, Wired!FactoryAsks
<1>3. PICK last \in Frame : last = stack[Len(stack)]
  BY <1>2
<1>4. PICK s \in last.todo :
        thread' = [thread EXCEPT ![t].asks = {s}, ![t].stack[Len(thread[t].stack)].todo = @ \ {s}]
  BY <1>1, <1>3 DEF Wired!FactoryAsks, Wired!Last
<1>5. s \in Services
  BY <1>3, <1>4 DEF Frame
<1>6. PICK frame : frame = [last EXCEPT !.todo = @ \ {s}]
  OBVIOUS
<1>7. frame \in Frame /\ frame.id = last.id /\ frame.lifetime = last.lifetime /\ frame.uses = last.uses
  BY <1>3, <1>6 DEF Frame
<1>8. PICK new : new = [stack EXCEPT ![Len(stack)] = frame]
  OBVIOUS
<1>9. new \in Seq(Frame) /\ Len(new) = Len(stack)
  BY <1>2, <1>7, <1>8
<1>10. \A i \in 1..Len(stack) :
         new[i].id = stack[i].id /\ new[i].lifetime = stack[i].lifetime /\ new[i].uses = stack[i].uses
  <2>1. TAKE i \in 1..Len(stack)
  <2>2. new[i] = IF i = Len(stack) THEN frame ELSE stack[i]
    BY <1>2, <1>8
  <2>3. QED
    BY <1>3, <1>7, <2>2
<1>11. StackInv(new, thread[t].scope)
  BY <1>2, <1>9, <1>10 DEF StackInv
<1>12. Writes(t, {s}, new)
  BY <1>1, <1>2, <1>3, <1>4, <1>6, <1>8 DEF Writes, ContainerTypeOK, Thread
<1>13. /\ thread' \in [Resolvers -> Thread]
       /\ \A u \in Resolvers : u # t => thread'[u] = thread[u]
       /\ thread'[t].stack = new /\ thread'[t].scope = thread[t].scope
  <2>1. {s} \in SUBSET Services
    BY <1>5
  <2>2. QED
    BY <1>2, <1>9, <1>12, <2>1, OneThread
<1>14. QED
  BY <1>1, <1>2, <1>9, <1>10, <1>11, <1>13, ThreadMoves

\* A resolution begins, with no factory entered.
LEMMA ResolveKeeps ==
  ASSUME ResolutionInv, NEW t \in Resolvers, NEW s \in Services, NEW c \in Places, Wired!Resolve(t, s, c)
  PROVE  ResolutionInv'
<1>1. thread[t] \in Thread /\ thread[t].stack = <<>> /\ thread[t].left > 0 /\ UNCHANGED <<plan, published>>
  BY DEF ResolutionInv, ContainerTypeOK, Wired!Resolve, Wired!Idle
<1>2. PICK new : new = [[[thread[t] EXCEPT !.asks = {s}] EXCEPT !.scope = c] EXCEPT !.left = @ - 1]
  OBVIOUS
<1>3. new \in Thread /\ new.stack = <<>>
  <2>1. thread[t].left \in Nat /\ thread[t].left - 1 \in Nat /\ {s} \in SUBSET Services
    BY <1>1 DEF Thread
  <2>2. QED
    BY <1>1, <1>2, <2>1 DEF Thread
<1>4. thread' = [thread EXCEPT ![t] = new]
  BY <1>1, <1>2 DEF Wired!Resolve, ResolutionInv, ContainerTypeOK, Thread
<1>5. /\ thread' \in [Resolvers -> Thread] /\ thread'[t].stack = <<>>
      /\ \A u \in Resolvers : u # t => thread'[u] = thread[u]
  BY <1>3, <1>4 DEF ResolutionInv, ContainerTypeOK
<1>6. StackInv(<<>>, thread'[t].scope) /\ Len(<<>>) = 0
  BY DEF StackInv
<1>7. QED
  BY <1>1, <1>5, <1>6, ThreadMoves

Makes(t, stack, last, place, value) ==
  /\ stack = thread[t].stack /\ stack # <<>> /\ last = stack[Len(stack)]
  /\ place = Kept(last.id, thread[t].scope) /\ value = last.uses \cup ({place} \ {NoScope})

\* What a factory makes: of its own place only when it is kept, of its scope otherwise,
\* and of no scope at all when a singleton waits for it.
LEMMA Made ==
  ASSUME ResolutionInv, NEW t \in Resolvers, NEW stack \in Seq(Frame), NEW last \in Frame,
         NEW place, NEW value, Makes(t, stack, last, place, value)
  PROVE  /\ place \in Places /\ value \in SUBSET Scopes
         /\ value \subseteq ({thread[t].scope} \ {NoScope})
         /\ Wired!Shared(last.id) => value \subseteq ({place} \ {NoScope}) /\ published[last.id][place] = <<>>
         /\ (\E i \in 1..(Len(stack) - 1) : stack[i].lifetime = "singleton") => value = {}
<1> USE DEF Makes
<1>1. /\ StackInv(stack, thread[t].scope) /\ AwaitedInv(t) /\ thread[t].scope \in Places
      /\ Len(stack) \in 1..Len(stack)
  BY DEF ResolutionInv, ContainerTypeOK, Thread
<1>2. /\ last.lifetime = plan.lifetime[last.id] /\ last.uses \subseteq ({thread[t].scope} \ {NoScope})
      /\ last.lifetime = "singleton" => last.uses = {}
      /\ (\E i \in 1..(Len(stack) - 1) : stack[i].lifetime = "singleton") => last.lifetime # "scoped" /\ last.uses = {}
  BY <1>1 DEF StackInv
<1>3. place = IF last.lifetime = "scoped" THEN thread[t].scope ELSE NoScope
  BY <1>2 DEF Kept
<1>4. place \in Places /\ value \in SUBSET Scopes /\ value \subseteq ({thread[t].scope} \ {NoScope})
  BY <1>1, <1>2, <1>3 DEF Places, Frame
<1>5. Wired!Shared(last.id) => value \subseteq ({place} \ {NoScope})
  BY <1>2, <1>3 DEF Wired!Shared
<1>6. Wired!Shared(last.id) => published[last.id][place] = <<>>
  BY <1>1 DEF AwaitedInv
<1>7. (\E i \in 1..(Len(stack) - 1) : stack[i].lifetime = "singleton") => value = {}
  BY <1>2, <1>3
<1>8. QED
  BY <1>4, <1>5, <1>6, <1>7

\* A factory returns: its value is the first in its place, and goes to the factory below.
LEMMA ReturnsKeeps ==
  ASSUME ResolutionInv, NEW t \in Resolvers, Wired!FactoryReturns(t)
  PROVE  ResolutionInv'
<1>1. PICK stack \in Seq(Frame) : stack = thread[t].stack
  BY DEF ResolutionInv, ContainerTypeOK, Thread
<1>2. /\ stack # <<>> /\ UNCHANGED plan /\ ContainerTypeOK /\ thread[t].scope \in Places
      /\ StackInv(stack, thread[t].scope) /\ Len(stack) \in Nat /\ Len(stack) \in 1..Len(stack)
  BY <1>1 DEF ResolutionInv, ContainerTypeOK, Thread, Wired!FactoryReturns
<1>3. PICK last \in Frame : last = stack[Len(stack)]
  BY <1>2
<1>4. PICK s \in Services : s = last.id
  BY DEF Frame
<1>5. PICK place : place = Kept(s, thread[t].scope)
  OBVIOUS
<1>6. PICK value : value = last.uses \cup ({place} \ {NoScope})
  OBVIOUS
<1>7. /\ place \in Places /\ value \in SUBSET Scopes
      /\ value \subseteq ({thread[t].scope} \ {NoScope})
      /\ Wired!Shared(s) => value \subseteq ({place} \ {NoScope}) /\ published[s][place] = <<>>
      /\ (\E i \in 1..(Len(stack) - 1) : stack[i].lifetime = "singleton") => value = {}
  <2>1. Makes(t, stack, last, place, value)
    BY <1>1, <1>2, <1>3, <1>4, <1>5, <1>6 DEF Makes
  <2>2. /\ place \in Places /\ value \in SUBSET Scopes
        /\ value \subseteq ({thread[t].scope} \ {NoScope})
        /\ Wired!Shared(last.id) => value \subseteq ({place} \ {NoScope}) /\ published[last.id][place] = <<>>
        /\ (\E i \in 1..(Len(stack) - 1) : stack[i].lifetime = "singleton") => value = {}
    BY <2>1, Made
  <2>3. QED
    BY <1>4, <2>2
<1>8. Wired!Place(t, s) = place
  BY <1>5 DEF Wired!Place, Kept
<1>9. /\ published' = IF Wired!Shared(s) THEN [published EXCEPT ![s][place] = Append(@, value)] ELSE published
      /\ Wired!Returns(t, Wired!Front(stack), value)
  BY <1>1, <1>3, <1>4, <1>6, <1>8 DEF Wired!FactoryReturns, Wired!Last
<1>10. PICK front : front = Wired!Front(stack)
  OBVIOUS
<1>11. /\ front \in Seq(Frame) /\ Len(front) = Len(stack) - 1 /\ StackInv(front, thread[t].scope)
       /\ \A i \in 1..Len(front) : front[i] = stack[i]
  BY <1>2, <1>10, Popped
<1>12. PICK new : /\ new \in Seq(Frame) /\ Len(new) = Len(stack) - 1 /\ StackInv(new, thread[t].scope)
                  /\ \A i \in 1..Len(new) : new[i].id = stack[i].id
                  /\ Writes(t, {}, new)
  <2>1. CASE front = <<>>
    <3>1. Writes(t, {}, front)
      BY <1>9, <1>10, <2>1 DEF Wired!Returns, Writes
    <3>2. QED
      BY <1>11, <3>1
  <2>2. CASE front # <<>>
    <3>1. PICK new : new = [front EXCEPT ![Len(front)].uses = @ \cup value]
      OBVIOUS
    <3>2. (\E i \in 1..Len(front) : front[i].lifetime = "singleton") => value = {}
      BY <1>7, <1>11
    <3>3. /\ new \in Seq(Frame) /\ StackInv(new, thread[t].scope) /\ Len(new) = Len(front)
          /\ \A i \in 1..Len(front) : new[i].id = front[i].id
      BY <1>2, <1>7, <1>11, <2>2, <3>1, <3>2, Handed
    <3>4. Writes(t, {}, new)
      BY <1>9, <1>10, <2>2, <3>1 DEF Wired!Returns, Writes
    <3>5. QED
      BY <1>11, <3>3, <3>4
  <2>3. QED
    BY <2>1, <2>2
<1>13. /\ thread' \in [Resolvers -> Thread]
       /\ \A u \in Resolvers : u # t => thread'[u] = thread[u]
       /\ thread'[t].stack = new /\ thread'[t].scope = thread[t].scope
  BY <1>2, <1>12, OneThread
<1>14. /\ published' \in [Services -> [Places -> Seq(SUBSET Scopes)]]
       /\ Wired!Shared(s) => published'[s][place] = <<value>>
       /\ \A r \in Services, c \in Places :
            (r = s /\ c = place /\ Wired!Shared(s)) \/ published'[r][c] = published[r][c]
  <2>1. published \in [Services -> [Places -> Seq(SUBSET Scopes)]]
    BY <1>2 DEF ContainerTypeOK
  <2>2. CASE ~Wired!Shared(s)
    BY <1>9, <2>1, <2>2
  <2>3. CASE Wired!Shared(s)
    <3>1. published' = [published EXCEPT ![s][place] = <<value>>]
      <4>1. Append(<<>>, value) = <<value>> /\ published[s][place] = <<>>
        BY <1>7, <2>3
      <4>2. Append(published[s][place], value) = <<value>>
        BY <4>1
      <4>3. QED
        BY <1>9, <2>3, <4>2
    <3>2. <<value>> \in Seq(SUBSET Scopes)
      BY <1>7
    <3>3. QED
      BY <1>7, <2>1, <2>3, <3>1, <3>2
  <2>4. QED
    BY <2>2, <2>3
<1>15. ContainerTypeOK'
  BY <1>2, <1>13, <1>14 DEF ContainerTypeOK
<1>16. \A r, c : Kept(r, c)' = Kept(r, c) /\ (Wired!Shared(r)' <=> Wired!Shared(r))
  BY <1>2 DEF Kept, Wired!Shared
<1>17. \A u \in Resolvers : thread[u].stack \in Seq(Frame) /\ thread[u].scope \in Places /\ thread'[u].scope = thread[u].scope
  BY <1>2, <1>13 DEF ContainerTypeOK, Thread
<1>18. ASSUME NEW u \in Resolvers, NEW i \in 1..Len(thread'[u].stack)
       PROVE  /\ i \in 1..Len(thread[u].stack) /\ thread'[u].stack[i].id = thread[u].stack[i].id
              /\ thread[u].stack[i].id \in Services
              /\ u = t => i < Len(stack)
  <2>1. u = t => i \in 1..Len(stack) /\ i < Len(stack) /\ thread'[u].stack[i].id = stack[i].id
    BY <1>2, <1>12, <1>13
  <2>2. u # t => thread'[u] = thread[u]
    BY <1>13
  <2>3. i \in 1..Len(thread[u].stack)
    BY <1>1, <2>1, <2>2
  <2>4. thread[u].stack[i] \in Frame
    BY <1>17, <2>3
  <2>5. QED
    BY <1>1, <2>1, <2>2, <2>3, <2>4 DEF Frame
<1>19. ASSUME NEW u \in Resolvers  PROVE StackInv(thread[u].stack, thread[u].scope)'
  <2>1. StackInv(thread'[u].stack, thread'[u].scope)
    BY <1>12, <1>13 DEF ResolutionInv
  <2>2. QED
    BY <1>2, <2>1 DEF StackInv
<1>20. ASSUME NEW u \in Resolvers  PROVE AwaitedInv(u)'
  <2>1. SUFFICES ASSUME NEW i \in 1..Len(thread'[u].stack), Wired!Shared(thread'[u].stack[i].id)
                 PROVE  published'[thread'[u].stack[i].id][Kept(thread'[u].stack[i].id, thread[u].scope)] = <<>>
    BY <1>16, <1>17 DEF AwaitedInv
  <2>2. PICK r \in Services : r = thread[u].stack[i].id /\ r = thread'[u].stack[i].id
    BY <1>18
  <2>3. PICK c \in Places : c = Kept(r, thread[u].scope)
    BY <1>17 DEF Kept, Places
  <2>4. published[r][c] = <<>>
    BY <1>18, <2>1, <2>2, <2>3 DEF ResolutionInv, AwaitedInv
  <2>5. ~(r = s /\ c = place)
    <3>1. CASE u = t
      <4>1. i < Len(stack) /\ i \in 1..Len(stack) /\ r = stack[i].id
        BY <1>1, <1>18, <2>2, <3>1
      <4>2. QED
        BY <1>2, <1>3, <1>4, <4>1 DEF StackInv
    <3>2. CASE u # t
      <4>1. ApartInv(t, u)
        BY <3>2 DEF ResolutionInv
      <4>2. QED
        BY <1>1, <1>2, <1>3, <1>4, <1>5, <1>18, <2>1, <2>2, <2>3, <4>1 DEF ApartInv
    <3>3. QED
      BY <3>1, <3>2
  <2>6. QED
    BY <1>14, <2>2, <2>3, <2>4, <2>5
<1>21. ASSUME NEW u \in Resolvers, NEW w \in Resolvers, u # w  PROVE ApartInv(u, w)'
  <2>1. SUFFICES ASSUME NEW i \in 1..Len(thread'[u].stack), NEW j \in 1..Len(thread'[w].stack),
                        thread'[u].stack[i].id = thread'[w].stack[j].id, Wired!Shared(thread'[u].stack[i].id)
                 PROVE  Kept(thread'[u].stack[i].id, thread[u].scope) # Kept(thread'[u].stack[i].id, thread[w].scope)
    BY <1>16, <1>17 DEF ApartInv
  <2>2. ApartInv(u, w)
    BY <1>21 DEF ResolutionInv
  <2>3. QED
    BY <1>18, <2>1, <2>2 DEF ApartInv
<1>22. Wired!SharedOnceWithinScope'
  <2>1. SUFFICES ASSUME NEW r \in Services, NEW c \in Places
                 PROVE  Len(published'[r][c]) <= 1 /\ \A v \in Wired!Range(published'[r][c]) : v \subseteq ({c} \ {NoScope})
    BY DEF Wired!SharedOnceWithinScope, Places, Wired!Range
  <2>2. CASE published'[r][c] = published[r][c]
    BY <2>2 DEF ResolutionInv, Wired!SharedOnceWithinScope, Places
  <2>3. CASE r = s /\ c = place /\ Wired!Shared(s)
    <3>1. published'[r][c] = <<value>>
      BY <1>14, <2>3
    <3>2. Len(<<value>>) = 1 /\ Wired!Range(<<value>>) = {value}
      BY DEF Wired!Range
    <3>3. QED
      BY <1>7, <2>3, <3>1, <3>2
  <2>4. QED
    BY <1>14, <2>2, <2>3
<1>23. QED
  BY <1>15, <1>19, <1>20, <1>21, <1>22 DEF ResolutionInv

\* Whatever is registered as what, and however many threads resolve it in whichever
\* scopes: no two threads are ever in the factory of one shared value, and none is in
\* the factory of a value that exists.
THEOREM ContainerInvariant == ResolutionSpec => []ResolutionInv
<1>1. Wired!ContainerInit => ResolutionInv
  <2>1. SUFFICES ASSUME Wired!ContainerInit  PROVE ResolutionInv
    OBVIOUS
  <2>2. /\ published = [s \in Services |-> [c \in Places |-> <<>>]]
        /\ thread = [t \in Resolvers |-> [stack |-> <<>>, asks |-> {}, scope |-> NoScope, left |-> MaxResolutions]]
    BY <2>1 DEF Wired!ContainerInit, Places
  <2>3. [stack |-> <<>>, asks |-> {}, scope |-> NoScope, left |-> MaxResolutions] \in Thread
    BY LifeCyclesAssumption DEF Wired!ContainerAssumption, Thread, Places
  <2>4. ContainerTypeOK
    BY <2>1, <2>2, <2>3, LifeCyclesAssumption DEF ContainerTypeOK, Wired!ContainerInit, Wired!ContainerAssumption, Lifetime
  <2>5. \A t \in Resolvers : thread[t].stack = <<>> /\ Len(thread[t].stack) = 0
    BY <2>2
  <2>6. \A t \in Resolvers : StackInv(thread[t].stack, thread[t].scope) /\ AwaitedInv(t)
    BY <2>5 DEF StackInv, AwaitedInv
  <2>7. \A t, u \in Resolvers : ApartInv(t, u)
    BY <2>5 DEF ApartInv
  <2>8. Wired!SharedOnceWithinScope
    BY <2>2 DEF Wired!SharedOnceWithinScope, Wired!Range, Places
  <2>9. QED
    BY <2>4, <2>6, <2>7, <2>8 DEF ResolutionInv
<1>2. ResolutionInv /\ [Wired!ContainerNext]_container => ResolutionInv'
  <2>1. SUFFICES ASSUME ResolutionInv, [Wired!ContainerNext]_container  PROVE ResolutionInv'
    OBVIOUS
  <2>2. CASE UNCHANGED <<plan, published, thread>>
    <3>1. ContainerTypeOK'
      BY <2>1, <2>2 DEF ResolutionInv, ContainerTypeOK
    <3>2. ASSUME NEW t \in Resolvers  PROVE StackInv(thread[t].stack, thread[t].scope)' /\ AwaitedInv(t)'
      <4>1. StackInv(thread[t].stack, thread[t].scope) /\ AwaitedInv(t)
        BY <2>1 DEF ResolutionInv
      <4>2. StackInv(thread[t].stack, thread[t].scope)'
        BY <2>2, <4>1 DEF StackInv
      <4>3. AwaitedInv(t)'
        BY <2>2, <4>1 DEF AwaitedInv, Kept, Wired!Shared
      <4>4. QED
        BY <4>2, <4>3
    <3>3. ASSUME NEW t \in Resolvers, NEW u \in Resolvers, t # u  PROVE ApartInv(t, u)'
      <4>1. ApartInv(t, u)
        BY <2>1, <3>3 DEF ResolutionInv
      <4>2. QED
        BY <2>2, <4>1 DEF ApartInv, Kept, Wired!Shared
    <3>4. Wired!SharedOnceWithinScope'
      <4>1. Wired!SharedOnceWithinScope
        BY <2>1 DEF ResolutionInv
      <4>2. QED
        BY <2>2, <4>1 DEF Wired!SharedOnceWithinScope, Wired!Range
    <3>5. QED
      BY <3>1, <3>2, <3>3, <3>4 DEF ResolutionInv
  <2>3. ASSUME NEW t \in Resolvers, Wired!Resolving(t)  PROVE ResolutionInv'
    <3>1. CASE Wired!Refuse(t) \/ Wired!FactoryFails(t)
      BY <2>1, <3>1, FailsKeeps DEF Wired!Refuse, Wired!FactoryFails
    <3>2. QED
      BY <2>1, <2>3, <3>1, FoundKeeps, PushKeeps, AsksKeeps, ReturnsKeeps DEF Wired!Resolving
  <2>4. ASSUME NEW t \in Resolvers, NEW s \in Services, NEW c \in Places, Wired!Resolve(t, s, c)  PROVE ResolutionInv'
    BY <2>1, <2>4, ResolveKeeps
  <2>5. ASSUME NEW s \in Services, Wired!Register(s)  PROVE UNCHANGED <<plan, published, thread>>
    BY <2>5 DEF Wired!Register
  <2>6. QED
    BY <2>1, <2>2, <2>3, <2>4, <2>5 DEF Wired!ContainerNext, container, Places
<1>3. QED
  BY <1>1, <1>2, PTL DEF ResolutionSpec

\* The container makes one value per singleton and per scope's entry, and none is built
\* from a service of a scope it outlives, for any services, scopes and threads.
THEOREM ValuesCorrect == ResolutionSpec => []SharedOnceWithinScope
<1>1. ResolutionInv => SharedOnceWithinScope
  BY DEF ResolutionInv, SharedOnceWithinScope
<1>2. QED
  BY <1>1, ContainerInvariant, PTL
=============================================================================
