------------------------- MODULE TracedStreamProofs -------------------------
(***************************************************************************)
(* Proofs, for every set of chunks and every bound, of the invariants the  *)
(* MCTracedStream run checks on a small instance.                          *)
(***************************************************************************)
EXTENDS TracedStream, SequenceTheorems, TLAPS

(* The strengthening of PassThrough that is preserved by every step: the   *)
(* accumulator has seen exactly the delivered chunks, and nothing is        *)
(* finalized before the wrapped stream has finished (after which no chunk  *)
(* is pulled any more).                                                    *)
IInv ==
  /\ TypeOK
  /\ PassThrough
  /\ seen = Delivered
  /\ Len(emitted) > 0 => wdone
  /\ EmissionMatchesDelivered
  /\ StopEndsSpan

-----------------------------------------------------------------------------
(* The initial choice of the wrapped stream is a finite sequence.          *)
LEMMA SeqsUpToInSeq ==
  ASSUME NEW S, NEW n \in Nat
  PROVE  SeqsUpTo(S, n) \subseteq Seq(S)
<1> SUFFICES ASSUME NEW x \in SeqsUpTo(S, n) PROVE x \in Seq(S)
  OBVIOUS
<1>1. PICK m \in 0..n : x \in [1..m -> S]
  BY DEF SeqsUpTo
<1>2. m \in Nat
  OBVIOUS
<1>3. QED
  BY <1>1, <1>2

(* Type correctness: every __anext__, __aenter__ and __aexit__ keeps the   *)
(* proxy's fields in their types.                                          *)
LEMMA TypeInit == Init => TypeOK
<1> SUFFICES ASSUME Init PROVE TypeOK
  OBVIOUS
<1>1. upstream \in Seq(Chunks)
  <2>1. SeqsUpTo(Chunks, MaxLen) \subseteq Seq(Chunks)
    BY SeqsUpToInSeq, ConstantsAssumption
  <2>2. QED
    BY <2>1 DEF Init
<1>2. pos \in 0..Len(upstream)
  BY <1>1 DEF Init
<1>3. returned \in Seq(Chunks \cup Signals) /\ seen \in Seq(Chunks)
  BY DEF Init
<1>4. emitted \in Seq(Emission)
  BY DEF Init
<1>5. QED
  BY <1>1, <1>2, <1>3, <1>4 DEF Init, TypeOK

LEMMA TypeStep == TypeOK /\ [Next]_vars => TypeOK'
<1> SUFFICES ASSUME TypeOK, [Next]_vars PROVE TypeOK'
  OBVIOUS
<1>1. CASE AEnter
  BY <1>1 DEF AEnter, TypeOK
<1>2. CASE AExit
  BY <1>2 DEF AExit, TypeOK
<1>3. CASE PullChunk
  BY <1>3 DEF PullChunk, TypeOK
<1>4. CASE PullFault
  BY <1>4 DEF PullFault, TypeOK, Signals
<1>5. CASE PullEnd
  BY <1>5 DEF PullEnd, Finalize, TypeOK, Signals, Emission
<1>6. CASE UNCHANGED vars
  BY <1>6 DEF vars, TypeOK
<1>7. QED
  BY <1>1, <1>2, <1>3, <1>4, <1>5, <1>6 DEF Next

(* Type correctness of the proxy, for every set of chunks and bounds.      *)
THEOREM TypeCorrect == Spec => []TypeOK
BY TypeInit, TypeStep, PTL DEF Spec

-----------------------------------------------------------------------------
(* While the wrapped stream has not finished, the caller has received      *)
(* exactly the pulled chunks and no signal, and nothing was finalized.     *)
LEMMA Streaming ==
  ASSUME IInv, ~wdone
  PROVE  /\ returned = Delivered
         /\ seen = Delivered
         /\ emitted = <<>>
         /\ \A i \in 1..Len(returned) : returned[i] \in Chunks
<1>1. Len(returned) = pos
  BY DEF IInv, PassThrough, TypeOK
<1>2. returned = SubSeq(returned, 1, pos)
  BY <1>1 DEF IInv, TypeOK
<1>3. emitted = <<>>
  BY DEF IInv, TypeOK
<1>4. \A i \in 1..Len(returned) : returned[i] \in Chunks
  BY <1>1, <1>2 DEF IInv, PassThrough, TypeOK, Delivered
<1>5. QED
  BY <1>2, <1>3, <1>4 DEF IInv, PassThrough

LEMMA InvInit == Init => IInv
BY TypeInit DEF Init, IInv, PassThrough, Delivered, EmissionMatchesDelivered, StopEndsSpan

LEMMA InvStep == IInv /\ [Next]_vars => IInv'
<1> SUFFICES ASSUME IInv, [Next]_vars PROVE IInv'
  OBVIOUS
<1>0. TypeOK'
  BY TypeStep DEF IInv
<1>1. CASE AEnter \/ AExit
  <2>1. UNCHANGED <<upstream, pos, wdone, seen, returned, spanEnds, emitted>>
    BY <1>1 DEF AEnter, AExit
  <2>2. QED
    BY <1>0, <2>1 DEF IInv, PassThrough, Delivered, EmissionMatchesDelivered, StopEndsSpan
<1>2. CASE PullChunk
  <2>1. /\ returned = Delivered /\ seen = Delivered /\ emitted = <<>>
        /\ \A i \in 1..Len(returned) : returned[i] \in Chunks
    BY <1>2, Streaming DEF PullChunk
  <2>2. Delivered' = Append(Delivered, upstream[pos + 1])
    BY <1>2 DEF PullChunk, Delivered, IInv, TypeOK
  <2>3. returned' = Delivered' /\ seen' = Delivered'
    BY <1>2, <2>1, <2>2 DEF PullChunk
  <2>4. upstream[pos + 1] \notin Signals
    BY <1>2, ChunksAreNotSignals DEF PullChunk, IInv, TypeOK
  <2>5. PassThrough'
    <3>1. Len(returned') = pos' /\ wdone' = FALSE
      BY <1>2, <2>1, <2>3 DEF PullChunk, Delivered, IInv, TypeOK
    <3>2. SubSeq(returned', 1, pos') = Delivered'
      BY <1>0, <2>3, <3>1, SubSeqFull DEF TypeOK
    <3>3. QED
      BY <3>1, <3>2 DEF PassThrough
  <2>6. StopEndsSpan'
    <3>1. \A i \in 1..Len(returned') : returned'[i] # StopAsyncIteration
      BY <1>2, <2>1, <2>4, ChunksAreNotSignals DEF PullChunk, Signals, IInv, TypeOK
    <3>2. QED
      BY <3>1 DEF StopEndsSpan
  <2>7. QED
    BY <1>0, <1>2, <2>1, <2>3, <2>5, <2>6 DEF PullChunk, IInv, EmissionMatchesDelivered
<1>3. CASE PullFault
  <2>1. /\ returned = Delivered /\ seen = Delivered /\ emitted = <<>>
        /\ \A i \in 1..Len(returned) : returned[i] \in Chunks
    BY <1>3, Streaming DEF PullFault
  <2>2. /\ Len(returned) = pos
        /\ returned \in Seq(Chunks \cup Signals)
        /\ returned' = Append(returned, Fault)
        /\ Fault \in Chunks \cup Signals
        /\ UNCHANGED <<upstream, pos, seen, emitted>>
        /\ wdone' = TRUE
    BY <1>3 DEF PullFault, IInv, PassThrough, TypeOK, Signals
  <2>3. /\ Len(returned') = pos + 1
        /\ returned'[pos + 1] = Fault
        /\ SubSeq(returned', 1, pos) = SubSeq(returned, 1, pos)
        /\ \A i \in 1..pos : returned'[i] = returned[i]
    <3>1. pos \in 0..Len(returned)
      BY <2>2 DEF IInv, TypeOK
    <3>2. /\ Len(Append(returned, Fault)) = Len(returned) + 1
          /\ \A i \in 1..Len(returned) : Append(returned, Fault)[i] = returned[i]
          /\ Append(returned, Fault)[Len(returned) + 1] = Fault
          /\ SubSeq(Append(returned, Fault), 1, pos) = SubSeq(returned, 1, pos)
      BY <2>2, <3>1
    <3>3. QED
      BY <2>2, <3>2
  <2>4. Delivered' = Delivered
    BY <2>2 DEF Delivered
  <2>5. PassThrough'
    <3>1. SubSeq(returned', 1, pos') = Delivered'
      BY <2>2, <2>3, <2>4 DEF IInv, PassThrough
    <3>2. \A i \in pos' + 1..Len(returned') : i = pos + 1
      BY <2>2, <2>3
    <3>3. Fault \in Signals /\ Fault # StopAsyncIteration
      BY DEF Signals, Fault, StopAsyncIteration
    <3>4. QED
      BY <2>2, <2>3, <3>1, <3>2, <3>3 DEF PassThrough
  <2>6. StopEndsSpan'
    <3>1. \A i \in 1..Len(returned') : returned'[i] # StopAsyncIteration
      <4>1. StopAsyncIteration \notin Chunks /\ Fault # StopAsyncIteration
        BY ChunksAreNotSignals DEF Signals, Fault, StopAsyncIteration
      <4>2. QED
        BY <2>1, <2>2, <2>3, <4>1
    <3>2. QED
      BY <3>1 DEF StopEndsSpan
  <2>7. QED
    BY <1>0, <2>1, <2>2, <2>4, <2>5, <2>6 DEF IInv, EmissionMatchesDelivered
<1>4. CASE PullEnd
  <2>1. PICK ok \in BOOLEAN : Finalize(ok)
    BY <1>4 DEF PullEnd
  <2>2. emitted' = Append(emitted, [chunks |-> seen, ok |-> ok]) /\ spanEnds' = spanEnds + 1
    BY <2>1 DEF Finalize
  <2>3. Delivered' = Delivered /\ seen' = seen
    BY <1>4 DEF PullEnd, Delivered
  <2>4. EmissionMatchesDelivered'
    BY <2>2, <2>3 DEF IInv, EmissionMatchesDelivered, TypeOK
  <2>5. StopEndsSpan'
    BY <1>0, <2>2 DEF IInv, TypeOK, StopEndsSpan
  <2>6. PassThrough'
    <3>0. /\ returned \in Seq(Chunks \cup Signals)
          /\ returned' = Append(returned, StopAsyncIteration)
          /\ UNCHANGED <<upstream, pos>>
          /\ wdone' = TRUE
          /\ Len(returned') = Len(returned) + 1
          /\ returned'[Len(returned) + 1] = StopAsyncIteration
          /\ \A i \in 1..Len(returned) : returned'[i] = returned[i]
          /\ SubSeq(returned', 1, pos) = SubSeq(returned, 1, pos)
      BY <1>4 DEF PullEnd, IInv, TypeOK, PassThrough
    <3>1. CASE wdone
      <4>1. Len(returned) > pos
        BY <3>1 DEF IInv, PassThrough
      <4>2. \A i \in pos + 1..Len(returned') :
              /\ returned'[i] \in Signals
              /\ i > pos + 1 => returned'[i] = StopAsyncIteration
        <5> SUFFICES ASSUME NEW i \in pos + 1..Len(returned')
                     PROVE  /\ returned'[i] \in Signals
                            /\ i > pos + 1 => returned'[i] = StopAsyncIteration
          OBVIOUS
        <5>1. CASE i <= Len(returned)
          <6>1. /\ returned[i] \in Signals
                /\ i > pos + 1 => returned[i] = StopAsyncIteration
            BY <3>0, <5>1 DEF IInv, PassThrough
          <6>2. QED
            BY <3>0, <5>1, <6>1 DEF IInv, TypeOK
        <5>2. CASE i = Len(returned) + 1
          BY <3>0, <4>1, <5>2 DEF Signals
        <5>3. i \in Nat /\ i <= Len(returned) + 1
          BY <3>0 DEF IInv, TypeOK
        <5>4. QED
          BY <5>1, <5>2, <5>3
      <4>3. Len(returned) > pos /\ returned[pos + 1] = StopAsyncIteration => pos = Len(upstream)
        BY DEF IInv, PassThrough
      <4>4. returned'[pos + 1] = returned[pos + 1]
        BY <3>0, <4>1 DEF IInv, TypeOK
      <4>5. SubSeq(returned, 1, pos) = Delivered
        BY DEF IInv, PassThrough
      <4>6. Len(returned') >= pos' /\ Len(returned') > pos'
        BY <3>0, <4>1 DEF IInv, TypeOK
      <4>7. SubSeq(returned', 1, pos') = Delivered'
        BY <3>0, <4>5 DEF Delivered
      <4>8. (Len(returned') > pos' /\ returned'[pos' + 1] = StopAsyncIteration)
              => pos' = Len(upstream')
        BY <3>0, <4>1, <4>3, <4>4
      <4>9. QED
        BY <3>0, <4>2, <4>6, <4>7, <4>8 DEF PassThrough
    <3>2. CASE ~wdone
      <4>1. Len(returned) = pos /\ pos = Len(upstream)
        BY <1>4, <3>2 DEF PullEnd, IInv, PassThrough
      <4>2. \A i \in pos + 1..Len(returned') : i = pos + 1
        BY <3>0, <4>1
      <4>3. QED
        BY <3>0, <4>1, <4>2 DEF IInv, PassThrough, Delivered, Signals
    <3>3. QED
      BY <3>1, <3>2
  <2>7. QED
    BY <1>0, <1>4, <2>3, <2>4, <2>5, <2>6 DEF PullEnd, IInv
<1>5. CASE UNCHANGED vars
  BY <1>5 DEF vars, IInv, PassThrough, Delivered, EmissionMatchesDelivered, StopEndsSpan, TypeOK
<1>6. QED
  BY <1>1, <1>2, <1>3, <1>4, <1>5 DEF Next

(* The caller receives the wrapped stream's chunks unmodified and in order *)
(* followed by its termination signal (PassThrough), every telemetry       *)
(* record describes exactly the delivered chunks, and a caller that saw    *)
(* StopAsyncIteration has an ended span: for every set of chunks, every   *)
(* stream length and every number of pulls.                               *)
THEOREM StreamSafety == Spec => [](PassThrough /\ EmissionMatchesDelivered /\ StopEndsSpan)
<1>1. IInv => PassThrough /\ EmissionMatchesDelivered /\ StopEndsSpan
  BY DEF IInv
<1>2. QED
  BY InvInit, InvStep, <1>1, PTL DEF Spec

(* The telemetry each finalization of the proxy emits is computed from     *)
(* exactly the chunks the caller received (process_chunk runs before      *)
(* "return chunk"), for every set of chunks and every bound.              *)
THEOREM TelemetryMatchesDelivered == Spec => []EmissionMatchesDelivered
BY StreamSafety, PTL

(* A caller that got StopAsyncIteration from __anext__ always has an ended *)
(* span, whether process_streaming_chat_response completed or raised.     *)
THEOREM StopAlwaysEndsSpan == Spec => []StopEndsSpan
BY StreamSafety, PTL

-----------------------------------------------------------------------------
(* The contract of the proxy, with the caller's history as the abstract    *)
(* output: process_chunk, the finalizer and the context manager are        *)
(* invisible at that level.                                                *)
PT == INSTANCE PassThroughStream WITH out <- returned

(* While the wrapped stream has not finished, no termination signal was    *)
(* returned and every pull so far delivered a chunk.                       *)
LEMMA LiveNotTerminated ==
  ASSUME IInv, ~wdone
  PROVE  ~PT!Terminated /\ Len(returned) = pos
<1>1. \A i \in 1..Len(returned) : returned[i] \in Chunks
  BY Streaming
<1>2. ~PT!Terminated
  BY <1>1, ChunksAreNotSignals DEF PT!Terminated, Signals
<1>3. Len(returned) = pos
  BY DEF IInv, PassThrough, TypeOK
<1>4. QED
  BY <1>2, <1>3

LEMMA RefInit == Init => PT!Init
BY TypeInit DEF Init, PT!Init, TypeOK

LEMMA RefStep ==
  IInv /\ [Next]_vars => [PT!Forward \/ PT!Fail \/ PT!Finish]_<<upstream, returned>>
<1> SUFFICES ASSUME IInv, [Next]_vars
             PROVE  [PT!Forward \/ PT!Fail \/ PT!Finish]_<<upstream, returned>>
  OBVIOUS
<1>1. CASE AEnter \/ AExit
  BY <1>1 DEF AEnter, AExit
<1>2. CASE PullChunk
  <2>1. ~PT!Terminated /\ Len(returned) = pos
    BY <1>2, LiveNotTerminated DEF PullChunk
  <2>2. PT!Forward
    BY <1>2, <2>1 DEF PullChunk, PT!Forward
  <2>3. QED
    BY <2>2
<1>3. CASE PullFault
  <2>1. ~PT!Terminated
    BY <1>3, LiveNotTerminated DEF PullFault
  <2>2. QED
    BY <1>3, <2>1 DEF PullFault, PT!Fail
<1>4. CASE PullEnd
  <2>1. PT!Terminated \/ Len(returned) = Len(upstream)
    <3>1. CASE wdone
      <4>1. /\ Len(returned) > pos /\ pos \in Nat
            /\ returned[pos + 1] \in Signals
        BY <3>1 DEF IInv, PassThrough, TypeOK
      <4>2. QED
        BY <4>1 DEF PT!Terminated, Signals
    <3>2. CASE ~wdone
      BY <1>4, <3>2, LiveNotTerminated DEF PullEnd
    <3>3. QED
      BY <3>1, <3>2
  <2>2. QED
    BY <1>4, <2>1 DEF PullEnd, PT!Finish
<1>5. CASE UNCHANGED vars
  BY <1>5 DEF vars
<1>6. QED
  BY <1>1, <1>2, <1>3, <1>4, <1>5 DEF Next

(* The proxy implements the pass-through contract (spec sections 4.5 and   *)
(* 8): every history of __anext__ results is one PassThroughStream allows, *)
(* for every set of chunks and every bound.                                *)
THEOREM Refinement == Spec => PT!Spec
<1>1. Spec => []IInv
  BY InvInit, InvStep, PTL DEF Spec
<1>2. QED
  BY <1>1, RefInit, RefStep, PTL DEF Spec, PT!Spec

=============================================================================
