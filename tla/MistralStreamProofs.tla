------------------------- MODULE MistralStreamProofs -------------------------
(***************************************************************************)
(* Proofs, for every set of fragments and usage blocks and every bound, of *)
(* the invariants the MCMistralStream run checks: the types, the completion *)
(* and usage recorded by the finalization, and the timing count.           *)
(***************************************************************************)
EXTENDS MistralStream, SeqFilterTheorems, TLAPS

(* The strengthening: the accumulated fields are at every moment what the  *)
(* chunks delivered so far say (a chunk lost to TypeError changes neither  *)
(* _llmresponse nor the usage fields, and is not delivered), a timestamp   *)
(* is taken for every pulled chunk, and once the finalization has run the  *)
(* wrapped stream is finished, so no later chunk can change what it       *)
(* recorded.                                                               *)
IInv ==
  /\ TypeOK
  /\ Delivered \in Seq(Chunks)
  /\ llmresponse = ContentOf(Delivered)
  /\ usage = LastUsage(Delivered)
  /\ arrivals = pos
  /\ Len(emitted) > 0 => wdone
  /\ \A k \in 1..Len(emitted) :
       /\ emitted[k].text = llmresponse
       /\ emitted[k].usage = usage
       /\ emitted[k].arrivals = arrivals

-----------------------------------------------------------------------------
(* What the caller receives grows by the chunk __anext__ returns, and not  *)
(* at all when __anext__ raises.                                           *)
LEMMA DeliveredAppend ==
  ASSUME NEW r \in Seq(Chunks \cup Signals), NEW x \in Chunks \cup Signals
  PROVE  Filter(Append(r, x), Chunks) =
           IF x \in Chunks THEN Append(Filter(r, Chunks), x) ELSE Filter(r, Chunks)
BY FilterAppend

(* Appending a chunk appends its content to the rebuilt text.              *)
LEMMA ContentAppend ==
  ASSUME NEW d \in Seq(Chunks), NEW c \in Chunks
  PROVE  ContentOf(Append(d, c)) = Append(ContentOf(d), c.content)
BY DEF ContentOf

(* Appending a chunk that carries usage makes its usage the last one;      *)
(* appending one without usage leaves the last usage as it was.           *)
LEMMA LastUsageAppend ==
  ASSUME NEW d \in Seq(Chunks), NEW c \in Chunks
  PROVE  LastUsage(Append(d, c)) = IF c.usage # NoUsage THEN c.usage ELSE LastUsage(d)
<1> DEFINE f == Filter(d, UsageCarriers)
<1>1. Filter(Append(d, c), UsageCarriers) =
        IF c \in UsageCarriers THEN Append(f, c) ELSE f
  BY FilterAppend
<1>2. CASE c.usage # NoUsage
  <2>1. Filter(Append(d, c), UsageCarriers) = Append(f, c)
    BY <1>1, <1>2 DEF UsageCarriers
  <2>2. QED
    BY <2>1, <1>2 DEF LastUsage
<1>3. CASE c.usage = NoUsage
  <2>1. Filter(Append(d, c), UsageCarriers) = f
    BY <1>1, <1>3 DEF UsageCarriers
  <2>2. QED
    BY <2>1, <1>3 DEF LastUsage
<1>4. QED
  BY <1>2, <1>3

(* The streams Init chooses from are sequences of chunks.                  *)
LEMMA SeqsUpToInSeq ==
  ASSUME NEW S, NEW n \in Nat
  PROVE  SeqsUpTo(S, n) \subseteq Seq(S)
<1> SUFFICES ASSUME NEW x \in SeqsUpTo(S, n) PROVE x \in Seq(S)
  OBVIOUS
<1>1. PICK m \in 0..n : x \in [1..m -> S]
  BY DEF SeqsUpTo
<1>2. QED
  BY <1>1

-----------------------------------------------------------------------------
LEMMA InvInit == Init => IInv
<1> SUFFICES ASSUME Init PROVE IInv
  OBVIOUS
<1>1. TypeOK
  <2>1. upstream \in Seq(Chunks)
    BY SeqsUpToInSeq, MistralAssumption DEF Init
  <2>2. pos \in 0..Len(upstream) /\ arrivals \in Nat /\ spanEnds \in Nat
    BY <2>1 DEF Init
  <2>3. /\ llmresponse \in Seq(Texts) /\ returned \in Seq(Chunks \cup Signals)
        /\ emitted \in Seq(Emission)
    BY DEF Init
  <2>4. /\ promptOk \in BOOLEAN /\ wdone \in BOOLEAN
        /\ ctx \in {"none", "entered", "exited"}
        /\ usage \in Usages \cup {NoUsage}
        /\ status \in {"UNSET", "OK", "ERROR"}
    BY DEF Init
  <2>5. QED
    BY <2>1, <2>2, <2>3, <2>4 DEF TypeOK
<1>2. Delivered = <<>>
  BY FilterEmpty DEF Init, Delivered
<1>3. LastUsage(<<>>) = NoUsage
  BY FilterEmpty DEF LastUsage
<1>4. QED
  BY <1>1, <1>2, <1>3 DEF Init, IInv, ContentOf

LEMMA InvStep == IInv /\ [Next]_vars => IInv'
<1> SUFFICES ASSUME IInv, [Next]_vars PROVE IInv'
  OBVIOUS
<1>0. returned \in Seq(Chunks \cup Signals) /\ Delivered \in Seq(Chunks)
  BY DEF IInv, TypeOK
<1>1. CASE AEnter \/ AExit
  BY <1>1 DEF AEnter, AExit, unchangedStream, IInv, TypeOK, Delivered
<1>2. CASE PullChunk
  <2> DEFINE chunk == upstream[pos + 1]
  <2>1. /\ ~wdone /\ pos < Len(upstream) /\ chunk \in Chunks
        /\ pos' = pos + 1 /\ arrivals' = arrivals + 1
        /\ UNCHANGED <<upstream, promptOk, wdone, ctx, spanEnds, status, emitted>>
    BY <1>2 DEF PullChunk, IInv, TypeOK
  <2>2. emitted = <<>>
    BY <2>1 DEF IInv, TypeOK
  <2>3. CASE chunk.content = None
    <3>1. returned' = Append(returned, TypeError) /\ UNCHANGED <<llmresponse, usage>>
      BY <1>2, <2>3 DEF PullChunk
    <3>2. Delivered' = Delivered
      BY <1>0, <3>1, DeliveredAppend, SignalsAssumption DEF Delivered, Signals
    <3>3. QED
      BY <2>1, <2>2, <3>1, <3>2, <1>0 DEF IInv, TypeOK, Signals
  <2>4. CASE chunk.content # None
    <3>1. /\ returned' = Append(returned, chunk)
          /\ llmresponse' = Append(llmresponse, chunk.content)
          /\ usage' = IF chunk.usage # NoUsage THEN chunk.usage ELSE usage
      BY <1>2, <2>4 DEF PullChunk
    <3>2. Delivered' = Append(Delivered, chunk)
      BY <1>0, <2>1, <3>1, DeliveredAppend DEF Delivered
    <3>3. llmresponse' = ContentOf(Delivered')
      BY <1>0, <2>1, <3>1, <3>2, ContentAppend DEF IInv
    <3>4. usage' = LastUsage(Delivered')
      BY <1>0, <2>1, <3>1, <3>2, LastUsageAppend DEF IInv
    <3>5. chunk.content \in Texts /\ chunk.usage \in Usages \cup {NoUsage}
      BY <2>1, <2>4 DEF Chunks
    <3>6. TypeOK'
      BY <2>1, <3>1, <3>5, <1>0 DEF IInv, TypeOK
    <3>7. QED
      BY <2>1, <2>2, <3>2, <3>3, <3>4, <3>6, <1>0 DEF IInv
  <2>5. QED
    BY <2>3, <2>4
<1>3. CASE PullFault
  <2>1. returned' = Append(returned, Fault) /\ wdone' = TRUE
        /\ UNCHANGED <<upstream, promptOk, pos, ctx, arrivals, llmresponse, usage,
                       spanEnds, status, emitted>>
    BY <1>3 DEF PullFault
  <2>2. Delivered' = Delivered
    BY <1>0, <2>1, DeliveredAppend, SignalsAssumption DEF Delivered, Signals
  <2>3. QED
    BY <2>1, <2>2, <1>0 DEF IInv, TypeOK, Signals
<1>4. CASE PullEnd
  <2> DEFINE rec == [text |-> llmresponse, usage |-> usage, arrivals |-> arrivals,
                     attrs |-> promptOk,
                     metrics |-> promptOk /\ ~DisableMetrics /\ usage # NoUsage]
  <2>1. /\ returned' = Append(returned, StopAsyncIteration) /\ wdone' = TRUE
        /\ emitted' = Append(emitted, rec)
        /\ status' = SetStatus(IF promptOk THEN "OK" ELSE "ERROR")
        /\ spanEnds' = spanEnds + 1
        /\ UNCHANGED <<upstream, promptOk, pos, ctx, arrivals, llmresponse, usage>>
    BY <1>4 DEF PullEnd, Finalize
  <2>2. Delivered' = Delivered
    BY <1>0, <2>1, DeliveredAppend, SignalsAssumption DEF Delivered, Signals
  <2>3. rec \in Emission
    BY MistralAssumption DEF IInv, TypeOK, Emission
  <2>4. status' \in {"UNSET", "OK", "ERROR"}
    BY <2>1 DEF SetStatus, IInv, TypeOK
  <2>5. TypeOK'
    BY <2>1, <2>3, <2>4, <1>0 DEF IInv, TypeOK, Signals
  <2>6. \A k \in 1..Len(emitted') :
          /\ emitted'[k].text = llmresponse'
          /\ emitted'[k].usage = usage'
          /\ emitted'[k].arrivals = arrivals'
    <3>1. emitted \in Seq(Emission)
      BY DEF IInv, TypeOK
    <3>2. \A k \in 1..Len(emitted) :
            /\ emitted[k].text = llmresponse
            /\ emitted[k].usage = usage
            /\ emitted[k].arrivals = arrivals
      BY DEF IInv
    <3>3. QED
      BY <2>1, <3>1, <3>2
  <2>7. QED
    BY <2>1, <2>2, <2>5, <2>6 DEF IInv
<1>5. CASE UNCHANGED vars
  BY <1>5 DEF vars, IInv, TypeOK, Delivered
<1>6. QED
  BY <1>1, <1>2, <1>3, <1>4, <1>5 DEF Next

(* Type correctness of the Mistral proxy's fields, for every set of        *)
(* fragments and usage blocks and every bound.                             *)
THEOREM TypeCorrect == Spec => []TypeOK
<1>1. IInv => TypeOK
  BY DEF IInv
<1>2. QED
  BY InvInit, InvStep, <1>1, PTL DEF Spec

(* However chunks without content (lost to TypeError in __anext__), chunks *)
(* with and without usage, faults and repeated StopAsyncIteration pulls    *)
(* interleave, every run of the finalization block records as completion  *)
(* the concatenated contents of the chunks the caller received, as usage  *)
(* the block of the last received chunk that carried one.                  *)
THEOREM MistralSafety ==
  Spec => [](CompletionMatchesDelivered /\ UsageFromLastUsageChunk)
<1>1. IInv => CompletionMatchesDelivered /\ UsageFromLastUsageChunk
  BY DEF IInv, CompletionMatchesDelivered, UsageFromLastUsageChunk
<1>2. QED
  BY InvInit, InvStep, <1>1, PTL DEF Spec

(* The recorded completion is the text the caller received.                *)
THEOREM CompletionCorrect == Spec => []CompletionMatchesDelivered
BY MistralSafety, PTL

(* The recorded usage is the last one the caller received.                 *)
THEOREM UsageCorrect == Spec => []UsageFromLastUsageChunk
BY MistralSafety, PTL

=============================================================================
