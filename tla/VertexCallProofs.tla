-------------------------- MODULE VertexCallProofs --------------------------
(***************************************************************************)
(* Proofs, for every set of chunks and every bound, of what the            *)
(* MCVertexCall run checks of wrapper() composed with its                  *)
(* TracedSyncStream: the types, and the proxy's pass-through, telemetry   *)
(* and refinement results of TracedStreamProofs carried over to the        *)
(* composition, whose non-streaming steps touch only the span.             *)
(***************************************************************************)
EXTENDS VertexCall, TracedStreamProofs, TLAPS

(* The types of the composition: the proxy's fields, which the proxy's own *)
(* steps keep by TypeStep, and the wrapper's.                              *)
LEMMA VertexTypeInit == CallInit => VertexTypeOK
BY TypeInit DEF CallInit, VertexTypeOK

LEMMA VertexTypeStep == VertexTypeOK /\ [CallNext]_allVars => VertexTypeOK'
<1> SUFFICES ASSUME VertexTypeOK, [CallNext]_allVars PROVE VertexTypeOK'
  OBVIOUS
<1>1. CASE StreamCallRaises \/ StreamCallReturns
  BY <1>1 DEF StreamCallRaises, StreamCallReturns, vars, VertexTypeOK, TypeOK
<1>2. CASE ProxyStep
  <2>1. TypeOK'
    BY <1>2, TypeStep DEF ProxyStep, VertexTypeOK
  <2>2. QED
    BY <1>2, <2>1 DEF ProxyStep, VertexTypeOK
<1>3. CASE SyncCallRaises \/ SyncCallReturns
  BY <1>3 DEF SyncCallRaises, SyncCallReturns, VertexTypeOK, TypeOK
<1>4. CASE UNCHANGED allVars
  BY <1>4 DEF allVars, vars, callVars, VertexTypeOK, TypeOK
<1>5. QED
  BY <1>1, <1>2, <1>3, <1>4 DEF CallNext

(* Type correctness of wrapper() and its proxy, for every set of chunks    *)
(* and every bound.                                                        *)
THEOREM VertexTypeCorrect == CallSpec => []VertexTypeOK
BY VertexTypeInit, VertexTypeStep, PTL DEF CallSpec

-----------------------------------------------------------------------------
(* The proxy's inductive invariant IInv survives the wrapper's steps: the  *)
(* streaming branch's own steps change none of the proxy's fields, and the *)
(* non-streaming branch only ends the span and sets its status.            *)
LEMMA ComposedInvStep == IInv /\ [CallNext]_allVars => IInv'
<1> SUFFICES ASSUME IInv, [CallNext]_allVars PROVE IInv'
  OBVIOUS
<1>1. CASE StreamCallRaises \/ StreamCallReturns
  <2>1. UNCHANGED vars
    BY <1>1 DEF StreamCallRaises, StreamCallReturns
  <2>2. QED
    BY <2>1, InvStep
<1>2. CASE ProxyStep
  <2>1. [Next]_vars
    BY <1>2 DEF ProxyStep
  <2>2. QED
    BY <2>1, InvStep
<1>3. CASE SyncCallRaises \/ SyncCallReturns
  <2>1. /\ spanEnds' = spanEnds + 1 /\ status' \in {"OK", "ERROR"}
        /\ UNCHANGED <<upstream, pos, wdone, ctx, seen, returned, emitted>>
    BY <1>3 DEF SyncCallRaises, SyncCallReturns
  <2>2. QED
    BY <2>1 DEF IInv, TypeOK, PassThrough, Delivered, EmissionMatchesDelivered,
                StopEndsSpan
<1>4. CASE UNCHANGED allVars
  <2>1. UNCHANGED vars
    BY <1>4 DEF allVars
  <2>2. QED
    BY <2>1, InvStep
<1>5. QED
  BY <1>1, <1>2, <1>3, <1>4 DEF CallNext

(* Inside wrapper(), the caller of the TracedSyncStream receives the       *)
(* wrapped stream's chunks unmodified and in order, then its termination   *)
(* signal; every telemetry record describes exactly the delivered chunks;  *)
(* and a caller that saw StopIteration has an ended span.                  *)
THEOREM VertexStreamSafety ==
  CallSpec => [](PassThrough /\ EmissionMatchesDelivered /\ StopEndsSpan)
<1>1. CallInit => IInv
  BY InvInit DEF CallInit
<1>2. IInv => PassThrough /\ EmissionMatchesDelivered /\ StopEndsSpan
  BY DEF IInv
<1>3. QED
  BY <1>1, <1>2, ComposedInvStep, PTL DEF CallSpec

(* The wrapper's steps are stutters of the pass-through contract, and the  *)
(* proxy's steps are its steps by RefStep.                                 *)
LEMMA ComposedRefStep ==
  IInv /\ [CallNext]_allVars =>
    [Abstract!Forward \/ Abstract!Fail \/ Abstract!Finish]_<<upstream, returned>>
<1> SUFFICES ASSUME IInv, [CallNext]_allVars
             PROVE  [Abstract!Forward \/ Abstract!Fail \/ Abstract!Finish]_<<upstream, returned>>
  OBVIOUS
<1>1. CASE ProxyStep
  <2>1. [PT!Forward \/ PT!Fail \/ PT!Finish]_<<upstream, returned>>
    BY <1>1, RefStep DEF ProxyStep
  <2>2. QED
    BY <2>1 DEF PT!Forward, PT!Fail, PT!Finish, PT!Terminated,
                Abstract!Forward, Abstract!Fail, Abstract!Finish, Abstract!Terminated
<1>2. CASE ~ProxyStep
  BY <1>2 DEF CallNext, StreamCallRaises, StreamCallReturns, SyncCallRaises,
              SyncCallReturns, allVars, vars
<1>3. QED
  BY <1>1, <1>2

(* Driven by its caller through wrapper(), the TracedSyncStream implements *)
(* the pass-through contract (spec sections 4.5 and 8), for every set of   *)
(* chunks and every bound.                                                 *)
THEOREM VertexRefinement == CallSpec => AbstractSpec
<1>1. CallInit => Abstract!Init
  BY RefInit DEF CallInit, PT!Init, Abstract!Init
<1>2. CallSpec => []IInv
  <2>1. CallInit => IInv
    BY InvInit DEF CallInit
  <2>2. QED
    BY <2>1, ComposedInvStep, PTL DEF CallSpec
<1>3. QED
  BY <1>1, <1>2, ComposedRefStep, PTL DEF CallSpec, AbstractSpec, Abstract!Spec

=============================================================================
