--------------------------- MODULE ChatCallProofs ---------------------------
(***************************************************************************)
(* Proofs, for every set of finish reasons and every bound, of the         *)
(* invariants the MCChatCall run checks on a small instance.               *)
(***************************************************************************)
EXTENDS ChatCall, TLAPS

(* The strengthening of SpanSettled /\ OkMeansComplete: no metric is       *)
(* recorded before the wrapper returns, and a response is there from the   *)
(* moment the provider answered (an OK span refers to it).                 *)
IInv ==
  /\ TypeOK
  /\ SpanSettled
  /\ OkMeansComplete
  /\ phase # "done" => metrics = 0
  /\ phase = "returned" => response \in Responses
  /\ status = "OK" => response \in Responses

-----------------------------------------------------------------------------
LEMMA TypeInit == Init => TypeOK
BY ChatCallAssumption DEF Init, TypeOK

(* TypeOK alone is not preserved: Record reads the response, which is of  *)
(* its type once the provider answered.                                    *)
LEMMA TypeStep ==
  ASSUME TypeOK, phase = "returned" => response \in Responses, [Next]_vars
  PROVE  TypeOK'
<1>1. CASE CallRaises \/ ConvertRaises
  BY <1>1 DEF CallRaises, ConvertRaises, LeaveWithException, TypeOK
<1>2. CASE CallReturns
  BY <1>2 DEF CallReturns, TypeOK
<1>3. CASE Record
  <2>1. response \in Responses
    BY <1>3 DEF Record
  <2>2. finishAttr' \in Seq(Reasons)
    <3>1. CASE response.usage /\ Iterations(response) > 0
      <4>2. PICK m \in 0..MaxChoices : response.choices \in [1..m -> Reasons]
        BY <2>1 DEF Responses
      <4>3. Iterations(response) \in 1..m
        BY <3>1, <4>2 DEF Iterations, TypeOK
      <4>4. response.choices[Iterations(response)] \in Reasons
        BY <4>2, <4>3
      <4>5. QED
        BY <1>3, <3>1, <4>4 DEF Record
    <3>2. CASE ~(response.usage /\ Iterations(response) > 0)
      BY <1>3, <3>2 DEF Record, TypeOK
    <3>3. QED
      BY <3>1, <3>2
  <2>3. QED
    BY <1>3, <2>2 DEF Record, TypeOK
<1>4. CASE UNCHANGED vars
  BY <1>4 DEF vars, TypeOK
<1>5. QED
  BY <1>1, <1>2, <1>3, <1>4 DEF Next

-----------------------------------------------------------------------------
LEMMA InvInit == Init => IInv
BY TypeInit DEF Init, IInv, SpanSettled, OkMeansComplete

LEMMA InvStep == IInv /\ [Next]_vars => IInv'
<1> SUFFICES ASSUME IInv, [Next]_vars PROVE IInv'
  OBVIOUS
<1>0. TypeOK'
  BY TypeStep DEF IInv, TypeOK
<1>1. CASE CallRaises \/ ConvertRaises
  <2>1. /\ phase' = "done" /\ spanEnds' = 1 /\ status' = "ERROR"
        /\ UNCHANGED <<response, metrics>>
    BY <1>1 DEF CallRaises, ConvertRaises, LeaveWithException, IInv, SpanSettled
  <2>2. QED
    BY <1>0, <2>1 DEF IInv, SpanSettled, OkMeansComplete
<1>2. CASE CallReturns
  BY <1>0, <1>2 DEF CallReturns, IInv, SpanSettled, OkMeansComplete
<1>3. CASE Record
  <2> DEFINE r == response
  <2>1. r \in Responses /\ phase = "returned" /\ metrics = 0 /\ spanEnds = 0
    BY <1>3 DEF Record, IInv, SpanSettled
  <2>2. /\ phase' = "done" /\ spanEnds' = 1
        /\ status' = IF Traced(r) THEN "OK" ELSE "ERROR"
        /\ UNCHANGED <<n, response>>
    BY <1>3, <2>1 DEF Record
  <2>3. SpanSettled'
    BY <2>2 DEF SpanSettled
  <2>4. OkMeansComplete'
    <3> SUFFICES ASSUME Traced(r)
                 PROVE  /\ metrics' = IF DisableMetrics THEN 0 ELSE 1
                        /\ n > 0 => finishAttr' = <<r.choices[n]>>
      BY <2>2 DEF OkMeansComplete
    <3>1. n \in Nat /\ n <= Len(r.choices) /\ r.usage
      BY DEF Traced, IInv, TypeOK
    <3>2. Iterations(r) = n
      BY <3>1 DEF Iterations
    <3>3. metrics' = IF DisableMetrics THEN 0 ELSE 1
      BY <1>3, <2>1, ChatCallAssumption DEF Record
    <3>4. n > 0 => finishAttr' = <<r.choices[n]>>
      BY <1>3, <3>1, <3>2 DEF Record
    <3>5. QED
      BY <3>3, <3>4
  <2>5. status' = "OK" => response' \in Responses
    BY <2>1, <2>2
  <2>6. QED
    BY <1>0, <2>2, <2>3, <2>4, <2>5 DEF IInv
<1>4. CASE UNCHANGED vars
  BY <1>0, <1>4 DEF vars, IInv, SpanSettled, OkMeansComplete
<1>5. QED
  BY <1>1, <1>2, <1>3, <1>4 DEF Next

(* Type correctness of the non-streaming chat wrapper.                     *)
THEOREM TypeCorrect == Spec => []TypeOK
<1>1. IInv => TypeOK
  BY DEF IInv
<1>2. QED
  BY InvInit, InvStep, <1>1, PTL DEF Spec

(* Every exit of async_chat ends the span exactly once with a decided      *)
(* status, and an OK span carries the metrics and the finish reason of the *)
(* last requested choice, for every bound on choices and n.                *)
THEOREM CallSafety == Spec => [](SpanSettled /\ OkMeansComplete)
<1>1. IInv => SpanSettled /\ OkMeansComplete
  BY DEF IInv
<1>2. QED
  BY InvInit, InvStep, <1>1, PTL DEF Spec

(* Every exit of async_chat, returning or raising, leaves the span ended   *)
(* exactly once with OK or ERROR.                                          *)
THEOREM SpanSettledHolds == Spec => []SpanSettled
BY CallSafety, PTL

=============================================================================
