---------------------- MODULE ResponseAccumulatorProofs ----------------------
(***************************************************************************)
(* Proof, for every set of fragments, indices and reasons and every bound  *)
(* on the deltas, of what the MCResponseAccumulator run checks: the fields *)
(* TracedAsyncStream keeps keep their types under every delta.             *)
(***************************************************************************)
EXTENDS ResponseAccumulator, TLAPS

(* The three kinds of deltas are disjoint.                                 *)
LEMMA DeltaKinds ==
  ASSUME NEW d \in Delta
  PROVE  /\ d \in TextDeltas <=> d.kind = "text"
         /\ d \in FinishDeltas <=> d.kind = "finish"
         /\ d \in ToolDeltas <=> d.kind = "tool"
BY DEF Delta, TextDeltas, FinishDeltas, ToolDeltas

LEMMA TypeInit == Init => TypeOK
BY DEF Init, TypeOK

(* A tool-call fragment leaves _tool_id, _tool_name and _tool_arguments    *)
(* of their types.                                                         *)
LEMMA ToolTypeStep ==
  ASSUME TypeOK, NEW f \in Fragment, ApplyTool(f)
  PROVE  /\ toolId' \in Ids \cup {Absent}
         /\ toolName' \in Names \cup {Absent}
         /\ toolArgs' \in Seq(Pieces)
<1>1. toolId' \in Ids \cup {Absent} /\ toolName' \in Names \cup {Absent}
  BY DEF ApplyTool, Fragment, TypeOK
<1>2. f.args # Absent => f.args \in Pieces
  BY DEF Fragment
<1>3. toolArgs' \in Seq(Pieces)
  BY <1>2 DEF ApplyTool, TypeOK
<1>4. QED
  BY <1>1, <1>3

LEMMA TypeStep == TypeOK /\ [Next]_vars => TypeOK'
<1> SUFFICES ASSUME TypeOK, [Next]_vars PROVE TypeOK'
  OBVIOUS
<1>1. ASSUME NEW d \in Delta, Apply(d) PROVE TypeOK'
  <2>1. applied' \in Seq(Delta)
    BY <1>1 DEF Apply, TypeOK
  <2>2. CASE d.kind = "text"
    <3>1. d \in TextDeltas
      BY <2>2, DeltaKinds
    <3>2. text' = Append(text, d.text)
          /\ UNCHANGED <<finish, toolId, toolName, toolArgs>>
      BY <1>1, <2>2 DEF Apply
    <3>3. QED
      BY <2>1, <3>1, <3>2 DEF TypeOK, TextDeltas
  <2>3. CASE d.kind = "finish"
    <3>1. d \in FinishDeltas
      BY <2>3, DeltaKinds
    <3>2. finish' = d.reason /\ UNCHANGED <<text, toolId, toolName, toolArgs>>
      BY <1>1, <2>3 DEF Apply
    <3>3. QED
      BY <2>1, <3>1, <3>2 DEF TypeOK, FinishDeltas
  <2>4. CASE d.kind = "tool"
    <3>1. d.frag \in Fragment /\ ApplyTool(d.frag) /\ UNCHANGED <<text, finish>>
      BY <1>1, <2>4 DEF Apply, Delta, TextDeltas, FinishDeltas, ToolDeltas
    <3>2. QED
      BY <2>1, <3>1, ToolTypeStep DEF TypeOK
  <2>5. QED
    BY <2>2, <2>3, <2>4 DEF Delta, TextDeltas, FinishDeltas, ToolDeltas
<1>2. CASE UNCHANGED vars
  BY <1>2 DEF vars, TypeOK
<1>3. QED
  BY <1>1, <1>2 DEF Next

(* Type correctness of the proxy's accumulator fields, for every set of    *)
(* fragments and every bound: process_chunk never leaves a field of a type *)
(* the span attributes cannot be built from (a None in _tool_arguments).   *)
THEOREM TypeCorrect == Spec => []TypeOK
BY TypeInit, TypeStep, PTL DEF Spec

=============================================================================
