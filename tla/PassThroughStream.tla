------------------------- MODULE PassThroughStream -------------------------
(***************************************************************************)
(* What a stream proxy promises its caller (spec sections 4.5 and 8): the  *)
(* items it returns are the wrapped stream's items, unmodified and in      *)
(* order, followed by the termination signal of the wrapped stream; a      *)
(* normal end is reported only once every item was returned, and a         *)
(* terminated stream keeps answering with the end-of-sequence signal.      *)
(* Telemetry is invisible at this level.                                   *)
(***************************************************************************)
EXTENDS Naturals, Sequences

CONSTANTS Chunks, StopAsyncIteration, Fault

VARIABLES
  upstream,   \* the items of the wrapped stream
  out         \* everything returned or raised to the caller, in order

Terminated == \E i \in 1..Len(out) : out[i] \in {StopAsyncIteration, Fault}

Init ==
  /\ upstream \in Seq(Chunks)
  /\ out = <<>>

(* The next item of the wrapped stream reaches the caller.                 *)
Forward ==
  /\ ~Terminated
  /\ Len(out) < Len(upstream)
  /\ out' = Append(out, upstream[Len(out) + 1])
  /\ UNCHANGED upstream

(* The wrapped stream fails and the caller sees that failure.              *)
Fail ==
  /\ ~Terminated
  /\ out' = Append(out, Fault)
  /\ UNCHANGED upstream

(* The caller is told the stream ended: after the last item, or again     *)
(* after an earlier termination.                                           *)
Finish ==
  /\ Terminated \/ Len(out) = Len(upstream)
  /\ out' = Append(out, StopAsyncIteration)
  /\ UNCHANGED upstream

Spec == Init /\ [][Forward \/ Fail \/ Finish]_<<upstream, out>>
=============================================================================
