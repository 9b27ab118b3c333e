----------------------------- MODULE VertexCall -----------------------------
(***************************************************************************)
(* The VertexAI telemetry wrapper of send_message (vertexai/vertexai.py)   *)
(* composed with the TracedSyncStream it returns for a streaming call.     *)
(* wrapper() reads kwargs["stream"]:                                       *)
(*  - streaming: it calls wrapped(...) first, then tracer.start_span, and   *)
(*    returns a TracedSyncStream owning the span; the caller then drives   *)
(*    the proxy, whose __next__ is the __anext__ of TracedStream with       *)
(*    StopIteration for StopAsyncIteration;                                 *)
(*  - otherwise: inside "with tracer.start_as_current_span(...)" it calls  *)
(*    wrapped(...) and process_chat_response in a try whose except hands   *)
(*    the exception to handle_exception, and returns the response.         *)
(* The span of the call is the proxy's span variables of TracedStream.     *)
(***************************************************************************)
EXTENDS TracedStream

VARIABLES
  streaming,    \* kwargs.get("stream", False)
  phase,        \* "calling", "streaming" (proxy handed out), "done"
  result,       \* what wrapper() gave the caller
  spanStarted,  \* a span exists for this call
  consumer      \* the caller: a "loop" (for chunk in stream), "manual"
                \* next() calls, or "stopped" (the loop has ended)

callVars == <<streaming, phase, result, spanStarted, consumer>>
allVars == <<vars, callVars>>

-----------------------------------------------------------------------------
(* The non-streaming branch opens its span before the call; the streaming *)
(* branch only after wrapped(...) has returned.                           *)
CallInit ==
  /\ Init
  /\ streaming \in BOOLEAN
  /\ phase = "calling"
  /\ result = "none"
  /\ spanStarted = ~streaming
  /\ consumer \in {"loop", "manual"}

(* Streaming: wrapped(...) raises; no span was started, so none records    *)
(* the failure.                                                            *)
StreamCallRaises ==
  /\ streaming /\ phase = "calling"
  /\ phase' = "done"
  /\ result' = "exception"
  /\ UNCHANGED <<vars, streaming, spanStarted, consumer>>

(* Streaming: wrapped(...) returns the provider stream; start_span, and    *)
(* the TracedSyncStream is returned to the caller.                         *)
StreamCallReturns ==
  /\ streaming /\ phase = "calling"
  /\ phase' = "streaming"
  /\ result' = "stream"
  /\ spanStarted' = TRUE
  /\ UNCHANGED <<vars, streaming, consumer>>

(* One step of the proxy driven by the caller: a "for chunk in stream"    *)
(* loop calls __next__ until it raises; a caller calling next() by hand    *)
(* may call it again after that; either may leave a "with stream:" block. *)
ProxyStep ==
  /\ phase = "streaming" /\ consumer # "stopped"
  /\ Next
  /\ consumer' = IF /\ consumer = "loop"
                    /\ Len(returned') > Len(returned)
                    /\ returned'[Len(returned')] \in Signals
                   THEN "stopped" ELSE consumer
  /\ UNCHANGED <<streaming, phase, result, spanStarted>>

(* Non-streaming: wrapped(...) raises inside the "with": Span.__exit__     *)
(* records it, sets ERROR and ends the span; the exception propagates.     *)
SyncCallRaises ==
  /\ ~streaming /\ phase = "calling"
  /\ phase' = "done"
  /\ result' = "exception"
  /\ status' = "ERROR"
  /\ spanEnds' = spanEnds + 1
  /\ UNCHANGED <<upstream, pos, wdone, ctx, seen, returned, emitted,
                 streaming, spanStarted, consumer>>

(* Mutant of SyncCallReturns: set_status is given str() of the outcome    *)
(* flag rather than a Status.                                              *)
SyncCallReturnsRawStatus ==
  /\ ~streaming /\ phase = "calling"
  /\ phase' = "done"
  /\ result' = "response"
  /\ \E ok \in BOOLEAN : status' = IF ok THEN "True" ELSE "False"
  /\ spanEnds' = spanEnds + 1
  /\ UNCHANGED <<upstream, pos, wdone, ctx, seen, returned, emitted,
                 streaming, spanStarted, consumer>>

(* Non-streaming: wrapped(...) returns; process_chat_response sets the     *)
(* attributes, OK and the metrics, or raises and handle_exception sets     *)
(* ERROR; "return response" leaves the "with", which ends the span.        *)
SyncCallReturns ==
  /\ ~streaming /\ phase = "calling"
  /\ phase' = "done"
  /\ result' = "response"
  /\ \E ok \in BOOLEAN : status' = IF ok THEN "OK" ELSE "ERROR"
  /\ spanEnds' = spanEnds + 1
  /\ UNCHANGED <<upstream, pos, wdone, ctx, seen, returned, emitted,
                 streaming, spanStarted, consumer>>

CallNext ==
  \/ StreamCallRaises
  \/ StreamCallReturns
  \/ ProxyStep
  \/ SyncCallRaises
  \/ SyncCallReturns

(* A for loop keeps calling __next__ while it iterates: weak fairness of   *)
(* the proxy's steps under a loop, nothing more.  A manual caller may stop *)
(* at any time.                                                            *)
LoopStep == consumer = "loop" /\ ProxyStep

CallSpec == CallInit /\ [][CallNext]_allVars /\ WF_allVars(LoopStep)

-----------------------------------------------------------------------------
VertexTypeOK ==
  /\ TypeOK
  /\ streaming \in BOOLEAN
  /\ phase \in {"calling", "streaming", "done"}
  /\ result \in {"none", "stream", "response", "exception"}
  /\ spanStarted \in BOOLEAN
  /\ consumer \in {"loop", "manual", "stopped"}

(* A caller that iterates a streaming response to its end with a for loop  *)
(* sees the span ended, unless the wrapped stream failed or the caller     *)
(* left a "with" block first: the finalizer in __next__'s except           *)
(* StopIteration clause is reached on every such run.                      *)
IterationEndsSpan ==
  (phase = "streaming" /\ consumer = "loop") ~>
     \/ spanEnds >= 1
     \/ \E i \in 1..Len(returned) : returned[i] = Fault
     \/ ctx = "exited"

(* Every call that fails leaves an ERROR span behind, as the non-streaming *)
(* branch does.  The streaming branch calls wrapped(...) before            *)
(* start_span, so a failing streaming request leaves no span at all.       *)
FailedCallTraced ==
  result = "exception" => spanStarted /\ status = "ERROR"

(* The abstract pass-through contract of the proxy, with the caller's      *)
(* history as the abstract output; wrapper()'s own steps are stutters.     *)
Abstract == INSTANCE PassThroughStream WITH out <- returned

(* Driven by its caller through wrapper(), the TracedSyncStream implements *)
(* the pass-through contract of spec section 4.5.                          *)
AbstractSpec == Abstract!Spec

=============================================================================
