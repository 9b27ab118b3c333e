------------------------------ MODULE ChatCall ------------------------------
(***************************************************************************)
(* The non-streaming telemetry wrapper of Mistral's async chat call:       *)
(* async_chat in mistral/async_mistral.py.  Inside                         *)
(* "with tracer.start_as_current_span(...)" it awaits the provider call,   *)
(* converts the response with response_as_dict, and then, inside a         *)
(* try/except that hands any exception to handle_exception, reads the      *)
(* usage, sets the attributes, loops over the n requested choices setting  *)
(* the finish-reason attribute, sets status OK and records the metrics.   *)
(* It returns the original response whether or not the telemetry failed. *)
(*                                                                         *)
(* Data abstraction: a response is its usage (present or not: a missing    *)
(* usage makes ".get" of None raise AttributeError) and the sequence of    *)
(* the finish reasons of its choices.  Attribute values other than the     *)
(* finish reason, the cost and the timings are left out.                   *)
(***************************************************************************)
EXTENDS Naturals, Sequences

CONSTANTS
  Reasons,         \* the finish reasons a choice can carry
  MaxChoices,      \* bound on the number of choices of a response
  MaxN,            \* bound on the request's "n"
  DisableMetrics,  \* the disable_metrics flag of the instrumentor
  NoResponse       \* model value: the provider has not answered yet

ASSUME ChatCallAssumption ==
  /\ MaxChoices \in Nat
  /\ MaxN \in Nat
  /\ DisableMetrics \in BOOLEAN

(* The responses of at most MaxChoices choices.                            *)
Responses ==
  [usage : BOOLEAN, choices : UNION {[1..m -> Reasons] : m \in 0..MaxChoices}]

ASSUME NoResponseAssumption == NoResponse \notin Responses

VARIABLES
  phase,       \* "calling", "returned" (awaited), "done" (wrapper left)
  n,           \* kwargs.get('n', 1)
  response,    \* what the provider call returned
  result,      \* what the caller got: "none", "response", "exception"
  status,      \* span status: "UNSET", "OK", "ERROR"
  spanEnds,    \* number of span.end() calls
  finishAttr,  \* value of the finish-reason attribute (<<>>: never set)
  metrics      \* number of times the metric set was recorded

vars == <<phase, n, response, result, status, spanEnds, finishAttr, metrics>>

-----------------------------------------------------------------------------
(* wrapper() entered the span's "with" and is awaiting wrapped(...).       *)
Init ==
  /\ phase = "calling"
  /\ n \in 0..MaxN
  /\ response = NoResponse
  /\ result = "none"
  /\ status = "UNSET"
  /\ spanEnds = 0
  /\ finishAttr = <<>>
  /\ metrics = 0

(* Leaving the "with" block by an exception: Span.__exit__ records it,     *)
(* sets ERROR on a span not yet OK and ends the span; the exception       *)
(* reaches the caller.                                                     *)
LeaveWithException ==
  /\ phase' = "done"
  /\ result' = "exception"
  /\ status' = IF status = "OK" THEN status ELSE "ERROR"
  /\ spanEnds' = spanEnds + 1
  /\ UNCHANGED <<n, response, finishAttr, metrics>>

(* "await wrapped(...)" raises.                                    *)
CallRaises ==
  /\ phase = "calling"
  /\ LeaveWithException

(* "await wrapped(...)" returns a response.                        *)
CallReturns ==
  /\ phase = "calling"
  /\ \E r \in Responses : response' = r
  /\ phase' = "returned"
  /\ UNCHANGED <<n, result, status, spanEnds, finishAttr, metrics>>

(* response_as_dict(response), outside the try, raises.                    *)
ConvertRaises ==
  /\ phase = "returned"
  /\ LeaveWithException

(* How many iterations of "for i in range(n)" set the finish reason        *)
(* before the loop ended or choices[i] raised IndexError.                  *)
Iterations(r) == IF n <= Len(r.choices) THEN n ELSE Len(r.choices)

(* The try block ran to "return response" without raising.                 *)
Traced(r) == r.usage /\ n <= Len(r.choices)

(* Mutant of Record: the attribute set to the bare finish reason rather   *)
(* than to the one-element list [finish_reason].                          *)
RecordBareReason ==
  /\ phase = "returned"
  /\ LET r == response IN
       /\ finishAttr' = IF r.usage /\ Iterations(r) > 0
                          THEN r.choices[Iterations(r)] ELSE finishAttr
       /\ status' = IF Traced(r) THEN "OK" ELSE "ERROR"
       /\ metrics' = IF Traced(r) /\ ~DisableMetrics THEN metrics + 1 ELSE metrics
  /\ phase' = "done"
  /\ result' = "response"
  /\ spanEnds' = spanEnds + 1
  /\ UNCHANGED <<n, response>>

(* Mutant of Record: status OK set before the loop over the choices, so   *)
(* an IndexError in the loop cannot turn it to ERROR.                      *)
RecordOkFirst ==
  /\ phase = "returned"
  /\ LET r == response IN
       /\ finishAttr' = IF r.usage /\ Iterations(r) > 0
                          THEN <<r.choices[Iterations(r)]>> ELSE finishAttr
       /\ status' = IF r.usage THEN "OK" ELSE "ERROR"
       /\ metrics' = IF Traced(r) /\ ~DisableMetrics THEN metrics + 1 ELSE metrics
  /\ phase' = "done"
  /\ result' = "response"
  /\ spanEnds' = spanEnds + 1
  /\ UNCHANGED <<n, response>>

(* Mutant of Record: handle_exception only logs, the status stays UNSET.   *)
RecordNoErrorStatus ==
  /\ phase = "returned"
  /\ LET r == response IN
       /\ finishAttr' = IF r.usage /\ Iterations(r) > 0
                          THEN <<r.choices[Iterations(r)]>> ELSE finishAttr
       /\ status' = IF Traced(r) THEN "OK" ELSE status
       /\ metrics' = IF Traced(r) /\ ~DisableMetrics THEN metrics + 1 ELSE metrics
  /\ phase' = "done"
  /\ result' = "response"
  /\ spanEnds' = spanEnds + 1
  /\ UNCHANGED <<n, response>>

(* The try block: a missing usage raises at once (AttributeError); else    *)
(* the loop sets the finish-reason attribute to [choices[i].finish_reason] *)
(* for each i < n, raising IndexError past the last choice; only a loop    *)
(* that completes reaches set_status(OK) and the metrics.  The except      *)
(* clause's handle_exception sets ERROR.  "return response" then leaves    *)
(* the "with", which ends the span.                                        *)
Record ==
  /\ phase = "returned"
  /\ LET r == response IN
       /\ finishAttr' = IF r.usage /\ Iterations(r) > 0
                          THEN <<r.choices[Iterations(r)]>> ELSE finishAttr
       /\ status' = IF Traced(r) THEN "OK" ELSE "ERROR"
       /\ metrics' = IF Traced(r) /\ ~DisableMetrics THEN metrics + 1 ELSE metrics
  /\ phase' = "done"
  /\ result' = "response"
  /\ spanEnds' = spanEnds + 1
  /\ UNCHANGED <<n, response>>

Next ==
  \/ CallRaises
  \/ CallReturns
  \/ ConvertRaises
  \/ Record

Spec == Init /\ [][Next]_vars

-----------------------------------------------------------------------------
TypeOK ==
  /\ phase \in {"calling", "returned", "done"}
  /\ n \in 0..MaxN
  /\ response \in Responses \cup {NoResponse}
  /\ result \in {"none", "response", "exception"}
  /\ status \in {"UNSET", "OK", "ERROR"}
  /\ spanEnds \in Nat
  /\ finishAttr \in Seq(Reasons)
  /\ metrics \in Nat

(* The span's life matches the call: it is ended exactly once, when the    *)
(* wrapper returns or raises, and then carries a decided status; before    *)
(* that it is open and UNSET.  This is what the "with" block and           *)
(* handle_exception in async_chat must give on each of its exits.         *)
SpanSettled ==
  /\ phase = "done" => spanEnds = 1 /\ status \in {"OK", "ERROR"}
  /\ phase # "done" => spanEnds = 0 /\ status = "UNSET"

(* An OK span carries the whole telemetry of the call: the metric set was  *)
(* recorded once (unless metrics are disabled) and the finish reason of   *)
(* the n-th choice, the one the loop of async_chat reached last.  Setting  *)
(* OK before a step of the try block that can still raise breaks this.     *)
OkMeansComplete ==
  status = "OK" =>
    /\ metrics = IF DisableMetrics THEN 0 ELSE 1
    /\ n > 0 => finishAttr = <<response.choices[n]>>

(* Spec section 4.5, "finish reason(s)": the finish-reason attribute of a  *)
(* traced call lists the finish reason of every requested choice.  The     *)
(* loop of async_chat sets the attribute to a one-element list on each     *)
(* iteration, so only the last choice's reason is kept.                    *)
FinishReasonsOfAllChoices ==
  status = "OK" => finishAttr = SubSeq(response.choices, 1, n)

=============================================================================
