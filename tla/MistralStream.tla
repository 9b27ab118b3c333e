---------------------------- MODULE MistralStream ----------------------------
(***************************************************************************)
(* The TracedAsyncStream of mistral/async_mistral.py (async_chat_stream),  *)
(* which parses each chunk inline instead of through process_chunk:        *)
(*   - it records the chunk's arrival, then appends the chunk's delta      *)
(*     content to _llmresponse with "+=", which raises TypeError when the  *)
(*     content is None; the exception leaves __anext__ (only               *)
(*     StopAsyncIteration is caught), the chunk never reaches the caller,  *)
(*     and the wrapped stream itself is not finished;                      *)
(*   - only a chunk carrying "usage" sets the response id, model, token    *)
(*     counts and finish reason, which otherwise keep their initial '';    *)
(*   - on StopAsyncIteration it formats the prompt, sets the attributes,   *)
(*     sets status OK, and only then records the metrics, whose first      *)
(*     histogram.record raises TypeError when the token counts are still   *)
(*     ''; a failure is given to handle_exception, and span.end() runs in  *)
(*     "finally".                                                          *)
(* Data abstraction: a chunk is a record of its delta content (a text      *)
(* fragment or None) and its usage (NoUsage, or a value standing for the   *)
(* usage, id, model and finish reason of that chunk); _llmresponse is the  *)
(* sequence of the fragments it concatenates.                              *)
(***************************************************************************)
EXTENDS Naturals, Sequences, SeqFilter

CONSTANTS
  Texts,          \* delta content fragments
  None,           \* a delta whose content is None
  Usages,         \* usage blocks (with the id/model/finish of their chunk)
  NoUsage,        \* a chunk without usage; also the initial '' fields
  DisableMetrics, \* the disable_metrics flag of the instrumentation
  MaxLen,         \* bound on the number of chunks of the wrapped stream
  MaxPulls,       \* bound on the number of __anext__ calls of the caller
  StopAsyncIteration, Fault, TypeError  \* what __anext__ can raise

ASSUME MistralAssumption ==
  /\ None \notin Texts
  /\ NoUsage \notin Usages
  /\ DisableMetrics \in BOOLEAN
  /\ MaxLen \in Nat
  /\ MaxPulls \in Nat \ {0}

Chunks == [content : Texts \cup {None}, usage : Usages \cup {NoUsage}]

Signals == {StopAsyncIteration, Fault, TypeError}

ASSUME SignalsAssumption ==
  /\ Chunks \cap Signals = {}
  /\ StopAsyncIteration # Fault /\ Fault # TypeError /\ TypeError # StopAsyncIteration

SeqsUpTo(S, n) == UNION {[1..m -> S] : m \in 0..n}

VARIABLES
  upstream,    \* the chunks the wrapped stream will yield
  promptOk,    \* the request's 'messages' can be formatted (lines 335-353)
  pos,         \* how many chunks the proxy has pulled from the wrapped stream
  wdone,       \* the wrapped async generator has finished
  ctx,         \* async context manager state: "none", "entered", "exited"
  arrivals,    \* Len(self._timestamps)
  llmresponse, \* self._llmresponse, as the sequence of appended fragments
  usage,       \* the last usage block seen, or NoUsage
  returned,    \* history: the result of every __anext__ call
  spanEnds,    \* number of self._span.end() calls
  status,      \* span status: "UNSET", "OK", "ERROR"
  emitted      \* history: every run of the finalization block

vars == <<upstream, promptOk, pos, wdone, ctx, arrivals, llmresponse, usage,
          returned, spanEnds, status, emitted>>

-----------------------------------------------------------------------------
(* wrapper(): awaits chat_stream, starts the span, builds the proxy with   *)
(* '' in every accumulated field and an empty timestamp list.              *)
Init ==
  /\ upstream \in SeqsUpTo(Chunks, MaxLen)
  /\ promptOk \in BOOLEAN
  /\ pos = 0
  /\ wdone = FALSE
  /\ ctx = "none"
  /\ arrivals = 0
  /\ llmresponse = <<>>
  /\ usage = NoUsage
  /\ returned = <<>>
  /\ spanEnds = 0
  /\ status = "UNSET"
  /\ emitted = <<>>

unchangedStream == UNCHANGED <<upstream, promptOk, pos, wdone, arrivals,
                               llmresponse, usage, returned, spanEnds, status, emitted>>

(* __aenter__ / __aexit__ only delegate to the wrapped stream.             *)
AEnter == ctx = "none" /\ ctx' = "entered" /\ unchangedStream

AExit == ctx = "entered" /\ ctx' = "exited" /\ unchangedStream

CanPull == Len(returned) < MaxPulls

(* Mutant of PullChunk: the fragment is appended before its content is   *)
(* checked, so a None content enters the accumulated response.             *)
PullChunkAppendNone ==
  LET chunk == upstream[pos + 1] IN
  /\ CanPull
  /\ ~wdone
  /\ ctx # "exited"
  /\ pos < Len(upstream)
  /\ pos' = pos + 1
  /\ arrivals' = arrivals + 1
  /\ IF chunk.content = None
       THEN /\ returned' = Append(returned, TypeError)
            /\ llmresponse' = Append(llmresponse, chunk.content)
            /\ UNCHANGED usage
       ELSE /\ llmresponse' = Append(llmresponse, chunk.content)
            /\ usage' = IF chunk.usage # NoUsage THEN chunk.usage ELSE usage
            /\ returned' = Append(returned, chunk)
  /\ UNCHANGED <<upstream, promptOk, wdone, ctx, spanEnds, status, emitted>>

(* Mutant of PullChunk: "=" instead of "+=" for _llmresponse.              *)
PullChunkOverwrite ==
  LET chunk == upstream[pos + 1] IN
  /\ CanPull
  /\ ~wdone
  /\ ctx # "exited"
  /\ pos < Len(upstream)
  /\ pos' = pos + 1
  /\ arrivals' = arrivals + 1
  /\ IF chunk.content = None
       THEN /\ returned' = Append(returned, TypeError)
            /\ UNCHANGED <<llmresponse, usage>>
       ELSE /\ llmresponse' = <<chunk.content>>
            /\ usage' = IF chunk.usage # NoUsage THEN chunk.usage ELSE usage
            /\ returned' = Append(returned, chunk)
  /\ UNCHANGED <<upstream, promptOk, wdone, ctx, spanEnds, status, emitted>>

(* Mutant of PullChunk: the "usage is not None" guard dropped, so a chunk  *)
(* without usage resets the token counts.                                  *)
PullChunkUsageUnguarded ==
  LET chunk == upstream[pos + 1] IN
  /\ CanPull
  /\ ~wdone
  /\ ctx # "exited"
  /\ pos < Len(upstream)
  /\ pos' = pos + 1
  /\ arrivals' = arrivals + 1
  /\ IF chunk.content = None
       THEN /\ returned' = Append(returned, TypeError)
            /\ UNCHANGED <<llmresponse, usage>>
       ELSE /\ llmresponse' = Append(llmresponse, chunk.content)
            /\ usage' = chunk.usage
            /\ returned' = Append(returned, chunk)
  /\ UNCHANGED <<upstream, promptOk, wdone, ctx, spanEnds, status, emitted>>

(* __anext__ receives a chunk: its timestamp is appended (TTFT taken on    *)
(* the first), then "+=" of its content either raises TypeError (content  *)
(* None) before the usage check, or appends the fragment, the usage       *)
(* fields are overwritten when the chunk carries usage, and the chunk is  *)
(* returned.                                                               *)
PullChunk ==
  LET chunk == upstream[pos + 1] IN
  /\ CanPull
  /\ ~wdone
  /\ ctx # "exited"
  /\ pos < Len(upstream)
  /\ pos' = pos + 1
  /\ arrivals' = arrivals + 1
  /\ IF chunk.content = None
       THEN /\ returned' = Append(returned, TypeError)
            /\ UNCHANGED <<llmresponse, usage>>
       ELSE /\ llmresponse' = Append(llmresponse, chunk.content)
            /\ usage' = IF chunk.usage # NoUsage THEN chunk.usage ELSE usage
            /\ returned' = Append(returned, chunk)
  /\ UNCHANGED <<upstream, promptOk, wdone, ctx, spanEnds, status, emitted>>

(* The pending pull fails (transport error, closed response, cancelled     *)
(* task); the exception propagates and the generator is finished.          *)
PullFault ==
  /\ CanPull
  /\ ~wdone
  /\ wdone' = TRUE
  /\ returned' = Append(returned, Fault)
  /\ UNCHANGED <<upstream, promptOk, pos, ctx, arrivals, llmresponse, usage,
                 spanEnds, status, emitted>>

(* Span.set_status: an ended span ignores it, and so does a span whose     *)
(* status is already OK.                                                   *)
SetStatus(s) ==
  IF spanEnds = 0 /\ status # "OK" THEN s ELSE status

(* The finalization block of lines 329-473.  The metrics are recorded     *)
(* (all of them) only if the prompt formats, metrics are enabled and the   *)
(* token counts are numbers.                                               *)
Finalize ==
  LET recorded == promptOk /\ ~DisableMetrics /\ usage # NoUsage IN
  /\ emitted' = Append(emitted, [text |-> llmresponse, usage |-> usage,
                                 arrivals |-> arrivals, attrs |-> promptOk,
                                 metrics |-> recorded])
  /\ status' = SetStatus(IF promptOk THEN "OK" ELSE "ERROR")
  /\ spanEnds' = spanEnds + 1

(* __anext__ gets StopAsyncIteration: at the end of the stream or on any   *)
(* later pull; it finalizes and re-raises.                                 *)
PullEnd ==
  /\ CanPull
  /\ \/ wdone
     \/ pos = Len(upstream) /\ ctx # "exited"
  /\ wdone' = TRUE
  /\ Finalize
  /\ returned' = Append(returned, StopAsyncIteration)
  /\ UNCHANGED <<upstream, promptOk, pos, ctx, arrivals, llmresponse, usage>>

Next ==
  \/ AEnter
  \/ AExit
  \/ PullChunk
  \/ PullFault
  \/ PullEnd

Spec == Init /\ [][Next]_vars

-----------------------------------------------------------------------------
Emission == [text : Seq(Texts), usage : Usages \cup {NoUsage},
             arrivals : Nat, attrs : BOOLEAN, metrics : BOOLEAN]

TypeOK ==
  /\ upstream \in Seq(Chunks)
  /\ promptOk \in BOOLEAN
  /\ pos \in 0..Len(upstream)
  /\ wdone \in BOOLEAN
  /\ ctx \in {"none", "entered", "exited"}
  /\ arrivals \in Nat
  /\ llmresponse \in Seq(Texts)
  /\ usage \in Usages \cup {NoUsage}
  /\ returned \in Seq(Chunks \cup Signals)
  /\ spanEnds \in Nat
  /\ status \in {"UNSET", "OK", "ERROR"}
  /\ emitted \in Seq(Emission)

(* The chunks the caller actually received, in order.                      *)
Delivered == Filter(returned, Chunks)

(* The text the caller can rebuild from what it received.                  *)
ContentOf(d) == [i \in 1..Len(d) |-> d[i].content]

(* The usage block of the last received chunk that carried one.            *)
UsageCarriers == {c \in Chunks : c.usage # NoUsage}

LastUsage(d) ==
  LET carriers == Filter(d, UsageCarriers) IN
  IF carriers = <<>> THEN NoUsage ELSE carriers[Len(carriers)].usage

(* Spec section 8 scenario: the completion recorded by every finalization  *)
(* is the concatenation of the contents the caller received, in order,     *)
(* even when a chunk was lost to a TypeError in between.                   *)
CompletionMatchesDelivered ==
  \A k \in 1..Len(emitted) : emitted[k].text = ContentOf(Delivered)

(* Spec section 4.4, last writer wins: the token counts (and the id, model *)
(* and finish reason read with them) of every finalization are those of    *)
(* the last received chunk that carried usage, not of an earlier one, and  *)
(* are not reset by a later chunk without usage.                           *)
UsageFromLastUsageChunk ==
  \A k \in 1..Len(emitted) : emitted[k].usage = LastUsage(Delivered)

(* Spec section 8: the caller receives every chunk of the wrapped stream,  *)
(* unmodified and in order (spec sections 4.1 and 7: a chunk the parser    *)
(* cannot use yields an empty delta and the stream continues).             *)
MistralPassThrough == Delivered = SubSeq(upstream, 1, pos)

(* Spec section 4.6: the span's status is set last, after the metric       *)
(* updates, so an OK span of a metrics-enabled run has had its metrics     *)
(* recorded.  The code sets OK before recording them.                      *)
OkSpanHasMetrics ==
  (spanEnds >= 1 /\ status = "OK" /\ ~DisableMetrics)
    => \E k \in 1..Len(emitted) : emitted[k].metrics

=============================================================================
