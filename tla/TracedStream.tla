---------------------------- MODULE TracedStream ----------------------------
(***************************************************************************)
(* The telemetry proxy that openlit installs around a streaming chat       *)
(* response: TracedAsyncStream of anthropic/async_anthropic.py (and, with  *)
(* __next__/StopIteration in place of __anext__/StopAsyncIteration, the    *)
(* TracedSyncStream of vertexai/vertexai.py, whose code is line for line   *)
(* the same).                                                              *)
(*                                                                         *)
(* The proxy forwards every chunk of the wrapped provider stream to the    *)
(* caller after feeding it to process_chunk, and runs the finalizer        *)
(* (process_streaming_chat_response inside "with self._span") each time    *)
(* the wrapped stream raises StopAsyncIteration.  A transport error or a   *)
(* cancellation of the pending pull propagates unchanged.  __aenter__ and  *)
(* __aexit__ only delegate to the wrapped stream.                          *)
(*                                                                         *)
(* Data abstraction: a chunk is a model value.  process_chunk is a         *)
(* deterministic fold over the chunks it has seen (its own module,         *)
(* ResponseAccumulator, models the fold), so the accumulator is kept here  *)
(* as the sequence "seen" of processed chunks, and an emitted telemetry    *)
(* record is identified by the chunk sequence it was computed from.        *)
(***************************************************************************)
EXTENDS Naturals, Sequences

CONSTANTS
  Chunks,     \* the raw chunks a provider stream can yield
  MaxLen,     \* bound on the number of chunks of the wrapped stream
  MaxPulls    \* bound on the number of __anext__ calls of the caller

ASSUME ConstantsAssumption ==
  /\ MaxLen \in Nat
  /\ MaxPulls \in Nat \ {0}

(* The two signals __anext__ can raise to the caller.                      *)
StopAsyncIteration == "StopAsyncIteration"
Fault == "Fault"
Signals == {StopAsyncIteration, Fault}

ASSUME ChunksAreNotSignals == Chunks \cap Signals = {}

(* Finitely many sequences of length at most n over S.                     *)
SeqsUpTo(S, n) == UNION {[1..m -> S] : m \in 0..n}

(* What a finalization leaves behind: the chunks the record was computed   *)
(* from, and whether process_streaming_chat_response ran to its end.       *)
Emission == [chunks : Seq(Chunks), ok : BOOLEAN]

VARIABLES
  upstream,   \* the chunks the wrapped provider stream will yield
  pos,        \* how many of them the proxy has pulled
  wdone,      \* the wrapped async generator has finished (raised once)
  ctx,        \* async context manager state: "none", "entered", "exited"
  seen,       \* the chunks process_chunk has been applied to
  returned,   \* history: the result of every __anext__ call, in order
  spanEnds,   \* number of span.end() calls (via "with self._span")
  status,     \* span status: "UNSET", "OK", "ERROR"
  emitted     \* history: every run of the finalizer

vars == <<upstream, pos, wdone, ctx, seen, returned, spanEnds, status, emitted>>

-----------------------------------------------------------------------------
(* wrapper(): the streaming branch awaits the provider call, starts the    *)
(* span with tracer.start_span and returns a fresh TracedAsyncStream.       *)
Init ==
  /\ upstream \in SeqsUpTo(Chunks, MaxLen)
  /\ pos = 0
  /\ wdone = FALSE
  /\ ctx = "none"
  /\ seen = <<>>
  /\ returned = <<>>
  /\ spanEnds = 0
  /\ status = "UNSET"
  /\ emitted = <<>>

(* __aenter__: awaits the wrapped stream's __aenter__, returns the proxy.  *)
AEnter ==
  /\ ctx = "none"
  /\ ctx' = "entered"
  /\ UNCHANGED <<upstream, pos, wdone, seen, returned, spanEnds, status, emitted>>

(* __aexit__: delegates to the wrapped stream, which closes the response.  *)
(* It does not finalize the span.                                          *)
AExit ==
  /\ ctx = "entered"
  /\ ctx' = "exited"
  /\ UNCHANGED <<upstream, pos, wdone, seen, returned, spanEnds, status, emitted>>

(* Every __anext__ call counts against the bound on the caller's pulls.    *)
CanPull == Len(returned) < MaxPulls

(* Mutant of PullChunk: process_chunk placed after "return chunk", so the  *)
(* accumulator never sees the chunk.                                       *)
PullChunkUnprocessed ==
  /\ CanPull
  /\ ~wdone
  /\ ctx # "exited"
  /\ pos < Len(upstream)
  /\ pos' = pos + 1
  /\ returned' = Append(returned, upstream[pos + 1])
  /\ UNCHANGED <<upstream, wdone, ctx, seen, spanEnds, status, emitted>>

(* __anext__, the wrapped stream yields its next chunk: process_chunk      *)
(* records it in the accumulator, and the chunk is returned unchanged.     *)
PullChunk ==
  /\ CanPull
  /\ ~wdone
  /\ ctx # "exited"
  /\ pos < Len(upstream)
  /\ pos' = pos + 1
  /\ seen' = Append(seen, upstream[pos + 1])
  /\ returned' = Append(returned, upstream[pos + 1])
  /\ UNCHANGED <<upstream, wdone, ctx, spanEnds, status, emitted>>

(* Mutant of PullFault: "except Exception" in __anext__ turns the fault    *)
(* into StopAsyncIteration, so a truncated stream looks complete.          *)
PullFaultSwallowed ==
  /\ CanPull
  /\ ~wdone
  /\ wdone' = TRUE
  /\ returned' = Append(returned, StopAsyncIteration)
  /\ UNCHANGED <<upstream, pos, ctx, seen, spanEnds, status, emitted>>

(* __anext__, the pending pull fails (transport error, a closed response   *)
(* after __aexit__, or cancellation of the awaiting task): the exception   *)
(* is not StopAsyncIteration, so it leaves __anext__ untouched, and the    *)
(* finished generator raises StopAsyncIteration on every later pull.       *)
PullFault ==
  /\ CanPull
  /\ ~wdone
  /\ wdone' = TRUE
  /\ returned' = Append(returned, Fault)
  /\ UNCHANGED <<upstream, pos, ctx, seen, spanEnds, status, emitted>>

(* Mutant of Finalize: span.end() called at the end of the processing     *)
(* instead of through "with", so a raising finalizer leaves it open.       *)
FinalizeEndOnSuccess(ok) ==
  /\ emitted' = Append(emitted, [chunks |-> seen, ok |-> ok])
  /\ status' = IF spanEnds = 0 THEN (IF ok THEN "OK" ELSE "ERROR") ELSE status
  /\ spanEnds' = IF ok THEN spanEnds + 1 ELSE spanEnds

(* process_streaming_chat_response inside "with self._span": it either     *)
(* completes (status OK) or raises, in which case Span.__exit__ records    *)
(* the exception and sets ERROR; either way the span is ended.  An ended   *)
(* span ignores later status changes; the metrics are not tied to it.      *)
Finalize(ok) ==
  /\ emitted' = Append(emitted, [chunks |-> seen, ok |-> ok])
  /\ status' = IF spanEnds = 0 THEN (IF ok THEN "OK" ELSE "ERROR") ELSE status
  /\ spanEnds' = spanEnds + 1

(* Mutant of PullEnd: the except clause re-raises without running the     *)
(* finalizer.                                                              *)
PullEndNoFinalize ==
  /\ CanPull
  /\ \/ wdone
     \/ pos = Len(upstream) /\ ctx # "exited"
  /\ wdone' = TRUE
  /\ returned' = Append(returned, StopAsyncIteration)
  /\ UNCHANGED <<upstream, pos, ctx, seen, spanEnds, status, emitted>>

(* __anext__, the wrapped stream raises StopAsyncIteration: at its end,   *)
(* or on any pull after it finished.  The finalizer runs, its exception   *)
(* if any is handed to handle_exception, and StopAsyncIteration is        *)
(* re-raised to the caller.                                                *)
PullEnd ==
  /\ CanPull
  /\ \/ wdone
     \/ pos = Len(upstream) /\ ctx # "exited"
  /\ wdone' = TRUE
  /\ \E ok \in BOOLEAN : Finalize(ok)
  /\ returned' = Append(returned, StopAsyncIteration)
  /\ UNCHANGED <<upstream, pos, ctx, seen>>

Next ==
  \/ AEnter
  \/ AExit
  \/ PullChunk
  \/ PullFault
  \/ PullEnd

Spec == Init /\ [][Next]_vars

-----------------------------------------------------------------------------
TypeOK ==
  /\ upstream \in Seq(Chunks)
  /\ pos \in 0..Len(upstream)
  /\ wdone \in BOOLEAN
  /\ ctx \in {"none", "entered", "exited"}
  /\ seen \in Seq(Chunks)
  /\ returned \in Seq(Chunks \cup Signals)
  /\ spanEnds \in Nat
  /\ status \in {"UNSET", "OK", "ERROR"}
  /\ emitted \in Seq(Emission)

(* The chunks the caller has been given so far: the first pos chunks of    *)
(* the wrapped stream.                                                     *)
Delivered == SubSeq(upstream, 1, pos)

(* Pass-through (spec section 8): the caller receives the wrapped stream's *)
(* chunks unmodified and in order, then the termination signal the wrapped *)
(* stream raised.  A normal end is reported only after every chunk was     *)
(* delivered, unless a fault came first; after the first signal every pull *)
(* answers StopAsyncIteration.  This is what __anext__'s except clause     *)
(* must preserve by re-raising rather than translating exceptions.         *)
PassThrough ==
  /\ Len(returned) >= pos
  /\ SubSeq(returned, 1, pos) = Delivered
  /\ wdone <=> Len(returned) > pos
  /\ \A i \in pos + 1..Len(returned) :
       /\ returned[i] \in Signals
       /\ i > pos + 1 => returned[i] = StopAsyncIteration
  /\ (Len(returned) > pos /\ returned[pos + 1] = StopAsyncIteration)
        => pos = Len(upstream)

(* The telemetry describes exactly what the caller received: each record   *)
(* the finalizer emitted was computed from the delivered chunks, none      *)
(* dropped, repeated or reordered by process_chunk.                        *)
EmissionMatchesDelivered ==
  \A k \in 1..Len(emitted) : emitted[k].chunks = Delivered

(* Whenever the caller has seen StopAsyncIteration the span has been       *)
(* ended, even when process_streaming_chat_response raised: the "with      *)
(* self._span" block ends it on both paths.                                *)
StopEndsSpan ==
  (\E i \in 1..Len(returned) : returned[i] = StopAsyncIteration) => spanEnds >= 1

(* Spec sections 3 and 8: the finalizer runs at most once per stream, and  *)
(* a repeated close or end has no further observable effect.  __anext__   *)
(* has no latch: a caller that pulls again after StopAsyncIteration makes  *)
(* the finished generator raise it again, and the finalizer runs again.    *)
FinalizeAtMostOnce == Len(emitted) <= 1

(* Spec sections 4.5 and 8: a stream that was consumed is finalized        *)
(* whichever way it terminated: normal end, a fault of the wrapped stream  *)
(* (best-effort finalization before propagating), or the caller leaving    *)
(* the "async with" scope.  __anext__ finalizes only on StopAsyncIteration *)
(* and __aexit__ only delegates.                                           *)
TerminationFinalizes ==
  (pos > 0 /\ (wdone \/ ctx = "exited")) => spanEnds >= 1

=============================================================================
