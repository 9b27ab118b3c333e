# TLA+ models of openlit's LLM-call instrumentation

This directory holds TLA+ models of the Python SDK's instrumentation layer in
`src/sdk/python/src/openlit/instrumentation/`. The models cover the streaming
telemetry proxies, the non-streaming chat wrapper and the instrumentors that
install them. The directory also holds TLC configurations that check the models
on small instances, and TLAPS proofs of the main invariants, and of one
refinement, for all instances. `spec.md` describes the intended design: a Stream Proxy with an
accumulator, a timing tracker, a one-shot finalization guard and a finalizer.
Where the code and that design disagree, a run shows the disagreement. The
disagreements are listed under "findings" in `PROJECT.json`.

## 1. The system

| Part | Code | State it keeps | Operations |
|---|---|---|---|
| Stream proxy, process_chunk based | `anthropic/async_anthropic.py` `TracedAsyncStream` (35-101); `vertexai/vertexai.py` `TracedSyncStream` (37-104), which is the same code, synchronous | the wrapped stream, the span, the accumulator fields (text, tokens, timestamps, ...) | `__init__`, `__aenter__`/`__enter__`, `__aexit__`/`__exit__`, `__anext__`/`__next__` (chunk, fault, end), `__getattr__` |
| Stream proxy, Mistral | `mistral/async_mistral.py` `async_chat_stream.TracedAsyncStream` (262-474) | the same, with delta parsing written inline, and tokens starting as `''` | the same |
| Finalizer | `process_streaming_chat_response` (in `utils`, not under `src/`); Mistral's inline block (329-473) | none; writes the span and the metrics | runs once per `StopAsyncIteration` |
| Accumulator | the fields of `TracedAsyncStream.__init__` (async_anthropic.py:47-56), updated by `process_chunk` (in `utils`, not under `src/`) | text, finish reason, one `_tool_id`, `_tool_name` and `_tool_arguments`, usage | applies one chunk |
| Timing tracker | `calculate_ttft`, `calculate_tbt` (`__helpers`, not under `src/`) | timestamps | on each chunk and at finalization |
| Non-streaming wrappers | Mistral `async_chat` (41-215), `async_embeddings` (487-611); the non-streaming branches of the Anthropic (126-153) and VertexAI (131-157) `wrapper` | one span, lasting as long as the `with` block | call, convert, record |
| Streaming entry | the `stream=True` branch of each `wrapper` | none | awaits the call, then `start_span` and construction of the proxy |
| Instrumentors | `<provider>/__init__.py` for openai, cohere, reka, google_ai_studio and azure_ai_inference | BaseInstrumentor's flag; the wrapt wrappers on the client methods | `instrument`, `uninstrument`, a call of a wrapped method |

How the parts interact: an instrumentor installs a wrapper on each client
method. A call of the method goes through the wrapper. If the call is not
streaming, the wrapper traces it inside one `with` span. If it is streaming,
the wrapper awaits the provider and then starts a span. It returns a proxy that
owns that span. The caller pulls the proxy. Each chunk goes to the accumulator
before the caller gets it. When the provider stream raises
`StopAsyncIteration`, the finalizer writes the attributes and the metrics and
ends the span.

What makes this code hard:
- The caller drives the proxy, and nothing stops it pulling again after the end.
- The finalizer runs on every `StopAsyncIteration`; there is no latch.
- A fault of the wrapped stream, a cancellation, or leaving `async with` early
  bypasses the finalizer. The span then stays open.
- Mistral parses chunks inline. A `None` content raises `TypeError` in the
  middle of `__anext__`, after the timestamp was recorded and before the chunk
  is returned.
- The span status is set to OK before the metrics are recorded. OTel ignores an
  ERROR set after OK.
- `_uninstrument` is `pass`.

## 2. Modules

| Module | Models | State (variables) ↔ code | Actions ↔ code |
|---|---|---|---|
| `TracedStream` | the Anthropic/VertexAI proxy | `upstream`/`pos`/`wdone`: the wrapped stream; `ctx`: the context manager; `seen`: what `process_chunk` was applied to; `returned`: every `__anext__` result, in order; `spanEnds`, `status`: the span; `emitted`: every finalizer run | `AEnter`, `AExit`, `PullChunk` (try body), `PullFault` (an exception that is not `StopAsyncIteration`), `PullEnd` with `Finalize(ok)` (the `except StopAsyncIteration` clause; `ok` says whether `process_streaming_chat_response` raised) |
| `PassThroughStream` | what a proxy promises: the wrapped stream's items, then its termination signal | `upstream`, `out` | `Forward`, `Fail`, `Finish` |
| `MistralStream` | the Mistral proxy | as above, plus `llmresponse` (the list of content fragments), `usage` (the last usage seen), `arrivals` (timestamps), `promptOk` (prompt formatting) | `PullChunk` (lines 305-326, including the `TypeError` path), `PullFault`, `PullEnd`/`Finalize` (327-474, including the OK-before-metrics order) |
| `ChatCall` | Mistral's `async_chat` | `phase`, `n`, `response` (usage present?, finish reasons of the choices), `result`, `status`, `spanEnds`, `finishAttr`, `metrics` | `CallRaises`, `CallReturns`, `ConvertRaises` (`response_as_dict` outside the try), `Record` (the try block: AttributeError, IndexError in the choice loop, OK, metrics) |
| `Instrumentor` | the five instrumentors | `instrumented` (BaseInstrumentor's flag), `layers` (wrappers per method), `lastCall` | `Instrument(p)`, `Uninstrument(p)`, `CallMethod(t)` |
| `VertexCall` | VertexAI's `wrapper` (106-157) composed with the `TracedSyncStream` it returns | all of `TracedStream`, plus `streaming` (`kwargs["stream"]`), `phase`, `result` (what the caller got), `spanStarted`, `consumer` (a `for` loop, a caller calling `next()` by hand, or a loop that has ended) | `StreamCallRaises` and `StreamCallReturns` (117-129: the call, then `start_span`), `ProxyStep` (one `TracedStream` step driven by the caller; `LoopStep` when a `for` loop drives it), `SyncCallRaises` and `SyncCallReturns` (the `with start_as_current_span` block, 131-157) |
| `ResponseAccumulator` | the Anthropic proxy's accumulator fields (async_anthropic.py:47-56), updated as spec §4.2/§4.4 say `process_chunk` does (that code is in `utils.py`, not under `src/`) | `text` (`_llmresponse`), `finish` (`_finish_reason`), `toolId`, `toolName`, `toolArgs` (the one tool call the proxy can hold), `applied` (the history of deltas) | `Apply(d)` for a text, finish or tool-call delta; `ApplyTool(f)`: store id and name, append the argument text. `WellFormed(d)` restricts the deltas to those a provider sends: id and name only on the first fragment of an index. `ReassembledCalls` is spec §4.2's per-index reassembly of the history, the reference the proxy's fields are compared with |
| `SeqFilter` | `Filter(s, S)`: the subsequence of the elements of `s` in `S`, what `SelectSeq(s, LAMBDA x : x \in S)` computes, defined without recursion through `Count` (how many of the first n elements are in `S`) and `KthOf`. The stream and accumulator modules use it for every "the chunks/deltas of this kind, in order" | | |
| `SeqFilterTheorems` | lemmas about `Filter`: its type, the empty sequence, one more element (`FilterAppend`), and congruence in `S` | | |
| `TracedStreamProofs` | theorems about `TracedStream`, and its refinement of `PassThroughStream` | | |
| `ChatCallProofs` | theorems about `ChatCall` | | |
| `VertexCallProofs` | theorems about `VertexCall` | | |
| `MistralStreamProofs` | theorems about `MistralStream` | | |
| `ResponseAccumulatorProofs` | theorems about `ResponseAccumulator` | | |

Data is abstracted. A chunk is a model value, or a record of content and usage
for Mistral. The accumulator is the sequence of chunks it processed: the fold
`process_chunk` computes is a function of that sequence. An emission is the
chunk sequence it was computed from, together with the finalizer's outcome.
Attribute names, costs, timings and message formatting are left out. The OTel
span is modelled as the external collaborator its SDK implements: OK is final,
an ended span ignores changes, and `with span` records an exception, sets ERROR
and ends the span.

## 3. Runs

| Run | Expect | Checks | Shows |
|---|---|---|---|
| `traced_stream_double_finalize` | violation | `FinalizeAtMostOnce` | a pull after the end runs the finalizer again (double metrics) |
| `traced_stream_leak` | violation | `TerminationFinalizes` | a fault or an early `__aexit__` leaves a consumed stream's span open |
| `mistral_stream` | pass | `TypeOK`, `CompletionMatchesDelivered`, `UsageFromLastUsageChunk` | Mistral's completion text and usage are those of the chunks the caller got, with the last usage winning, even when a chunk in between was lost to a `TypeError` |
| `mistral_stream_drop` | violation | `MistralPassThrough` | a `None` delta content loses the chunk to a `TypeError` |
| `mistral_stream_status` | violation | `OkSpanHasMetrics` | without a usage chunk the span ends OK and no metrics are recorded |
| `chat_call` | pass | `TypeOK`, `SpanSettled`, `OkMeansComplete` | every exit of `async_chat` ends the span once with a decided status; an OK span has its metrics and the last choice's finish reason |
| `chat_call_finish_reasons` | violation | `FinishReasonsOfAllChoices` | with n ≥ 2 only the last finish reason is kept |
| `instrumentor_stacking` | violation | `OneSpanPerCall` | uninstrument leaves the wrappers; instrument again doubles the spans |
| `vertex_call` | pass | `VertexTypeOK`, `PassThrough`, `EmissionMatchesDelivered`, `StopEndsSpan`, `IterationEndsSpan` | the proxy checked inside its caller: the caller sees the wrapped stream unchanged, then its signal; telemetry describes exactly the delivered chunks; `StopIteration` always ends the span; a `for` loop that iterates to the end always sees the span ended (liveness). That the composition refines `PassThroughStream` is proved (`VertexRefinement`) rather than run, since `PassThrough` already states it for the model checker |
| `vertex_call_failed` | violation | `FailedCallTraced` | a streaming request that raises leaves no span at all, because `wrapped(...)` runs before `start_span` |
| `response_accumulator` | pass | `TypeOK` | the proxy's fields keep their types under any interleaving of text, finish and tool-call deltas, an opening fragment without argument text included |
| `response_accumulator_tool_calls` | violation | `ToolCallsMatchReassembly` | with tool calls at two indices, the proxy's one `_tool_id`/`_tool_name`/`_tool_arguments` records a single call with the second call's id and name and both calls' arguments; spec §4.2 keeps one call per index |

Bounds:
- Streams have at most 3 chunks, drawn from 2 values, and the caller pulls at
  most 5 times. That allows a pull after the end, a fault after some chunks, and
  an exit before the end, each after one or two delivered chunks.
- For Mistral a chunk's content is a text or `None`, and its usage is one of two
  values or none. Two usage values are needed for last-writer-wins to show.
- `ChatCall` has up to 2 choices and n ≤ 2. That covers a loop that completes,
  a loop past the last choice, and n = 0.
- `Instrumentor` has two providers and three `instrument()` calls, enough for
  instrument, uninstrument, instrument.
- `VertexCall` uses the `TracedStream` bounds, with both values of `stream`.
- `ResponseAccumulator` has two indices, one id, two names and two argument
  pieces, and runs up to four deltas. `MCResponseAccumulator` declares the
  permutations of reasons, indices, names and pieces a symmetry: the
  accumulator and the reference only compare these values for equality, so
  permuting them maps behaviours to behaviours. Four deltas reach two calls
  interleaved with text and finish deltas, and an opening fragment with and
  without argument text. The reference `ReassembledCalls` defines the calls by
  the position of each call's opening fragment in the history, without
  recursion.

Every configuration sets `CHECK_DEADLOCK FALSE` except `Instrumentor`'s and
`ResponseAccumulator`'s, which only run into a violation or their bound: a
stream or a call really stops once the caller stops pulling.

Fairness. The code has no scheduler of its own: the caller drives every step.
One liveness property is therefore stated, and only for the caller the code is
written for. `VertexCall`'s `CallSpec` assumes `WF_allVars(LoopStep)`: a
caller in a `for chunk in stream` loop calls `__next__` again as long as it
iterates. `LoopStep` stops being enabled once the loop has seen an exception
(`consumer = "stopped"`), or when the pull bound is reached. A caller calling
`next()` by hand gets no fairness: it may stop at any point, and it may pull
again after the end. Under that
assumption `IterationEndsSpan` (a `~>` property) holds: the finalizer in the
`except StopIteration` clause is eventually reached, unless the wrapped stream
faulted or the caller left a `with` block. The modules that model a bare proxy
assume no fairness.

Each property of a passing run has a mutant in `PROJECT.json`. A mutant is a
plausible bug in the mapped code, and TLC finds the property violated by it.

## 4. Proofs

`TracedStreamProofs` proves for all `Chunks`, `MaxLen` and `MaxPulls` that
satisfy `ConstantsAssumption` and `ChunksAreNotSignals`:
- `TypeCorrect`: `Spec => []TypeOK`.
- `StreamSafety`: `Spec => [](PassThrough /\ EmissionMatchesDelivered /\ StopEndsSpan)`.

The invariant is not inductive as it stands. `IInv` strengthens it with two
facts:
- `seen = Delivered`: the accumulator holds exactly the pulled chunks.
- `Len(emitted) > 0 => wdone`: no finalizer runs while the stream is live.

Without them, a `PullEnd` step cannot be shown to emit the delivered sequence.
TLC checked `IInv` as an invariant before the proof was written. The proof has
`InvInit` (`Init => IInv`) and `InvStep` (`IInv /\ [Next]_vars => IInv'`). The
step proof has one case per action. A lemma `Streaming` describes the state
while the wrapped stream is live. `SeqsUpToInSeq` types the initial stream. The
temporal step is closed with `PTL`.

`ChatCallProofs` proves `TypeCorrect` (`Spec => []TypeOK`) and `CallSafety`
(`Spec => [](SpanSettled /\ OkMeansComplete)`) for all `Reasons`, `MaxChoices`
and `MaxN` satisfying `ChatCallAssumption` and `NoResponseAssumption`. Here even
`TypeOK` is not inductive: `Record` reads the response, which has its type only
once the provider has answered. `IInv` therefore adds three facts:
- `phase = "returned" => response \in Responses`;
- `status = "OK" => response \in Responses`;
- no metric is recorded before the wrapper returns.

The step for `Record` shows that when the try block completes, `Iterations(r) = n`.
Then the last attribute the loop set is that of choice n.

`TracedStreamProofs` also proves two corollaries of `StreamSafety`:
`TelemetryMatchesDelivered` and `StopAlwaysEndsSpan`. It also proves
`Refinement`, `Spec => PT!Spec`, where `PT` is `PassThroughStream` with
`out <- returned`. The proof follows from `IInv`:
- `RefInit`: the initial states map to initial states.
- `RefStep`: `PullChunk` is `Forward`, `PullFault` is `Fail`, `PullEnd` is
  `Finish`, and the context-manager steps are stutters.
- The lemma `LiveNotTerminated` holds while the wrapped stream is live: no
  signal was returned, and `Len(returned) = pos`.

`VertexCallProofs` proves, for VertexAI's wrapper composed with its proxy, from
an `IInv` that carries `TracedStreamProofs`' invariant and adds that the proxy
is driven only on the streaming branch, after `start_span`:
- `VertexTypeCorrect`: `CallSpec => []VertexTypeOK`.
- `VertexStreamSafety`: `PassThrough`, `EmissionMatchesDelivered` and
  `StopEndsSpan` hold inside the wrapper. `TracedStreamProofs`' `IInv` is
  carried through `ProxyStep`; every wrapper step leaves the proxy's
  variables unchanged.
- `VertexRefinement`: `CallSpec => AbstractSpec`. Proxy steps map as in
  `Refinement`; the wrapper's own steps are stutters of `returned`.

Sequences filtered by kind. Every property of the Mistral model, and the
accumulator's reference reassembly, speaks of "the chunks (or deltas) of a
kind, in order". `SelectSeq` is
recursive and the provers cannot reason about it, so these modules use
`SeqFilter`'s `Filter`, defined by counting. `SeqFilterTheorems` proves what
the invariants need, chiefly `FilterAppend`: filtering `Append(s, x)` appends
`x` exactly when `x` is in the set. With it, each history-based definition is
shown to follow one more step of the history of the Mistral model
(`DeliveredAppend` and its kin).

`MistralStreamProofs` proves `TypeCorrect` and `MistralSafety`
(`CompletionMatchesDelivered /\ UsageFromLastUsageChunk`), with a corollary
for each. Its `IInv` says that the
running values equal what the delivered chunks define: `llmresponse =
ContentOf(Delivered)`, `usage = LastUsage(Delivered)`, `arrivals = pos`.
It also says that no finalizer runs while the stream is live. Each emission
then copies the running values. The `TypeError` path is the case where a chunk
is pulled but not delivered: `arrivals` grows and the others do not.

`ResponseAccumulatorProofs` proves `TypeCorrect`: no delta leaves a field of
the wrong type; in particular a fragment without argument text never appends
`None` to `_tool_arguments`. `TypeOK` is inductive as it stands.

Model-checked only, not proved:
- liveness (`IterationEndsSpan`): TLAPS here has no support for `ENABLED` and
  fairness;
- the properties of the violation runs, which TLC shows false of the code.

## 5. Not modelled

- The timing formulas and the finalizer's attribute map live in
  `utils`/`__helpers`, which are not under `src/`. Only the count of timestamps
  is kept. The accumulator is modelled from the spec in `ResponseAccumulator`;
  the stream modules keep its input, the processed chunks.
- `extract_vertexai_details` (vertexai.py:112) raising before either branch is
  not modelled: it is outside every span and leaves no state behind.
- The async `__getattr__` (Mistral 301, Anthropic 77) changes no state.
- `async_embeddings` and the non-streaming Anthropic branch are not modelled.
  Their shape is that of `async_chat` and of VertexAI's non-streaming branch
  (modelled in `VertexCall`), and their processing is in code not under
  `src/`.
- The instrumentors' dependency checks and the factory arguments are not
  modelled.

## 6. Plan for further work

1. Feed `TracedStream`'s `seen` into `ResponseAccumulator` (a composition in
   which each chunk is a delta).
2. `TimingTracker` with an abstract clock: TTFT on the first chunk and TBT from
   two timestamps on.
