---------------------------- MODULE Instrumentor ----------------------------
(***************************************************************************)
(* The provider instrumentors: OpenAIInstrumentor, CohereInstrumentor,     *)
(* RekaInstrumentor, GoogleAIStudioInstrumentor and                        *)
(* AzureAIInferenceInstrumentor in instrumentation/<provider>/__init__.py. *)
(* Each _instrument wraps a fixed list of client methods with              *)
(* wrap_function_wrapper (one telemetry layer per call), and each          *)
(* _uninstrument is "pass".  instrument() and uninstrument() are those of *)
(* opentelemetry's BaseInstrumentor: instrument() runs _instrument only    *)
(* when the instrumentor is not already instrumented and then sets its    *)
(* flag; uninstrument() runs _uninstrument only when it is, and clears    *)
(* the flag.  A call of a wrapped method runs every wrapper layer, and    *)
(* each layer opens its own span.                                          *)
(*                                                                         *)
(* Data abstraction: a wrapped method is named by its "Class.method"       *)
(* string; the factory arguments (tracer, metrics, pricing, flags) are    *)
(* left out.                                                               *)
(***************************************************************************)
EXTENDS Integers

CONSTANTS
  Providers,         \* the instrumentors taken into the model, a subset of
                     \* DOMAIN Registrations
  MaxInstrumentCalls \* bound on the number of instrument() calls

(* The methods each _instrument wraps, in the order of its calls.          *)
OpenAIMethods ==
  {"Completions.create", "AsyncCompletions.create", "Completions.parse",
   "AsyncCompletions.parse", "Responses.create", "AsyncResponses.create",
   "Embeddings.create", "AsyncEmbeddings.create", "Images.generate",
   "AsyncImages.generate", "Images.create_variation",
   "AsyncImages.create_variation", "Speech.create", "AsyncSpeech.create"}

CohereMethods ==
  {"ClientV2.chat", "ClientV2.chat_stream", "ClientV2.embed",
   "AsyncClientV2.chat", "AsyncClientV2.chat_stream", "AsyncClientV2.embed"}

RekaMethods == {"ChatClient.create", "AsyncChatClient.create"}

GoogleAIStudioMethods ==
  {"Models.generate_content", "Models.generate_content_stream",
   "AsyncModels.generate_content", "AsyncModels.generate_content_stream"}

(* The sync and the aio client share class names; the module tells them    *)
(* apart.                                                                  *)
AzureAIInferenceMethods ==
  {"ChatCompletionsClient.complete", "aio.ChatCompletionsClient.complete",
   "EmbeddingsClient.embed", "aio.EmbeddingsClient.embed"}

Registrations ==
  [openai |-> OpenAIMethods, cohere |-> CohereMethods, reka |-> RekaMethods,
   google_ai_studio |-> GoogleAIStudioMethods,
   azure_ai_inference |-> AzureAIInferenceMethods]

(* The (provider, method) pairs the model tracks.                          *)
Targets == UNION {{<<p, m>> : m \in Registrations[p]} : p \in Providers}

(* What the last call of a wrapped method did, or NoCall.                  *)
NoCall == [spans |-> 0, instrumented |-> FALSE, provider |-> "none"]

VARIABLES
  instrumented,   \* BaseInstrumentor's flag, per provider
  layers,         \* number of telemetry wrappers around each method
  calls,          \* number of instrument() calls so far
  lastCall        \* spans opened by the last call, and the flag then

vars == <<instrumented, layers, calls, lastCall>>

-----------------------------------------------------------------------------
Init ==
  /\ instrumented = [p \in Providers |-> FALSE]
  /\ layers = [t \in Targets |-> 0]
  /\ calls = 0
  /\ lastCall = NoCall

(* instrument(): a no-op (with a warning) while instrumented; otherwise    *)
(* _instrument adds one wrap_function_wrapper layer to each of its        *)
(* methods and the flag is set.                                            *)
Instrument(p) ==
  /\ calls < MaxInstrumentCalls
  /\ calls' = calls + 1
  /\ IF instrumented[p]
       THEN UNCHANGED <<instrumented, layers>>
       ELSE /\ layers' = [t \in Targets |->
                            IF t[1] = p THEN layers[t] + 1 ELSE layers[t]]
            /\ instrumented' = [instrumented EXCEPT ![p] = TRUE]
  /\ UNCHANGED lastCall

(* uninstrument(): runs _uninstrument, which is "pass", and clears the     *)
(* flag; a no-op while not instrumented.                                   *)
Uninstrument(p) ==
  /\ instrumented' = [instrumented EXCEPT ![p] = FALSE]
  /\ UNCHANGED <<layers, calls, lastCall>>

(* The application calls a wrapped method: every layer opens a span.       *)
CallMethod(t) ==
  /\ lastCall' = [spans |-> layers[t], instrumented |-> instrumented[t[1]],
                  provider |-> t[1]]
  /\ UNCHANGED <<instrumented, layers, calls>>

Next ==
  \/ \E p \in Providers : Instrument(p) \/ Uninstrument(p)
  \/ \E t \in Targets : CallMethod(t)

Spec == Init /\ [][Next]_vars

-----------------------------------------------------------------------------
(* The contract of BaseInstrumentor: a call of an instrumented method      *)
(* yields exactly one span, and after uninstrument() none.  Because        *)
(* _uninstrument is "pass", the wrappers stay after uninstrument(), and a  *)
(* later instrument() stacks a second layer: two spans per call.           *)
OneSpanPerCall ==
  lastCall.spans = IF lastCall.instrumented THEN 1 ELSE 0

=============================================================================
