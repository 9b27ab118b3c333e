------------------------- MODULE ResponseAccumulator -------------------------
(***************************************************************************)
(* The response accumulator of the Anthropic stream proxy: the fields      *)
(* TracedAsyncStream.__init__ (anthropic/async_anthropic.py:48-56) gives   *)
(* process_chunk to fill, namely the running completion text, the finish   *)
(* reason, and ONE tool call: _tool_id, _tool_name and _tool_arguments.    *)
(* process_chunk lives in the providers' utils modules, which are not part *)
(* of src/; its updates follow spec section 4.4 (text appended, finish     *)
(* reason last writer wins) and section 4.2 applied to the one tool call   *)
(* the proxy can hold: a fragment's id and name are stored, its argument   *)
(* text appended to the one argument buffer.                               *)
(*                                                                         *)
(* A delta carries one field.  The fields of a multi-field delta are       *)
(* applied independently of one another, so such a delta is the same as   *)
(* its fields applied one after the other.  Argument text is a sequence of *)
(* opaque pieces: concatenating strings is concatenating sequences; the    *)
(* empty string "" of __init__ is Absent.                                  *)
(***************************************************************************)
EXTENDS Naturals, Sequences, SeqFilter

CONSTANTS
  Texts,       \* text fragments
  Reasons,     \* finish reasons
  Indices,     \* tool-call indices
  Ids,         \* tool-call ids
  Names,       \* function names
  Pieces,      \* argument fragments
  Absent,      \* model value: the field is not present
  MaxDeltas    \* bound on the number of deltas applied

ASSUME AccumulatorAssumption ==
  /\ MaxDeltas \in Nat
  /\ Absent \notin Ids \cup Names \cup Pieces

Fragment ==
  [index : Indices, id : Ids \cup {Absent}, name : Names \cup {Absent},
   args : Pieces \cup {Absent}]

(* The deltas of each kind.                                                *)
TextDeltas == [kind : {"text"}, text : Texts]
FinishDeltas == [kind : {"finish"}, reason : Reasons]
ToolDeltas == [kind : {"tool"}, frag : Fragment]

Delta == TextDeltas \cup FinishDeltas \cup ToolDeltas

VARIABLES
  text,      \* _llmresponse
  finish,    \* _finish_reason, Absent until a delta carries one
  toolId,    \* _tool_id
  toolName,  \* _tool_name
  toolArgs,  \* _tool_arguments
  applied    \* history: every delta applied, in order

vars == <<text, finish, toolId, toolName, toolArgs, applied>>

-----------------------------------------------------------------------------
Init ==
  /\ text = <<>>
  /\ finish = Absent
  /\ toolId = Absent
  /\ toolName = Absent
  /\ toolArgs = <<>>
  /\ applied = <<>>

(* Mutant of ApplyTool: the argument text is appended without checking    *)
(* that the fragment carries one ("+=" of None).                           *)
ApplyToolUnguardedArgs(f) ==
  /\ toolId' = IF f.id # Absent THEN f.id ELSE toolId
  /\ toolName' = IF f.name # Absent THEN f.name ELSE toolName
  /\ toolArgs' = Append(toolArgs, f.args)

(* A tool-call fragment on the proxy's one tool call: an id or a name it  *)
(* carries is stored, its argument text appended to _tool_arguments.      *)
ApplyTool(f) ==
  /\ toolId' = IF f.id # Absent THEN f.id ELSE toolId
  /\ toolName' = IF f.name # Absent THEN f.name ELSE toolName
  /\ toolArgs' = IF f.args # Absent THEN Append(toolArgs, f.args) ELSE toolArgs

(* Accumulator apply(delta): text is appended, the finish reason           *)
(* overwritten, a tool-call fragment applied to the tool-call fields.      *)
Apply(d) ==
  /\ Len(applied) < MaxDeltas
  /\ applied' = Append(applied, d)
  /\ CASE d.kind = "text" ->
            /\ text' = Append(text, d.text)
            /\ UNCHANGED <<finish, toolId, toolName, toolArgs>>
       [] d.kind = "finish" ->
            /\ finish' = d.reason
            /\ UNCHANGED <<text, toolId, toolName, toolArgs>>
       [] d.kind = "tool" ->
            /\ ApplyTool(d.frag)
            /\ UNCHANGED <<text, finish>>

(* The deltas a provider sends (spec section 3): id and name appear only   *)
(* on the fragment that opens the slot of an index, and only that first    *)
(* fragment of an index carries them.                                      *)
Opened(i) ==
  \E j \in 1..Len(applied) : applied[j].kind = "tool" /\ applied[j].frag.index = i

WellFormed(d) ==
  d.kind = "tool" =>
    IF Opened(d.frag.index) THEN d.frag.id = Absent /\ d.frag.name = Absent
                            ELSE d.frag.id # Absent /\ d.frag.name # Absent

Next == \E d \in Delta : WellFormed(d) /\ Apply(d)

Spec == Init /\ [][Next]_vars

(* The tool calls the fields describe: none while _tool_id is "", else the *)
(* one call.                                                               *)
Snapshot ==
  IF toolId = Absent THEN <<>>
  ELSE <<[id |-> toolId, name |-> toolName, arguments |-> toolArgs]>>

-----------------------------------------------------------------------------
(* The reference: what spec section 4.2 says the reassembly of a history   *)
(* of deltas is, defined without replaying it.  The tool-call fragments    *)
(* of the history, in order:                                               *)
ToolFrags(h) ==
  LET t == Filter(h, ToolDeltas) IN [j \in 1..Len(t) |-> t[j].frag]

(* Fragment j opens a tool call: it has an id and a name, and no earlier   *)
(* fragment of its index had both.                                         *)
Opens(fs, j) ==
  /\ fs[j].id # Absent /\ fs[j].name # Absent
  /\ \A k \in 1..(j - 1) :
       fs[k].index = fs[j].index => (fs[k].id = Absent \/ fs[k].name = Absent)

(* The arguments of the call opened at j: the argument fragments of its    *)
(* index from j on, concatenated in arrival order.                         *)
ArgsFrom(fs, j) ==
  LET mine == Filter(SubSeq(fs, j, Len(fs)),
                     {g \in Fragment : g.index = fs[j].index /\ g.args # Absent})
  IN  [k \in 1..Len(mine) |-> mine[k].args]

ReassembledCalls(h) ==
  LET fs == ToolFrags(h)
      opening == Filter([j \in 1..Len(fs) |-> j], {j \in 1..Len(fs) : Opens(fs, j)})
  IN  [k \in 1..Len(opening) |->
         [id |-> fs[opening[k]].id, name |-> fs[opening[k]].name,
          arguments |-> ArgsFrom(fs, opening[k])]]

-----------------------------------------------------------------------------
TypeOK ==
  /\ text \in Seq(Texts)
  /\ finish \in Reasons \cup {Absent}
  /\ toolId \in Ids \cup {Absent}
  /\ toolName \in Names \cup {Absent}
  /\ toolArgs \in Seq(Pieces)
  /\ applied \in Seq(Delta)

(* Spec sections 4.2 and 8: the reconstructed tool calls are one per       *)
(* tool-call index, in the order the indices were first seen, each with    *)
(* the id and name of its opening fragment and the argument fragments of   *)
(* its index only.  The proxy's one _tool_id/_tool_name/_tool_arguments    *)
(* cannot hold two calls:                                                  *)
(* with two calls it keeps the last id and name and the arguments of both  *)
(* joined.                                                                 *)
ToolCallsMatchReassembly == Snapshot = ReassembledCalls(applied)

=============================================================================
