---------------------------- MODULE GeminiChunks ----------------------------
(***************************************************************************)
(* Answers turned into Gemini's chunks (internal/translator/*/gemini).  A  *)
(* chunk has parts, each a thought, a text or a whole call, and may have a *)
(* finish reason ("" for none).                                            *)
(***************************************************************************)
EXTENDS Answers

Parts(parts, finish) == [parts |-> parts, finish |-> finish]
SendParts(p, parts, finish) == [p EXCEPT !.out = Append(@, Parts(parts, finish))]
----------------------------------------------------------------------------
(* From Claude: a call is gathered until its block ends.  Whatever the     *)
(* reason of the message's end, it is sent as "STOP".                      *)

ClaudeGeminiParams == [call |-> <<>>, out |-> <<>>]   \* ToolUseNames, ToolUseArgs

ClaudeDeltaToGemini(p, e) ==
  IF e.kind = "call" THEN [p EXCEPT !.call = @ \o e.pieces]
                     ELSE SendParts(p, <<Item(e.kind, e.pieces)>>, "")

ClaudeBlockEndToGemini(p) ==
  IF p.call = <<>> THEN p
  ELSE SendParts([p EXCEPT !.call = <<>>], <<Item("call", p.call)>>, "end")

ClaudeToGemini(p, e) ==
  CASE e.event = "open" /\ e.kind = "call" -> [p EXCEPT !.call = e.pieces]
    [] e.event = "delta" -> ClaudeDeltaToGemini(p, e)
    [] e.event = "close" -> ClaudeBlockEndToGemini(p)
    [] e.event = "completed" -> SendParts(p, <<>>, "end")
    [] OTHER -> p

\* The answer in one piece, read from the events of a stream: neighbouring
\* parts of a kind are made one.
ConsolidateParts(items) == Joined(items)
WholeClaudeToGemini(items) == Parts(ConsolidateParts(items), "end")
----------------------------------------------------------------------------
(* From Codex: a call is kept back with those before it, and is sent       *)
(* before every event that comes after.                                    *)

CodexGeminiParams == [stored |-> <<>>, out |-> <<>>]  \* LastStorageOutput

CodexToGemini(p, e) ==
  LET stored == IF p.stored = <<>> THEN p ELSE SendParts(p, p.stored, "end")
  IN  CASE e.event = "close" /\ e.kind = "call" ->
             [p EXCEPT !.stored = Append(@, Item("call", e.item))]
        [] e.event = "delta" /\ e.kind # "call" ->
             SendParts(stored, <<Item(e.kind, e.pieces)>>, "")
        [] e.event \in {"created", "completed"} -> SendParts(stored, <<>>, "")
        [] OTHER -> p

\* The answer in one piece has no thought: a summary is not looked at.
WithoutThoughts(items) == Chosen(items, LAMBDA i : i.kind # "thought" /\ i.pieces # <<>>)
WholeCodexToGemini(items) == Parts(WithoutThoughts(items), "end")
----------------------------------------------------------------------------
(* From OpenAI: runs are sent as they come, and nothing else of the chunk  *)
(* is looked at; then calls are gathered, and nothing else; then the       *)
(* finish is looked at, which sends the calls, in the order of a map.      *)

OpenAIGeminiParams == [calls |-> <<>>, out |-> <<>>]  \* ToolCallsAccumulator

TakeCallPiece(p, piece) ==
  [p EXCEPT !.calls = TakeCall(@, [index |-> piece.call, pieces |-> piece.pieces])]
CallParts(calls) == [i \in DOMAIN calls |-> Item("call", calls[i].pieces)]

IsRun(piece) == piece.kind \in {"thought", "text"}

RunToGemini(p, piece) == SendParts(p, <<Item(piece.kind, piece.pieces)>>, "")

\* The order of a map: "straight", or another.
InMapOrder(calls, order) == IF order = "straight" THEN calls ELSE Reverse(calls)

FinishToGemini(p, finish, order) ==
  SendParts([p EXCEPT !.calls = <<>>], InMapOrder(CallParts(p.calls), order),
            IF finish = "limit" THEN "limit" ELSE "end")

OpenAIToGemini(p, chunk, order) ==
  LET runs == Chosen(chunk.parts, IsRun)
  IN  IF runs # <<>> THEN FoldLeft(RunToGemini, p, runs)
      ELSE IF chunk.parts # <<>> THEN FoldLeft(TakeCallPiece, p, chunk.parts)
      ELSE IF chunk.finish # "" THEN FinishToGemini(p, chunk.finish, order)
      ELSE p

WholeOpenAIToGemini(items, finish) ==
  LET Part(kind) == Filled(<<Item(kind, Run(items, kind))>>)
  IN  Parts(Part("thought") \o Part("text") \o Calls(items),
            IF finish = "limit" THEN "limit" ELSE "end")
----------------------------------------------------------------------------
(* The client: it appends the parts of every chunk.                        *)

NoContent == [items |-> <<>>, reasons |-> <<>>]

ReadGeminiChunk(m, c) ==
  [items |-> m.items \o c.parts,
   reasons |-> IF c.finish = "" THEN m.reasons ELSE Append(m.reasons, c.finish)]
=============================================================================
