----------------------------- MODULE ChatChunks -----------------------------
(***************************************************************************)
(* Answers turned into the chunks of OpenAI's chat completions             *)
(* (internal/translator/*/openai/chat-completions).  A chunk has one       *)
(* content, one reasoning content, a list of calls, each with the index    *)
(* of the call it belongs to, and a finish reason ("" for null).           *)
(***************************************************************************)
EXTENDS Answers

Chunk == [content |-> <<>>, reasoning |-> <<>>, calls |-> <<>>, finish |-> ""]
ToolCall(index, ns) == [index |-> index, pieces |-> ns]

SendChunk(p, c) == [p EXCEPT !.out = Append(@, c)]
----------------------------------------------------------------------------
(* From Gemini, Gemini CLI and Antigravity.  The parts of a chunk are set  *)
(* in one template, a later text over an earlier one.                      *)

GeminiChatParams == [functionIndex |-> 0, sawToolCall |-> FALSE, finish |-> "", out |-> <<>>]

\* A call takes the next index, or, if it is not the first of its chunk, the
\* count of those before it in the chunk.
CallIndex(t) == IF t.chunk.calls # <<>> THEN Len(t.chunk.calls) ELSE t.functionIndex

ChatPart(t, part) ==
  CASE part.kind \in {"thought", "sign"} -> [t EXCEPT !.chunk.reasoning = part.pieces]
    [] part.kind \in {"text", "empty"} -> [t EXCEPT !.chunk.content = part.pieces]
    [] part.kind = "call" ->
         [t EXCEPT !.chunk.calls = Append(@, ToolCall(CallIndex(t), part.pieces)),
                   !.functionIndex = @ + 1]

Template(p, chunk) ==
  FoldLeft(ChatPart, [chunk |-> Chunk, functionIndex |-> p.functionIndex], chunk.parts)

\* Gemini's reason in small letters, which is not OpenAI's word for a limit.
LowerReason(finish) == IF finish = "limit" THEN "max_tokens" ELSE finish

\* A chunk with a call finishes with "tool_calls", one that finishes says so.
GeminiToChat(p, chunk) ==
  LET t == Template(p, chunk)
      reason == IF t.chunk.calls # <<>> THEN "tools" ELSE LowerReason(chunk.finish)
  IN  SendChunk([p EXCEPT !.functionIndex = t.functionIndex],
                [t.chunk EXCEPT !.finish = reason])

\* Gemini CLI's is the same, for a chunk inside a response.
GeminiCLIToChat(p, chunk) == GeminiToChat(p, chunk)

\* The reason is kept for the chunk that has the usage, and so are the calls.
AntigravityToChat(p, chunk) ==
  LET t == Template(p, chunk)
      seen == [p EXCEPT !.functionIndex = t.functionIndex,
                        !.sawToolCall = @ \/ t.chunk.calls # <<>>,
                        !.finish = IF chunk.finish # "" THEN chunk.finish ELSE @]
      reason == IF seen.finish = "" \/ ~chunk.usage THEN ""
                ELSE IF seen.sawToolCall THEN "tools" ELSE LowerReason(seen.finish)
  IN  SendChunk(seen, [t.chunk EXCEPT !.finish = reason])

\* The answer in one piece: contents are appended to, not overwritten.
WholePartToChat(w, part) ==
  CASE part.kind = "thought" -> [w EXCEPT !.reasoning = @ \o part.pieces]
    [] part.kind = "text" -> [w EXCEPT !.content = @ \o part.pieces]
    [] part.kind = "call" -> [w EXCEPT !.calls = Append(@, part.pieces)]
    [] OTHER -> w

WholeGeminiToChat(parts, finish) ==
  LET read == FoldLeft(WholePartToChat, [Chunk EXCEPT !.finish = LowerReason(finish)], parts)
  IN  IF read.calls # <<>> THEN [read EXCEPT !.finish = "tools"] ELSE read

\* Gemini CLI and Antigravity unwrap theirs.
WholeGeminiCLIToChat(parts, finish) == WholeGeminiToChat(parts, finish)
WholeAntigravityToChat(parts, finish) == WholeGeminiToChat(parts, finish)
----------------------------------------------------------------------------
(* From Claude: a call is sent whole, when its block ends, with the index  *)
(* of the block.                                                           *)

ClaudeChatParams == [calls |-> <<>>, out |-> <<>>]   \* ToolCallsAccumulator

ClaudeDeltaToChat(p, e) ==
  CASE e.kind = "text" -> SendChunk(p, [Chunk EXCEPT !.content = e.pieces])
    [] e.kind = "thought" -> SendChunk(p, [Chunk EXCEPT !.reasoning = e.pieces])
    [] e.kind = "call" -> [p EXCEPT !.calls[Len(p.calls)].pieces = @ \o e.pieces]

ClaudeToChat(p, e) ==
  CASE e.event = "created" -> SendChunk(p, Chunk)
    [] e.event = "open" /\ e.kind = "call" -> [p EXCEPT !.calls = Append(@, ToolCall(e.index, e.pieces))]
    [] e.event = "delta" -> ClaudeDeltaToChat(p, e)
    [] e.event = "close" /\ e.kind = "call" ->
         SendChunk([p EXCEPT !.calls = <<>>], [Chunk EXCEPT !.calls = p.calls])
    [] e.event = "completed" -> SendChunk(p, [Chunk EXCEPT !.finish = e.reason])
    [] OTHER -> p

WholeClaudeToChat(items, reason) ==
  [content |-> Run(items, "text"), reasoning |-> Run(items, "thought"),
   calls |-> [c \in DOMAIN Calls(items) |-> Calls(items)[c].pieces],
   finish |-> IF CallCount(items) > 0 THEN "tools" ELSE reason]
----------------------------------------------------------------------------
(* From Codex: a call is sent whole, when its item is done.                *)

CodexChatParams == [functionCallIndex |-> -1, out |-> <<>>]

CodexToChat(p, e) ==
  CASE e.event = "delta" /\ e.kind = "text" -> SendChunk(p, [Chunk EXCEPT !.content = e.pieces])
    [] e.event = "delta" /\ e.kind = "thought" -> SendChunk(p, [Chunk EXCEPT !.reasoning = e.pieces])
    [] e.event = "close" /\ e.kind = "call" ->
         LET index == p.functionCallIndex + 1
         IN  SendChunk([p EXCEPT !.functionCallIndex = index],
                       [Chunk EXCEPT !.calls = <<ToolCall(index, e.item)>>])
    [] e.event = "completed" ->
         SendChunk(p, [Chunk EXCEPT !.finish = IF p.functionCallIndex # -1 THEN "tools" ELSE "end"])
    [] OTHER -> p

\* The answer in one piece: of several texts, and of several reasonings, the
\* last is kept; the reason is "stop", calls or not.
LastRun(items, kind) ==
  FoldLeft(LAMBDA s, i : IF i.kind = kind /\ i.pieces # <<>> THEN i.pieces ELSE s, <<>>, items)

WholeCodexToChat(items) ==
  [content |-> LastRun(items, "text"), reasoning |-> LastRun(items, "thought"),
   calls |-> [c \in DOMAIN Calls(items) |-> Calls(items)[c].pieces], finish |-> "end"]
----------------------------------------------------------------------------
(* The client: contents are appended, calls kept by their index, in the    *)
(* order of the indexes.  It reads no chunk after one that ends the turn,  *)
(* but here is shown all of them.                                          *)

TakeCalls(calls, more) == FoldLeft(TakeCall, calls, more)

NoCompletion == [content |-> <<>>, reasoning |-> <<>>, calls |-> <<>>, reasons |-> <<>>]

ReadChatChunk(m, c) ==
  [content |-> m.content \o c.content, reasoning |-> m.reasoning \o c.reasoning,
   calls |-> TakeCalls(m.calls, c.calls),
   reasons |-> IF c.finish = "" THEN m.reasons ELSE Append(m.reasons, c.finish)]
=============================================================================
