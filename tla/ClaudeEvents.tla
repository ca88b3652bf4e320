---------------------------- MODULE ClaudeEvents ----------------------------
(***************************************************************************)
(* Answers turned into the event stream of the Claude API                  *)
(* (internal/translator/*/claude), by one converter per upstream format.   *)
(* A converter is called with its parameters p and what has arrived; what  *)
(* it answers is appended to p.out.  Blocks have indexes from 0.           *)
(*                                                                         *)
(* Token counts, ids, models and signatures' texts are left out.           *)
(***************************************************************************)
EXTENDS Answers

Emit(p, e) == [p EXCEPT !.out = Append(@, e)]

MessageStart == [event |-> "message_start"]
BlockStart(i, kind, ns) ==
  [event |-> "content_block_start", index |-> i, kind |-> kind, pieces |-> ns]
BlockDelta(i, kind, ns) ==
  [event |-> "content_block_delta", index |-> i, kind |-> kind, pieces |-> ns]
SignatureDelta(i) == BlockDelta(i, "thought", <<>>)
BlockStop(i) == [event |-> "content_block_stop", index |-> i]
MessageDelta(reason) == [event |-> "message_delta", reason |-> reason]
MessageStop == [event |-> "message_stop"]
----------------------------------------------------------------------------
(* From Gemini, Gemini CLI and Antigravity.  A chunk has parts and may     *)
(* have a finish reason and the usage.  A part is a thought, a text (one   *)
(* may be empty), a call, more arguments of a call, or a thought's         *)
(* signature.                                                              *)

GeminiParams ==
  [first |-> FALSE, type |-> "none", index |-> 0, content |-> FALSE, tool |-> FALSE,
   finish |-> "", usage |-> FALSE, final |-> FALSE, out |-> <<>>]

FirstResponse(p) == IF p.first THEN p ELSE Emit([p EXCEPT !.first = TRUE], MessageStart)

\* The open block ends; p.type is the caller's to set.
CloseBlock(p) ==
  IF p.type = "none" THEN p ELSE [Emit(p, BlockStop(p.index)) EXCEPT !.index = @ + 1]

OpenBlock(p, kind, ns) ==
  [Emit(p, BlockStart(p.index, kind, ns)) EXCEPT !.type = kind, !.content = TRUE]

Continue(p, kind, ns) == [Emit(p, BlockDelta(p.index, kind, ns)) EXCEPT !.content = TRUE]

\* A piece of a run: in its block if that is open, in a new one if not.
RunPiece(p, kind, ns) ==
  IF p.type = kind THEN Continue(p, kind, ns)
                   ELSE Continue(OpenBlock(CloseBlock(p), kind, <<>>), kind, ns)

\* A call: its name starts a block, its arguments come in one piece.
CallBlock(p, ns) ==
  Continue(OpenBlock([p EXCEPT !.tool = TRUE], "call", <<Head(ns)>>), "call", Tail(ns))

\* Faulty variant: a call does not end the block before it.
CallInside(p, ns) == CallBlock(p, ns)

CallPart(p, ns) == CallBlock(CloseBlock(p), ns)

GeminiPart(p, part) ==
  CASE part.kind \in {"thought", "sign"} -> RunPiece(p, "thought", part.pieces)
    [] part.kind \in {"text", "empty"} -> RunPiece(p, "text", part.pieces)
    [] part.kind = "call" -> CallPart(p, part.pieces)
    [] part.kind = "more" -> Emit(p, BlockDelta(p.index, "call", part.pieces))

ToolReason(p) == IF p.tool THEN "tools" ELSE p.finish

\* Whether a call was made is forgotten from one chunk to the next.
GeminiToClaude(p, chunk) ==
  LET shown == FoldLeft(GeminiPart, FirstResponse([p EXCEPT !.tool = FALSE]), chunk.parts)
      noted == [shown EXCEPT !.finish = chunk.finish]
  IN  IF chunk.usage /\ chunk.finish # "" /\ shown.content
      THEN Emit(Emit(noted, BlockStop(noted.index)), MessageDelta(ToolReason(noted)))
      ELSE noted

\* Gemini CLI's is the same, for a chunk inside a response.
GeminiCLIToClaude(p, chunk) == GeminiToClaude(p, chunk)

GeminiDoneToClaude(p) == IF p.content THEN Emit(p, MessageStop) ELSE p

\* Antigravity: a signature goes to the block that has the index, whether or not
\* one is open; an empty text ends the open block and leaves its type, or, in
\* the chunk that finishes, does nothing.
AntigravityPart(p, part, finishing) ==
  CASE part.kind = "sign" -> [Emit(p, SignatureDelta(p.index)) EXCEPT !.content = TRUE]
    [] part.kind = "empty" -> IF finishing THEN p
                              ELSE IF p.type = "text" THEN Continue(p, "text", <<>>)
                              ELSE CloseBlock(p)
    [] part.kind = "thought" -> RunPiece(p, "thought", part.pieces)
    [] part.kind = "text" -> RunPiece(p, "text", part.pieces)
    [] part.kind = "call" -> CallPart(p, part.pieces)

AppendFinalEvents(p) ==
  LET closed == IF p.type = "none" THEN p
                ELSE [Emit(p, BlockStop(p.index)) EXCEPT !.type = "none"]
  IN  IF p.final \/ ~p.content THEN p
      ELSE [Emit(closed, MessageDelta(ToolReason(p))) EXCEPT !.final = TRUE]

AntigravityParts(p, parts, finishing) ==
  FoldLeft(LAMBDA q, part : AntigravityPart(q, part, finishing), p, parts)

AntigravityToClaude(p, chunk) ==
  LET shown == AntigravityParts(FirstResponse(p), chunk.parts, chunk.finish # "")
      noted == [shown EXCEPT !.finish = IF chunk.finish # "" THEN chunk.finish ELSE @,
                             !.usage = @ \/ chunk.usage]
  IN  IF noted.usage /\ noted.finish # "" THEN AppendFinalEvents(noted) ELSE noted

AntigravityDoneToClaude(p) ==
  IF p.content THEN Emit(AppendFinalEvents(p), MessageStop) ELSE p

\* The answer in one piece: runs gathered until a part of another kind comes.
FlushRun(w, kind) ==
  IF w[kind] = <<>> THEN w
  ELSE [w EXCEPT !.blocks = Append(@, Item(kind, w[kind])), ![kind] = <<>>]

WholePart(w, part) ==
  CASE part.kind = "thought" -> [FlushRun(w, "text") EXCEPT !.thought = @ \o part.pieces]
    [] part.kind = "text" -> [FlushRun(w, "thought") EXCEPT !.text = @ \o part.pieces]
    [] part.kind = "call" ->
         LET flushed == FlushRun(FlushRun(w, "thought"), "text")
         IN  [flushed EXCEPT !.blocks = Append(@, Item("call", part.pieces)), !.tool = TRUE]
    [] OTHER -> w

WholeGeminiToClaude(parts, finish) ==
  LET read == FoldLeft(WholePart, [text |-> <<>>, thought |-> <<>>, blocks |-> <<>>,
                                   tool |-> FALSE], parts)
  IN  [blocks |-> FlushRun(FlushRun(read, "thought"), "text").blocks,
       reason |-> IF read.tool THEN "tools" ELSE finish]

\* Gemini CLI's and Antigravity's are the same, for an answer inside a response.
WholeGeminiCLIToClaude(parts, finish) == WholeGeminiToClaude(parts, finish)
WholeAntigravityToClaude(parts, finish) == WholeGeminiToClaude(parts, finish)
----------------------------------------------------------------------------
(* From Codex: its events name the blocks, and the converter counts them.  *)

CodexClaudeParams == [tool |-> FALSE, index |-> 0, out |-> <<>>]

CodexToClaude(p, e) ==
  CASE e.event = "created" -> Emit(p, MessageStart)
    [] e.event = "open" ->
         LET noted == [p EXCEPT !.tool = @ \/ e.kind = "call"]
         IN  Emit(noted, BlockStart(p.index, e.kind, e.pieces))
    [] e.event = "delta" -> Emit(p, BlockDelta(p.index, e.kind, e.pieces))
    [] e.event = "close" -> [Emit(p, BlockStop(p.index)) EXCEPT !.index = @ + 1]
    [] e.event = "completed" ->
         Emit(Emit(p, MessageDelta(IF p.tool THEN "tools" ELSE "end")), MessageStop)
    [] OTHER -> p

WholeCodexToClaude(items) ==
  [blocks |-> Filled(items),
   reason |-> IF CallCount(items) > 0 THEN "tools" ELSE "end"]
----------------------------------------------------------------------------
(* From OpenAI: a chunk has pieces of a delta and may have a finish reason *)
(* and the usage.  Arguments are kept back until the finish.               *)

OpenAIClaudeParams ==
  [started |-> FALSE, text |-> -1, thought |-> -1, next |-> 0, calls |-> <<>>,
   finish |-> "", stopped |-> FALSE, deltaSent |-> FALSE, stopSent |-> FALSE, out |-> <<>>]

StopRun(p, kind) ==
  IF p[kind] = -1 THEN p ELSE [Emit(p, BlockStop(p[kind])) EXCEPT ![kind] = -1]

StartRun(p, kind) ==
  IF p[kind] # -1 THEN p
  ELSE [Emit(p, BlockStart(p.next, kind, <<>>)) EXCEPT ![kind] = p.next, !.next = @ + 1]

RunDelta(p, kind, other, ns) ==
  LET started == StartRun(StopRun(p, other), kind)
  IN  Emit(started, BlockDelta(started[kind], kind, ns))

\* A call's block is started when its name comes, on the next index.
ToolName(p, ns) ==
  LET alone == StopRun(StopRun(p, "thought"), "text")
  IN  [Emit(alone, BlockStart(p.next, "call", ns))
         EXCEPT !.calls = Append(@, [index |-> p.next, arguments |-> <<>>]), !.next = @ + 1]

OpenAIPiece(p, piece) ==
  CASE piece.kind = "thought" -> RunDelta(p, "thought", "text", piece.pieces)
    [] piece.kind = "text" -> RunDelta(p, "text", "thought", piece.pieces)
    [] piece.kind = "call" -> ToolName(p, piece.pieces)
    [] piece.kind = "more" -> [p EXCEPT !.calls[piece.call].arguments = @ \o piece.pieces]

\* Every call's arguments and the end of its block; the code goes over a map, so
\* that the calls may come in another order, each with its index.
StopTool(p, c) ==
  LET given == IF c.arguments = <<>> THEN p
               ELSE Emit(p, BlockDelta(c.index, "call", c.arguments))
  IN  Emit(given, BlockStop(c.index))

StopBlocks(p) ==
  LET alone == StopRun(StopRun(p, "thought"), "text")
  IN  IF p.stopped THEN alone
      ELSE [FoldLeft(StopTool, alone, p.calls) EXCEPT !.stopped = TRUE]

EmitMessageStop(p) == IF p.stopSent THEN p ELSE [Emit(p, MessageStop) EXCEPT !.stopSent = TRUE]

SendDelta(p) == [Emit(p, MessageDelta(p.finish)) EXCEPT !.deltaSent = TRUE]

OpenAIToClaude(p, chunk) ==
  LET first == IF p.started THEN p ELSE Emit([p EXCEPT !.started = TRUE], MessageStart)
      shown == FoldLeft(OpenAIPiece, first, chunk.parts)
      ended == IF chunk.finish = "" THEN shown
               ELSE [StopBlocks(shown) EXCEPT !.finish = chunk.finish]
  IN  IF ended.finish # "" /\ chunk.usage THEN EmitMessageStop(SendDelta(ended)) ELSE ended

OpenAIDoneToClaude(p) ==
  LET ended == StopBlocks(p)
  IN  EmitMessageStop(IF ended.finish # "" /\ ~ended.deltaSent THEN SendDelta(ended) ELSE ended)

\* The answer in one piece, as the API has it: a text, its reasoning and calls.
WholeOpenAIToClaude(items, finish) ==
  LET Block(kind) == Filled(<<Item(kind, Run(items, kind))>>)
  IN  [blocks |-> Block("text") \o Block("thought") \o Calls(items), reason |-> finish]
----------------------------------------------------------------------------
(* The client: it keeps a block for every start, in order, and takes what  *)
(* comes for a block while that is open.  "broken" is for ever.            *)

NoMessage == [phase |-> "none", open |-> {}, items |-> <<>>, reason |-> ""]

Broken(m) == [m EXCEPT !.phase = "broken"]

ReadClaudeEvent(m, e) ==
  CASE e.event = "message_start" /\ m.phase = "none" -> [m EXCEPT !.phase = "started"]
    [] e.event = "content_block_start" /\ m.phase = "started" /\ e.index = Len(m.items) ->
         [m EXCEPT !.items = Append(@, Item(e.kind, e.pieces)), !.open = @ \cup {e.index}]
    [] e.event = "content_block_delta" /\ e.index \in m.open /\ m.items[e.index + 1].kind = e.kind ->
         [m EXCEPT !.items[e.index + 1].pieces = @ \o e.pieces]
    [] e.event = "content_block_stop" /\ e.index \in m.open -> [m EXCEPT !.open = @ \ {e.index}]
    [] e.event = "message_delta" /\ m.phase = "started" /\ m.open = {} ->
         [m EXCEPT !.phase = "ending", !.reason = e.reason]
    [] e.event = "message_stop" /\ m.phase = "ending" -> [m EXCEPT !.phase = "stopped"]
    [] OTHER -> Broken(m)
=============================================================================
