-------------------------- MODULE ResponsesEvents --------------------------
(***************************************************************************)
(* Answers turned into the events of OpenAI's Responses API                *)
(* (internal/translator/*/openai/responses).  An item of the output is     *)
(* added, grows by deltas and is done; the last event has the whole        *)
(* output.  An item is named by its id: a reasoning's by the index it was  *)
(* added at, the message's by 0, a call's by the call's own.               *)
(***************************************************************************)
EXTENDS Answers

Say(p, e) == [p EXCEPT !.out = Append(@, e)]

Created == [event |-> "created"]
ItemAdded(kind, id) == [event |-> "added", kind |-> kind, id |-> id]
ItemDelta(kind, id, ns) == [event |-> "delta", kind |-> kind, id |-> id, pieces |-> ns]
ItemDone(kind, id) == [event |-> "done", kind |-> kind, id |-> id]
Completed(output) == [event |-> "completed", output |-> output]

OneItem(kind, pieces) == Filled(<<Item(kind, pieces)>>)
----------------------------------------------------------------------------
(* From Gemini (Gemini CLI and Antigravity unwrap theirs): the reasoning   *)
(* and the message are opened once and closed by what comes after; what    *)
(* is thought later is dropped, a text later goes to the closed message.   *)

GeminiResponsesParams ==
  [started |-> FALSE, output |-> <<>>, thought |-> 0, thoughtClosed |-> FALSE,
   text |-> 0, textClosed |-> FALSE, out |-> <<>>]

FinalizeReasoning(p) ==
  IF p.thought = 0 \/ p.thoughtClosed THEN p
  ELSE Say([p EXCEPT !.thoughtClosed = TRUE], ItemDone("thought", p.thought))

FinalizeMessage(p) ==
  IF p.text = 0 \/ p.textClosed THEN p
  ELSE Say([p EXCEPT !.textClosed = TRUE], ItemDone("text", p.text))

\* The next item of the output, known by its place.
NextItem(p, kind) ==
  Say([p EXCEPT !.output = Append(@, Item(kind, <<>>))], ItemAdded(kind, Len(p.output) + 1))

Grow(p, kind, at, ns) ==
  Say([p EXCEPT !.output[at].pieces = @ \o ns], ItemDelta(kind, at, ns))

ThoughtPart(p, ns) ==
  LET opened == IF p.thought # 0 THEN p
                ELSE [NextItem(p, "thought") EXCEPT !.thought = Len(p.output) + 1]
  IN  IF p.thoughtClosed THEN p
      ELSE IF ns = <<>> THEN opened ELSE Grow(opened, "thought", opened.thought, ns)

TextPart(p, ns) ==
  LET alone == FinalizeReasoning(p)
      opened == IF p.text # 0 THEN alone
                ELSE [NextItem(alone, "text") EXCEPT !.text = Len(alone.output) + 1]
  IN  Grow(opened, "text", opened.text, ns)

FunctionPart(p, ns) ==
  LET opened == NextItem(FinalizeMessage(FinalizeReasoning(p)), "call")
      at == Len(opened.output)
  IN  Say(Grow(opened, "call", at, ns), ItemDone("call", at))

ResponsesPart(p, part) ==
  CASE part.kind \in {"thought", "sign"} -> ThoughtPart(p, part.pieces)
    [] part.kind = "text" -> TextPart(p, part.pieces)
    [] part.kind = "call" -> FunctionPart(p, part.pieces)
    [] part.kind = "empty" -> p

GeminiStopToResponses(p) ==
  LET closed == FinalizeMessage(FinalizeReasoning(p)) IN Say(closed, Completed(closed.output))

GeminiToResponses(p, chunk) ==
  LET first == IF p.started THEN p ELSE Say([p EXCEPT !.started = TRUE], Created)
      shown == FoldLeft(ResponsesPart, first, chunk.parts)
  IN  IF chunk.finish = "" THEN shown ELSE GeminiStopToResponses(shown)

\* The answer in one piece: the calls, then the reasoning, then the message.
WholeGeminiToResponses(items) ==
  Calls(items) \o OneItem("thought", Run(items, "thought")) \o OneItem("text", Run(items, "text"))
----------------------------------------------------------------------------
(* From Claude: blocks become items.  All texts are the one message; of    *)
(* the thoughts only the last is in the whole output.                      *)

ClaudeResponsesParams == [thought |-> <<>>, text |-> <<>>, calls |-> <<>>, out |-> <<>>]

\* The item of a block: a message's id does not have the block's index.
BlockItem(e) == IF e.kind = "text" THEN 0 ELSE e.index

\* A call's name is in the item added; the arguments are to come.
ClaudeBlockToResponses(p, e) ==
  CASE e.kind = "thought" -> Say([p EXCEPT !.thought = <<>>], ItemAdded("thought", e.index))
    [] e.kind = "text" -> Say(p, ItemAdded("text", BlockItem(e)))
    [] e.kind = "call" ->
         Say(Say([p EXCEPT !.calls = Append(@, Item("call", e.pieces))],
                 ItemAdded("call", e.index)), ItemDelta("call", e.index, e.pieces))

ClaudeDeltaToResponses(p, e) ==
  LET taken == IF e.kind = "call" THEN [p EXCEPT !.calls[Len(p.calls)].pieces = @ \o e.pieces]
               ELSE [p EXCEPT ![e.kind] = @ \o e.pieces]
  IN  Say(taken, ItemDelta(e.kind, BlockItem(e), e.pieces))

ClaudeBlockEndToResponses(p, e) == Say(p, ItemDone(e.kind, BlockItem(e)))

ClaudeStopToResponses(p) ==
  Say(p, Completed(OneItem("thought", p.thought) \o OneItem("text", p.text) \o p.calls))

ClaudeToResponses(p, e) ==
  CASE e.event = "created" -> Say(p, Created)
    [] e.event = "open" -> ClaudeBlockToResponses(p, e)
    [] e.event = "delta" -> ClaudeDeltaToResponses(p, e)
    [] e.event = "close" -> ClaudeBlockEndToResponses(p, e)
    [] e.event = "completed" -> ClaudeStopToResponses(p)

\* The answer in one piece.
WholeClaudeToResponses(items) ==
  OneItem("thought", Run(items, "thought")) \o OneItem("text", Run(items, "text")) \o Calls(items)
----------------------------------------------------------------------------
(* From OpenAI: one message and one call; of a chunk's calls the first is  *)
(* looked at, and all are taken for the one.  A content is handled before  *)
(* the reasoning of its chunk.                                             *)

OpenAIResponsesParams ==
  [started |-> FALSE, thinking |-> FALSE, thought |-> <<>>, reasonings |-> <<>>,
   text |-> <<>>, added |-> FALSE, done |-> FALSE, call |-> <<>>, out |-> <<>>]

\* Every reasoning has the same id.
StopReasoning(p) ==
  IF ~p.thinking THEN p
  ELSE Say([p EXCEPT !.thinking = FALSE, !.thought = <<>>,
                     !.reasonings = Append(@, Item("thought", p.thought))],
           ItemDone("thought", 0))

ContentDelta(p, ns) ==
  LET alone == StopReasoning(p)
      added == IF p.added THEN alone
               ELSE Say([alone EXCEPT !.added = TRUE], ItemAdded("text", 0))
  IN  Say([added EXCEPT !.text = @ \o ns], ItemDelta("text", 0, ns))

ReasoningDelta(p, ns) ==
  LET added == IF p.thinking THEN p
               ELSE Say([p EXCEPT !.thinking = TRUE], ItemAdded("thought", 0))
  IN  Say([added EXCEPT !.thought = @ \o ns], ItemDelta("thought", 0, ns))

MessageDone(p) ==
  IF p.added /\ ~p.done THEN Say([p EXCEPT !.done = TRUE], ItemDone("text", 0)) ELSE p

ToolCallsDelta(p, piece) ==
  LET alone == MessageDone(StopReasoning(p))
      added == IF p.call # <<>> THEN alone ELSE Say(alone, ItemAdded("call", 0))
  IN  Say([added EXCEPT !.call = @ \o piece.pieces], ItemDelta("call", 0, piece.pieces))

OfKind(chunk, kinds) == Chosen(chunk.parts, LAMBDA part : part.kind \in kinds)

CompletedOutput(p) == p.reasonings \o OneItem("text", p.text) \o OneItem("call", p.call)

OpenAIStopToResponses(p) ==
  LET closed == StopReasoning(MessageDone(p))
      done == IF closed.call = <<>> THEN closed ELSE Say(closed, ItemDone("call", 0))
  IN  Say(done, Completed(CompletedOutput(done)))

OpenAIToResponses(p, chunk) ==
  LET first == IF p.started THEN p ELSE Say([p EXCEPT !.started = TRUE], Created)
      shown == FoldLeft(LAMBDA q, d : ContentDelta(q, d.pieces), first, OfKind(chunk, {"text"}))
      thought == FoldLeft(LAMBDA q, d : ReasoningDelta(q, d.pieces), shown,
                          OfKind(chunk, {"thought"}))
      tools == OfKind(chunk, {"call", "more"})
      called == IF tools = <<>> THEN thought ELSE ToolCallsDelta(thought, Head(tools))
  IN  IF chunk.finish = "" THEN called ELSE OpenAIStopToResponses(called)

\* The answer in one piece.
WholeOpenAIToResponses(items) ==
  OneItem("thought", Run(items, "thought")) \o OneItem("text", Run(items, "text")) \o Calls(items)
----------------------------------------------------------------------------
(* The client: an item grows between its addition and its end, and the     *)
(* response is completed when all have ended.                              *)

NoOutput == [phase |-> "none", open |-> {}, items |-> <<>>, output |-> <<>>]

Known(m, e) == {i \in DOMAIN m.items : m.items[i].kind = e.kind /\ m.items[i].id = e.id}
Place(m, e) == CHOOSE i \in Known(m, e) : TRUE

Confused(m) == [m EXCEPT !.phase = "broken"]

ReadResponsesEvent(m, e) ==
  CASE e.event = "created" /\ m.phase = "none" -> [m EXCEPT !.phase = "started"]
    [] e.event = "added" /\ m.phase = "started" /\ Known(m, e) = {} ->
         [m EXCEPT !.items = Append(@, [kind |-> e.kind, id |-> e.id, pieces |-> <<>>]),
                   !.open = @ \cup {Len(m.items) + 1}]
    [] e.event = "delta" /\ Known(m, e) # {} /\ Place(m, e) \in m.open ->
         [m EXCEPT !.items[Place(m, e)].pieces = @ \o e.pieces]
    [] e.event = "done" /\ Known(m, e) # {} /\ Place(m, e) \in m.open ->
         [m EXCEPT !.open = @ \ {Place(m, e)}]
    [] e.event = "completed" /\ m.phase = "started" /\ m.open = {} ->
         [m EXCEPT !.phase = "stopped", !.output = e.output]
    [] OTHER -> Confused(m)
=============================================================================
