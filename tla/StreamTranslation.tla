-------------------------- MODULE StreamTranslation --------------------------
(***************************************************************************)
(* An answer on its way from an upstream of one format to a client of      *)
(* another: the upstream says something, the executor has it translated,   *)
(* and the client reads what came of it.                                   *)
(*                                                                         *)
(* The upstream may say whatever its format allows.  Where a converter is  *)
(* known to lose or to garble what it is given, the step notes a lapse, of *)
(* the content or of the reason the answer ended for; the README lists     *)
(* them.                                                                   *)
(***************************************************************************)
EXTENDS ClaudeEvents, ChatChunks, GeminiChunks, ResponsesEvents, FiniteSets

CONSTANT PieceLimit   \* parts, or deltas, the upstream says before it ends

ASSUME PieceLimitAssumption == PieceLimit \in Nat

Routes == {<<"gemini", "claude">>, <<"cli", "claude">>, <<"antigravity", "claude">>,
           <<"codex", "claude">>, <<"openai", "claude">>,
           <<"gemini", "chat">>, <<"cli", "chat">>, <<"antigravity", "chat">>,
           <<"codex", "chat">>, <<"claude", "chat">>,
           <<"codex", "gemini">>, <<"claude", "gemini">>, <<"openai", "gemini">>,
           <<"gemini", "responses">>, <<"claude", "responses">>, <<"openai", "responses">>}

VARIABLES
  route,      \* [from |-> upstream's format, to |-> client's]
  told,       \* what the upstream has said, as items
  parts,      \* parts and deltas said so far
  said,       \* pieces numbered so far
  latest,     \* the kind of the last part, "" for none
  block,      \* the block open at an upstream that says blocks, "" for none
  stage,      \* "new", "speaking", "finishing" (the usage is to come), "finished", "over", "cut"
  finish,     \* the reason the upstream gave
  params,     \* the converter's, from call to call
  client,     \* what the client has made of it
  lapsed      \* what is no longer expected of the client

translationVars == <<route, told, parts, said, latest, block, stage, finish, params, client, lapsed>>

From == route[1]
To == route[2]
GeminiFormats == {"gemini", "cli", "antigravity"}
GeminiLike == From \in GeminiFormats
InParts == GeminiLike \/ From = "openai"
----------------------------------------------------------------------------
(* The converter and the client of the route.                              *)

FirstParams(r) ==
  CASE r = <<"codex", "claude">> -> CodexClaudeParams
    [] r = <<"openai", "claude">> -> OpenAIClaudeParams
    [] r[1] \in GeminiFormats /\ r[2] = "claude" -> GeminiParams
    [] r = <<"claude", "chat">> -> ClaudeChatParams
    [] r = <<"codex", "chat">> -> CodexChatParams
    [] r[1] \in GeminiFormats /\ r[2] = "chat" -> GeminiChatParams
    [] r = <<"claude", "gemini">> -> ClaudeGeminiParams
    [] r = <<"codex", "gemini">> -> CodexGeminiParams
    [] r = <<"openai", "gemini">> -> OpenAIGeminiParams
    [] r = <<"claude", "responses">> -> ClaudeResponsesParams
    [] r = <<"openai", "responses">> -> OpenAIResponsesParams
    [] r = <<"gemini", "responses">> -> GeminiResponsesParams

\* Translate: the converters by route; order is that of a map.
Translated(x, order) ==
  CASE route = <<"gemini", "claude">> -> GeminiToClaude(params, x)
    [] route = <<"cli", "claude">> -> GeminiCLIToClaude(params, x)
    [] route = <<"antigravity", "claude">> -> AntigravityToClaude(params, x)
    [] route = <<"codex", "claude">> -> CodexToClaude(params, x)
    [] route = <<"openai", "claude">> -> OpenAIToClaude(params, x)
    [] route = <<"gemini", "chat">> -> GeminiToChat(params, x)
    [] route = <<"cli", "chat">> -> GeminiCLIToChat(params, x)
    [] route = <<"antigravity", "chat">> -> AntigravityToChat(params, x)
    [] route = <<"codex", "chat">> -> CodexToChat(params, x)
    [] route = <<"claude", "chat">> -> ClaudeToChat(params, x)
    [] route = <<"codex", "gemini">> -> CodexToGemini(params, x)
    [] route = <<"claude", "gemini">> -> ClaudeToGemini(params, x)
    [] route = <<"openai", "gemini">> -> OpenAIToGemini(params, x, order)
    [] route = <<"gemini", "responses">> -> GeminiToResponses(params, x)
    [] route = <<"claude", "responses">> -> ClaudeToResponses(params, x)
    [] route = <<"openai", "responses">> -> OpenAIToResponses(params, x)

\* "[DONE]": the Gemini executors make it when the body ends, OpenAI says it.
TranslatedDone ==
  CASE route \in {<<"gemini", "claude">>, <<"cli", "claude">>} -> GeminiDoneToClaude(params)
    [] route = <<"antigravity", "claude">> -> AntigravityDoneToClaude(params)
    [] route = <<"openai", "claude">> -> OpenAIDoneToClaude(params)
    [] OTHER -> params

Nothing(r) == CASE r[2] = "claude" -> NoMessage [] r[2] = "chat" -> NoCompletion
                [] r[2] = "gemini" -> NoContent [] r[2] = "responses" -> NoOutput

Read(m, x) == CASE To = "claude" -> ReadClaudeEvent(m, x) [] To = "chat" -> ReadChatChunk(m, x)
                [] To = "gemini" -> ReadGeminiChunk(m, x) [] To = "responses" -> ReadResponsesEvent(m, x)

\* A client that is shown events.
Shown(m, events) == FoldLeft(Read, m, events)

\* The converter's answer p goes to the client.
HandOn(p) ==
  /\ params' = [p EXCEPT !.out = <<>>]
  /\ client' = Shown(client, p.out)
----------------------------------------------------------------------------
(* What an upstream may say.                                               *)

KindsSaid ==
  CASE From = "gemini" -> {"thought", "text", "call", "empty"} \cup (IF To = "claude" THEN {"more"} ELSE {})
    [] From = "cli" -> {"thought", "text", "call", "empty"}
    [] From = "antigravity" -> {"thought", "text", "call", "empty", "sign"}
    [] From = "openai" -> {"thought", "text", "call", "more"}

\* In a delta of OpenAI's the reasoning, the content and the calls have a place each.
Rank(kind) == CASE kind = "thought" -> 1 [] kind = "text" -> 2 [] OTHER -> 3
InPlace(ks) == Len(ks) = 2 => Rank(ks[1]) < Rank(ks[2]) \/ ks = <<"call", "call">>

Follows(k, before) == k = "more" => before = "call" \/ (From = "openai" /\ CallCount(told) > 0)

KindLists ==
  {ks \in UNION {[1..l -> KindsSaid] : l \in 0..2} :
     /\ From = "openai" => InPlace(ks) /\ ks # <<"call", "more">>
     /\ \A i \in DOMAIN ks : Follows(ks[i], IF i = 1 THEN latest ELSE ks[i - 1])}

\* A part of the kind with the pieces after n; a call of Gemini's is whole.
MakePart(kind, n, call) ==
  [kind |-> kind, call |-> call,
   pieces |-> IF kind \in {"empty", "sign"} THEN <<>>
              ELSE IF kind = "call" /\ GeminiLike THEN <<n + 1, n + 2>> ELSE <<n + 1>>]

\* Parts of the kinds, the pieces numbered on and the calls counted on.
MakeNext(w, k, call) ==
  LET part == MakePart(k, w.said, IF k = "call" THEN w.calls + 1 ELSE call)
  IN  [said |-> w.said + Len(part.pieces), parts |-> Append(w.parts, part),
       calls |-> w.calls + (IF k = "call" THEN 1 ELSE 0)]
MakeAll(w, ks, call) == FoldLeft(LAMBDA v, k : MakeNext(v, k, call), w, ks)
MakeParts(ks, call) == MakeAll([said |-> said, parts |-> <<>>, calls |-> CallCount(told)], ks, call)

Tell(items, part) ==
  CASE part.kind = "more" ->
         AddArgument(items, IF GeminiLike THEN CallCount(items) ELSE part.call, part.pieces[1])
    [] part.kind = "call" -> Append(items, Item("call", part.pieces))
    [] OTHER -> AddAll(items, part.kind, part.pieces)
TellAll(items, ps) == FoldLeft(Tell, items, ps)
----------------------------------------------------------------------------
(* Lapses.                                                                 *)

Has(ks, kinds) == \E i \in DOMAIN ks : ks[i] \in kinds
Twice(ks, kinds) == \E i, j \in DOMAIN ks : i < j /\ {ks[i], ks[j]} \subseteq kinds
ToldKind(kinds) == \E i \in DOMAIN told : told[i].kind \in kinds

\* A part of the kind does not come right after one of the others.
Strays(ks, kind, others) ==
  \E i \in DOMAIN ks : ks[i] = kind /\ (IF i = 1 THEN latest ELSE ks[i - 1]) \notin others

\* Of what one kind of part said is mistaken, after another kind was said.
Late(ks, kind, earlier) == Has(ks, {kind}) /\ (ToldKind(earlier) \/ Has(ks, earlier))

\* The content of a chunk, the last or not, is mistaken.
ChunkGarbled(ks, last) ==
  CASE route = <<"antigravity", "claude">> ->
         Strays(ks, "sign", {"thought", "sign"}) \/ Strays(ks, "empty", {"", "text"})
    [] To = "chat" ->
         \/ Twice(ks, {"thought", "sign"})
         \/ Twice(ks, {"text", "empty"})
         \/ (Twice(ks, {"call"}) /\ ToldKind({"call"}))
    [] route = <<"openai", "gemini">> ->
         \/ (Has(ks, {"thought", "text"}) /\ Has(ks, {"call", "more"}))
         \/ (last /\ ks # <<>>)
    [] route = <<"gemini", "responses">> ->
         Late(ks, "thought", {"text", "call"}) \/ Late(ks, "text", {"call"})
    [] route = <<"openai", "responses">> ->
         \/ Late(ks, "thought", {"text", "call"})
         \/ (ToldKind({"call"}) /\ Has(ks, {"text", "call"}))
         \/ Twice(ks, {"call"})
    [] OTHER -> FALSE

\* So is what a block brings.
BlockGarbled(kind) ==
  /\ kind # "call"
  /\ CASE route = <<"codex", "gemini">> -> ToldKind({"call"})
       [] route = <<"claude", "responses">> -> ToldKind({kind})
       [] OTHER -> FALSE

\* The reason is mistaken: a call was in an earlier chunk, or in one that is not
\* the last; a limit has no word of the client's format.
ReasonGarbled(ks, why) ==
  CASE route \in {<<"gemini", "claude">>, <<"cli", "claude">>} ->
         why # "" /\ ToldKind({"call"}) /\ ~Has(ks, {"call"})
    [] route \in {<<"gemini", "chat">>, <<"cli", "chat">>} ->
         why = "limit" \/ (why = "" /\ Has(ks, {"call"}))
    [] route = <<"antigravity", "chat">> -> why = "limit"
    [] route = <<"codex", "gemini">> -> why # "" /\ ~ToldKind({"call"})
    [] route = <<"claude", "gemini">> -> why = "limit"
    [] OTHER -> FALSE

Noted(content, reason) ==
  lapsed' = lapsed \cup {l \in {"content", "reason"} : IF l = "content" THEN content ELSE reason}
----------------------------------------------------------------------------
TranslationInit ==
  /\ route \in Routes
  /\ told = <<>> /\ parts = 0 /\ said = 0 /\ latest = "" /\ block = ""
  /\ stage = IF InParts THEN "speaking" ELSE "new"
  /\ finish = ""
  /\ params = FirstParams(route)
  /\ client = Nothing(route)
  /\ lapsed = {}

\* The reason for which an answer with the items ends.
Reason(items, why) == IF CallCount(items) > 0 THEN "tools" ELSE why

\* A chunk: parts of the kinds, why the answer ends ("" if it goes on), the usage.
SayChunk(ks, why, usage) ==
  \E call \in IF From = "openai" /\ Has(ks, {"more"}) THEN 1..CallCount(told) ELSE {0} :
    LET made == MakeParts(ks, call)
        items == TellAll(told, made.parts)
        chunk == [parts |-> made.parts, usage |-> usage,
                  finish |-> IF From = "openai" /\ why # "" THEN Reason(items, why) ELSE why]
    IN  /\ parts + Len(ks) <= PieceLimit
        /\ parts' = parts + Len(ks)
        /\ said' = made.said
        /\ latest' = IF ks = <<>> THEN latest ELSE Last(ks)
        /\ told' = items
        /\ Noted(ChunkGarbled(ks, why # "") \/ (why # "" /\ items = <<>>), ReasonGarbled(ks, why))
        /\ \/ HandOn(Translated(chunk, "straight"))
           \/ route = <<"openai", "gemini">> /\ HandOn(Translated(chunk, "turned"))

SayMore ==
  /\ InParts /\ stage = "speaking"
  /\ \E ks \in KindLists \ {<<>>} : SayChunk(ks, "", FALSE)
  /\ UNCHANGED <<route, block, stage, finish>>

\* Gemini's last chunk has the usage; the others may send it in one of its own.
SayLast ==
  /\ InParts /\ stage = "speaking"
  /\ \E ks \in KindLists, why \in {"end", "limit"}, usage \in BOOLEAN :
       /\ From \in {"gemini", "cli"} => usage
       /\ SayChunk(ks, why, usage)
       /\ finish' = why
       /\ stage' = IF usage THEN "finished" ELSE "finishing"
  /\ UNCHANGED <<route, block>>

SayUsage ==
  /\ stage = "finishing"
  /\ SayChunk(<<>>, "", TRUE)
  /\ stage' = "finished"
  /\ UNCHANGED <<route, block, finish>>

\* A format of blocks: the message begins, a block is opened, grows and closes.
Event(event, kind, ns) ==
  [event |-> event, kind |-> kind, pieces |-> ns, index |-> Len(told) - (IF event = "open" THEN 0 ELSE 1),
   item |-> IF event = "close" THEN Last(told).pieces ELSE <<>>, reason |-> ""]

SayCreated ==
  /\ stage = "new" /\ stage' = "speaking"
  /\ HandOn(Translated(Event("created", "", <<>>), "straight"))
  /\ UNCHANGED <<route, told, parts, said, latest, block, finish, lapsed>>

\* A call's name comes with its block.
SayOpen(kind) ==
  LET ns == IF kind = "call" THEN <<said + 1>> ELSE <<>>
  IN  /\ ~InParts /\ stage = "speaking" /\ block = "" /\ parts < PieceLimit
      /\ block' = kind
      /\ parts' = parts + 1
      /\ said' = said + Len(ns)
      /\ told' = Append(told, Item(kind, ns))
      /\ Noted(BlockGarbled(kind), FALSE)
      /\ HandOn(Translated(Event("open", kind, ns), "straight"))
      /\ UNCHANGED <<route, latest, stage, finish>>

SayDelta ==
  /\ block # "" /\ stage = "speaking" /\ parts < PieceLimit
  /\ parts' = parts + 1
  /\ said' = said + 1
  /\ told' = [told EXCEPT ![Len(told)].pieces = Append(@, said + 1)]
  /\ HandOn(Translated(Event("delta", block, <<said + 1>>), "straight"))
  /\ UNCHANGED <<route, latest, block, stage, finish, lapsed>>

SayClose ==
  /\ block # "" /\ stage = "speaking"
  /\ block' = ""
  /\ HandOn(Translated(Event("close", block, <<>>), "straight"))
  /\ UNCHANGED <<route, told, parts, said, latest, stage, finish, lapsed>>

\* Codex ends with an event of its own at a limit, which no converter knows.
SayCompleted ==
  /\ ~InParts /\ stage = "speaking" /\ block = ""
  /\ \E why \in {"end", "limit"} :
       /\ From = "codex" => why = "end"
       /\ finish' = why
       /\ Noted(FALSE, ReasonGarbled(<<>>, why))
       /\ HandOn(Translated([Event("completed", "", <<>>) EXCEPT !.reason = Reason(told, why)], "straight"))
  /\ stage' = "finished"
  /\ UNCHANGED <<route, told, parts, said, latest, block>>

\* OpenAI's usage may not come at all.
AnswerEnds ==
  /\ stage = "finished" \/ (stage = "finishing" /\ From = "openai")
  /\ stage' = "over"
  /\ HandOn(TranslatedDone)
  /\ UNCHANGED <<route, told, parts, said, latest, block, finish, lapsed>>

\* The body breaks off; the Gemini executors say "[DONE]" before the error.
AnswerBreaks ==
  /\ stage \in {"new", "speaking"}
  /\ stage' = "cut"
  /\ HandOn(IF GeminiLike THEN TranslatedDone ELSE params)
  /\ Noted(route = <<"antigravity", "claude">> \/ (To = "gemini" /\ ToldKind({"call"})), FALSE)
  /\ UNCHANGED <<route, told, parts, said, latest, block, finish>>

TranslationNext ==
  \/ SayMore \/ SayLast \/ SayUsage
  \/ SayCreated \/ SayDelta \/ SayClose \/ SayCompleted
  \/ \E kind \in {"thought", "text", "call"} : SayOpen(kind)
  \/ AnswerEnds \/ AnswerBreaks

TranslationSpec == TranslationInit /\ [][TranslationNext]_translationVars
----------------------------------------------------------------------------
(* Properties.                                                             *)

TranslationTypeOK ==
  /\ route \in Routes
  /\ stage \in {"new", "speaking", "finishing", "finished", "over", "cut"}
  /\ block \in {"", "thought", "text", "call"}
  /\ parts \in 0..PieceLimit /\ said \in Nat
  /\ finish \in {"", "end", "limit"}
  /\ lapsed \subseteq {"content", "reason"}
  /\ params.out = <<>>

Pieces(items) == [i \in DOMAIN items |-> items[i].pieces]

\* The items are those told, each kind by itself.
SameByKind(items, Same(_, _)) ==
  /\ Run(items, "thought") = Run(told, "thought")
  /\ Run(items, "text") = Run(told, "text")
  /\ Same(Pieces(Calls(items)), Pieces(Calls(told)))

InOrder(x, y) == x = y
InAnyOrder(x, y) == Len(x) = Len(y) /\ ToSet(x) = ToSet(y)

ContentArrived ==
  CASE To = "claude" -> client.phase = "stopped" /\ Joined(client.items) = Joined(told)
    [] To = "chat" -> /\ client.content = Run(told, "text")
                      /\ client.reasoning = Run(told, "thought")
                      /\ Pieces(client.calls) = Pieces(Calls(told))
    [] route = <<"openai", "gemini">> -> SameByKind(client.items, InAnyOrder)
    [] To = "gemini" /\ From # "openai" -> Joined(client.items) = Joined(told)
    [] To = "responses" -> /\ client.phase = "stopped"
                           /\ SameByKind(client.items, InOrder)
                           /\ SameByKind(client.output, InOrder)

ReasonArrived ==
  CASE To = "claude" -> client.reason = Reason(told, finish)
    [] To = "chat" -> client.reasons = <<Reason(told, finish)>>
    [] To = "gemini" -> client.reasons # <<>> /\ (Last(client.reasons) = "limit") = (Reason(told, finish) = "limit")
    [] To = "responses" -> TRUE

LooksWhole ==
  CASE To \in {"claude", "responses"} -> client.phase = "stopped"
    [] To \in {"chat", "gemini"} -> client.reasons # <<>>

\* An answer that has come to its end is what the upstream told, and ended for
\* the reason it gave; until then the client's protocol is kept; and one that
\* broke off does not look whole.
AnswerArrives ==
  /\ "content" \notin lapsed /\ To \in {"claude", "responses"} /\ stage # "cut" => client.phase # "broken"
  /\ stage = "over" /\ "content" \notin lapsed => ContentArrived
  /\ stage = "over" /\ lapsed = {} => ReasonArrived
  /\ stage = "cut" /\ lapsed = {} => ~LooksWhole

\* The answer in one piece, by route.
Whole ==
  CASE route = <<"gemini", "claude">> -> WholeGeminiToClaude(told, finish)
    [] route = <<"cli", "claude">> -> WholeGeminiCLIToClaude(told, finish)
    [] route = <<"antigravity", "claude">> -> WholeAntigravityToClaude(told, finish)
    [] route = <<"codex", "claude">> -> WholeCodexToClaude(told)
    [] route = <<"openai", "claude">> -> WholeOpenAIToClaude(told, Reason(told, finish))
    [] route = <<"gemini", "chat">> -> WholeGeminiToChat(told, finish)
    [] route = <<"cli", "chat">> -> WholeGeminiCLIToChat(told, finish)
    [] route = <<"antigravity", "chat">> -> WholeAntigravityToChat(told, finish)
    [] route = <<"codex", "chat">> -> WholeCodexToChat(told)
    [] route = <<"claude", "chat">> -> WholeClaudeToChat(told, finish)
    [] route = <<"codex", "gemini">> -> WholeCodexToGemini(told)
    [] route = <<"claude", "gemini">> -> WholeClaudeToGemini(told)
    [] route = <<"openai", "gemini">> -> WholeOpenAIToGemini(told, Reason(told, finish))
    [] route = <<"gemini", "responses">> -> WholeGeminiToResponses(told)
    [] route = <<"claude", "responses">> -> WholeClaudeToResponses(told)
    [] route = <<"openai", "responses">> -> WholeOpenAIToResponses(told)

\* Codex's answers in one piece lose all texts but the last towards OpenAI, and
\* all thoughts towards Gemini; what ended them is lost as it is in a stream.
WholeLosesContent ==
  CASE route = <<"codex", "chat">> -> Cardinality({i \in DOMAIN told : told[i].kind # "call"}) > 1
    [] route = <<"codex", "gemini">> -> ToldKind({"thought"})
    [] OTHER -> FALSE
WholeLosesReason ==
  CASE route = <<"codex", "chat">> -> ToldKind({"call"})
    [] GeminiLike /\ To = "chat" -> finish = "limit" /\ ~ToldKind({"call"})
    [] route = <<"claude", "gemini">> -> finish = "limit"
    [] OTHER -> FALSE

\* The answer in one piece says the same: in the order told where the format
\* it comes from and the one it goes to have an order of kinds.
WholeAgrees(w) ==
  CASE To = "claude" -> /\ IF From = "openai" THEN SameByKind(w.blocks, InOrder)
                           ELSE Joined(w.blocks) = Joined(told)
                        /\ w.reason = Reason(told, finish)
    [] To = "chat" -> /\ ~WholeLosesContent => w.content = Run(told, "text")
                                               /\ w.reasoning = Run(told, "thought")
                      /\ w.calls = Pieces(Calls(told))
                      /\ ~WholeLosesReason => w.finish = Reason(told, finish)
    [] To = "gemini" -> /\ ~WholeLosesContent => IF From = "openai" THEN SameByKind(w.parts, InOrder)
                                                 ELSE Joined(w.parts) = Joined(told)
                        /\ ~WholeLosesReason => (w.finish = "limit") = (Reason(told, finish) = "limit")
    [] To = "responses" -> SameByKind(w, InOrder)

WholeArrives == stage = "over" => WholeAgrees(Whole)

\* An answer arrives as it was told, in a stream and in one piece.
AnswersArrive == AnswerArrives /\ WholeArrives
=============================================================================
