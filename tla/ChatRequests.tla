----------------------------- MODULE ChatRequests -----------------------------
(***************************************************************************)
(* Requests of chat-completions clients for providers of other formats,    *)
(* and the tool names Codex is given, which may not be longer than a limit. *)
(***************************************************************************)
EXTENDS Conversations

\* A tool a client declares: a function of its own, or a provider's built-in one.
Tool(type, name) == [type |-> type, name |-> name]
FunctionTools(tools) == SelectSeq(tools, LAMBDA t : t.type = "function")
NamesOf(tools) == [i \in DOMAIN tools |-> tools[i].name]

\* Names with the segments "mcp", server and tool are too long; others are not.
TooLong(name) == Len(name) > 2 /\ name[1] = "mcp"

\* shortenNameIfNeeded: the server is left out.
ShortenNameIfNeeded(name) == IF TooLong(name) THEN <<"mcp", Last(name)>> ELSE name

\* Mutant: the candidate is taken as it is.
MakeUniqueNot(candidate, used) == candidate

\* makeUnique: the first of the candidate and the candidate with a number not in use.
MakeUnique(candidate, used) ==
  LET numbered(i) == candidate \o <<ToString(i)>>
      free == {i \in 1..(Cardinality(used) + 1) : numbered(i) \notin used}
  IN IF candidate \notin used THEN candidate
     ELSE numbered(CHOOSE i \in free : \A j \in free : i <= j)

\* buildShortNameMap: what each declared name is called towards Codex.
BuildShortNameMap(names) ==
  FoldLeft(LAMBDA short, name :
             (name :> MakeUnique(ShortenNameIfNeeded(name), {short[x] : x \in DOMAIN short})) @@ short,
           <<>>, names)

ShortName(short, name) == IF name \in DOMAIN short THEN short[name] ELSE ShortenNameIfNeeded(name)

\* buildReverseMap: the name a client is told of a call Codex makes.
OriginalName(short, name) ==
  IF \E x \in DOMAIN short : short[x] = name THEN CHOOSE x \in DOMAIN short : short[x] = name ELSE name

ShortCall(short, part) == [part EXCEPT !.name = ShortName(short, @)]
----------------------------------------------------------------------------
(* Claude: the system messages become one message of the user, at the      *)
(* place of the first; a result is a message of its own.                   *)

ChatAsksClaude(r) ==
  LET take(out, m) ==
        CASE m.role = "system" /\ out.system = 0 ->
               [system |-> Len(out.messages) + 1,
                messages |-> Append(out.messages, Message("user", KeptOf(m.parts, "text")))]
          [] m.role = "system" /\ out.system # 0 ->
               [out EXCEPT !.messages[out.system].parts = @ \o KeptOf(m.parts, "text")]
          [] m.role \in {"user", "assistant"} ->
               [out EXCEPT !.messages = Append(@, Message(m.role,
                  Kept(m.parts, Texts) \o (IF m.role = "assistant" THEN KeptOf(m.parts, "call") ELSE <<>>)))]
          [] m.role = "tool" -> [out EXCEPT !.messages = Append(@, Message("user", m.parts))]
          [] OTHER -> out
  IN Request(<<>>, FoldLeft(take, [system |-> 0, messages |-> <<>>], r.messages).messages)

ChatToolsToClaude(tools) == FunctionTools(tools)
ChatChoiceToClaude(choice) ==
  CASE choice = "auto" -> "auto" [] choice = "required" -> "any" [] choice = "named" -> "named" [] OTHER -> ""
----------------------------------------------------------------------------
(* The Gemini family: the results are gathered first and follow their      *)
(* calls in one content; a tool message by itself adds nothing.            *)

ChatAnswers(messages, calls) ==
  LET all == FlattenSeq([i \in DOMAIN messages |-> messages[i].parts])
      called(id) == \E i \in DOMAIN all : all[i].kind = "call" /\ all[i].id = id /\ all[i].name # <<>>
      name(id) == Last(SelectSeq(all, LAMBDA p : p.kind = "call" /\ p.id = id)).name
      given(id) == SelectSeq(all, LAMBDA p : p.kind = "result" /\ p.id = id)
      known == SelectSeq(calls, LAMBDA c : c.id # <<>> /\ called(c.id))
  IN [i \in DOMAIN known |->
       Part("result", IF given(known[i].id) = <<>> THEN 0 ELSE Last(given(known[i].id)).n,
            known[i].id, name(known[i].id))]

\* A model's content with calls is followed by the content with their results.
ChatContents(messages, withIds) ==
  LET ids(ps) == IF withIds THEN ps ELSE WithoutId(ps)
      instructs(m) == m.role \in {"system", "developer"}
      content(m) ==
        CASE m.role = "user" \/ (instructs(m) /\ Len(messages) = 1) ->
               <<Message("user", Kept(m.parts, Texts))>>
          [] m.role = "assistant" ->
               LET calls == KeptOf(m.parts, "call")
                   answers == ChatAnswers(messages, calls)
               IN <<Message("model", Kept(m.parts, Texts) \o ids(calls))>>
                    \o Unless(answers = <<>>, <<Message("user", ids(answers))>>)
          [] OTHER -> <<>>
      system == SelectSeq(messages, instructs)
  IN Request(IF Len(messages) > 1 THEN FlattenSeq([i \in DOMAIN system |-> system[i].parts]) ELSE <<>>,
             FlattenSeq([i \in DOMAIN messages |-> content(messages[i])]))

ChatAsksGemini(r) == ChatContents(r.messages, FALSE)
ChatAsksGeminiCLI(r) == ChatContents(r.messages, FALSE)
ChatAsksAntigravity(r) == ChatContents(r.messages, TRUE)

\* Functions, then Google's own; the client's choice is not passed on.
ChatToolsToGemini(tools) == FunctionTools(tools) \o SelectSeq(tools, LAMBDA t : t.type = "google_search")
ChatToolsToGeminiCLI(tools) == ChatToolsToGemini(tools)
ChatToolsToAntigravity(tools) == ChatToolsToGemini(tools)
----------------------------------------------------------------------------
(* Codex: an item for each message, call and result.                       *)

ChatAsksCodex(r, short) ==
  LET role(m) == IF m.role = "system" THEN "developer" ELSE m.role
      content(m) == Kept(m.parts, IF m.role = "user" THEN Texts ELSE {"text"})
      calls(m) == KeptOf(m.parts, "call")
      items(m) ==
        IF m.role = "tool" THEN <<Message("result", m.parts)>>
        ELSE <<Message(role(m), content(m))>>
               \o Unless(m.role # "assistant",
                         [i \in DOMAIN calls(m) |-> Message("call", <<ShortCall(short, calls(m)[i])>>)])
  IN Request(<<>>, FlattenSeq([i \in DOMAIN r.messages |-> items(r.messages[i])]))

\* Built-in tools go as they are.
ChatToolsToCodex(tools, short) ==
  [i \in DOMAIN tools |->
    IF tools[i].type = "function" THEN [tools[i] EXCEPT !.name = ShortName(short, @)] ELSE tools[i]]
ChatChoiceToCodex(choice) == choice
=============================================================================
