--------------------------- MODULE ResponsesRequests ---------------------------
(***************************************************************************)
(* Requests of clients of OpenAI's Responses for providers of other        *)
(* formats.  What they send is a list of items.                            *)
(***************************************************************************)
EXTENDS GeminiRequests

\* Claude: the instructions, or the first system item with a text, become a
\* message of the user; then no system item is sent again.
ResponsesAsksClaude(r) ==
  LET system == SelectSeq(r.messages, LAMBDA m : m.role = "system" /\ m.parts # <<>>)
      extracted == r.system = <<>> /\ system # <<>>
      instructions == IF extracted THEN Head(system).parts ELSE r.system
      item(m) ==
        CASE extracted /\ m.role = "system" -> <<>>
          [] m.role \in {"user", "assistant", "system", "developer"} /\ Kept(m.parts, Texts) # <<>> ->
               <<Message(IF m.role = "assistant" THEN "assistant" ELSE "user", Kept(m.parts, Texts))>>
          [] m.role = "call" -> <<Message("assistant", m.parts)>>
          [] m.role = "result" -> <<Message("user", m.parts)>>
          [] OTHER -> <<>>
  IN Request(<<>>, Unless(instructions = <<>>, <<Message("user", instructions)>>)
                     \o FlattenSeq([i \in DOMAIN r.messages |-> item(r.messages[i])]))

ResponsesToolsToClaude(tools) == [i \in DOMAIN tools |-> [tools[i] EXCEPT !.type = "function"]]

\* The choice of a function is looked for under "function", where chat has it.
ResponsesChoiceToClaude(choice) ==
  CASE choice = "auto" -> "auto" [] choice = "required" -> "any" [] choice = "named" -> "nameless" [] OTHER -> ""

\* Gemini: calls in a row and the results in a row after them are paired.
Paired(items) ==
  LET answer(results, call) == SelectSeq(results, LAMBDA m : m.parts[1].id = call.parts[1].id)
      answered(calls, m) == \E c \in DOMAIN calls : calls[c].parts[1].id = m.parts[1].id
      pairs(calls, results) ==
        FlattenSeq([c \in DOMAIN calls |->
          <<calls[c]>> \o Unless(answer(results, calls[c]) = <<>>, <<Last(answer(results, calls[c]))>>)])
          \o SelectSeq(results, LAMBDA m : ~answered(calls, m))
      flush(out) == out.items \o pairs(out.calls, out.results)
      take(out, m) ==
        CASE m.role = "call" /\ out.results = <<>> -> [out EXCEPT !.calls = Append(@, m)]
          [] m.role = "call" /\ out.results # <<>> -> [items |-> flush(out), calls |-> <<m>>, results |-> <<>>]
          [] m.role = "result" /\ out.calls # <<>> -> [out EXCEPT !.results = Append(@, m)]
          [] OTHER -> [items |-> Append(flush(out), m), calls |-> <<>>, results |-> <<>>]
  IN flush(FoldLeft(take, [items |-> <<>>, calls |-> <<>>, results |-> <<>>], items))

ResponsesAsksGemini(r) ==
  LET calls == SelectSeq(r.messages, LAMBDA m : m.role = "call")
      name(id) == IF \E i \in DOMAIN calls : calls[i].parts[1].id = id
                  THEN Head(SelectSeq(calls, LAMBDA m : m.parts[1].id = id)).parts[1].name ELSE <<"unknown">>
      content(m) ==
        CASE m.role = "system" -> <<>>
          [] m.role \in {"call", "reasoning"} -> <<Message("model", m.parts)>>
          [] m.role = "result" -> <<Message("function", <<[m.parts[1] EXCEPT !.name = name(m.parts[1].id)]>>)>>
          [] OTHER -> Unless(Kept(m.parts, Texts) = <<>>,
                             <<Message(IF m.role = "assistant" THEN "model" ELSE m.role, Kept(m.parts, Texts))>>)
      system == SelectSeq(r.messages, LAMBDA m : m.role = "system")
      items == Paired(r.messages)
  IN Request(IF r.system # <<>> \/ system = <<>> THEN r.system ELSE Head(system).parts,
             FlattenSeq([i \in DOMAIN items |-> content(items[i])]))

ResponsesToolsToGemini(tools) == FunctionTools(tools)

ResponsesAsksGeminiCLI(r) == GeminiAsksGeminiCLI(ResponsesAsksGemini(r))
ResponsesAsksAntigravity(r) == GeminiAsksAntigravity(ResponsesAsksGemini(r))

\* OpenAI: each call is a message of the assistant; images are left out.
ResponsesAsksOpenAI(r) ==
  LET item(m) ==
        CASE m.role = "call" -> <<Message("assistant", m.parts)>>
          [] m.role = "result" -> <<Message("tool", m.parts)>>
          [] m.role = "reasoning" -> <<>>
          [] OTHER -> <<Message(IF m.role = "developer" THEN "user" ELSE m.role, KeptOf(m.parts, "text"))>>
  IN Request(<<>>, Unless(r.system = <<>>, <<Message("system", r.system)>>)
                     \o FlattenSeq([i \in DOMAIN r.messages |-> item(r.messages[i])]))

ResponsesToolsToOpenAI(tools) == FunctionTools(tools)
ResponsesChoiceToOpenAI(choice) == IF choice = "named" THEN "garbled" ELSE choice

\* Codex speaks Responses: a system item becomes the developer's.
ResponsesAsksCodex(r) ==
  Request(r.system, [i \in DOMAIN r.messages |->
    IF r.messages[i].role = "system" THEN Message("developer", r.messages[i].parts) ELSE r.messages[i]])
=============================================================================
