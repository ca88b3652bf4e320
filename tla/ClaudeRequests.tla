---------------------------- MODULE ClaudeRequests ----------------------------
(***************************************************************************)
(* Requests of Claude clients for providers of other formats.              *)
(***************************************************************************)
EXTENDS ChatRequests

\* Codex: what comes before a call or a result is sent first, so the order
\* is kept; a system that is a string is not read.
ClaudeAsksCodex(r, form, short) ==
  LET flushed(out) == IF out.content = <<>> THEN out.items ELSE Append(out.items, Message(out.role, out.content))
      take(out, p) ==
        CASE p.kind \in Texts -> [out EXCEPT !.content = Append(@, p)]
          [] p.kind = "call" ->
               [out EXCEPT !.items = Append(flushed(out), Message("call", <<ShortCall(short, p)>>)), !.content = <<>>]
          [] p.kind = "result" ->
               [out EXCEPT !.items = Append(flushed(out), Message("result", <<p>>)), !.content = <<>>]
          [] OTHER -> out
      items(m) == flushed(FoldLeft(take, [role |-> m.role, items |-> <<>>, content |-> <<>>], m.parts))
  IN Request(<<>>, Unless(form # "plain", <<Message("developer", r.system)>>)
                     \o FlattenSeq([i \in DOMAIN r.messages |-> items(r.messages[i])]))

ClaudeToolsToCodex(tools, short) ==
  [i \in DOMAIN tools |->
    IF tools[i].type = "web_search" THEN tools[i] ELSE [tools[i] EXCEPT !.name = ShortName(short, @)]]
ClaudeChoiceToCodex(tools) == IF tools = <<>> THEN "" ELSE "auto"

ClaudeRole(role) == IF role = "assistant" THEN "model" ELSE role

\* The id without the segments its maker put after the name.
NameInId(id, suffixes) ==
  IF Len(id) > 1 THEN SubSeq(id, 1, IF Len(id) > suffixes THEN Len(id) - suffixes ELSE 0) ELSE id

\* Gemini: images and thoughts are left out, a content may be empty.
ClaudeContents(r) ==
  LET part(p) == CASE p.kind = "result" -> [p EXCEPT !.name = NameInId(p.id, 1), !.id = <<>>]
                   [] OTHER -> [p EXCEPT !.id = <<>>]
      sent(m) == Kept(m.parts, {"text", "call", "result"})
  IN Request(r.system,
             [i \in DOMAIN r.messages |->
               Message(ClaudeRole(r.messages[i].role),
                       [k \in DOMAIN sent(r.messages[i]) |-> part(sent(r.messages[i])[k])])])

ClaudeAsksGemini(r) == ClaudeContents(r)
ClaudeAsksGeminiCLI(r) == ClaudeContents(r)

\* Only tools with a schema are declared; built-in ones have none.
ClaudeToolsToGemini(tools) == FunctionTools(tools)
ClaudeToolsToGeminiCLI(tools) == FunctionTools(tools)
ClaudeToolsToAntigravity(tools) == FunctionTools(tools)

\* Antigravity: a thought goes with its signature or not at all, and first
\* of the model's parts; a message left empty is skipped.
ClaudeAsksAntigravity(r) ==
  LET part(p) == IF p.kind = "result" THEN [p EXCEPT !.name = NameInId(p.id, 2)] ELSE p
      signed(m) == Kept(m.parts, {"text", "image", "call", "result", "thought"})
      ordered(ps, role) == IF role = "model" THEN KeptOf(ps, "thought") \o SelectSeq(ps, LAMBDA p : p.kind # "thought")
                           ELSE ps
      content(m) == Message(ClaudeRole(m.role),
                            ordered([k \in DOMAIN signed(m) |-> part(signed(m)[k])], ClaudeRole(m.role)))
  IN Request(r.system, FlattenSeq([i \in DOMAIN r.messages |->
                         Unless(signed(r.messages[i]) = <<>>, <<content(r.messages[i])>>)]))

\* OpenAI: a message's results come first, each as a tool message; then its
\* content with the reasoning before it and the calls behind it.
ClaudeAsksOpenAI(r) ==
  LET results(m) == Single("tool", KeptOf(m.parts, "result"))
      spoken(m) == IF m.role = "assistant"
                   THEN Kept(m.parts, {"thought", "unsigned"}) \o Kept(m.parts, Texts) \o KeptOf(m.parts, "call")
                   ELSE Kept(m.parts, Texts)
      messages(m) == results(m) \o Unless(spoken(m) = <<>>, <<Message(m.role, spoken(m))>>)
  IN Request(<<>>, Unless(r.system = <<>>, <<Message("system", r.system)>>)
                     \o FlattenSeq([i \in DOMAIN r.messages |-> messages(r.messages[i])]))

ClaudeToolsToOpenAI(tools) == [i \in DOMAIN tools |-> [tools[i] EXCEPT !.type = "function"]]
ClaudeChoiceToOpenAI(choice) ==
  CASE choice = "any" -> "required" [] choice = "named" -> "named" [] choice = "" -> "" [] OTHER -> "auto"
=============================================================================
