---------------------------- MODULE GeminiRequests ----------------------------
(***************************************************************************)
(* Requests of Gemini clients for providers of other formats.  A call of   *)
(* Gemini's has no id; where the provider wants one the proxy makes it.    *)
(***************************************************************************)
EXTENDS ChatRequests

FreshId(made) == <<"made", ToString(made)>>

\* OpenAI: a result is sent before the message it is in, and every content
\* makes a message; all results go to the call made last.
GeminiAsksOpenAI(r, form) ==
  LET role(m) == IF m.role = "model" THEN "assistant" ELSE m.role
      images == IF form = "plain" THEN {} ELSE {"image"}      \* inlineData only
      spoken(out) == Kept(out.parts, Texts) \o KeptOf(out.parts, "call")
      take(out, p) ==
        CASE p.kind \in {"text", "thought"} ->
               [out EXCEPT !.parts = Append(@, [p EXCEPT !.kind = "text"])]
          [] p.kind \in images -> [out EXCEPT !.parts = Append(@, p)]
          [] p.kind = "call" ->
               [out EXCEPT !.made = @ + 1, !.parts = Append(@, [p EXCEPT !.id = FreshId(out.made + 1)])]
          [] p.kind = "result" ->
               [out EXCEPT !.messages = Append(@, Message("tool",
                  <<[p EXCEPT !.id = FreshId(IF out.made > 0 THEN out.made ELSE -1), !.name = <<>>]>>))]
          [] OTHER -> out
      ended(out, m) == [out EXCEPT !.messages = Append(@, Message(role(m), spoken(out))), !.parts = <<>>]
      first == [made |-> 0, parts |-> <<>>,
                messages |-> Unless(r.system = <<>>, <<Message("system", r.system)>>)]
  IN Request(<<>>, FoldLeft(LAMBDA out, m : ended(FoldLeft(take, out, m.parts), m), first, r.messages).messages)

GeminiToolsToOpenAI(tools) == FunctionTools(tools)

\* The ids of calls without a result wait in a queue; a result takes the first.
TakePending(out) ==
  IF out.pending = <<>> THEN FreshId(-1) ELSE Head(out.pending)

\* Mutant: the newest id is struck off, and the next result takes the same again.
AfterTakingNewest(pending) == IF pending = <<>> THEN <<>> ELSE Front(pending)

AfterTaking(pending) == IF pending = <<>> THEN <<>> ELSE Tail(pending)

\* Claude: instructions are read in snake case only, and become the user's;
\* a message left empty is not sent.
GeminiAsksClaude(r, form) ==
  LET role(m) == CASE m.role = "model" -> "assistant" [] m.role \in {"function", "tool"} -> "user" [] OTHER -> m.role
      images == IF form = "plain" THEN {"image"} ELSE {}      \* inline_data only
      take(out, p) ==
        CASE p.kind \in {"text", "thought"} -> [out EXCEPT !.parts = Append(@, [p EXCEPT !.kind = "text"])]
          [] p.kind \in images -> [out EXCEPT !.parts = Append(@, p)]
          [] p.kind = "call" /\ out.role = "assistant" ->
               [out EXCEPT !.made = @ + 1, !.pending = Append(@, FreshId(out.made + 1)),
                           !.parts = Append(@, [p EXCEPT !.id = FreshId(out.made + 1)])]
          [] p.kind = "result" ->
               [out EXCEPT !.pending = AfterTaking(@),
                           !.parts = Append(@, [p EXCEPT !.id = TakePending(out), !.name = <<>>])]
          [] OTHER -> out
      ended(out) == [out EXCEPT !.messages = @ \o Unless(out.parts = <<>>, <<Message(out.role, out.parts)>>)]
      first == [made |-> 0, pending |-> <<>>, parts |-> <<>>, role |-> "",
                messages |-> Unless(form # "plain" \/ r.system = <<>>, <<Message("user", r.system)>>)]
  IN Request(<<>>, FoldLeft(LAMBDA out, m : ended(FoldLeft(take, [out EXCEPT !.parts = <<>>, !.role = role(m)], m.parts)),
                            first, r.messages).messages)

GeminiToolsToClaude(tools) == FunctionTools(tools)

\* Codex: each text is a message of its own; images are not sent.
GeminiAsksCodex(r, form, short) ==
  LET role(m) == IF m.role = "model" THEN "assistant" ELSE m.role
      take(out, p) ==
        CASE p.kind \in {"text", "thought"} ->
               [out EXCEPT !.items = Append(@, Message(out.role, <<[p EXCEPT !.kind = "text"]>>))]
          [] p.kind = "call" ->
               [out EXCEPT !.made = @ + 1, !.pending = Append(@, FreshId(out.made + 1)),
                           !.items = Append(@, Message("call",
                              <<[ShortCall(short, p) EXCEPT !.id = FreshId(out.made + 1)]>>))]
          [] p.kind = "result" ->
               [out EXCEPT !.pending = AfterTaking(@),
                           !.items = Append(@, Message("result", <<[p EXCEPT !.id = TakePending(out), !.name = <<>>]>>))]
          [] OTHER -> out
      first == [made |-> 0, pending |-> <<>>, role |-> "",
                items |-> Unless(form # "plain" \/ r.system = <<>>, <<Message("developer", r.system)>>)]
  IN Request(<<>>, FoldLeft(LAMBDA out, m : FoldLeft(take, [out EXCEPT !.role = role(m)], m.parts), first, r.messages).items)

GeminiToolsToCodex(tools, short) ==
  LET declared == FunctionTools(tools)
  IN [i \in DOMAIN declared |-> [declared[i] EXCEPT !.name = ShortName(short, @)]]
----------------------------------------------------------------------------
(* The Gemini family.                                                      *)

\* A role that is neither the user's nor the model's is the other's than the one before.
NormalRoles(messages) ==
  LET role(before, m) == CASE m.role \in {"user", "model"} -> m.role
                           [] before = "user" -> "model" [] OTHER -> "user"
  IN FoldLeft(LAMBDA out, m :
                Append(out, Message(role(IF out = <<>> THEN "" ELSE Last(out).role, m), m.parts)),
              <<>>, messages)

GeminiAsksGemini(r) == Request(r.system, NormalRoles(r.messages))

\* fixCLIToolResponse: the results are collected; once there are as many as
\* the newest group of calls that can be served needs, they make a content.
\* A content with results is not sent otherwise.
GroupedResults(messages) ==
  LET served(out) == {g \in DOMAIN out.groups : out.groups[g] <= Len(out.collected)}
      serve(out, g) ==
        [messages |-> Append(out.messages, Message("function", SubSeq(out.collected, 1, out.groups[g]))),
         collected |-> SubSeq(out.collected, out.groups[g] + 1, Len(out.collected)),
         groups |-> RemoveAt(out.groups, g)]
      newest(out) == CHOOSE g \in served(out) : \A h \in served(out) : h <= g
      take(out, m) ==
        LET more == [out EXCEPT !.collected = @ \o KeptOf(m.parts, "result")]
            sent == [out EXCEPT !.messages = Append(@, m)]
            calls == Len(KeptOf(m.parts, "call"))
        IN CASE HasKind(m.parts, "result") -> IF served(more) = {} THEN more ELSE serve(more, newest(more))
             [] m.role = "model" /\ calls > 0 -> [sent EXCEPT !.groups = Append(@, calls)]
             [] OTHER -> sent
      atEnd(out, g) == IF out.groups # <<>> /\ Head(out.groups) <= Len(out.collected) THEN serve(out, 1)
                       ELSE [out EXCEPT !.groups = AfterTaking(@)]
      read == FoldLeft(take, [messages |-> <<>>, collected |-> <<>>, groups |-> <<>>], messages)
  IN FoldLeft(atEnd, read, read.groups).messages

GeminiAsksGeminiCLI(r) == Request(r.system, NormalRoles(GroupedResults(r.messages)))
GeminiAsksAntigravity(r) == Request(r.system, NormalRoles(GroupedResults(r.messages)))

\* The choice, where it is passed on; Claude is asked in snake case.
GeminiChoiceToOpenAI(choice) ==
  CASE choice = "NONE" -> "none" [] choice = "AUTO" -> "auto" [] choice = "ANY" -> "required" [] OTHER -> ""
GeminiChoiceToClaude(choice, form) ==
  IF form # "plain" THEN ""
  ELSE CASE choice = "NONE" -> "none" [] choice = "AUTO" -> "auto" [] choice = "ANY" -> "any" [] OTHER -> ""
=============================================================================
