-------------------------- MODULE RequestTranslation --------------------------
(***************************************************************************)
(* A client of one format in conversation with a model of another: every   *)
(* time the client asks, it sends the whole conversation and the proxy     *)
(* converts it for the provider.                                           *)
(*                                                                         *)
(* The conversation may be whatever the client's format allows.  Where a   *)
(* converter is known to lose or to garble a part, Missed and Mistaken say *)
(* so; the README lists them.                                              *)
(***************************************************************************)
EXTENDS ClaudeRequests, ResponsesRequests

CONSTANT TurnLimit     \* bound: turns of a conversation

ASSUME TurnLimitAssumption == TurnLimit \in Nat

Ways == {<<"chat", p>> : p \in {"claude", "gemini", "cli", "antigravity", "codex"}}
          \cup {<<"claude", p>> : p \in {"codex", "gemini", "cli", "antigravity", "openai"}}
          \cup {<<"gemini", p>> : p \in {"openai", "claude", "codex", "antigravity", "cli", "gemini"}}
          \cup {<<"responses", p>> : p \in {"claude", "gemini", "cli", "antigravity", "openai", "codex"}}

VARIABLES
  way,        \* <<client's format, provider's>>
  form,       \* how the client writes it: "plain" or "other"
  origin,     \* whether the model answered through this proxy, which shows in its calls' ids
  turns,      \* the conversation
  uttered,    \* parts numbered so far
  asked       \* the request the provider was sent last

requestVars == <<way, form, origin, turns, uttered, asked>>

Client == way[1]
Provider == way[2]
GeminiFamily == {"gemini", "cli", "antigravity"}

\* The client's tools: two have a long name and differ in their server alone.
DeclaredTools == <<Tool("function", <<"read">>), Tool("function", <<"mcp", "a", "run">>),
                   Tool("function", <<"mcp", "b", "run">>), Tool("web_search", <<>>)>>
Short == BuildShortNameMap(NamesOf(FunctionTools(DeclaredTools)))

Convert(r) ==
  CASE way = <<"chat", "claude">> -> ChatAsksClaude(r)
    [] way = <<"chat", "gemini">> -> ChatAsksGemini(r)
    [] way = <<"chat", "cli">> -> ChatAsksGeminiCLI(r)
    [] way = <<"chat", "antigravity">> -> ChatAsksAntigravity(r)
    [] way = <<"chat", "codex">> -> ChatAsksCodex(r, Short)
    [] way = <<"claude", "codex">> -> ClaudeAsksCodex(r, form, Short)
    [] way = <<"claude", "gemini">> -> ClaudeAsksGemini(r)
    [] way = <<"claude", "cli">> -> ClaudeAsksGeminiCLI(r)
    [] way = <<"claude", "antigravity">> -> ClaudeAsksAntigravity(r)
    [] way = <<"claude", "openai">> -> ClaudeAsksOpenAI(r)
    [] way = <<"gemini", "openai">> -> GeminiAsksOpenAI(r, form)
    [] way = <<"gemini", "claude">> -> GeminiAsksClaude(r, form)
    [] way = <<"gemini", "codex">> -> GeminiAsksCodex(r, form, Short)
    [] way = <<"gemini", "antigravity">> -> GeminiAsksAntigravity(r)
    [] way = <<"gemini", "cli">> -> GeminiAsksGeminiCLI(r)
    [] way = <<"gemini", "gemini">> -> GeminiAsksGemini(r)
    [] way = <<"responses", "claude">> -> ResponsesAsksClaude(r)
    [] way = <<"responses", "gemini">> -> ResponsesAsksGemini(r)
    [] way = <<"responses", "cli">> -> ResponsesAsksGeminiCLI(r)
    [] way = <<"responses", "antigravity">> -> ResponsesAsksAntigravity(r)
    [] way = <<"responses", "openai">> -> ResponsesAsksOpenAI(r)
    [] way = <<"responses", "codex">> -> ResponsesAsksCodex(r)
----------------------------------------------------------------------------
(* What is said.                                                           *)

\* An id made by this proxy's converter of the answer has the name in it.
MadeId(name, n) ==
  IF Client = "claude" /\ Provider \in GeminiFamily /\ origin = "own"
  THEN name \o <<"time", ToString(n)>> ELSE <<ToString(n)>>

\* Turns with parts of the kinds; the c-th call of the model is of the c-th name.
Utter(by, kinds, names) ==
  LET name(i) == names[Len(SelectSeq(SubSeq(kinds, 1, i), LAMBDA k : k = "call"))]
  IN [by |-> by, parts |-> [i \in DOMAIN kinds |->
        IF kinds[i] = "call" THEN Part("call", uttered + i, MadeId(name(i), uttered + i), name(i))
        ELSE Part(kinds[i], uttered + i, <<>>, <<>>)]]

LastTurn == IF turns = <<>> THEN [by |-> "", parts |-> <<>>] ELSE Last(turns)
Pending == KeptOf(LastTurn.parts, "call")
ModelTurns == Cardinality({i \in DOMAIN turns : turns[i].by = "model"})

ThoughtKinds == CASE Client = "claude" -> {"thought", "unsigned"} [] OTHER -> {"thought"}
KindsOfModel ==
  IF ModelTurns = 0
  THEN {<<"text">>, <<"call">>, <<"text", "call">>, <<"call", "call">>, <<"call", "text">>, <<"call", "text", "call">>}
         \cup {<<t, "call", "call">> : t \in ThoughtKinds} \cup {<<"text", t, "call">> : t \in ThoughtKinds}
         \cup {<<s, t>> : s, t \in ThoughtKinds}
  ELSE {<<"text">>, <<"call">>}

\* Two calls are of one tool, or of the two that look alike when shortened.
NameLists == {<<<<"read">>, <<"read">>>>, <<<<"mcp", "a", "run">>, <<"mcp", "b", "run">>>>}

Orders(calls) == {[i \in DOMAIN calls |-> calls[s[i]]] : s \in SetToSeqs(DOMAIN calls)}

\* A client of Gemini's tells results of one name apart by their order alone.
MayAnswer(order) ==
  Client = "gemini" => \A i, j \in DOMAIN order : i < j /\ order[i].name = order[j].name => order[i].n < order[j].n

ResultOf(call, i) == Part("result", uttered + i, call.id, call.name)
----------------------------------------------------------------------------
RequestInit ==
  /\ way \in Ways
  /\ form \in {"plain", "other"}
  /\ origin \in (IF Client = "claude" /\ Provider \in GeminiFamily THEN {"own", "other"} ELSE {"own"})
  /\ turns = <<>> /\ uttered = 0
  /\ asked = Request(<<>>, <<>>)

\* The client writes down what was said and, unless the model said it, asks.
Add(turn) ==
  /\ turns' = Append(turns, turn)
  /\ uttered' = uttered + Len(turn.parts)
  /\ UNCHANGED <<way, form, origin>>

Ask(turn) == Add(turn) /\ asked' = Convert(Written(Client, form, Append(turns, turn)))

Instruct ==
  /\ turns = <<>> /\ TurnLimit > 0
  /\ Add(Utter("system", <<"text">>, <<>>))
  /\ UNCHANGED asked

UserSpeaks ==
  /\ Len(turns) < TurnLimit
  /\ LastTurn.by \in {"", "system", "model"} /\ Pending = <<>>
  /\ \E kinds \in {<<"text">>} \cup (IF ModelTurns = 0 THEN {<<"image", "text">>} ELSE {}) :
       Ask(Utter("user", kinds, <<>>))

ModelSpeaks ==
  /\ Len(turns) < TurnLimit
  /\ LastTurn.by \in {"user", "tools"}
  /\ \E kinds \in KindsOfModel, names \in NameLists : Add(Utter("model", kinds, names))
  /\ UNCHANGED asked

ToolsAnswer ==
  /\ Len(turns) < TurnLimit
  /\ Pending # <<>>
  /\ \E order \in Orders(Pending), more \in (IF ModelTurns = 1 THEN BOOLEAN ELSE {FALSE}) :
       /\ MayAnswer(order)
       /\ Ask([by |-> "tools",
               parts |-> [i \in DOMAIN order |-> ResultOf(order[i], i)]
                           \o (IF more THEN <<Part("text", uttered + Len(order) + 1, <<>>, <<>>)>> ELSE <<>>)])

RequestNext == Instruct \/ UserSpeaks \/ ModelSpeaks \/ ToolsAnswer
RequestSpec == RequestInit /\ [][RequestNext]_requestVars
----------------------------------------------------------------------------
(* What the provider should hear.                                          *)

\* Not sent by this way, which the README lists: image and thought by the
\* kind; instructions, and text beside results, by the form.
Missed(by, kind) ==
  \/ kind = "image" /\ \/ way \in {<<"claude", "gemini">>, <<"claude", "cli">>, <<"gemini", "codex">>,
                                   <<"responses", "openai">>}
                       \/ way = <<"gemini", "claude">> /\ form # "plain"
                       \/ way = <<"gemini", "openai">> /\ form = "plain"
  \/ kind = "thought" /\ way \notin {<<"claude", "antigravity">>, <<"claude", "openai">>}
                      /\ Client \notin {"gemini"} /\ ~(Client = "responses" /\ Provider \in GeminiFamily \cup {"codex"})
  \/ kind = "unsigned" /\ Provider # "openai"
  \/ by = "system" /\ form # "plain"
       /\ way \in {<<"chat", "claude">>, <<"claude", "codex">>, <<"gemini", "claude">>, <<"gemini", "codex">>}
  \/ by = "tools" /\ kind = "text" /\ way \in {<<"gemini", "antigravity">>, <<"gemini", "cli">>}

TurnOf(n) == CHOOSE i \in DOMAIN turns : \E k \in DOMAIN turns[i].parts : turns[i].parts[k].n = n
CallOf(result) ==
  LET all == FlattenSeq([i \in DOMAIN turns |-> KeptOf(turns[i].parts, "call")])
  IN Head(SelectSeq(all, LAMBDA c : c.id = result.id)).n

\* Responses' calls with something between them are not paired with their
\* results, and the second content of results in a row becomes the model's.
RoleLost ==
  /\ way \in {<<"responses", "cli">>, <<"responses", "antigravity">>}
  /\ \E i \in DOMAIN turns : \E a, b, c \in DOMAIN turns[i].parts :
       a < b /\ b < c /\ turns[i].parts[a].kind = "call" /\ turns[i].parts[b].kind # "call"
         /\ turns[i].parts[c].kind = "call"

\* The turn's results may be taken to be of another call, or of none.
Mistaken(turn) ==
  LET results == KeptOf(turn.parts, "result")
      inOrder == \A i, j \in DOMAIN results : i < j => CallOf(results[i]) < CallOf(results[j])
  IN \/ way \in {<<"claude", "gemini">>, <<"claude", "cli">>}
     \/ way = <<"claude", "antigravity">> /\ origin = "other"
     \/ way = <<"gemini", "openai">> /\ Len(results) > 1
     \/ RoleLost
     \/ way \in {<<"gemini", "claude">>, <<"gemini", "codex">>} /\ ~inOrder

\* What the provider should hear of a part.
Meant(by, p) ==
  [by |-> CASE by = "tools" /\ p.kind = "text" -> "user"
            [] by = "system" /\ Provider = "claude" -> "user"
            [] OTHER -> by,
   kind |-> IF Client = "gemini" /\ p.kind = "thought" /\ Provider \notin GeminiFamily THEN "text" ELSE p.kind,
   n |-> p.n,
   name |-> CASE p.kind # "call" -> <<>>
              [] Provider = "codex" /\ Client # "responses" -> ShortName(Short, p.name)
              [] OTHER -> p.name]

Expected ==
  FlattenSeq([i \in DOMAIN turns |->
    LET sent == SelectSeq(turns[i].parts, LAMBDA p : ~Missed(turns[i].by, p.kind))
    IN [k \in DOMAIN sent |-> Meant(turns[i].by, sent[k])]])

JustAsked == LastTurn.by \in {"user", "tools"}
Without(h) == [by |-> h.by, kind |-> h.kind, n |-> h.n, name |-> h.name]

\* Every part the way carries is heard once, from the one who said it, and
\* nothing else is.
PartsArrive(heard) ==
  LET expected == Expected
  IN Len(heard) = Len(expected) /\ {Without(h) : h \in ToSet(heard)} = ToSet(expected)

\* A result is taken to be the result of the call it answers.
ResultsMatched(heard) ==
  \A h \in ToSet(heard) :
    LET turn == turns[TurnOf(h.n)]
        result == Head(SelectSeq(turn.parts, LAMBDA p : p.n = h.n))
    IN h.kind = "result" => Mistaken(turn) \/ h.of = CallOf(result)

\* Turns are heard in their order, but for a result moved to right behind its
\* call; what is of one kind in a turn keeps its order.
OrderKept(heard) ==
  \A i, j \in DOMAIN heard :
    i < j =>
      LET a == heard[i]
          b == heard[j]
      IN /\ \/ TurnOf(a.n) <= TurnOf(b.n)
            \/ a.kind = "result" /\ b.kind = "call" /\ TurnOf(a.n) = TurnOf(b.n) + 1
         /\ TurnOf(a.n) = TurnOf(b.n) /\ a.kind = b.kind /\ a.kind # "result" => a.n < b.n

\* OpenAI refuses calls whose results do not follow the message they are in,
\* Gemini a turn of the model's with calls without the turn with their results.
\* Calls that Responses has as items of their own are messages of their own
\* at OpenAI; there and where the ids are made up they may lack their results.
ResultsFollowCalls ==
  LET messages == IF Provider = "openai" THEN asked.messages ELSE MergedSides(asked.messages)
      following(m) == SubSeq(messages, m + 1, Len(messages))
      answers(m, c) == \E k \in DOMAIN following(m) :
                         /\ \A l \in 1..k : following(m)[l].role = "tool"
                         /\ following(m)[k].parts[1].id = c.id
      apart == {m \in DOMAIN messages : HasKind(messages[m].parts, "call")}
  IN \A m \in apart :
       LET calls == KeptOf(messages[m].parts, "call")
       IN CASE Provider = "openai" ->
                 \/ \A c \in ToSet(calls) : answers(m, c)
                 \/ way = <<"responses", "openai">> /\ \E c \in ToSet(calls) : Len(turns[TurnOf(c.n)].parts) > 1
                 \/ way = <<"gemini", "openai">> /\ Len(calls) > 1
            [] Provider \in GeminiFamily ->
                 \/ m < Len(messages) /\ Len(KeptOf(messages[m + 1].parts, "result")) = Len(calls)
                 \/ RoleLost
            [] OTHER -> TRUE
----------------------------------------------------------------------------
(* The tools a request declares, and which of them the model may call.     *)

SentTools ==
  CASE way = <<"chat", "claude">> -> ChatToolsToClaude(DeclaredTools)
    [] way = <<"chat", "gemini">> -> ChatToolsToGemini(DeclaredTools)
    [] way = <<"chat", "cli">> -> ChatToolsToGeminiCLI(DeclaredTools)
    [] way = <<"chat", "antigravity">> -> ChatToolsToAntigravity(DeclaredTools)
    [] way = <<"chat", "codex">> -> ChatToolsToCodex(DeclaredTools, Short)
    [] way = <<"claude", "codex">> -> ClaudeToolsToCodex(DeclaredTools, Short)
    [] way = <<"claude", "gemini">> -> ClaudeToolsToGemini(DeclaredTools)
    [] way = <<"claude", "cli">> -> ClaudeToolsToGeminiCLI(DeclaredTools)
    [] way = <<"claude", "antigravity">> -> ClaudeToolsToAntigravity(DeclaredTools)
    [] way = <<"claude", "openai">> -> ClaudeToolsToOpenAI(DeclaredTools)
    [] way = <<"gemini", "openai">> -> GeminiToolsToOpenAI(DeclaredTools)
    [] way = <<"gemini", "claude">> -> GeminiToolsToClaude(DeclaredTools)
    [] way = <<"gemini", "codex">> -> GeminiToolsToCodex(DeclaredTools, Short)
    [] way = <<"responses", "claude">> -> ResponsesToolsToClaude(DeclaredTools)
    [] way = <<"responses", "openai">> -> ResponsesToolsToOpenAI(DeclaredTools)
    [] way \in {<<"responses", "gemini">>, <<"responses", "cli">>, <<"responses", "antigravity">>} ->
         ResponsesToolsToGemini(DeclaredTools)
    [] OTHER -> DeclaredTools

ClientChoices == CASE Client \in {"chat", "responses"} -> {"auto", "required", "none", "named"}
             [] Client = "claude" -> {"auto", "any", "none", "named"}
             [] Client = "gemini" -> {"AUTO", "ANY", "NONE"}

SentChoice(choice) ==
  CASE way = <<"chat", "claude">> -> ChatChoiceToClaude(choice)
    [] way = <<"chat", "codex">> -> ChatChoiceToCodex(choice)
    [] way = <<"claude", "codex">> -> ClaudeChoiceToCodex(DeclaredTools)
    [] way = <<"claude", "openai">> -> ClaudeChoiceToOpenAI(choice)
    [] way = <<"gemini", "openai">> -> GeminiChoiceToOpenAI(choice)
    [] way = <<"gemini", "claude">> -> GeminiChoiceToClaude(choice, form)
    [] way = <<"responses", "claude">> -> ResponsesChoiceToClaude(choice)
    [] way = <<"responses", "openai">> -> ResponsesChoiceToOpenAI(choice)
    [] way = <<"responses", "codex">> \/ (Client = "gemini" /\ Provider \in GeminiFamily) -> choice
    [] OTHER -> ""

Meaning(choice) ==
  CASE choice \in {"auto", "AUTO"} -> "may" [] choice \in {"required", "any", "ANY"} -> "must"
    [] choice \in {"none", "NONE"} -> "may not" [] OTHER -> choice

\* The model can call each function the client declared, by a name that is
\* its alone and that the answer's converter turns back; a call of an earlier
\* turn is of a tool by the name it is declared by.
NamesTold ==
  LET names == NamesOf(FunctionTools(SentTools))
      own == FunctionTools(DeclaredTools)
      told(i) == IF Provider = "codex" /\ Client # "responses" THEN OriginalName(Short, names[i]) ELSE names[i]
  IN /\ \A i \in DOMAIN own : i \in DOMAIN names /\ told(i) = own[i].name
     /\ \A i \in DOMAIN own, j \in DOMAIN own : names[i] = names[j] => i = j
     /\ \A m \in DOMAIN asked.messages : \A p \in ToSet(asked.messages[m].parts) :
          p.kind = "call" => p.name \in ToSet(names)

\* The client's choice is passed on or left out, and never turned into another;
\* but for those the README lists.
ChoiceTold ==
  \A choice \in ClientChoices :
    \/ SentChoice(choice) = ""
    \/ Meaning(SentChoice(choice)) = Meaning(choice)
    \/ way = <<"claude", "codex">>
    \/ way = <<"claude", "openai">> /\ choice = "none"
    \/ Client = "responses" /\ choice = "named"

RequestTypeOK ==
  /\ way \in Ways /\ form \in {"plain", "other"} /\ origin \in {"own", "other"}
  /\ Len(turns) <= TurnLimit /\ uttered \in Nat
  /\ \A i \in DOMAIN turns : turns[i].by \in {"system", "user", "model", "tools"}

\* What a client says in a conversation arrives at the provider: each part
\* once and from the one who said it, each result as the result of its call,
\* in order, in a shape the provider takes, and with the tools' names agreeing.
RequestsArrive ==
  JustAsked =>
    LET heard == Heard(Provider, asked)
    IN /\ PartsArrive(heard) /\ ResultsMatched(heard) /\ OrderKept(heard)
       /\ ResultsFollowCalls /\ NamesTold /\ ChoiceTold
=============================================================================
