---------------------------- MODULE Conversations ----------------------------
(***************************************************************************)
(* A conversation of a client with a model, and the requests that carry it *)
(* in the formats the proxy speaks.  A conversation is a sequence of turns: *)
(* the system's, the user's, the model's, and the tools' with the results  *)
(* of the calls the model made.  What is said is numbered, so that a part  *)
(* that is lost, repeated, moved or given to another shows.                *)
(*                                                                         *)
(* A request is the instructions, where the format keeps them apart, and   *)
(* messages.  A part is a text, an image, a thought (of which the proxy    *)
(* knows the signature, or not: "unsigned"), a call of a tool or a call's  *)
(* result.  A call and its result carry an id, a name or both; ids and     *)
(* names are sequences of segments, as they are strings with separators.   *)
(***************************************************************************)
EXTENDS Integers, Sequences, SequencesExt, FiniteSets, TLC

Part(kind, n, id, name) == [kind |-> kind, n |-> n, id |-> id, name |-> name]
Message(role, ps) == [role |-> role, parts |-> ps]
Request(system, messages) == [system |-> system, messages |-> messages]

Kept(ps, kinds) == SelectSeq(ps, LAMBDA p : p.kind \in kinds)
KeptOf(ps, kind) == Kept(ps, {kind})
HasKind(ps, kind) == KeptOf(ps, kind) # <<>>
Unnamed(ps) == [i \in DOMAIN ps |-> [ps[i] EXCEPT !.name = <<>>]]
WithoutId(ps) == [i \in DOMAIN ps |-> [ps[i] EXCEPT !.id = <<>>]]
Single(role, ps) == [i \in DOMAIN ps |-> Message(role, <<ps[i]>>)]
Unless(skip, messages) == IF skip THEN <<>> ELSE messages
Texts == {"text", "image"}
----------------------------------------------------------------------------
(* How a client of each format writes a conversation.  form is which of    *)
(* two usual ways it has: chat has a "system" or a "developer" message;    *)
(* Claude's system is a list of blocks or a string; Gemini's fields are in *)
(* snake case, with results of the user, or in camel case, with results of *)
(* "function"; Responses has instructions or a system item.                *)

ChatWrites(turn, form) ==
  CASE turn.by = "system" -> <<Message(IF form = "plain" THEN "system" ELSE "developer", turn.parts)>>
    [] turn.by = "user" -> <<Message("user", turn.parts)>>
    [] turn.by = "model" ->
         <<Message("assistant", Kept(turn.parts, {"thought"}) \o Kept(turn.parts, Texts)
                                  \o KeptOf(turn.parts, "call"))>>
    [] turn.by = "tools" ->
         Single("tool", Unnamed(KeptOf(turn.parts, "result")))
           \o Unless(~HasKind(turn.parts, "text"), <<Message("user", KeptOf(turn.parts, "text"))>>)

ClaudeWrites(turn) ==
  CASE turn.by = "system" -> <<>>
    [] turn.by = "model" -> <<Message("assistant", turn.parts)>>
    [] OTHER -> <<Message("user", Unnamed(KeptOf(turn.parts, "result")) \o Kept(turn.parts, Texts))>>

GeminiWrites(turn, form) ==
  CASE turn.by = "system" -> <<>>
    [] turn.by = "model" -> <<Message("model", WithoutId(turn.parts))>>
    [] turn.by = "user" -> <<Message("user", turn.parts)>>
    [] turn.by = "tools" -> <<Message(IF form = "plain" THEN "user" ELSE "function", WithoutId(turn.parts))>>

\* An item for each part of the model's and of the tools'.
ItemRole(part) ==
  CASE part.kind = "call" -> "call" [] part.kind = "result" -> "result"
    [] part.kind = "thought" -> "reasoning" [] OTHER -> "assistant"
ResponsesWrites(turn, form) ==
  CASE turn.by = "system" -> Unless(form = "plain", <<Message("system", turn.parts)>>)
    [] turn.by = "user" -> <<Message("user", turn.parts)>>
    [] turn.by = "model" -> [i \in DOMAIN turn.parts |-> Message(ItemRole(turn.parts[i]), <<turn.parts[i]>>)]
    [] turn.by = "tools" ->
         Single("result", Unnamed(KeptOf(turn.parts, "result")))
           \o Unless(~HasKind(turn.parts, "text"), <<Message("user", KeptOf(turn.parts, "text"))>>)

SaidBySystem(turns) == FlattenSeq([i \in DOMAIN turns |-> IF turns[i].by = "system" THEN turns[i].parts ELSE <<>>])

Written(client, form, turns) ==
  Request(IF client \in {"claude", "gemini"} \/ (client = "responses" /\ form = "plain")
          THEN SaidBySystem(turns) ELSE <<>>,
          FlattenSeq([i \in DOMAIN turns |->
            CASE client = "chat" -> ChatWrites(turns[i], form)
              [] client = "claude" -> ClaudeWrites(turns[i])
              [] client = "gemini" -> GeminiWrites(turns[i], form)
              [] client = "responses" -> ResponsesWrites(turns[i], form)]))
----------------------------------------------------------------------------
(* What a provider makes of a request: the parts in order, each with who   *)
(* said it; a result with the call it takes it to be of.  Claude's, Codex's *)
(* and OpenAI's go by the id; Gemini's by the name, and by the id if given, *)
(* among the calls right before the results.                               *)

Speaker(role) ==
  CASE role \in {"assistant", "model", "call", "reasoning"} -> "model"
    [] role \in {"system", "developer"} -> "system"
    [] OTHER -> "user"

\* Messages of one side in a row are one to Gemini.
MergedSides(messages) ==
  FoldLeft(LAMBDA out, m :
             IF out # <<>> /\ (Speaker(Last(out).role) = "model") = (Speaker(m.role) = "model")
             THEN [out EXCEPT ![Len(out)].parts = @ \o m.parts]
             ELSE Append(out, m),
           <<>>, messages)

\* The request's parts in order, with the message they are in.
Placed(messages) ==
  FlattenSeq([m \in DOMAIN messages |->
    [i \in DOMAIN messages[m].parts |-> [at |-> m, part |-> messages[m].parts[i]]]])

CallsIn(placed) == {k \in DOMAIN placed : placed[k].part.kind = "call"}

\* The position of the call the k-th part, a result, is taken to be of; 0 for none.
TakenById(placed, k) ==
  LET calls == {c \in CallsIn(placed) : c < k /\ placed[c].part.id = placed[k].part.id}
  IN IF calls = {} THEN 0 ELSE CHOOSE c \in calls : \A d \in calls : d <= c

TakenByName(placed, k) ==
  LET r == placed[k].part
      before == {c \in CallsIn(placed) : c < k}
      group == {c \in before : \A d \in before : placed[d].at <= placed[c].at}
      named == {c \in group : placed[c].part.name = r.name /\ (r.id # <<>> => placed[c].part.id = r.id)}
      earlier == {j \in DOMAIN placed : /\ j < k /\ placed[j].at = placed[k].at
                                        /\ placed[j].part.kind = "result" /\ placed[j].part.name = r.name}
      rank(c) == Cardinality({d \in named : d < c})
  IN IF r.id # <<>>
     THEN IF named = {} THEN 0 ELSE CHOOSE c \in named : TRUE
     ELSE IF \E c \in named : rank(c) = Cardinality(earlier)
     THEN CHOOSE c \in named : rank(c) = Cardinality(earlier)
     ELSE 0

Heard(provider, request) ==
  LET byName == provider \in {"gemini", "cli", "antigravity"}
      messages == <<Message("system", request.system)>>
                    \o (IF byName THEN MergedSides(request.messages) ELSE request.messages)
      placed == Placed(messages)
      taken(k) == IF byName THEN TakenByName(placed, k) ELSE TakenById(placed, k)
      call(k) == IF placed[k].part.kind # "result" \/ taken(k) = 0 THEN 0 ELSE placed[taken(k)].part.n
  IN [k \in DOMAIN placed |->
       LET p == placed[k].part
       IN [by |-> IF p.kind = "result" THEN "tools" ELSE Speaker(messages[placed[k].at].role),
           kind |-> p.kind, n |-> p.n, name |-> IF p.kind = "call" THEN p.name ELSE <<>>, of |-> call(k)]]
=============================================================================
