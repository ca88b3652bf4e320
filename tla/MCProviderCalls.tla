--------------------------- MODULE MCProviderCalls ---------------------------
(* What happens to one request between the client and an upstream: its      *)
(* translation, the call of the executor, the translation of the answer,    *)
(* the passing on of a stream to the client, and the carrying over of how   *)
(* much the model shall think.  They share no state, so a behaviour has one *)
(* of them step and keeps the others in an initial state.                   *)
EXTENDS ProviderCalls, ResponseStream, StreamTranslation, RequestTranslation, ThinkingSettings

\* The kinds of models in the registry's tables (model_definitions_static_data.go).
UnknownModel ==
  [known |-> FALSE, thinks |-> FALSE, levels |-> {}, lowest |-> "unset", min |-> 0, max |-> 0,
   zero |-> FALSE, dynamic |-> FALSE, cap |-> 0, family |-> "other"]
KnownModel == [UnknownModel EXCEPT !.known = TRUE]
WithBudgets(least, most) ==
  [KnownModel EXCEPT !.thinks = TRUE, !.min = least, !.max = most, !.cap = 64000]
WithLevels(words, word) == [KnownModel EXCEPT !.thinks = TRUE, !.levels = words, !.lowest = word]

GeminiModels ==
  {[WithBudgets(0, 24576) EXCEPT !.zero = TRUE, !.dynamic = TRUE],      \* gemini-2.5-flash
   [WithBudgets(128, 32768) EXCEPT !.dynamic = TRUE],                   \* gemini-2.5-pro
   [WithBudgets(128, 32768) EXCEPT !.dynamic = TRUE,                    \* gemini-3-pro-preview
      !.levels = {"low", "high"}, !.lowest = "low"]}
ClaudeModels ==
  {[WithBudgets(1024, 128000) EXCEPT !.zero = TRUE, !.family = "claude"],  \* claude-sonnet-4-5
   [WithBudgets(1024, 128000) EXCEPT !.cap = 8192, !.family = "claude"],   \* claude-3-7-sonnet
   [WithBudgets(1024, 128000) EXCEPT !.zero = TRUE, !.dynamic = TRUE,      \* antigravity's
      !.family = "claude"]}
GPTModels ==
  {WithLevels({"low", "medium", "high"}, "low"),                           \* gpt-5-codex
   WithLevels({"none", "low", "medium", "high"}, "none"),                  \* gpt-5.1
   WithLevels({"low", "high"}, "low")}          \* level-subset-model of the conversion test
IFlowModels == {[WithLevels({"none", "auto"} \cup Standard, "none") EXCEPT !.family = "glm"]}
OtherModels == {UnknownModel, [KnownModel EXCEPT !.cap = 8192]}            \* claude-3-5-haiku

\* Every kind of model at every upstream.
ModelTable ==
  [to : Targets, model : GeminiModels \cup ClaudeModels \cup GPTModels \cup IFlowModels
                         \cup OtherModels]

SuffixTable ==
  {NoSuffix} \cup {[has |-> TRUE, word |-> w, number |-> 0] :
                      w \in {"none", "auto", "high", "xhigh", "other"}}
             \cup {[has |-> TRUE, word |-> "unset", number |-> n] : n \in {0, 500, 200000}}
BudgetTable == {-5, -1, 0, 500, 8192, 200000}
RoomTable == {0, 1, 1000, 64000}

VARIABLE focus

\* A request that asks for nothing, for the behaviours about something else.
ThinkingIdle ==
  /\ ask = [from |-> "openai", upstream |-> [to |-> "openai", model |-> UnknownModel],
            suffix |-> NoSuffix, forced |-> FALSE, body |-> Empty]
  /\ carried = Empty /\ phase = "sent"

ProviderInit ==
  /\ focus \in {"request", "call", "translation", "stream", "thinking"}
  /\ RequestInit /\ (focus # "request" => way = <<"chat", "claude">> /\ form = "plain")
  /\ CallInit /\ (focus # "call" => habit = GeminiExecute)
  /\ TranslationInit /\ (focus # "translation" => route = <<"gemini", "claude">>)
  /\ StreamInit /\ (focus # "stream" => server.first = "peek")
  /\ IF focus = "thinking" THEN ThinkingInit ELSE ThinkingIdle

ProviderNext ==
  /\ UNCHANGED focus
  /\ \/ /\ focus = "request" /\ RequestNext
        /\ UNCHANGED <<callVars, translationVars, streamVars, thinkVars>>
     \/ /\ focus = "call" /\ CallNext
        /\ UNCHANGED <<requestVars, translationVars, streamVars, thinkVars>>
     \/ /\ focus = "translation" /\ TranslationNext
        /\ UNCHANGED <<requestVars, callVars, streamVars, thinkVars>>
     \/ /\ focus = "stream" /\ StreamNext
        /\ UNCHANGED <<requestVars, callVars, translationVars, thinkVars>>
     \/ /\ focus = "thinking" /\ ThinkingNext
        /\ UNCHANGED <<requestVars, callVars, translationVars, streamVars>>

ProviderSpec ==
  /\ ProviderInit
  /\ [][ProviderNext]_<<focus, requestVars, callVars, translationVars, streamVars, thinkVars>>
  /\ CallFairness /\ StreamFairness

\* Each component's variables have their types.
ProviderTypeOK == RequestTypeOK /\ CallTypeOK /\ TranslationTypeOK /\ StreamTypeOK
                  /\ ThinkingTypeOK

\* A call of an executor comes to its end, and so do the goroutines that
\* pass a stream on, whatever the upstream and the client do.
RequestsEnd == CallEnds /\ StreamsEnd
=============================================================================
