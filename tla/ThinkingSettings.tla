-------------------------- MODULE ThinkingSettings --------------------------
(***************************************************************************)
(* How much a model is asked to think: internal/thinking, and the lines of *)
(* the request translators that carry the client's setting over.           *)
(*                                                                         *)
(* A client states a setting in the body of its request, in the way of its *)
(* format, or as a suffix of the model's name, which takes precedence.     *)
(* The translator writes the body's setting in the way of the upstream's   *)
(* format, ApplyThinking reads it back, brings it into the range of the    *)
(* model and writes it again, and the executor of Claude takes it out when *)
(* the request forces the use of a tool.                                   *)
(*                                                                         *)
(* A body keeps only the fields that state a setting, one record for every *)
(* format:                                                                 *)
(*   type      thinking.type                                       Claude  *)
(*   budget    thinking.budget_tokens, thinkingBudget      Claude, Gemini  *)
(*   level     thinkingLevel, reasoning_effort,                            *)
(*             reasoning.effort                            Gemini, OpenAI  *)
(*   thoughts  includeThoughts                                     Gemini  *)
(*   switch    enable_thinking, reasoning_split                    iFlow   *)
(*   max       max_tokens, maxOutputTokens; 0: absent                      *)
(***************************************************************************)
EXTENDS Integers

CONSTANTS Upstreams,     \* a model at an upstream: [to |-> format, model |-> model]
          ModelSuffixes, \* the suffixes of model names, NoSuffix among them
          Budgets,       \* the budgets clients state
          Rooms          \* the limits of the answer clients state, 0: none

-----------------------------------------------------------------------------
Absent == -100   \* the budget of a body that states none

Order == <<"minimal", "low", "medium", "high", "xhigh">>
Standard == {"minimal", "low", "medium", "high", "xhigh"}
Words == Standard \cup {"none", "auto", "other"}   \* other: a word of the client's own
LevelRank == [w \in Standard |-> CHOOSE i \in 1..5 : Order[i] = w]

Geminis == {"gemini", "gemini-cli", "antigravity"}
BudgetBased == Geminis \cup {"claude"}
LevelBased == {"openai", "openai-response", "codex"}
Targets == Geminis \cup {"claude", "openai", "codex", "iflow"}

SameFamily(from, to) == from = to \/ {from, to} \subseteq Geminis

LevelToBudget ==
  [w \in {"none", "auto"} \cup Standard |->
     CASE w = "none" -> 0       [] w = "auto" -> -1
       [] w = "minimal" -> 512  [] w = "low" -> 1024   [] w = "medium" -> 8192
       [] w = "high" -> 24576   [] w = "xhigh" -> 32768]

\* The level nearest to a budget, none for a budget below -1.
BudgetToLevel(b) ==
  CASE b < -1 -> "unset"
    [] b = -1 -> "auto"
    [] b = 0 -> "none"
    [] 0 < b /\ b <= 512 -> "minimal"
    [] 512 < b /\ b <= 1024 -> "low"
    [] 1024 < b /\ b <= 8192 -> "medium"
    [] 8192 < b /\ b <= 24576 -> "high"
    [] b > 24576 -> "xhigh"

-----------------------------------------------------------------------------
(* Settings, and reading them *)

Setting(mode, budget, level) == [mode |-> mode, budget |-> budget, level |-> level]
NoSetting == Setting("budget", 0, "unset")
Off == Setting("none", 0, "unset")
Automatic == Setting("auto", -1, "unset")
AtLevel(word) == Setting("level", 0, word)
AtBudget(b) == CASE b = 0 -> Off [] b = -1 -> Automatic [] OTHER -> Setting("budget", b, "unset")

\* A suffix: none, a word, or a number, never both; "other" stands for one
\* that is neither a level nor a number.
Suffix == {s \in [has : BOOLEAN, word : Words \cup {"unset"}, number : Int] :
             s.word # "unset" => s.number = 0}
NoSuffix == [has |-> FALSE, word |-> "unset", number |-> 0]

FromSuffix(s) ==
  CASE s.word = "none" -> Off
    [] s.word = "auto" -> Automatic
    [] s.word \in Standard -> AtLevel(s.word)
    [] s.word = "unset" /\ s.number > 0 -> Setting("budget", s.number, "unset")
    [] s.word = "unset" /\ s.number = 0 -> Off
    [] OTHER -> NoSetting

FromClaude(body) ==
  CASE body.type = "disabled" -> Off
    [] body.type # "disabled" /\ body.budget # Absent -> AtBudget(body.budget)
    [] body.type = "enabled" /\ body.budget = Absent -> Automatic
    [] OTHER -> NoSetting

FromGemini(body) ==
  CASE body.level = "none" -> Off
    [] body.level = "auto" -> Automatic
    [] body.level \notin {"none", "auto", "unset"} -> AtLevel(body.level)
    [] body.level = "unset" /\ body.budget # Absent -> AtBudget(body.budget)
    [] OTHER -> NoSetting

FromEffort(body) ==
  CASE body.level = "none" -> Off
    [] body.level \notin {"none", "unset"} -> AtLevel(body.level)
    [] OTHER -> NoSetting

FromBody(body, to) ==
  CASE to = "claude" -> FromClaude(body)
    [] to \in Geminis -> FromGemini(body)
    [] to \in {"openai", "codex"} -> FromEffort(body)
    [] to = "iflow" /\ body.switch = "on" -> Setting("budget", 1, "unset")
    [] to = "iflow" /\ body.switch = "off" -> Off
    [] to = "iflow" /\ body.switch = "unset" -> FromEffort(body)

-----------------------------------------------------------------------------
(* What a model supports, and bringing a setting into its range *)

\* A model: whether the registry knows it (one it does not know, or that the
\* user defined, is not checked), whether it thinks, the levels it names and
\* the least of them, its range of budgets, whether it can be told not to
\* think or to choose itself, its limit on the answer, and its family.
ModelShape ==
  [known : BOOLEAN, thinks : BOOLEAN, levels : SUBSET Words, lowest : Words \cup {"unset"},
   min : Nat, max : Nat, zero : BOOLEAN, dynamic : BOOLEAN, cap : Nat,
   family : {"claude", "glm", "minimax", "other"}]

HasBudgets(m) == m.min > 0 \/ m.max > 0
HasLevels(m) == m.levels # {}
Capability(m) ==
  CASE HasBudgets(m) /\ HasLevels(m) -> "hybrid"
    [] HasBudgets(m) /\ ~HasLevels(m) -> "budget"
    [] ~HasBudgets(m) /\ HasLevels(m) -> "level"
    [] OTHER -> "none"

\* What the registry's tables grant of a model that thinks, whichever upstream
\* it is asked of: the name a request is sent with is looked up in all of them.
\* Budgets start at 0 only if 0 is allowed, a Claude's and those of a model that
\* also has levels at more; levels hold one of the standard ones.
Offered(m) ==
  /\ HasBudgets(m) \/ HasLevels(m)
  /\ m.min <= m.max
  /\ HasBudgets(m) => m.max > 1 /\ (m.min > 0 \/ (m.zero /\ m.family # "claude"))
  /\ HasBudgets(m) /\ HasLevels(m) => m.min > 0 /\ ~m.zero
  /\ IF HasLevels(m) THEN m.lowest \in m.levels /\ m.levels \cap Standard # {}
                     ELSE m.lowest = "unset"

Distance(v, w) ==
  IF LevelRank[v] < LevelRank[w] THEN LevelRank[w] - LevelRank[v] ELSE LevelRank[v] - LevelRank[w]

\* The supported level nearest to a word, the lower one of two.
ClampLevel(word, m) ==
  LET Candidates == m.levels \cap Standard IN
  IF m.levels = {} \/ word \in m.levels \/ word \notin Standard \/ Candidates = {} THEN word
  ELSE CHOOSE v \in Candidates : \A w \in Candidates :
         \/ Distance(v, word) < Distance(w, word)
         \/ Distance(v, word) = Distance(w, word) /\ LevelRank[v] <= LevelRank[w]

\* Faulty variant: only what is too much is brought down.
ClampBudgetAbove(b, m) ==
  IF b = -1 THEN b
  ELSE IF b = 0 THEN IF m.zero THEN 0 ELSE m.min
  ELSE IF HasBudgets(m) /\ b > m.max THEN m.max ELSE b

ClampBudget(b, m) ==
  IF b = -1 THEN b
  ELSE IF b = 0 THEN IF m.zero THEN 0 ELSE m.min
  ELSE IF ~HasBudgets(m) THEN b
  ELSE IF b < m.min THEN m.min ELSE IF b > m.max THEN m.max ELSE b

NotSettled == Setting("refused", 0, "unset")

\* A setting in the terms the model's capability knows.
Converted(c, m) ==
  CASE Capability(m) = "budget" /\ c.mode = "level" /\ c.level # "auto" ->
         IF c.level \in DOMAIN LevelToBudget
         THEN Setting("budget", LevelToBudget[c.level], "unset") ELSE NotSettled
    [] Capability(m) = "level" /\ c.mode = "budget" ->
         IF c.budget >= -1
         THEN AtLevel(ClampLevel(BudgetToLevel(c.budget), m)) ELSE NotSettled
    [] OTHER -> c

\* The level none and the budget 0 are the mode none, the level auto is the
\* mode auto.
Named(c) ==
  CASE c.mode = "level" /\ c.level = "none" -> Off
    [] c.mode = "level" /\ c.level = "auto" -> Automatic
    [] c.mode = "budget" /\ c.budget = 0 -> Off
    [] OTHER -> c

\* Faulty variant: a level is taken as it is, or not at all.
LevelCheckedStrictly(c, m, lenient) ==
  IF ~HasLevels(m) \/ c.mode # "level" \/ c.level \in m.levels THEN c ELSE NotSettled

LevelChecked(c, m, lenient) ==
  IF ~HasLevels(m) \/ c.mode # "level" \/ c.level \in m.levels THEN c
  ELSE LET near == IF lenient THEN ClampLevel(c.level, m) ELSE c.level IN
       IF near \in m.levels THEN AtLevel(near) ELSE NotSettled

\* Automatic for a model that cannot choose itself: the middle of its range.
MidRange(m) ==
  LET mid == (m.min + m.max) \div 2 IN
  CASE HasLevels(m) /\ ~HasBudgets(m) -> AtLevel("medium")
    [] ~(HasLevels(m) /\ ~HasBudgets(m)) /\ mid <= 0 /\ m.zero -> Off
    [] OTHER -> Setting("budget", IF mid > 0 THEN mid ELSE m.min, "unset")

\* Not to think, for a model that cannot be told so: the least it can do.
Clamped(c, m, to) ==
  IF c.mode = "none" /\ to = "claude" THEN Off
  ELSE IF c.mode = "level" THEN c
  ELSE LET b == ClampBudget(c.budget, m)
           least == c.mode = "none" /\ b > 0 /\ HasLevels(m)
       IN  [c EXCEPT !.budget = b, !.level = IF least THEN m.lowest ELSE @]

ValidateConfig(config, m, from, to, suffixed) ==
  LET lenient == from \in BudgetBased /\ to \in LevelBased
      strict == ~suffixed /\ SameFamily(from, to)
      derived == config.mode = "level" /\ Capability(m) = "budget"
      c == LevelChecked(Named(Converted(config, m)), m, lenient)
      outside == /\ strict /\ ~derived /\ c.mode = "budget" /\ HasBudgets(m)
                 /\ c.budget < m.min \/ c.budget > m.max
  IN  IF c = NotSettled \/ outside THEN NotSettled
      ELSE Clamped(IF c.mode = "auto" /\ ~m.dynamic THEN MidRange(m) ELSE c, m, to)

-----------------------------------------------------------------------------
(* Writing a setting into a body: the appliers *)

\* The room for the answer: what the request says, or the model's limit.
Room(body, m) == IF body.max > 0 THEN body.max ELSE m.cap
Below(b, room) == IF room > 0 /\ b >= room THEN room - 1 ELSE b

Enabled(body, b) == [body EXCEPT !.type = "enabled", !.budget = b]
Disabled(body) == [body EXCEPT !.type = "disabled", !.budget = Absent]

\* A budget that leaves no room for the answer is lowered, unless it would
\* fall below what the model allows.
ApplyClaude(body, c, m) ==
  LET less == Below(c.budget, Room(body, m))
      kept == m.min > 0 /\ less > 0 /\ less < m.min
  IN  IF c.mode \notin {"budget", "none"} THEN body
      ELSE IF c.budget = 0 THEN Disabled(body)
      ELSE IF c.budget < 0 THEN Enabled(body, c.budget)
      ELSE [Enabled(body, IF kept THEN c.budget ELSE less) EXCEPT !.max = Room(body, m)]

CompatibleClaude(body, c) ==
  CASE c.mode = "none" -> Disabled(body)
    [] c.mode = "auto" -> Enabled(body, Absent)
    [] c.mode = "budget" -> Enabled(body, c.budget)
    [] c.mode = "level" -> body

InLevels(body, c) ==
  IF c.mode = "none"
  THEN [body EXCEPT !.budget = Absent, !.thoughts = "off",
                    !.level = IF c.level # "unset" THEN c.level ELSE @]
  ELSE [body EXCEPT !.budget = Absent, !.thoughts = "on", !.level = c.level]

InBudget(body, c) ==
  [body EXCEPT !.level = "unset", !.budget = c.budget,
               !.thoughts = IF c.mode = "auto" \/ (c.mode = "budget" /\ c.budget > 0)
                            THEN "on" ELSE "off"]

\* Claude behind Antigravity: the setting is dropped when it has no room.
InBudgetOfClaude(body, c, m) ==
  LET room == Room(body, m)
      less == Below(c.budget, room)
  IN  IF m.min > 0 /\ less >= 0 /\ less < m.min
      THEN [body EXCEPT !.level = "unset", !.budget = Absent, !.thoughts = "unset"]
      ELSE [InBudget(body, c) EXCEPT !.budget = less, !.max = room]

ApplyGemini(body, c, m, to) ==
  IF \/ c.mode \in {"level", "none"} /\ HasLevels(m)
     \/ c.mode = "level" /\ to = "gemini"
  THEN InLevels(body, c)
  ELSE IF to = "antigravity" /\ m.family = "claude" THEN InBudgetOfClaude(body, c, m)
  ELSE InBudget(body, c)

CompatibleGemini(body, c) ==
  IF c.mode = "level" \/ (c.mode = "none" /\ c.level # "unset")
  THEN InLevels(body, c) ELSE InBudget(body, c)

ApplyEffort(body, c, m) ==
  LET silent == c.mode = "none" /\ c.budget = 0 /\ (m.zero \/ "none" \in m.levels)
      effort == IF silent THEN "none" ELSE IF c.level # "unset" THEN c.level ELSE m.lowest
  IN  IF c.mode \in {"level", "none"} /\ effort # "unset"
      THEN [body EXCEPT !.level = effort] ELSE body

CompatibleEffort(body, c) ==
  LET effort == CASE c.mode = "level" -> c.level
                  [] c.mode = "none" -> IF c.level # "unset" THEN c.level ELSE "none"
                  [] c.mode = "auto" -> "auto"
                  [] c.mode = "budget" -> BudgetToLevel(c.budget)
  IN  IF effort # "unset" THEN [body EXCEPT !.level = effort] ELSE body

ApplyIFlow(body, c, m) ==
  LET on == c.mode = "auto" \/ (c.mode = "budget" /\ c.budget > 0)
            \/ (c.mode = "level" /\ c.level # "none")
  IN  IF m.family = "other" THEN body ELSE [body EXCEPT !.switch = IF on THEN "on" ELSE "off"]

Applied(body, c, m, to) ==
  CASE to = "claude" -> IF m.known THEN ApplyClaude(body, c, m) ELSE CompatibleClaude(body, c)
    [] to \in Geminis ->
         IF m.known THEN ApplyGemini(body, c, m, to) ELSE CompatibleGemini(body, c)
    [] to \in {"openai", "codex"} ->
         IF m.known THEN ApplyEffort(body, c, m) ELSE CompatibleEffort(body, c)
    [] to = "iflow" -> IF m.known THEN ApplyIFlow(body, c, m) ELSE body

Stripped(body, to) ==
  CASE to = "claude" -> [body EXCEPT !.type = "unset", !.budget = Absent]
    [] to \in Geminis -> [body EXCEPT !.budget = Absent, !.level = "unset", !.thoughts = "unset"]
    [] to \in {"openai", "codex"} -> [body EXCEPT !.level = "unset"]
    [] to = "iflow" -> [body EXCEPT !.level = "unset", !.switch = "unset"]

-----------------------------------------------------------------------------
(* Carrying a setting from one format to another: the request translators *)

Body == [type : {"unset", "enabled", "disabled"}, budget : Int, level : Words \cup {"unset"},
         thoughts : {"unset", "on", "off"}, switch : {"unset", "on", "off"}, max : Nat]
Empty == [type |-> "unset", budget |-> Absent, level |-> "unset",
          thoughts |-> "unset", switch |-> "unset", max |-> 0]

ForClaude(body) == [Empty EXCEPT !.max = IF body.max > 0 THEN body.max ELSE 32000]

EffortToGemini(body) ==
  CASE body.level = "unset" -> [Empty EXCEPT !.max = body.max]
    [] body.level = "auto" -> [Empty EXCEPT !.budget = -1, !.thoughts = "on", !.max = body.max]
    [] OTHER -> [Empty EXCEPT !.level = body.level, !.max = body.max,
                              !.thoughts = IF body.level = "none" THEN "off" ELSE "on"]

EffortToClaude(body) ==
  CASE body.level = "none" -> Disabled(ForClaude(body))
    [] body.level = "auto" -> Enabled(ForClaude(body), Absent)
    [] body.level \in Standard -> Enabled(ForClaude(body), LevelToBudget[body.level])
    [] OTHER -> ForClaude(body)

EffortToEffort(body, default) ==
  [Empty EXCEPT !.level = IF body.level = "unset" THEN default ELSE body.level,
                !.switch = body.switch]

\* Not to think is not carried over, nor thinking without a budget.
ClaudeSettingToGemini(body) ==
  IF body.type = "enabled" /\ body.budget # Absent
  THEN [Empty EXCEPT !.budget = body.budget, !.thoughts = "on", !.max = body.max]
  ELSE [Empty EXCEPT !.max = body.max]

ClaudeSettingToEffort(body, default, unbounded) ==
  LET effort == CASE body.type = "enabled" /\ body.budget # Absent -> BudgetToLevel(body.budget)
                  [] body.type = "enabled" /\ body.budget = Absent -> unbounded
                  [] body.type = "disabled" -> "none"
                  [] body.type = "unset" -> "unset"
  IN  [Empty EXCEPT !.level = IF effort = "unset" THEN default ELSE effort]

GeminiSettingToClaude(body) ==
  CASE body.level = "none" \/ (body.level = "unset" /\ body.budget = 0) -> Disabled(ForClaude(body))
    [] body.level = "auto" \/ (body.level = "unset" /\ body.budget = -1) ->
         Enabled(ForClaude(body), Absent)
    [] body.level \in Standard -> Enabled(ForClaude(body), LevelToBudget[body.level])
    [] body.level = "unset" /\ body.budget \notin {0, -1, Absent} ->
         Enabled(ForClaude(body), body.budget)
    [] body.level = "unset" /\ body.budget = Absent /\ body.thoughts = "on" ->
         Enabled(ForClaude(body), Absent)
    [] OTHER -> ForClaude(body)

GeminiSettingToEffort(body, default) ==
  LET effort == CASE body.level # "unset" -> body.level
                  [] body.level = "unset" /\ body.budget # Absent -> BudgetToLevel(body.budget)
                  [] OTHER -> "unset"
  IN  [Empty EXCEPT !.level = IF effort = "unset" THEN default ELSE effort]

CarriedOver(body, from, to) ==
  CASE from \in {"openai", "openai-response"} /\ to \in Geminis -> EffortToGemini(body)
    [] from \in {"openai", "openai-response"} /\ to = "claude" -> EffortToClaude(body)
    [] from = "openai" /\ to = "codex" -> EffortToEffort(body, "medium")
    [] from = "openai-response" /\ to = "codex" -> EffortToEffort(body, "unset")
    [] from \in {"openai", "openai-response"} /\ to \in {"openai", "iflow"} ->
         EffortToEffort(body, "unset")
    [] from = "claude" /\ to = "claude" -> body
    [] from = "claude" /\ to \in Geminis -> ClaudeSettingToGemini(body)
    [] from = "claude" /\ to = "codex" -> ClaudeSettingToEffort(body, "medium", "medium")
    [] from = "claude" /\ to \in {"openai", "iflow"} -> ClaudeSettingToEffort(body, "unset", "auto")
    [] from = "gemini" /\ to \in Geminis -> body
    [] from = "gemini" /\ to = "claude" -> GeminiSettingToClaude(body)
    [] from = "gemini" /\ to = "codex" -> GeminiSettingToEffort(body, "medium")
    [] from = "gemini" /\ to \in {"openai", "iflow"} -> GeminiSettingToEffort(body, "unset")

-----------------------------------------------------------------------------
(* A request *)

EffortBody(w, s, r) == [Empty EXCEPT !.level = w, !.switch = s, !.max = r]
ClaudeBody(t, b, r) == [Empty EXCEPT !.type = t, !.budget = b, !.max = r]
GeminiBody(w, b, t, r) == [Empty EXCEPT !.level = w, !.budget = b, !.thoughts = t, !.max = r]

ClientBodies(from) ==
  CASE from = "openai" ->
         {EffortBody(w, s, r) :
            w \in Words \cup {"unset"}, s \in {"unset", "on", "off"}, r \in Rooms}
    [] from = "openai-response" ->
         {EffortBody(w, "unset", r) : w \in Words \cup {"unset"}, r \in Rooms}
    [] from = "claude" ->
         {ClaudeBody(t, Absent, r) : t \in {"unset", "enabled", "disabled"}, r \in Rooms \ {0}}
         \cup {ClaudeBody("enabled", b, r) : b \in Budgets, r \in Rooms \ {0}}
    [] from = "gemini" ->
         {GeminiBody(w, Absent, t, r) :
            w \in Words \cup {"unset"}, t \in {"unset", "on"}, r \in Rooms}
         \cup {GeminiBody("unset", b, "unset", r) : b \in Budgets, r \in Rooms}

Froms == {"openai", "openai-response", "claude", "gemini"}

ASSUME ThinkingAssumption ==
  /\ ModelSuffixes \subseteq Suffix /\ Budgets \subseteq Int \ {Absent} /\ Rooms \subseteq Nat
  /\ \A u \in Upstreams : /\ u.to \in Targets /\ u.model \in ModelShape
                          /\ u.model.known /\ u.model.thinks => Offered(u.model)

VARIABLES ask,    \* the request: its format, the upstream chosen, the suffix of
                  \* its model, its body, whether it forces the use of a tool
          carried,  \* the body on its way to the upstream
          phase     \* asked, translated, applied, sent; refused

thinkVars == <<ask, carried, phase>>

Target == ask.upstream.to
Model == ask.upstream.model

\* Whether a tool is forced, which only the executor of Claude asks.
ToolChoices(to) == IF to = "claude" THEN BOOLEAN ELSE {FALSE}

ThinkingInit ==
  /\ \E from \in Froms, u \in Upstreams, s \in ModelSuffixes :
       \E b \in ClientBodies(from), forced \in ToolChoices(u.to) :
         /\ ask = [from |-> from, upstream |-> u, suffix |-> s, forced |-> forced, body |-> b]
         /\ carried = b
  /\ phase = "asked"

TranslateSetting ==
  /\ phase = "asked" /\ phase' = "translated"
  /\ carried' = CarriedOver(carried, ask.from, Target)
  /\ UNCHANGED ask

Config == IF ask.suffix.has THEN FromSuffix(ask.suffix) ELSE FromBody(carried, Target)

\* What ApplyThinking makes of the setting: taken out for a model that does
\* not think, written unchecked for a model the registry does not know.
Settled ==
  CASE Model.known /\ ~Model.thinks ->
         IF FromBody(carried, Target) = NoSetting THEN carried ELSE Stripped(carried, Target)
    [] ~(Model.known /\ ~Model.thinks) /\ Config = NoSetting -> carried
    [] Model.known /\ Model.thinks /\ Config # NoSetting ->
         Applied(carried, ValidateConfig(Config, Model, ask.from, Target, ask.suffix.has),
                 Model, Target)
    [] ~Model.known /\ Config # NoSetting ->
         Applied(carried,
                 IF /\ Config.mode = "level" /\ Config.level \in DOMAIN LevelToBudget
                    /\ Target \in BudgetBased /\ ask.from \in LevelBased
                 THEN Setting("budget", LevelToBudget[Config.level], "unset") ELSE Config,
                 Model, Target)

ThinkingRefused ==
  /\ Model.known /\ Model.thinks /\ Config # NoSetting
  /\ ValidateConfig(Config, Model, ask.from, Target, ask.suffix.has) = NotSettled

ApplyThinking ==
  /\ phase = "translated"
  /\ IF ThinkingRefused THEN phase' = "refused" /\ UNCHANGED carried
                        ELSE phase' = "applied" /\ carried' = Settled
  /\ UNCHANGED ask

\* Claude does not think when a tool is forced upon it.
SendSetting ==
  /\ phase = "applied" /\ phase' = "sent"
  /\ carried' = IF Target = "claude" /\ ask.forced THEN Stripped(carried, Target) ELSE carried
  /\ UNCHANGED ask

ThinkingNext == TranslateSetting \/ ApplyThinking \/ SendSetting

ThinkingSpec == ThinkingInit /\ [][ThinkingNext]_thinkVars

-----------------------------------------------------------------------------
(* Properties *)

ThinkingTypeOK ==
  /\ carried \in Body
  /\ phase \in {"asked", "translated", "applied", "sent", "refused"}

\* The suffix is one ApplyThinking cannot read: it takes precedence over the
\* body's setting all the same, which then goes out as it is.
SuffixUnread == ask.suffix.has /\ FromSuffix(ask.suffix) = NoSetting

\* The body as the translator hands it on, and the setting found with it.
AsCarried == CarriedOver(ask.body, ask.from, Target)
AsFound == IF ask.suffix.has THEN FromSuffix(ask.suffix) ELSE FromBody(AsCarried, Target)

\* The applier has no form for some settings of a model of another upstream's
\* kind and leaves the body alone: that of OpenAI and Codex for budgets
\* (openai/apply.go:52), that of Claude for levels (claude/apply.go:65), that of
\* iFlow for all of a model without a switch (iflow/apply.go:58).
Unwritten(body) ==
  /\ body = AsCarried
  /\ \/ Target \in {"openai", "codex"} /\ (HasBudgets(Model) \/ Model.dynamic)
     \/ Target = "claude" /\ (HasLevels(Model) \/ Model.dynamic)
     \/ Target = "iflow" /\ (~Model.known \/ Model.family = "other")

\* validate.go:169 takes medium for automatic, whether it is among the levels.
MediumAssumed(body) ==
  /\ body.level = "medium" /\ ~HasBudgets(Model) /\ ~Model.dynamic
  /\ AsFound \in {Automatic, AtLevel("auto")}

\* gemini/apply.go:126 hides the thoughts of a model that has only levels, and
\* leaves the level that was carried over.
LevelLeft(body) ==
  /\ Target \in Geminis /\ ~HasBudgets(Model)
  /\ body.thoughts = "off" /\ body.level = AsCarried.level

(***************************************************************************)
(* What is sent is what the model supports: a budget in its range, 0 only  *)
(* if it can be told not to think and -1 only if it can choose itself, a   *)
(* level it names, never both; and for Claude a budget that leaves room    *)
(* for the answer, unless the room is less than its least budget           *)
(* (claude/apply.go:84: "Ensure max_tokens > thinking.budget_tokens        *)
(* (Anthropic API constraint)").  It has to come out of seven writers and  *)
(* three readers of settings, a conversion either way, two clampings and   *)
(* the choice of a middle, in the one order ValidateConfig takes them.     *)
(* Excepted: what an unread suffix lets through unchecked, what the        *)
(* applier has no form for, which then goes out as it was carried over,    *)
(* the two lapses at models with levels only, reasoning_effort for iFlow,  *)
(* which the switch overrides, and a request to Claude that leaves room    *)
(* for one token.                                                          *)
(***************************************************************************)
BudgetSupported(b, m) ==
  \/ m.min <= b /\ b <= m.max
  \/ b = 0 /\ m.zero
  \/ b = -1 /\ m.dynamic

LevelSupported(w, m) == w \in m.levels \/ (w = "none" /\ m.zero)

\* claude/apply.go:117: with room for a single token the budget becomes 0, which
\* is not taken for one below the least.
NoRoomAtAll == Target = "claude" /\ carried.max = 1

RoomLeft == carried.type = "enabled" /\ carried.budget # Absent =>
              carried.budget < carried.max \/ carried.max <= Model.min

SettingsInRange ==
  phase \in {"applied", "sent"} /\ Model.known /\ Model.thinks /\ ~SuffixUnread =>
    \/ Unwritten(carried)
    \/ /\ carried.budget # Absent => BudgetSupported(carried.budget, Model) \/ NoRoomAtAll
       /\ carried.level # "unset" => \/ Target = "iflow" \/ LevelSupported(carried.level, Model)
                                     \/ MediumAssumed(carried) \/ LevelLeft(carried)
       /\ carried.budget = Absent \/ carried.level = "unset"
       /\ Target = "claude" => RoomLeft

\* What the client says: by the suffix, else by the body, of which only iFlow
\* reads the switch.
Switched == Target = "iflow" /\ ask.body.switch # "unset"

WantsNone ==
  IF ask.suffix.has
  THEN ask.suffix.word = "none" \/ (ask.suffix.word = "unset" /\ ask.suffix.number = 0)
  ELSE IF Switched THEN ask.body.switch = "off"
  ELSE \/ ask.body.type = "disabled"
       \/ ask.body.level = "none"
       \/ ask.body.level = "unset" /\ ask.body.budget = 0

WantsThinking ==
  IF ask.suffix.has
  THEN ask.suffix.word \in Standard \cup {"auto"} \/ ask.suffix.number > 0
  ELSE IF Switched THEN ask.body.switch = "on"
  ELSE \/ ask.body.level \in Standard \cup {"auto"}
       \/ ask.body.level = "unset" /\ (ask.body.budget = -1 \/ ask.body.budget > 0)
       \/ ask.body.type = "enabled" /\ ask.body.budget = Absent

\* What the upstream does: think and show it, think and hide it, not think,
\* or what it does of its own accord.
EffectOf(body, to) ==
  CASE to = "claude" /\ body.type = "enabled" -> "shown"
    [] to = "claude" /\ body.type # "enabled" -> "off"
    [] to \in Geminis /\ body.budget = 0 -> "off"
    [] to \in Geminis /\ body.budget # 0 /\ body.thoughts = "off" -> "hidden"
    [] to \in Geminis /\ body.budget # 0 /\ body.thoughts = "on" -> "shown"
    [] to \in {"openai", "codex"} /\ body.level = "none" -> "off"
    [] to \in {"openai", "codex"} /\ body.level \notin {"none", "unset"} -> "shown"
    [] to = "iflow" /\ body.switch = "on" -> "shown"
    [] to = "iflow" /\ body.switch = "off" -> "off"
    [] OTHER -> "own"

Effect == EffectOf(carried, Target)

\* The ways in which the client's word is lost.
\* Claude may not think when a tool is forced (claude_executor.go:547).
ToolForced == Target = "claude" /\ ask.forced
\* gemini_claude_request.go:157 carries only a budget over.
NotCarried ==
  /\ ask.from = "claude" /\ Target \in Geminis /\ ~ask.suffix.has
  /\ ask.body.type = "disabled" \/ ask.body.budget = Absent
\* antigravity/apply.go:177: no room for the least budget, or none wanted: the
\* setting is taken out, and Claude does not think of its own accord.
TakenOut == Target = "antigravity" /\ Model.family = "claude" /\ Effect = "own"
\* The body goes out as it was carried over, so a suffix has no effect, nor has
\* anything but the switch for iFlow.
LeftAlone == Unwritten(carried) /\ (ask.suffix.has \/ Target = "iflow")
\* claude/apply.go:144 ignores a level for a model it does not know.
LevelIgnored ==
  /\ Target = "claude" /\ ~Model.known /\ ask.from \notin LevelBased
  /\ ask.suffix.word \in Standard

(***************************************************************************)
(* The client is heard across formats: one that asks a thinking model not  *)
(* to think gets no thoughts (or the least the model can do), one that     *)
(* asks it to think does not find it off or hidden, and a refusal has its  *)
(* reason in what the client asked, or in what a translator made of it.    *)
(* The named lapses are the ways the code has of losing the client's word. *)
(***************************************************************************)
NoneHonoured ==
  WantsNone => \/ Effect \in {"off", "hidden"}
               \/ Target \in {"openai", "codex"} /\ HasLevels(Model)
                  /\ carried.level = Model.lowest
               \/ NotCarried \/ TakenOut \/ LeftAlone

ThoughtHonoured ==
  WantsThinking => \/ Effect = "shown"
                   \/ TakenOut /\ Room(ask.body, Model) <= Model.min
                   \/ ToolForced \/ NotCarried \/ LeftAlone \/ LevelIgnored

\* A budget becomes a level on the way to iFlow, and is then taken for the client's
\* word (validate.go:108).
BudgetRefused ==
  /\ Target = "iflow" /\ ~ask.suffix.has /\ ask.body.level = "unset" /\ HasLevels(Model)
  /\ ask.body.budget # Absent /\ BudgetToLevel(ask.body.budget) \notin Model.levels
\* And so is the medium effort that is put in on the way from chat completions to
\* Codex when the client states none (codex_openai_request.go:62).
DefaultRefused ==
  /\ Target = "codex" /\ ask.from = "openai" /\ ~ask.suffix.has /\ ask.body.level = "unset"
  /\ HasLevels(Model) /\ "medium" \notin Model.levels

RefusedForReason ==
  LET word == IF ask.suffix.has THEN ask.suffix.word ELSE ask.body.level
      number == IF ask.suffix.has THEN ask.suffix.number ELSE ask.body.budget
  IN  \/ word = "other"
      \/ word \in Standard /\ HasLevels(Model) /\ word \notin Model.levels
      \/ word = "unset" /\ number # Absent /\ number < -1
      \/ /\ word = "unset" /\ number # Absent /\ HasBudgets(Model)
         /\ number < Model.min \/ number > Model.max
      \/ BudgetRefused \/ DefaultRefused

ThinkingHonoured ==
  /\ phase = "sent" /\ (Model.thinks \/ ~Model.known) => NoneHonoured /\ ThoughtHonoured
  /\ phase = "refused" => RefusedForReason
=============================================================================
