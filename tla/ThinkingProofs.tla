--------------------------- MODULE ThinkingProofs ---------------------------
(***************************************************************************)
(* A setting that is sent is one the model supports, for any table of      *)
(* models that is as ThinkingAssumption says, any budgets, any limits of   *)
(* answers and any suffixes.                                               *)
(*                                                                         *)
(* The argument follows the request: what a translator may leave in a body *)
(* for each format (Carries), what can be read from it (Asked), what       *)
(* ValidateConfig lets through (Fits), and what each of the appliers makes *)
(* of that (Supported).                                                    *)
(*                                                                         *)
(* That the client is heard (SettingsHonoured) follows the same way: what  *)
(* it says is what can be read once it was carried over (Heard), unless it *)
(* was lost; validation neither turns thinking into not thinking nor the   *)
(* other way round (NoneValidated, ThoughtValidated) and refuses for one   *)
(* of four reasons (Refusals); and each applier writes what has the effect *)
(* that was asked for (Quiet, Aloud).                                      *)
(***************************************************************************)
EXTENDS ThinkingSettings, TLAPS

\* A body on its way to a format: Claude knows no levels, and a budget only with
\* thinking enabled, the level based formats no budgets, and Gemini's states one
\* or the other.
Carries(b, to) ==
  /\ b \in Body
  /\ to = "claude" => b.level = "unset" /\ (b.budget # Absent => b.type = "enabled")
  /\ to \in Geminis => b.budget = Absent \/ b.level = "unset"
  /\ to \notin BudgetBased => b.budget = Absent

\* What can be read from a body or a suffix.
Asked(c) ==
  \/ c = NoSetting \/ c = Off \/ c = Automatic
  \/ \E w \in Words : c = Setting("level", 0, w)
  \/ \E n \in Int \ {0, -1} : c = Setting("budget", n, "unset")

\* Every setting, whatever its mode.
SettingShape ==
  [mode : {"none", "auto", "level", "budget"}, budget : Int, level : Words \cup {"unset"}]

\* The client lets the model choose, and the level is taken for that.
AutoAsked(c) == c \in {Automatic, AtLevel("auto")}
Assumed(w, m, c) == w = "medium" /\ ~HasBudgets(m) /\ ~m.dynamic /\ AutoAsked(c)

\* A setting c brought into the range of a model.
Fits(v, m, to, c) ==
  /\ v \in SettingShape
  /\ v.mode = "level" =>
       HasLevels(m) /\ v.level \in Words /\ (v.level \in m.levels \/ Assumed(v.level, m, c))
  /\ v.mode = "auto" => v.budget = -1 /\ m.dynamic
  /\ v.mode = "budget" => HasBudgets(m) /\ m.min <= v.budget /\ v.budget <= m.max
  /\ v.mode = "none" =>
       /\ \/ v.budget = 0 /\ (m.zero \/ to = "claude")
          \/ v.budget = m.min /\ ~m.zero
       /\ v.level = IF v.budget > 0 /\ HasLevels(m) THEN m.lowest ELSE "unset"

\* A body that states what a model supports, k being the body as it was carried
\* over and c the setting found.
Supported(b, m, to, k, c) ==
  /\ b.budget # Absent => BudgetSupported(b.budget, m) \/ (to = "claude" /\ b.max = 1)
  /\ b.level # "unset" => \/ to = "iflow" \/ LevelSupported(b.level, m) \/ Assumed(b.level, m, c)
                          \/ /\ to \in Geminis /\ ~HasBudgets(m)
                             /\ b.thoughts = "off" /\ b.level = k.level
  /\ b.budget = Absent \/ b.level = "unset"
  /\ to = "claude" =>
       (b.type = "enabled" /\ b.budget # Absent => b.budget < b.max \/ b.max <= m.min)

\* A body that was left as it was carried over, for a model of another kind.
Bare(b, m, to, k) ==
  /\ b = k
  /\ \/ to \in {"openai", "codex"} /\ (HasBudgets(m) \/ m.dynamic)
     \/ to = "claude" /\ (HasLevels(m) \/ m.dynamic)

Written(b, m, to, k, c) == Supported(b, m, to, k, c) \/ Bare(b, m, to, k)

ThinkingInv ==
  /\ ThinkingTypeOK
  /\ ask \in [from : Froms, upstream : Upstreams, suffix : ModelSuffixes,
              forced : BOOLEAN, body : Body]
  /\ ask.body \in ClientBodies(ask.from)
  /\ phase = "asked" => carried = ask.body
  /\ phase = "translated" => carried = AsCarried
  /\ phase \in {"applied", "sent"} /\ Model.known /\ Model.thinks /\ ~SuffixUnread =>
       Written(carried, Model, Target, AsCarried, AsFound)
-----------------------------------------------------------------------------
(* Conversions *)

LEMMA EmptyBody == Empty \in Body
  BY DEF Empty, Body, Absent, Words, Standard

LEMMA BudgetLevels == ASSUME NEW b \in Int PROVE BudgetToLevel(b) \in Words \cup {"unset"}
  BY DEF BudgetToLevel, Words, Standard

LEMMA LevelBudgets ==
  /\ DOMAIN LevelToBudget = {"none", "auto"} \cup Standard
  /\ \A w \in {"none", "auto"} \cup Standard : LevelToBudget[w] \in Int /\ LevelToBudget[w] >= -1
  /\ \A w \in Standard : LevelToBudget[w] > 0
  /\ LevelToBudget["none"] = 0
<1>1. DOMAIN LevelToBudget = {"none", "auto"} \cup Standard
  BY DEF LevelToBudget
<1>2. \A w \in Standard : LevelToBudget[w] \in Nat /\ LevelToBudget[w] > 0
  BY DEF LevelToBudget, Standard
<1>3. LevelToBudget["none"] = 0 /\ LevelToBudget["auto"] = -1
  BY DEF LevelToBudget, Standard
<1> QED
  BY <1>1, <1>2, <1>3

LEMMA AskedOfBody ==
  ASSUME NEW to \in Targets, NEW b \in Body
  PROVE  Asked(FromBody(b, to))
<1>1. b.budget \in Int /\ b.level \in Words \cup {"unset"}
  BY DEF Body
<1>2. \A n \in Int : Asked(AtBudget(n))
  BY DEF AtBudget, Asked
<1>3. Asked(FromClaude(b))
  BY <1>1, <1>2 DEF FromClaude, Asked
<1>4. Asked(FromGemini(b))
  BY <1>1, <1>2 DEF FromGemini, Asked, AtLevel
<1>5. Asked(FromEffort(b))
  BY <1>1 DEF FromEffort, Asked, AtLevel
<1>6. CASE to = "iflow"
  <2>1. b.switch \in {"unset", "on", "off"}
    BY DEF Body
  <2>2. Asked(Setting("budget", 1, "unset")) /\ Asked(Off)
    BY DEF Asked
  <2> QED
    BY <1>5, <1>6, <2>1, <2>2 DEF FromBody, Geminis
<1> QED
  BY <1>3, <1>4, <1>5, <1>6 DEF FromBody, Targets, Geminis

LEMMA AskedOfSuffix == ASSUME NEW s \in Suffix PROVE Asked(FromSuffix(s))
<1>1. s.word \in Words \cup {"unset"} /\ s.number \in Int
  BY DEF Suffix
<1> QED
  BY <1>1 DEF FromSuffix, Asked, AtLevel, Words

LEMMA SettingsDiffer ==
  /\ \A w : AtLevel(w).mode = "level" /\ AtLevel(w).level = w
  /\ \A n : LET s == Setting("budget", n, "unset") IN s.mode = "budget" /\ s.budget = n
  /\ Off.mode = "none" /\ Automatic.mode = "auto"
  /\ NoSetting.mode = "budget" /\ NoSetting.budget = 0
  BY DEF AtLevel, Setting, Off, Automatic, NoSetting

-----------------------------------------------------------------------------
(* Translators *)

LEMMA BodiesOfClients ==
  ASSUME NEW from \in Froms, NEW b \in ClientBodies(from)
  PROVE  /\ b \in Body
         /\ from = "claude" => b.level = "unset" /\ (b.budget # Absent => b.type = "enabled")
         /\ from = "gemini" => b.budget = Absent \/ b.level = "unset"
<1>1. Budgets \subseteq Int /\ Rooms \subseteq Nat
  BY ThinkingAssumption
<1>2. CASE from \in {"openai", "openai-response"}
  <2>1. PICK w \in Words \cup {"unset"}, s \in {"unset", "on", "off"}, r \in Rooms :
          b = EffortBody(w, s, r)
    BY <1>2 DEF ClientBodies
  <2> QED
    BY <1>1, <1>2, <2>1, EmptyBody DEF EffortBody, Body
<1>3. CASE from = "claude"
  <2>1. PICK t \in {"unset", "enabled", "disabled"}, n \in Budgets \cup {Absent}, r \in Rooms :
          b = ClaudeBody(t, n, r) /\ (n # Absent => t = "enabled")
    BY <1>3 DEF ClientBodies
  <2> QED
    BY <1>1, <1>3, <2>1, EmptyBody DEF ClaudeBody, Body, Empty, Absent
<1>4. CASE from = "gemini"
  <2>1. PICK w \in Words \cup {"unset"}, n \in Budgets \cup {Absent},
             t \in {"unset", "on"}, r \in Rooms :
          b = GeminiBody(w, n, t, r) /\ (n = Absent \/ w = "unset")
    BY <1>4 DEF ClientBodies
  <2> QED
    BY <1>1, <1>4, <2>1, EmptyBody DEF GeminiBody, Body, Empty, Absent
<1> QED
  BY <1>2, <1>3, <1>4 DEF Froms

LEMMA ToClaude ==
  ASSUME NEW b \in Body, b.level = "unset", NEW n \in Int
  PROVE  /\ Carries(Enabled(b, n), "claude")
         /\ Carries(Disabled(b), "claude")
         /\ (b.budget # Absent => b.type = "enabled") => Carries(b, "claude")
<1>1. "claude" \notin Geminis /\ "claude" \in BudgetBased
  BY DEF Geminis, BudgetBased
<1>2. Enabled(b, n) \in Body /\ Enabled(b, n).level = "unset" /\ Enabled(b, n).type = "enabled"
  BY DEF Enabled, Body
<1>3. Disabled(b) \in Body /\ Disabled(b).level = "unset" /\ Disabled(b).budget = Absent
  BY EmptyBody DEF Disabled, Body, Empty
<1> QED
  BY <1>1, <1>2, <1>3 DEF Carries

LEMMA Translated ==
  ASSUME NEW from \in Froms, NEW to \in Targets, NEW b \in ClientBodies(from)
  PROVE  Carries(CarriedOver(b, from, to), to)
<1>1. /\ b \in Body
      /\ from = "claude" => b.level = "unset" /\ (b.budget # Absent => b.type = "enabled")
      /\ from = "gemini" => b.budget = Absent \/ b.level = "unset"
  BY BodiesOfClients
<1>2. /\ b.budget \in Int /\ b.max \in Nat /\ b.level \in Words \cup {"unset"}
      /\ b.type \in {"unset", "enabled", "disabled"} /\ b.switch \in {"unset", "on", "off"}
  BY <1>1 DEF Body
<1>3. ForClaude(b) \in Body /\ ForClaude(b).level = "unset" /\ ForClaude(b).budget = Absent
  BY <1>2, EmptyBody DEF ForClaude, Body, Empty
<1>4. \A w \in Standard : LevelToBudget[w] \in Int
  BY LevelBudgets
<1>5. \A w \in Words \cup {"unset"}, s \in {"unset", "on", "off"},
          t \in {"codex", "openai", "iflow"} :
        Carries([Empty EXCEPT !.level = w, !.switch = s], t)
  BY EmptyBody DEF Carries, Body, Empty, Geminis, BudgetBased
<1>6. CASE to = "claude"
  <2>1. Carries(EffortToClaude(b), "claude")
    BY <1>2, <1>3, <1>4, ToClaude DEF EffortToClaude, Absent
  <2>2. Carries(GeminiSettingToClaude(b), "claude")
    BY <1>2, <1>3, <1>4, ToClaude DEF GeminiSettingToClaude, Absent
  <2>3. from = "claude" => Carries(b, "claude")
    BY <1>1, ToClaude
  <2> QED
    BY <1>6, <2>1, <2>2, <2>3 DEF CarriedOver, Froms, Geminis
<1>7. CASE to \in Geminis
  <2>1. Carries(EffortToGemini(b), to)
    <3>1. CASE b.level = "unset"
      BY <1>2, <1>7, <3>1, EmptyBody DEF EffortToGemini, Carries, Body, Empty, Geminis, BudgetBased
    <3>2. CASE b.level = "auto"
      <4> PICK n \in Int : n = -1
        OBVIOUS
      <4>1. EffortToGemini(b) = [Empty EXCEPT !.budget = n, !.thoughts = "on", !.max = b.max]
        BY <3>2 DEF EffortToGemini
      <4>2. EffortToGemini(b) \in Body /\ EffortToGemini(b).level = "unset"
        BY <1>2, <4>1, EmptyBody DEF Body, Empty
      <4> QED
        BY <1>7, <4>2 DEF Carries, Geminis, BudgetBased
    <3>3. CASE b.level \notin {"unset", "auto"}
      BY <1>2, <1>7, <3>3, EmptyBody DEF EffortToGemini, Carries, Body, Empty, Geminis, BudgetBased
    <3> QED
      BY <3>1, <3>2, <3>3
  <2>2. Carries(ClaudeSettingToGemini(b), to)
    BY <1>2, <1>7, EmptyBody DEF ClaudeSettingToGemini, Carries, Body, Empty, Geminis, BudgetBased
  <2>3. from = "gemini" => Carries(b, to)
    BY <1>1, <1>7 DEF Carries, Geminis, BudgetBased
  <2> QED
    BY <1>7, <2>1, <2>2, <2>3 DEF CarriedOver, Froms, Geminis
<1>8. CASE to \in {"codex", "openai", "iflow"}
  <2> DEFINE Plain(w) == [Empty EXCEPT !.level = w]
  <2>1. \A w \in Words \cup {"unset"} : Carries(Plain(w), to)
    BY <1>8, EmptyBody DEF Carries, Body, Empty, Geminis, BudgetBased
  <2>2. \A d \in {"unset", "medium"} : Carries(EffortToEffort(b, d), to)
    BY <1>2, <1>5, <1>8 DEF EffortToEffort, Words, Standard
  <2>3. \A d \in {"unset", "medium"}, u \in {"medium", "auto"} :
          Carries(ClaudeSettingToEffort(b, d, u), to)
    BY <1>2, <2>1, BudgetLevels DEF ClaudeSettingToEffort, Words, Standard
  <2>4. \A d \in {"unset", "medium"} : Carries(GeminiSettingToEffort(b, d), to)
    BY <1>2, <2>1, BudgetLevels DEF GeminiSettingToEffort, Words, Standard
  <2> QED
    BY <1>8, <2>2, <2>3, <2>4 DEF CarriedOver, Froms, Geminis
<1> QED
  BY <1>6, <1>7, <1>8 DEF Targets

-----------------------------------------------------------------------------
(* ValidateConfig *)

\* What the models of the table offer, in the terms the lemmas need.
LEMMA Shape ==
  ASSUME NEW m \in ModelShape
  PROVE  /\ m.min \in Nat /\ m.max \in Nat /\ m.cap \in Nat
         /\ m.zero \in BOOLEAN /\ m.dynamic \in BOOLEAN
         /\ m.levels \subseteq Words /\ m.lowest \in Words \cup {"unset"}
  BY DEF ModelShape

LEMMA Ranks ==
  /\ LevelRank["minimal"] = 1 /\ LevelRank["low"] = 2 /\ LevelRank["medium"] = 3
  /\ LevelRank["high"] = 4 /\ LevelRank["xhigh"] = 5
<1>1. /\ Order[1] = "minimal" /\ Order[2] = "low" /\ Order[3] = "medium"
      /\ Order[4] = "high" /\ Order[5] = "xhigh"
  BY DEF Order
<1>2. \A i \in 1..5 : i = 1 \/ i = 2 \/ i = 3 \/ i = 4 \/ i = 5
  OBVIOUS
<1>3. ASSUME NEW w \in Standard, NEW i \in 1..5, Order[i] = w
      PROVE  LevelRank[w] = i
  <2>1. \A j \in 1..5 : Order[j] = w => j = i
    BY <1>1, <1>2, <1>3
  <2>2. (CHOOSE j \in 1..5 : Order[j] = w) = i
    BY <1>3, <2>1
  <2> QED
    BY <2>2 DEF LevelRank
<1> QED
  BY <1>1, <1>3 DEF Standard

\* Of two levels the one nearer to a word, the lower one of two as near.
Nearer(v, w, word) ==
  \/ Distance(v, word) < Distance(w, word)
  \/ Distance(v, word) = Distance(w, word) /\ LevelRank[v] <= LevelRank[w]

LEMMA NearestExists ==
  ASSUME NEW word \in Standard, NEW C \in SUBSET Standard, C # {}
  PROVE  \E v \in C : \A w \in C : Nearer(v, w, word)
<1>1. CASE word = "minimal"
  <2>1. \A w \in {"minimal", "low", "medium", "high", "xhigh"} : Nearer("minimal", w, word)
    BY <1>1, Ranks DEF Nearer, Distance
  <2>2. \A w \in {"low", "medium", "high", "xhigh"} : Nearer("low", w, word)
    BY <1>1, Ranks DEF Nearer, Distance
  <2>3. \A w \in {"medium", "high", "xhigh"} : Nearer("medium", w, word)
    BY <1>1, Ranks DEF Nearer, Distance
  <2>4. \A w \in {"high", "xhigh"} : Nearer("high", w, word)
    BY <1>1, Ranks DEF Nearer, Distance
  <2>5. \A w \in {"xhigh"} : Nearer("xhigh", w, word)
    BY <1>1, Ranks DEF Nearer, Distance
  <2> QED
    BY <2>1, <2>2, <2>3, <2>4, <2>5 DEF Standard
<1>2. CASE word = "low"
  <2>1. \A w \in {"low", "minimal", "medium", "high", "xhigh"} : Nearer("low", w, word)
    BY <1>2, Ranks DEF Nearer, Distance
  <2>2. \A w \in {"minimal", "medium", "high", "xhigh"} : Nearer("minimal", w, word)
    BY <1>2, Ranks DEF Nearer, Distance
  <2>3. \A w \in {"medium", "high", "xhigh"} : Nearer("medium", w, word)
    BY <1>2, Ranks DEF Nearer, Distance
  <2>4. \A w \in {"high", "xhigh"} : Nearer("high", w, word)
    BY <1>2, Ranks DEF Nearer, Distance
  <2>5. \A w \in {"xhigh"} : Nearer("xhigh", w, word)
    BY <1>2, Ranks DEF Nearer, Distance
  <2> QED
    BY <2>1, <2>2, <2>3, <2>4, <2>5 DEF Standard
<1>3. CASE word = "medium"
  <2>1. \A w \in {"medium", "low", "high", "minimal", "xhigh"} : Nearer("medium", w, word)
    BY <1>3, Ranks DEF Nearer, Distance
  <2>2. \A w \in {"low", "high", "minimal", "xhigh"} : Nearer("low", w, word)
    BY <1>3, Ranks DEF Nearer, Distance
  <2>3. \A w \in {"high", "minimal", "xhigh"} : Nearer("high", w, word)
    BY <1>3, Ranks DEF Nearer, Distance
  <2>4. \A w \in {"minimal", "xhigh"} : Nearer("minimal", w, word)
    BY <1>3, Ranks DEF Nearer, Distance
  <2>5. \A w \in {"xhigh"} : Nearer("xhigh", w, word)
    BY <1>3, Ranks DEF Nearer, Distance
  <2> QED
    BY <2>1, <2>2, <2>3, <2>4, <2>5 DEF Standard
<1>4. CASE word = "high"
  <2>1. \A w \in {"high", "medium", "xhigh", "low", "minimal"} : Nearer("high", w, word)
    BY <1>4, Ranks DEF Nearer, Distance
  <2>2. \A w \in {"medium", "xhigh", "low", "minimal"} : Nearer("medium", w, word)
    BY <1>4, Ranks DEF Nearer, Distance
  <2>3. \A w \in {"xhigh", "low", "minimal"} : Nearer("xhigh", w, word)
    BY <1>4, Ranks DEF Nearer, Distance
  <2>4. \A w \in {"low", "minimal"} : Nearer("low", w, word)
    BY <1>4, Ranks DEF Nearer, Distance
  <2>5. \A w \in {"minimal"} : Nearer("minimal", w, word)
    BY <1>4, Ranks DEF Nearer, Distance
  <2>6. C \subseteq {"high", "medium", "xhigh", "low", "minimal"}
    BY DEF Standard
  <2>7. CASE "high" \in C
    BY <2>1, <2>6, <2>7
  <2>8. CASE "high" \notin C /\ "medium" \in C
    BY <2>2, <2>6, <2>8
  <2>9. CASE "high" \notin C /\ "medium" \notin C /\ "xhigh" \in C
    BY <2>3, <2>6, <2>9
  <2>10. CASE "high" \notin C /\ "medium" \notin C /\ "xhigh" \notin C /\ "low" \in C
    BY <2>4, <2>6, <2>10
  <2>11. CASE /\ "high" \notin C /\ "medium" \notin C /\ "xhigh" \notin C /\ "low" \notin C
              /\ "minimal" \in C
    BY <2>5, <2>6, <2>11
  <2> QED
    BY <2>6, <2>7, <2>8, <2>9, <2>10, <2>11
<1>5. CASE word = "xhigh"
  <2>1. \A w \in {"xhigh", "high", "medium", "low", "minimal"} : Nearer("xhigh", w, word)
    BY <1>5, Ranks DEF Nearer, Distance
  <2>2. \A w \in {"high", "medium", "low", "minimal"} : Nearer("high", w, word)
    BY <1>5, Ranks DEF Nearer, Distance
  <2>3. \A w \in {"medium", "low", "minimal"} : Nearer("medium", w, word)
    BY <1>5, Ranks DEF Nearer, Distance
  <2>4. \A w \in {"low", "minimal"} : Nearer("low", w, word)
    BY <1>5, Ranks DEF Nearer, Distance
  <2>5. \A w \in {"minimal"} : Nearer("minimal", w, word)
    BY <1>5, Ranks DEF Nearer, Distance
  <2>6. C \subseteq {"xhigh", "high", "medium", "low", "minimal"}
    BY DEF Standard
  <2>7. CASE "xhigh" \in C
    BY <2>1, <2>6, <2>7
  <2>8. CASE "xhigh" \notin C /\ "high" \in C
    BY <2>2, <2>6, <2>8
  <2>9. CASE "xhigh" \notin C /\ "high" \notin C /\ "medium" \in C
    BY <2>3, <2>6, <2>9
  <2>10. CASE "xhigh" \notin C /\ "high" \notin C /\ "medium" \notin C /\ "low" \in C
    BY <2>4, <2>6, <2>10
  <2>11. CASE /\ "xhigh" \notin C /\ "high" \notin C /\ "medium" \notin C /\ "low" \notin C
              /\ "minimal" \in C
    BY <2>5, <2>6, <2>11
  <2> QED
    BY <2>6, <2>7, <2>8, <2>9, <2>10, <2>11
<1> QED
  BY <1>1, <1>2, <1>3, <1>4, <1>5 DEF Standard

LEMMA NearestLevel ==
  ASSUME NEW m, NEW word \in Standard
  PROVE  /\ ClampLevel(word, m) \in Standard
         /\ m.levels \cap Standard # {} => ClampLevel(word, m) \in m.levels
<1> DEFINE C == m.levels \cap Standard
<1> DEFINE Near(v) == \A w \in C : Nearer(v, w, word)
<1>1. CASE m.levels = {} \/ word \in m.levels \/ C = {}
  BY <1>1 DEF ClampLevel
<1>2. CASE ~(m.levels = {} \/ word \in m.levels \/ C = {})
  <2>1. ClampLevel(word, m) = CHOOSE v \in C : Near(v)
    BY <1>2 DEF ClampLevel, Nearer
  <2>2. C \in SUBSET Standard
    OBVIOUS
  <2>3. \E v \in C : Near(v)
    BY <1>2, <2>2, NearestExists
  <2>4. (CHOOSE v \in C : Near(v)) \in C
    <3> HIDE DEF C, Near
    <3> QED
      BY <2>3
  <2> QED
    BY <2>1, <2>4
<1> QED
  BY <1>1, <1>2

LEMMA PositiveLevels ==
  /\ \A n \in Nat \ {0} : BudgetToLevel(n) \in Standard
  /\ BudgetToLevel(0) = "none" /\ BudgetToLevel(-1) = "auto"
  /\ \A n \in Int : n < -1 => BudgetToLevel(n) = "unset"
<1>1. \A n \in Nat \ {0} : BudgetToLevel(n) \in Standard
  BY DEF BudgetToLevel, Standard
<1>2. \A n \in Int : n = 0 => BudgetToLevel(n) = "none"
  BY DEF BudgetToLevel
<1>3. \A n \in Int : n = -1 => BudgetToLevel(n) = "auto"
  BY DEF BudgetToLevel
<1>4. \A n \in Int : n < -1 => BudgetToLevel(n) = "unset"
  BY DEF BudgetToLevel
<1> QED
  BY <1>1, <1>2, <1>3, <1>4

\* A setting between its conversion and its clamping: a level is the model's.
Checked(c, m) ==
  \/ c = Off \/ c = Automatic
  \/ HasLevels(m) /\ (\E w \in m.levels : c = AtLevel(w))
  \/ HasBudgets(m) /\ (\E n \in Int \ {0, -1} : c = Setting("budget", n, "unset"))

LEMMA CheckedByValidation ==
  ASSUME NEW m \in ModelShape, Offered(m),
         NEW c, Asked(c), c # NoSetting, NEW lenient \in BOOLEAN,
         LevelChecked(Named(Converted(c, m)), m, lenient) # NotSettled
  PROVE  LET e == LevelChecked(Named(Converted(c, m)), m, lenient) IN
         Checked(e, m) /\ (e = Automatic => AutoAsked(c))
<1> DEFINE d == Named(Converted(c, m))
<1> DEFINE e == LevelChecked(d, m, lenient)
<1>1. HasBudgets(m) \/ HasLevels(m)
  BY DEF Offered
<1>2. \/ d = Off \/ d = NotSettled
      \/ d = Automatic /\ AutoAsked(c)
      \/ \E w : d = AtLevel(w) /\ HasLevels(m)
      \/ HasBudgets(m) /\ (\E n \in Int \ {0, -1} : d = Setting("budget", n, "unset"))
  <2>1. CASE c = Off \/ c = Automatic
    BY <2>1 DEF Converted, Named, Off, Automatic, Setting, AutoAsked
  <2>2. CASE \E w \in Words : c = AtLevel(w)
    <3>1. PICK w \in Words : c = AtLevel(w)
      BY <2>2
    <3>2. c.mode = "level" /\ c.level = w
      BY <3>1 DEF AtLevel, Setting
    <3>3. CASE Capability(m) = "budget" /\ w # "auto"
      <4>1. CASE w \in {"none"} \cup Standard
        <5>1. w \in DOMAIN LevelToBudget /\ LevelToBudget[w] \in Int /\ LevelToBudget[w] >= 0
          BY <4>1, LevelBudgets
        <5>2. Converted(c, m) = Setting("budget", LevelToBudget[w], "unset")
          BY <3>2, <3>3, <5>1 DEF Converted
        <5>3. HasBudgets(m)
          BY <3>3 DEF Capability
        <5> QED
          BY <5>1, <5>2, <5>3 DEF Named, Setting
      <4>2. CASE w = "other"
        <5>1. w \notin DOMAIN LevelToBudget
          BY <4>2, LevelBudgets DEF Standard
        <5>2. Converted(c, m) = NotSettled
          BY <3>2, <3>3, <5>1 DEF Converted
        <5> QED
          BY <5>2 DEF Named, NotSettled, Setting
      <4> QED
        BY <3>3, <4>1, <4>2 DEF Words
    <3>4. CASE ~(Capability(m) = "budget" /\ w # "auto")
      <4>1. Converted(c, m) = c
        BY <3>2, <3>4 DEF Converted
      <4>2. w = "auto" \/ HasLevels(m)
        BY <1>1, <3>4 DEF Capability
      <4>3. CASE w = "auto"
        BY <3>1, <3>2, <4>1, <4>3 DEF Named, AutoAsked
      <4>4. CASE w # "auto"
        BY <3>1, <3>2, <4>1, <4>2, <4>4 DEF Named
      <4> QED
        BY <4>3, <4>4
    <3> QED
      BY <3>3, <3>4
  <2>3. CASE \E n \in Int \ {0, -1} : c = Setting("budget", n, "unset")
    <3>1. PICK n \in Int \ {0, -1} : c = Setting("budget", n, "unset")
      BY <2>3
    <3>2. c.mode = "budget" /\ c.budget = n
      BY <3>1 DEF Setting
    <3>3. CASE Capability(m) = "level"
      <4>1. \/ Converted(c, m) = NotSettled
            \/ \E w \in Standard : Converted(c, m) = AtLevel(w)
        <5>1. CASE n < -1
          BY <3>2, <3>3, <5>1 DEF Converted
        <5>2. CASE ~(n < -1)
          <6>1. PICK p \in Nat \ {0} : p = n
            BY <5>2
          <6>2. ClampLevel(BudgetToLevel(n), m) \in Standard
            BY <6>1, PositiveLevels, NearestLevel
          <6>3. Converted(c, m) = AtLevel(ClampLevel(BudgetToLevel(n), m))
            BY <3>2, <3>3, <5>2 DEF Converted
          <6> QED
            BY <6>2, <6>3
        <5> QED
          BY <5>1, <5>2
      <4>2. HasLevels(m)
        BY <3>3 DEF Capability
      <4>3. "none" \notin Standard /\ "auto" \notin Standard
        BY DEF Standard
      <4>4. CASE Converted(c, m) = NotSettled
        BY <4>4 DEF Named, NotSettled, Setting
      <4>5. CASE \E w \in Standard : Converted(c, m) = AtLevel(w)
        <5>1. PICK w \in Standard : Converted(c, m) = AtLevel(w)
          BY <4>5
        <5>2. Named(AtLevel(w)) = AtLevel(w)
          BY <4>3, SettingsDiffer DEF Named
        <5> QED
          BY <4>2, <5>1, <5>2
      <4> QED
        BY <4>1, <4>4, <4>5
    <3>4. CASE Capability(m) # "level"
      <4>1. Converted(c, m) = c
        BY <3>2, <3>4 DEF Converted
      <4>2. HasBudgets(m)
        BY <1>1, <3>4 DEF Capability
      <4> QED
        BY <3>1, <3>2, <4>1, <4>2 DEF Named
    <3> QED
      BY <3>3, <3>4
  <2> QED
    BY <2>1, <2>2, <2>3 DEF Asked, AtLevel
<1>3. CASE d = Off \/ d = NotSettled \/ (d = Automatic /\ AutoAsked(c))
  BY <1>3 DEF LevelChecked, Off, Automatic, NotSettled, Setting, Checked
<1>4. CASE \E w : d = AtLevel(w) /\ HasLevels(m)
  <2>1. \E w \in m.levels : e = AtLevel(w)
    BY <1>4 DEF LevelChecked, AtLevel, Setting, NotSettled
  <2> QED
    BY <1>4, <2>1 DEF Checked, AtLevel, Automatic, Setting
<1>5. CASE HasBudgets(m) /\ (\E n \in Int \ {0, -1} : d = Setting("budget", n, "unset"))
  BY <1>5 DEF LevelChecked, Setting, Checked, Automatic
<1> QED
  BY <1>2, <1>3, <1>4, <1>5

\* What is left to clamp, once a middle was chosen where it had to be.
Ready(f, m, c) ==
  \/ f = Off
  \/ f = Automatic /\ m.dynamic
  \/ HasLevels(m) /\ (\E w \in Words : f = AtLevel(w) /\ (w \in m.levels \/ Assumed(w, m, c)))
  \/ HasBudgets(m) /\ (\E n \in Int \ {-1} :
                          f = Setting("budget", n, "unset") /\ (n = 0 => ~m.zero))

LEMMA MiddleReady ==
  ASSUME NEW m \in ModelShape, Offered(m), NEW c, AutoAsked(c), ~m.dynamic
  PROVE  Ready(MidRange(m), m, c)
<1> USE Shape
<1> DEFINE mid == (m.min + m.max) \div 2
<1>1. mid \in Int
  OBVIOUS
<1>2. CASE HasLevels(m) /\ ~HasBudgets(m)
  <2>1. MidRange(m) = AtLevel("medium")
    BY <1>2 DEF MidRange
  <2> QED
    BY <1>2, <2>1 DEF Ready, Assumed, Words, Standard
<1>3. CASE ~(HasLevels(m) /\ ~HasBudgets(m)) /\ mid <= 0 /\ m.zero
  BY <1>3 DEF MidRange, Ready
<1>4. CASE ~(HasLevels(m) /\ ~HasBudgets(m)) /\ ~(mid <= 0 /\ m.zero)
  <2>1. HasBudgets(m)
    BY <1>4 DEF Offered
  <2>2. PICK n \in Int : n = IF mid > 0 THEN mid ELSE m.min
    BY <1>1
  <2>3. MidRange(m) = Setting("budget", n, "unset")
    BY <1>4, <2>2 DEF MidRange
  <2>4. n # -1 /\ (n = 0 => ~m.zero)
    BY <1>1, <1>4, <2>2
  <2> QED
    BY <2>1, <2>3, <2>4 DEF Ready
<1> QED
  BY <1>1, <1>2, <1>3, <1>4

LEMMA BudgetClamped ==
  ASSUME NEW m \in ModelShape, m.min <= m.max, NEW n \in Int
  PROVE  /\ ClampBudget(n, m) \in Int
         /\ n = -1 => ClampBudget(n, m) = -1
         /\ n = 0 => ClampBudget(n, m) = IF m.zero THEN 0 ELSE m.min
         /\ HasBudgets(m) /\ n # -1 /\ (n = 0 => ~m.zero) =>
              m.min <= ClampBudget(n, m) /\ ClampBudget(n, m) <= m.max
  BY Shape DEF ClampBudget

LEMMA ClampedFits ==
  ASSUME NEW m \in ModelShape, NEW to \in Targets, Offered(m), NEW c, NEW f, Ready(f, m, c)
  PROVE  Fits(Clamped(f, m, to), m, to, c)
<1> USE Shape
<1>1. m.min <= m.max /\ m.lowest \in Words \cup {"unset"}
  BY DEF Offered
<1>2. CASE f = Off
  <2>1. f.mode = "none" /\ f.budget = 0 /\ f.level = "unset"
    BY <1>2 DEF Off, Setting
  <2>2. CASE to = "claude"
    <3>1. Clamped(f, m, to) = [mode |-> "none", budget |-> 0, level |-> "unset"]
      BY <2>1, <2>2 DEF Clamped, Off, Setting
    <3> QED
      BY <2>2, <3>1 DEF Fits, SettingShape
  <2>3. CASE to # "claude"
    <3> DEFINE b == ClampBudget(0, m)
    <3>1. b \in Int /\ b = IF m.zero THEN 0 ELSE m.min
      BY <1>1, BudgetClamped
    <3>2. Clamped(f, m, to) =
            [f EXCEPT !.budget = b, !.level = IF b > 0 /\ HasLevels(m) THEN m.lowest ELSE @]
      BY <2>1, <2>3 DEF Clamped
    <3>3. Clamped(f, m, to) =
            [mode |-> "none", budget |-> b,
             level |-> IF b > 0 /\ HasLevels(m) THEN m.lowest ELSE "unset"]
      BY <1>2, <3>2 DEF Off, Setting
    <3>4. (m.zero /\ b = 0) \/ (~m.zero /\ b = m.min)
      BY <3>1
    <3> HIDE DEF b
    <3> QED
      BY <1>1, <3>1, <3>3, <3>4 DEF Fits, SettingShape
  <2> QED
    BY <2>2, <2>3
<1>3. CASE f = Automatic /\ m.dynamic
  <2>1. f.mode = "auto" /\ f.budget = -1 /\ f.level = "unset"
    BY <1>3 DEF Automatic, Setting
  <2>2. ClampBudget(f.budget, m) = -1
    BY <1>1, <2>1, BudgetClamped
  <2>3. Clamped(f, m, to) = f
    BY <1>3, <2>1, <2>2 DEF Clamped, Automatic, Setting
  <2> QED
    BY <1>3, <2>1, <2>3 DEF Fits, SettingShape, Automatic, Setting
<1>4. CASE HasLevels(m) /\ (\E w \in Words : f = AtLevel(w) /\ (w \in m.levels \/ Assumed(w, m, c)))
  BY <1>4 DEF Clamped, AtLevel, Setting, Fits, SettingShape
<1>5. CASE HasBudgets(m) /\ (\E n \in Int \ {-1} :
                                f = Setting("budget", n, "unset") /\ (n = 0 => ~m.zero))
  <2>1. PICK n \in Int \ {-1} : f = Setting("budget", n, "unset") /\ (n = 0 => ~m.zero)
    BY <1>5
  <2>2. /\ ClampBudget(n, m) \in Int
        /\ m.min <= ClampBudget(n, m) /\ ClampBudget(n, m) <= m.max
    BY <1>1, <1>5, <2>1, BudgetClamped
  <2>3. Clamped(f, m, to) = Setting("budget", ClampBudget(n, m), "unset")
    BY <2>1 DEF Clamped, Setting
  <2> QED
    BY <1>5, <2>2, <2>3 DEF Fits, SettingShape, Setting
<1> QED
  BY <1>2, <1>3, <1>4, <1>5 DEF Ready

LEMMA ValidatedFits ==
  ASSUME NEW m \in ModelShape, NEW to \in Targets, Offered(m),
         NEW c, Asked(c), c # NoSetting, NEW from, NEW suffixed \in BOOLEAN,
         ValidateConfig(c, m, from, to, suffixed) # NotSettled
  PROVE  Fits(ValidateConfig(c, m, from, to, suffixed), m, to, c)
<1> DEFINE lenient == from \in BudgetBased /\ to \in LevelBased
<1> DEFINE e == LevelChecked(Named(Converted(c, m)), m, lenient)
<1> DEFINE f == IF e.mode = "auto" /\ ~m.dynamic THEN MidRange(m) ELSE e
<1>1. e # NotSettled /\ ValidateConfig(c, m, from, to, suffixed) = Clamped(f, m, to)
  BY DEF ValidateConfig
<1>2. lenient \in BOOLEAN
  OBVIOUS
<1>3. Checked(e, m) /\ (e = Automatic => AutoAsked(c))
  BY <1>1, <1>2, CheckedByValidation
<1>4. Ready(f, m, c)
  <2>1. CASE e.mode = "auto" /\ ~m.dynamic
    <3>1. e = Automatic
      BY <1>3, <2>1, SettingsDiffer DEF Checked
    <3> QED
      BY <1>3, <2>1, <3>1, MiddleReady
  <2>2. CASE ~(e.mode = "auto" /\ ~m.dynamic)
    <3>1. e = Automatic => m.dynamic
      BY <2>2 DEF Automatic, Setting
    <3> QED
      BY <1>3, <2>2, <3>1, Shape DEF Checked, Ready
  <2> QED
    BY <2>1, <2>2
<1> QED
  BY <1>1, <1>4, ClampedFits

-----------------------------------------------------------------------------
(* The appliers *)

LEMMA ClaudeApplied ==
  ASSUME NEW m \in ModelShape, Offered(m), NEW b, Carries(b, "claude"),
         NEW c, NEW v, Fits(v, m, "claude", c)
  PROVE  LET x == ApplyClaude(b, v, m) IN x \in Body /\ Written(x, m, "claude", b, c)
<1> USE Shape
<1> DEFINE x == ApplyClaude(b, v, m)
<1>1. b \in Body /\ b.level = "unset" /\ b.max \in Nat
  BY DEF Carries, Body
<1>2. m.min <= m.max
  BY DEF Offered
<1>3. /\ v.budget \in Int
      /\ v.mode \in {"budget", "none"} =>
           v.budget = 0 \/ (m.min <= v.budget /\ v.budget <= m.max)
  BY <1>2 DEF Fits, SettingShape
<1>6. CASE v.mode \notin {"budget", "none"}
  <2>1. x = b
    BY <1>6 DEF ApplyClaude
  <2>2. HasLevels(m) \/ m.dynamic
    BY <1>6 DEF Fits, SettingShape
  <2> QED
    BY <1>1, <2>1, <2>2 DEF Written, Bare
<1>4. CASE v.mode \in {"budget", "none"} /\ v.budget = 0
  <2>1. x = Disabled(b)
    BY <1>3, <1>4 DEF ApplyClaude
  <2>2. x \in Body /\ x.budget = Absent /\ x.level = "unset"
    BY <1>1, <2>1, EmptyBody DEF Disabled, Body, Empty
  <2> QED
    BY <2>2 DEF Written, Supported
<1>5. CASE v.mode \in {"budget", "none"} /\ v.budget # 0
  <2> DEFINE room == Room(b, m)
  <2> DEFINE less == Below(v.budget, room)
  <2>1. v.budget > 0 /\ m.min <= v.budget /\ v.budget <= m.max
    BY <1>3, <1>5
  <2>2. room \in Nat
    BY <1>1 DEF Room
  <2>3. /\ less \in Int /\ less <= v.budget
        /\ room > 0 => less < room
        /\ less < v.budget => room > 0 /\ less = room - 1
    BY <1>3, <2>2 DEF Below
  <2> DEFINE n == IF m.min > 0 /\ less > 0 /\ less < m.min THEN v.budget ELSE less
  <2>4. n \in Int
    BY <1>3, <2>3
  <2>5. (m.min <= n /\ n <= m.max) \/ room = 1
    BY <1>3, <2>1, <2>2, <2>3
  <2>6. n < room \/ room <= m.min
    BY <1>3, <2>1, <2>2, <2>3
  <2>7. x = [Enabled(b, n) EXCEPT !.max = room]
    BY <1>3, <1>5, <2>1 DEF ApplyClaude
  <2> HIDE DEF n, room, less
  <2>8. /\ x \in Body /\ x.type = "enabled" /\ x.budget = n /\ x.level = "unset" /\ x.max = room
    BY <1>1, <2>2, <2>4, <2>7 DEF Enabled, Body
  <2> QED
    BY <2>5, <2>6, <2>8 DEF Written, Supported, BudgetSupported
<1> QED
  BY <1>4, <1>5, <1>6

LEMMA WrittenInLevels ==
  ASSUME NEW m \in ModelShape, NEW to \in Geminis, NEW b \in Body, NEW c,
         NEW v, v.mode \in {"none", "level"}, v.level \in Words,
         v.level \in m.levels \/ Assumed(v.level, m, c)
  PROVE  InLevels(b, v) \in Body /\ Supported(InLevels(b, v), m, to, b, c)
<1>1. v.level \in Words /\ v.level # "unset"
  BY DEF Words, Standard
<1>2. Absent \in Int
  BY DEF Absent
<1>3. LET x == InLevels(b, v) IN x \in Body /\ x.budget = Absent /\ x.level = v.level
  BY <1>1, <1>2 DEF InLevels, Body
<1>4. to # "claude"
  BY DEF Geminis
<1> QED
  BY <1>3, <1>4 DEF Supported, LevelSupported

\* A model that has only levels, and is told not to think.
LEMMA HiddenInLevels ==
  ASSUME NEW m \in ModelShape, NEW to \in Geminis, NEW b \in Body, ~HasBudgets(m), NEW c,
         NEW v, v.mode = "none", v.level = "unset"
  PROVE  InLevels(b, v) \in Body /\ Supported(InLevels(b, v), m, to, b, c)
<1>1. Absent \in Int
  BY DEF Absent
<1>2. LET x == InLevels(b, v) IN
        x \in Body /\ x.budget = Absent /\ x.level = b.level /\ x.thoughts = "off"
  BY <1>1 DEF InLevels, Body
<1>3. to # "claude"
  BY DEF Geminis
<1> QED
  BY <1>2, <1>3 DEF Supported

LEMMA WrittenInBudget ==
  ASSUME NEW m \in ModelShape, NEW to \in Geminis, NEW b \in Body, NEW c,
         NEW v, v.budget \in Int, BudgetSupported(v.budget, m)
  PROVE  InBudget(b, v) \in Body /\ Supported(InBudget(b, v), m, to, b, c)
<1>1. LET x == InBudget(b, v) IN x \in Body /\ x.budget = v.budget /\ x.level = "unset"
  BY DEF InBudget, Body
<1>2. to # "claude"
  BY DEF Geminis
<1> QED
  BY <1>1, <1>2 DEF Supported

LEMMA WrittenForClaude ==
  ASSUME NEW m \in ModelShape, NEW to \in Geminis, NEW b \in Body, NEW c, m.min <= m.max,
         NEW v, v.budget \in Int, BudgetSupported(v.budget, m)
  PROVE  InBudgetOfClaude(b, v, m) \in Body /\ Supported(InBudgetOfClaude(b, v, m), m, to, b, c)
<1> USE Shape
<1> DEFINE x == InBudgetOfClaude(b, v, m)
<1> DEFINE room == Room(b, m)
<1> DEFINE less == Below(v.budget, room)
<1>1. room \in Nat
  BY DEF Room, Body
<1>2. /\ less \in Int /\ less <= v.budget
      /\ less < v.budget => less >= 0
  BY <1>1 DEF Below
<1>3. to # "claude" /\ Absent \in Int
  BY DEF Geminis, Absent
<1>4. CASE m.min > 0 /\ less >= 0 /\ less < m.min
  <2>1. x = [b EXCEPT !.level = "unset", !.budget = Absent, !.thoughts = "unset"]
    BY <1>4 DEF InBudgetOfClaude
  <2>2. x \in Body /\ x.budget = Absent /\ x.level = "unset"
    BY <1>3, <2>1 DEF Body
  <2> QED
    BY <1>3, <2>2 DEF Supported
<1>5. CASE ~(m.min > 0 /\ less >= 0 /\ less < m.min)
  <2>1. x = [InBudget(b, v) EXCEPT !.budget = less, !.max = room]
    BY <1>5 DEF InBudgetOfClaude
  <2>2. BudgetSupported(less, m)
    <3>1. CASE less = v.budget
      BY <3>1
    <3>2. CASE less < v.budget
      BY <1>2, <1>5, <3>2 DEF BudgetSupported
    <3> QED
      BY <1>2, <3>1, <3>2
  <2> HIDE DEF less, room
  <2>3. x \in Body /\ x.budget = less /\ x.level = "unset"
    BY <1>1, <1>2, <2>1 DEF InBudget, Body
  <2> QED
    BY <1>3, <2>2, <2>3 DEF Supported
<1> QED
  BY <1>4, <1>5

LEMMA GeminiApplied ==
  ASSUME NEW m \in ModelShape, NEW to \in Geminis, Offered(m), NEW b, Carries(b, to),
         NEW c, NEW v, Fits(v, m, to, c)
  PROVE  LET x == ApplyGemini(b, v, m, to) IN x \in Body /\ Supported(x, m, to, b, c)
<1> USE Shape
<1>1. b \in Body /\ to # "claude" /\ m.min <= m.max
  BY DEF Carries, Geminis, Offered
<1>2. CASE v.mode \in {"level", "none"} /\ HasLevels(m)
  <2>1. ApplyGemini(b, v, m, to) = InLevels(b, v)
    BY <1>2 DEF ApplyGemini
  <2>2. CASE v.mode = "level"
    <3>1. v.level \in Words /\ (v.level \in m.levels \/ Assumed(v.level, m, c))
      BY <2>2 DEF Fits
    <3> QED
      BY <1>1, <2>1, <2>2, <3>1, WrittenInLevels
  <2>3. CASE v.mode = "none" /\ HasBudgets(m)
    <3>1. m.min > 0 /\ ~m.zero /\ m.lowest \in m.levels
      BY <1>2, <2>3 DEF Offered
    <3>2. v.level \in m.levels
      BY <1>1, <1>2, <2>3, <3>1 DEF Fits, SettingShape
    <3> QED
      BY <1>1, <2>1, <2>3, <3>2, WrittenInLevels
  <2>4. CASE v.mode = "none" /\ ~HasBudgets(m)
    <3>1. m.min = 0
      BY <2>4 DEF HasBudgets
    <3>2. v.level = "unset"
      BY <1>1, <2>4, <3>1 DEF Fits, SettingShape
    <3> QED
      BY <1>1, <2>1, <2>4, <3>2, HiddenInLevels
  <2> QED
    BY <1>2, <2>2, <2>3, <2>4
<1>3. CASE ~(v.mode \in {"level", "none"} /\ HasLevels(m))
  <2>1. v.mode # "level"
    BY <1>3 DEF Fits, SettingShape
  <2>2. v.budget \in Int
    BY DEF Fits, SettingShape
  <2>3. BudgetSupported(v.budget, m)
    <3>1. CASE v.mode = "auto"
      BY <3>1 DEF Fits, SettingShape, BudgetSupported
    <3>2. CASE v.mode = "budget"
      BY <3>2 DEF Fits, SettingShape, BudgetSupported
    <3>3. CASE v.mode = "none"
      BY <1>1, <3>3 DEF Fits, SettingShape, BudgetSupported
    <3> QED
      BY <2>1, <3>1, <3>2, <3>3 DEF Fits, SettingShape
  <2>4. ApplyGemini(b, v, m, to) \in {InBudgetOfClaude(b, v, m), InBudget(b, v)}
    BY <1>3, <2>1 DEF ApplyGemini
  <2> QED
    BY <1>1, <2>2, <2>3, <2>4, WrittenForClaude, WrittenInBudget
<1> QED
  BY <1>2, <1>3

\* The effort of a model with budgets is left alone, unless it is not to think.
LEMMA EffortApplied ==
  ASSUME NEW m \in ModelShape, NEW to \in {"openai", "codex"}, Offered(m),
         NEW b, Carries(b, to), NEW c, NEW v, Fits(v, m, to, c)
  PROVE  LET x == ApplyEffort(b, v, m) IN x \in Body /\ Written(x, m, to, b, c)
<1> USE Shape
<1> DEFINE x == ApplyEffort(b, v, m)
<1>1. b \in Body /\ b.budget = Absent
  BY DEF Carries, BudgetBased, Geminis
<1>2. "unset" \notin Words /\ "none" \in Words /\ to # "claude"
  BY DEF Words, Standard
<1>3. HasLevels(m) => m.lowest \in m.levels
  BY DEF Offered
<1>4. ASSUME NEW w \in Words, x = [b EXCEPT !.level = w],
             LevelSupported(w, m) \/ Assumed(w, m, c)
      PROVE  x \in Body /\ Written(x, m, to, b, c)
  <2>1. x \in Body /\ x.budget = Absent /\ x.level = w
    BY <1>1, <1>4 DEF Body
  <2> QED
    BY <1>2, <1>4, <2>1 DEF Written, Supported
<1>5. CASE v.mode \in {"auto", "budget"}
  <2>1. x = b
    BY <1>5 DEF ApplyEffort
  <2>2. HasBudgets(m) \/ m.dynamic
    BY <1>5 DEF Fits
  <2> QED
    BY <1>1, <2>1, <2>2 DEF Written, Bare
<1>6. CASE v.mode = "level"
  <2>1. v.level \in Words /\ (v.level \in m.levels \/ Assumed(v.level, m, c))
    BY <1>6 DEF Fits
  <2>2. x = [b EXCEPT !.level = v.level]
    BY <1>2, <1>6, <2>1 DEF ApplyEffort
  <2> QED
    BY <1>4, <2>1, <2>2 DEF LevelSupported
<1>7. CASE v.mode = "none"
  <2>1. CASE v.budget = 0 /\ (m.zero \/ "none" \in m.levels)
    <3>1. x = [b EXCEPT !.level = "none"]
      BY <1>7, <2>1 DEF ApplyEffort
    <3> QED
      BY <1>2, <1>4, <2>1, <3>1 DEF LevelSupported
  <2>2. CASE ~(v.budget = 0 /\ (m.zero \/ "none" \in m.levels)) /\ HasLevels(m)
    <3>1. v.level \in {"unset", m.lowest}
      BY <1>7 DEF Fits
    <3>2. m.lowest \in m.levels /\ m.lowest \in Words /\ m.lowest # "unset"
      BY <1>2, <1>3, <2>2
    <3>3. x = [b EXCEPT !.level = m.lowest]
      BY <1>7, <2>2, <3>1, <3>2 DEF ApplyEffort
    <3> QED
      BY <1>4, <3>2, <3>3 DEF LevelSupported
  <2>3. CASE ~(v.budget = 0 /\ (m.zero \/ "none" \in m.levels)) /\ ~HasLevels(m)
    <3>1. m.lowest = "unset" /\ HasBudgets(m)
      BY <2>3 DEF Offered
    <3>2. v.level = "unset"
      BY <1>7, <2>3 DEF Fits
    <3>3. x = b
      BY <1>7, <2>3, <3>1, <3>2 DEF ApplyEffort
    <3> QED
      BY <1>1, <3>1, <3>3 DEF Written, Bare
  <2> QED
    BY <2>1, <2>2, <2>3
<1> QED
  BY <1>5, <1>6, <1>7 DEF Fits, SettingShape

LEMMA IFlowApplied ==
  ASSUME NEW m, NEW b, Carries(b, "iflow"), NEW c, NEW v
  PROVE  LET x == ApplyIFlow(b, v, m) IN x \in Body /\ Supported(x, m, "iflow", b, c)
<1>1. b \in Body /\ b.budget = Absent
  BY DEF Carries, BudgetBased, Geminis
<1>2. LET x == ApplyIFlow(b, v, m) IN x \in Body /\ x.budget = Absent
  BY <1>1 DEF ApplyIFlow, Body
<1> QED
  BY <1>2 DEF Supported

LEMMA SettingApplied ==
  ASSUME NEW to \in Targets, NEW m \in ModelShape, m.known, Offered(m),
         NEW b, Carries(b, to), NEW c, NEW v, Fits(v, m, to, c)
  PROVE  Applied(b, v, m, to) \in Body /\ Written(Applied(b, v, m, to), m, to, b, c)
<1>1. CASE to = "claude"
  <2>1. Applied(b, v, m, to) = ApplyClaude(b, v, m)
    BY <1>1 DEF Applied, Geminis
  <2> QED
    BY <1>1, <2>1, ClaudeApplied
<1>2. CASE to \in Geminis
  <2>1. Applied(b, v, m, to) = ApplyGemini(b, v, m, to)
    BY <1>2 DEF Applied, Geminis
  <2> QED
    BY <1>2, <2>1, GeminiApplied DEF Written
<1>3. CASE to \in {"openai", "codex"}
  <2>1. Applied(b, v, m, to) = ApplyEffort(b, v, m)
    BY <1>3 DEF Applied, Geminis
  <2> QED
    BY <1>3, <2>1, EffortApplied
<1>4. CASE to = "iflow"
  <2>1. Applied(b, v, m, to) = ApplyIFlow(b, v, m)
    BY <1>4 DEF Applied, Geminis
  <2> QED
    BY <1>4, <2>1, IFlowApplied DEF Written
<1> QED
  BY <1>1, <1>2, <1>3, <1>4 DEF Targets

\* A body that states nothing is supported as it is.
LEMMA SilentSupported ==
  ASSUME NEW to \in Targets, NEW m, NEW b, Carries(b, to), FromBody(b, to) = NoSetting,
         NEW k, NEW c
  PROVE  Supported(b, m, to, k, c)
<1>1. b.level \in Words \cup {"unset"} /\ b.budget \in Int
  BY DEF Carries, Body
<1>2. \A n \in Int : AtBudget(n) # NoSetting
  BY DEF AtBudget, NoSetting, Off, Automatic, Setting
<1>3. \A w : AtLevel(w) # NoSetting
  BY DEF AtLevel, NoSetting, Setting
<1>4. Off # NoSetting /\ Automatic # NoSetting
  BY DEF Off, Automatic, NoSetting, Setting
<1>5. CASE to = "claude"
  <2>1. FromClaude(b) = NoSetting /\ b.level = "unset"
    BY <1>5 DEF FromBody, Carries, Geminis
  <2>2. b.budget = Absent
    BY <1>1, <1>2, <1>4, <2>1 DEF FromClaude
  <2> QED
    BY <2>1, <2>2 DEF Supported
<1>6. CASE to \in Geminis
  <2>1. FromGemini(b) = NoSetting
    BY <1>6 DEF FromBody, Geminis
  <2>2. b.level = "unset"
    BY <1>3, <1>4, <2>1 DEF FromGemini
  <2>3. b.budget = Absent
    BY <1>1, <1>2, <2>1, <2>2 DEF FromGemini
  <2> QED
    BY <1>6, <2>2, <2>3 DEF Supported, Geminis
<1>7. CASE to \in {"openai", "codex"}
  <2>1. FromEffort(b) = NoSetting
    BY <1>7 DEF FromBody, Geminis
  <2>2. b.level = "unset"
    BY <1>3, <1>4, <2>1 DEF FromEffort
  <2>3. b.budget = Absent
    BY <1>7 DEF Carries, BudgetBased, Geminis
  <2> QED
    BY <1>7, <2>2, <2>3 DEF Supported
<1>8. CASE to = "iflow"
  BY <1>8 DEF Supported, Carries, BudgetBased, Geminis
<1> QED
  BY <1>5, <1>6, <1>7, <1>8 DEF Targets

LEMMA StrippedBody ==
  ASSUME NEW to \in Targets, NEW b \in Body
  PROVE  Stripped(b, to) \in Body
<1>1. Absent \in Int
  BY DEF Absent
<1> QED
  BY <1>1 DEF Stripped, Body, Targets, Geminis

\* For a model the registry does not know, a setting is written as it is.
LEMMA UncheckedBody ==
  ASSUME NEW to \in Targets, NEW m, ~m.known, NEW b \in Body,
         NEW v \in SettingShape
  PROVE  Applied(b, v, m, to) \in Body
<1> USE DEF SettingShape
<1>1. Absent \in Int /\ "none" \in Words /\ "auto" \in Words
  BY DEF Absent, Words
<1>2. /\ \A n \in Int : Enabled(b, n) \in Body
      /\ Disabled(b) \in Body
  BY <1>1 DEF Enabled, Disabled, Body
<1>3. CompatibleClaude(b, v) \in Body
  BY <1>1, <1>2 DEF CompatibleClaude
<1>4. InLevels(b, v) \in Body
  BY <1>1 DEF InLevels, Body
<1>5. InBudget(b, v) \in Body
  BY DEF InBudget, Body
<1>6. CompatibleGemini(b, v) \in Body
  BY <1>4, <1>5 DEF CompatibleGemini
<1>7. CompatibleEffort(b, v) \in Body
  <2>1. \A w \in Words \cup {"unset"} : [b EXCEPT !.level = w] \in Body
    BY DEF Body
  <2> DEFINE effort == CASE v.mode = "level" -> v.level
                         [] v.mode = "none" -> IF v.level # "unset" THEN v.level ELSE "none"
                         [] v.mode = "auto" -> "auto"
                         [] v.mode = "budget" -> BudgetToLevel(v.budget)
  <2>2. effort \in Words \cup {"unset"}
    BY <1>1, BudgetLevels
  <2>3. CompatibleEffort(b, v) = IF effort # "unset" THEN [b EXCEPT !.level = effort] ELSE b
    BY DEF CompatibleEffort
  <2> HIDE DEF effort
  <2> QED
    BY <2>1, <2>2, <2>3
<1> QED
  BY <1>3, <1>6, <1>7 DEF Applied, Targets, Geminis
-----------------------------------------------------------------------------
(* The invariant *)

LEMMA AskFacts ==
  ASSUME ThinkingInv
  PROVE  /\ ask.body \in ClientBodies(ask.from) /\ Carries(AsCarried, Target)
         /\ Target \in Targets /\ Model \in ModelShape /\ ask.from \in Froms
         /\ Model.known /\ Model.thinks => Offered(Model)
         /\ ask.suffix \in Suffix /\ ask.suffix.has \in BOOLEAN
         /\ carried \in Body
<1>1. /\ ask.body \in ClientBodies(ask.from) /\ ask.from \in Froms
      /\ Target \in Targets /\ Model \in ModelShape
      /\ Model.known /\ Model.thinks => Offered(Model)
      /\ ask.suffix \in Suffix /\ ask.suffix.has \in BOOLEAN /\ carried \in Body
  BY ThinkingAssumption DEF ThinkingInv, ThinkingTypeOK, Target, Model, Suffix
<1>2. Carries(AsCarried, Target)
  BY <1>1, Translated DEF AsCarried
<1> QED
  BY <1>1, <1>2

LEMMA InitThinking == ThinkingInit => ThinkingInv
<1> SUFFICES ASSUME ThinkingInit PROVE ThinkingInv
  OBVIOUS
<1> PICK from \in Froms, u \in Upstreams, s \in ModelSuffixes :
      \E b \in ClientBodies(from), forced \in ToolChoices(u.to) :
        /\ ask = [from |-> from, upstream |-> u, suffix |-> s, forced |-> forced, body |-> b]
        /\ carried = b
  BY DEF ThinkingInit
<1> PICK b \in ClientBodies(from), forced \in ToolChoices(u.to) :
      /\ ask = [from |-> from, upstream |-> u, suffix |-> s, forced |-> forced, body |-> b]
      /\ carried = b
  OBVIOUS
<1>1. b \in Body
  BY BodiesOfClients
<1>2. forced \in BOOLEAN
  BY DEF ToolChoices
<1>3. phase = "asked"
  BY DEF ThinkingInit
<1> QED
  BY <1>1, <1>2, <1>3 DEF ThinkingInv, ThinkingTypeOK

LEMMA TranslateStep == ThinkingInv /\ TranslateSetting => ThinkingInv'
<1> SUFFICES ASSUME ThinkingInv, TranslateSetting PROVE ThinkingInv'
  OBVIOUS
<1>1. carried' = AsCarried /\ Carries(AsCarried, Target)
  BY AskFacts DEF ThinkingInv, TranslateSetting, AsCarried
<1>2. carried' \in Body /\ AsCarried' = AsCarried
  BY <1>1 DEF Carries, TranslateSetting, AsCarried, Target
<1> QED
  BY <1>1, <1>2 DEF ThinkingInv, ThinkingTypeOK, TranslateSetting

\* The setting ApplyThinking finds, in the suffix or in the body.
LEMMA ConfigAsked == ThinkingInv => Asked(Config)
  BY AskFacts, AskedOfBody, AskedOfSuffix DEF Config

LEMMA SettledSupported ==
  ASSUME ThinkingInv, phase = "translated", ~ThinkingRefused
  PROVE  /\ Settled \in Body
         /\ Model.known /\ Model.thinks /\ ~SuffixUnread =>
              Written(Settled, Model, Target, AsCarried, AsFound)
<1> USE AskFacts
<1>1. carried = AsCarried /\ Config = AsFound /\ Carries(carried, Target)
  BY DEF ThinkingInv, Config, AsFound
<1>2. CASE Model.known /\ ~Model.thinks
  <2>1. Settled \in {carried, Stripped(carried, Target)}
    BY <1>2 DEF Settled
  <2> QED
    BY <1>2, <2>1, StrippedBody
<1>3. CASE ~(Model.known /\ ~Model.thinks) /\ Config = NoSetting
  <2>1. Settled = carried
    BY <1>3 DEF Settled
  <2>2. ~SuffixUnread => FromBody(carried, Target) = NoSetting
    BY <1>3 DEF Config, SuffixUnread
  <2> QED
    BY <1>1, <2>1, <2>2, SilentSupported DEF Written
<1>4. CASE Model.known /\ Model.thinks /\ Config # NoSetting
  <2> DEFINE v == ValidateConfig(Config, Model, ask.from, Target, ask.suffix.has)
  <2>1. v # NotSettled
    BY <1>4 DEF ThinkingRefused
  <2>2. Fits(v, Model, Target, Config)
    BY <1>4, <2>1, ConfigAsked, ValidatedFits
  <2>3. Settled = Applied(carried, v, Model, Target)
    BY <1>4 DEF Settled
  <2> HIDE DEF v
  <2> QED
    BY <1>1, <1>4, <2>2, <2>3, SettingApplied
<1>5. CASE ~Model.known /\ Config # NoSetting
  <2> DEFINE v == IF /\ Config.mode = "level" /\ Config.level \in DOMAIN LevelToBudget
                     /\ Target \in BudgetBased /\ ask.from \in LevelBased
                  THEN Setting("budget", LevelToBudget[Config.level], "unset") ELSE Config
  <2>1. v \in SettingShape
    <3>1. Asked(Config)
      BY ConfigAsked
    <3>2. Config \in SettingShape
      BY <3>1 DEF Asked, NoSetting, Off, Automatic, Setting, SettingShape
    <3>3. Config.level \in DOMAIN LevelToBudget =>
            Setting("budget", LevelToBudget[Config.level], "unset") \in SettingShape
      BY LevelBudgets DEF Setting, SettingShape
    <3> QED
      BY <3>2, <3>3
  <2>2. Settled = Applied(carried, v, Model, Target)
    BY <1>5 DEF Settled
  <2> HIDE DEF v
  <2> QED
    BY <1>5, <2>1, <2>2, UncheckedBody
<1> QED
  BY <1>2, <1>3, <1>4, <1>5

LEMMA ApplyStep == ThinkingInv /\ ApplyThinking => ThinkingInv'
<1> SUFFICES ASSUME ThinkingInv, ApplyThinking PROVE ThinkingInv'
  OBVIOUS
<1>1. /\ Target' = Target /\ Model' = Model /\ SuffixUnread' = SuffixUnread
      /\ AsCarried' = AsCarried /\ AsFound' = AsFound
  BY DEF ApplyThinking, Target, Model, SuffixUnread, AsCarried, AsFound
<1>2. CASE ThinkingRefused
  BY <1>2 DEF ApplyThinking, ThinkingInv, ThinkingTypeOK
<1>3. CASE ~ThinkingRefused
  <2>1. phase = "translated" /\ phase' = "applied" /\ carried' = Settled /\ ask' = ask
    BY <1>3 DEF ApplyThinking
  <2>2. /\ carried' \in Body
        /\ Model.known /\ Model.thinks /\ ~SuffixUnread =>
             Written(carried', Model, Target, AsCarried, AsFound)
    BY <1>3, <2>1, SettledSupported
  <2> QED
    BY <1>1, <2>1, <2>2 DEF ThinkingInv, ThinkingTypeOK
<1> QED
  BY <1>2, <1>3

LEMMA SendStep == ThinkingInv /\ SendSetting => ThinkingInv'
<1> SUFFICES ASSUME ThinkingInv, SendSetting PROVE ThinkingInv'
  OBVIOUS
<1>1. /\ Target' = Target /\ Model' = Model /\ SuffixUnread' = SuffixUnread
      /\ AsCarried' = AsCarried /\ AsFound' = AsFound
  BY DEF SendSetting, Target, Model, SuffixUnread, AsCarried, AsFound
<1>2. carried' \in Body
  BY AskFacts, StrippedBody DEF SendSetting
<1> DEFINE Fine(b) == Written(b, Model, Target, AsCarried, AsFound)
<1>3. Fine(carried) => Fine(carried')
  <2>1. CASE Target = "claude" /\ ask.forced
    <3>1. carried' = [carried EXCEPT !.type = "unset", !.budget = Absent]
      BY <2>1 DEF SendSetting, Stripped, Geminis
    <3>2. carried'.budget = Absent /\ carried'.level = carried.level
      BY <3>1, AskFacts DEF Body
    <3>3. Bare(carried, Model, Target, AsCarried) => carried.level = "unset"
      BY <2>1, AskFacts DEF Bare, Carries
    <3>4. carried'.type = "unset"
      BY <3>1, AskFacts DEF Body
    <3> QED
      BY <2>1, <3>2, <3>3, <3>4 DEF Written, Supported, Geminis
  <2>2. CASE ~(Target = "claude" /\ ask.forced)
    BY <2>2 DEF SendSetting
  <2> QED
    BY <2>1, <2>2
<1> QED
  BY <1>1, <1>2, <1>3 DEF ThinkingInv, ThinkingTypeOK, SendSetting

LEMMA ThinkingInvStep == ThinkingInv /\ [ThinkingNext]_thinkVars => ThinkingInv'
<1>1. ThinkingInv /\ UNCHANGED thinkVars => ThinkingInv'
  BY DEF thinkVars, ThinkingInv, ThinkingTypeOK, Target, Model, SuffixUnread, AsCarried, AsFound
<1> QED
  BY <1>1, TranslateStep, ApplyStep, SendStep DEF ThinkingNext

\* What is sent is what the model supports, for every model, budget, limit
\* and suffix (internal/thinking, the executors' bodies).
THEOREM SentSettingsInRange == ThinkingSpec => []SettingsInRange
<1>1. ThinkingInv => SettingsInRange
  <2>1. Bare(carried, Model, Target, AsCarried) => Unwritten(carried)
    BY DEF Bare, Unwritten
  <2>2. /\ Assumed(carried.level, Model, AsFound) => MediumAssumed(carried)
        /\ (/\ Target \in Geminis /\ ~HasBudgets(Model)
            /\ carried.thoughts = "off" /\ carried.level = AsCarried.level) => LevelLeft(carried)
    BY DEF Assumed, AutoAsked, MediumAssumed, LevelLeft
  <2> QED
    BY <2>1, <2>2 DEF ThinkingInv, SettingsInRange, Written, Supported, NoRoomAtAll, RoomLeft
<1> QED
  BY InitThinking, ThinkingInvStep, <1>1, PTL DEF ThinkingSpec
-----------------------------------------------------------------------------
(* The client is heard *)

\* A setting that asks to think, as it may be read from a body or a suffix.
Thinks(c) ==
  \/ c = Automatic
  \/ \E w \in Standard \cup {"auto"} : c = AtLevel(w)
  \/ \E n \in Nat \ {0} : c = Setting("budget", n, "unset")

\* One that was brought into the range of a model.
StillThinks(v) ==
  /\ v \in SettingShape /\ v.mode # "none"
  /\ v.mode = "auto" => v.budget = -1
  /\ v.mode = "budget" => v.budget > 0
  /\ v.mode = "level" => v.level \in Standard

\* Not to think stays that, and is never refused.
LEMMA NoneValidated ==
  ASSUME NEW m \in ModelShape, NEW to \in Targets, NEW from, NEW suffixed \in BOOLEAN
  PROVE  LET v == ValidateConfig(Off, m, from, to, suffixed) IN
           v # NotSettled /\ v.mode = "none" /\ (to = "claude" => v.budget = 0)
<1> DEFINE lenient == from \in BudgetBased /\ to \in LevelBased
<1> DEFINE v == ValidateConfig(Off, m, from, to, suffixed)
<1>1. Converted(Off, m) = Off
  BY DEF Converted, Off, Setting
<1>2. Named(Off) = Off
  BY DEF Named, Off, Setting
<1>3. LevelChecked(Off, m, lenient) = Off
  BY DEF LevelChecked, Off, Setting
<1>4. Off.mode = "none" /\ Off # NotSettled /\ Off.budget = 0
  BY DEF Off, Setting, NotSettled
<1>5. v = Clamped(Off, m, to)
  BY <1>1, <1>2, <1>3, <1>4 DEF ValidateConfig
<1>6. v.mode = "none" /\ (to = "claude" => v.budget = 0)
  BY <1>4, <1>5 DEF Clamped, Off, Setting
<1>7. v # NotSettled
  BY <1>6 DEF NotSettled, Setting
<1> QED
  BY <1>6, <1>7

\* To think, once the words none and auto have become modes.
ThinksOn(c) ==
  \/ c = Automatic
  \/ \E w \in Standard : c = AtLevel(w)
  \/ \E n \in Nat \ {0} : c = Setting("budget", n, "unset")

LEMMA ThoughtNamed ==
  ASSUME NEW m \in ModelShape, NEW c, Thinks(c), Named(Converted(c, m)) # NotSettled
  PROVE  ThinksOn(Named(Converted(c, m)))
<1>1. CASE c = Automatic
  BY <1>1 DEF Converted, Named, Automatic, Setting, ThinksOn
<1>2. CASE \E w \in Standard \cup {"auto"} : c = AtLevel(w)
  <2>1. PICK w \in Standard \cup {"auto"} : c = AtLevel(w)
    BY <1>2
  <2>2. c.mode = "level" /\ c.level = w
    BY <2>1 DEF AtLevel, Setting
  <2>3. w # "none" /\ "auto" \notin Standard
    BY DEF Standard
  <2>4. CASE Capability(m) = "budget" /\ w # "auto"
    <3>1. w \in DOMAIN LevelToBudget /\ LevelToBudget[w] \in Nat \ {0}
      <4>1. w \in Standard
        BY <2>4
      <4>2. LevelToBudget[w] \in Int /\ LevelToBudget[w] > 0 /\ w \in DOMAIN LevelToBudget
        BY <4>1, LevelBudgets
      <4> QED
        BY <4>2
    <3>2. Converted(c, m) = Setting("budget", LevelToBudget[w], "unset")
      BY <2>2, <2>4, <3>1 DEF Converted
    <3>3. PICK n \in Nat \ {0} : n = LevelToBudget[w]
      BY <3>1
    <3>4. Named(Converted(c, m)) = Setting("budget", n, "unset")
      BY <3>2, <3>3 DEF Named, Setting
    <3> QED
      BY <3>4 DEF ThinksOn
  <2>5. CASE ~(Capability(m) = "budget" /\ w # "auto")
    <3>1. Converted(c, m) = c
      BY <2>2, <2>5 DEF Converted
    <3>2. Named(c) = IF w = "auto" THEN Automatic ELSE c
      BY <2>2, <2>3 DEF Named
    <3> QED
      BY <2>1, <3>1, <3>2 DEF ThinksOn
  <2> QED
    BY <2>4, <2>5
<1>3. CASE \E n \in Nat \ {0} : c = Setting("budget", n, "unset")
  <2>1. PICK n \in Nat \ {0} : c = Setting("budget", n, "unset")
    BY <1>3
  <2>2. c.mode = "budget" /\ c.budget = n
    BY <2>1 DEF Setting
  <2>3. CASE Capability(m) = "level"
    <3>1. PICK w \in Standard : w = ClampLevel(BudgetToLevel(n), m)
      BY PositiveLevels, NearestLevel
    <3>2. Converted(c, m) = AtLevel(w)
      BY <2>2, <2>3, <3>1 DEF Converted
    <3>3. Named(AtLevel(w)) = AtLevel(w)
      BY DEF Named, AtLevel, Setting, Standard
    <3> QED
      BY <3>2, <3>3 DEF ThinksOn
  <2>4. CASE Capability(m) # "level"
    <3>1. Converted(c, m) = c
      BY <2>2, <2>4 DEF Converted
    <3>2. Named(c) = c
      BY <2>2 DEF Named
    <3> QED
      BY <2>1, <3>1, <3>2 DEF ThinksOn
  <2> QED
    BY <2>3, <2>4
<1> QED
  BY <1>1, <1>2, <1>3 DEF Thinks

LEMMA ThoughtChecked ==
  ASSUME NEW m, NEW d, ThinksOn(d), NEW lenient \in BOOLEAN,
         LevelChecked(d, m, lenient) # NotSettled
  PROVE  ThinksOn(LevelChecked(d, m, lenient))
<1>1. CASE LevelChecked(d, m, lenient) = d
  BY <1>1
<1>2. CASE LevelChecked(d, m, lenient) # d
  <2>1. d.mode = "level"
    BY <1>2 DEF LevelChecked
  <2>2. PICK w \in Standard : d = AtLevel(w)
    BY <2>1 DEF ThinksOn, Automatic, AtLevel, Setting
  <2>3. PICK near \in Standard : near = IF lenient THEN ClampLevel(w, m) ELSE w
    BY NearestLevel
  <2>4. d.level = w
    BY <2>2 DEF AtLevel, Setting
  <2>5. LevelChecked(d, m, lenient) = AtLevel(near)
    BY <1>2, <2>3, <2>4 DEF LevelChecked
  <2> QED
    BY <2>5 DEF ThinksOn
<1> QED
  BY <1>1, <1>2

LEMMA ThoughtClamped ==
  ASSUME NEW m \in ModelShape, NEW to \in Targets, Offered(m), NEW e, ThinksOn(e)
  PROVE  StillThinks(Clamped(IF e.mode = "auto" /\ ~m.dynamic THEN MidRange(m) ELSE e, m, to))
<1> USE Shape
<1> DEFINE f == IF e.mode = "auto" /\ ~m.dynamic THEN MidRange(m) ELSE e
<1>1. ThinksOn(f)
  <2>1. CASE e.mode = "auto" /\ ~m.dynamic
    <3>1. CASE HasLevels(m) /\ ~HasBudgets(m)
      <4>1. f = AtLevel("medium") /\ "medium" \in Standard
        BY <2>1, <3>1 DEF MidRange, Standard
      <4> QED
        BY <4>1 DEF ThinksOn
    <3>2. CASE ~(HasLevels(m) /\ ~HasBudgets(m))
      <4>1. HasBudgets(m)
        BY <3>2 DEF Offered
      <4>2. m.max > 1
        BY <4>1 DEF Offered
      <4>3. PICK n \in Nat \ {0} : n = (m.min + m.max) \div 2
        BY <4>2
      <4>4. f = Setting("budget", n, "unset")
        BY <2>1, <3>2, <4>3 DEF MidRange
      <4> QED
        BY <4>4 DEF ThinksOn
    <3> QED
      BY <3>1, <3>2
  <2>2. CASE ~(e.mode = "auto" /\ ~m.dynamic)
    BY <2>2
  <2> QED
    BY <2>1, <2>2
<1> DEFINE g == Clamped(f, m, to)
<1> SUFFICES StillThinks(g)
  OBVIOUS
<1> HIDE DEF f
<1>2. CASE f = Automatic
  <2>1. f.mode = "auto" /\ f.budget = -1
    BY <1>2 DEF Automatic, Setting
  <2>2. Clamped(f, m, to) = f
    BY <1>2, <2>1 DEF Clamped, ClampBudget, Automatic, Setting
  <2>3. g.mode = "auto" /\ g.budget = -1 /\ g \in SettingShape
    BY <1>2, <2>2 DEF SettingShape, Automatic, Setting
  <2> QED
    BY <2>3 DEF StillThinks
<1>3. CASE \E w \in Standard : f = AtLevel(w)
  <2>1. PICK w \in Standard : f = AtLevel(w)
    BY <1>3
  <2>2. g = f
    BY <2>1 DEF Clamped, AtLevel, Setting
  <2>3. g.mode = "level" /\ g.level = w /\ g \in SettingShape
    BY <2>1, <2>2 DEF AtLevel, Setting, SettingShape, Words
  <2> QED
    BY <2>3 DEF StillThinks
<1>4. CASE \E n \in Nat \ {0} : f = Setting("budget", n, "unset")
  <2>1. PICK n \in Nat \ {0} : f = Setting("budget", n, "unset")
    BY <1>4
  <2>2. PICK b \in Int : b = ClampBudget(n, m) /\ b > 0
    <3>1. HasBudgets(m) => m.max > 1
      BY DEF Offered
    <3>2. n # -1 /\ n # 0 /\ n > 0
      OBVIOUS
    <3> QED
      BY <3>1, <3>2 DEF ClampBudget
  <2>3. Clamped(f, m, to) = Setting("budget", b, "unset")
    BY <2>1, <2>2 DEF Clamped, Setting
  <2>4. g.mode = "budget" /\ g.budget = b /\ g \in SettingShape
    BY <2>2, <2>3 DEF Setting, SettingShape
  <2> QED
    BY <2>2, <2>4 DEF StillThinks
<1> QED
  BY <1>1, <1>2, <1>3, <1>4 DEF ThinksOn

\* To think stays that, unless it is refused.
LEMMA ThoughtValidated ==
  ASSUME NEW m \in ModelShape, NEW to \in Targets, Offered(m), NEW c, Thinks(c),
         NEW from, NEW suffixed \in BOOLEAN,
         ValidateConfig(c, m, from, to, suffixed) # NotSettled
  PROVE  StillThinks(ValidateConfig(c, m, from, to, suffixed))
<1> DEFINE lenient == from \in BudgetBased /\ to \in LevelBased
<1> DEFINE d == Named(Converted(c, m))
<1> DEFINE e == LevelChecked(d, m, lenient)
<1>1. /\ e # NotSettled
      /\ ValidateConfig(c, m, from, to, suffixed)
           = Clamped(IF e.mode = "auto" /\ ~m.dynamic THEN MidRange(m) ELSE e, m, to)
  BY DEF ValidateConfig
<1>2. d # NotSettled
  <2>1. SUFFICES ASSUME d = NotSettled PROVE e = NotSettled
    BY <1>1
  <2>2. d.mode # "level"
    BY <2>1 DEF NotSettled, Setting
  <2> QED
    BY <2>1, <2>2 DEF LevelChecked
<1>3. ThinksOn(d)
  BY <1>2, ThoughtNamed
<1>4. lenient \in BOOLEAN
  OBVIOUS
<1> HIDE DEF d, lenient
<1>5. ThinksOn(e)
  BY <1>1, <1>3, <1>4, ThoughtChecked
<1> HIDE DEF e
<1> QED
  BY <1>1, <1>5, ThoughtClamped

-----------------------------------------------------------------------------
(* What the client says is carried over *)

SaysNone(b, to) ==
  IF to = "iflow" /\ b.switch # "unset" THEN b.switch = "off"
  ELSE b.type = "disabled" \/ b.level = "none" \/ (b.level = "unset" /\ b.budget = 0)

SaysThink(b, to) ==
  IF to = "iflow" /\ b.switch # "unset" THEN b.switch = "on"
  ELSE \/ b.level \in Standard \cup {"auto"}
       \/ b.level = "unset" /\ (b.budget = -1 \/ b.budget > 0)
       \/ b.type = "enabled" /\ b.budget = Absent

\* Lost on the way from Claude to Gemini.
Lost(b, from, to) ==
  from = "claude" /\ to \in Geminis /\ (b.type = "disabled" \/ b.budget = Absent)

\* What is read of a body that was carried over: whether to think, what word
\* a level is of, and where a budget is from.
NoneHeard(c, b, from, to) == SaysNone(b, to) => c = Off \/ Lost(b, from, to)
ThoughtHeard(c, b, from, to) == SaysThink(b, to) => Thinks(c) \/ Lost(b, from, to)
LevelHeard(c, b, from, to) ==
  c.mode = "level" =>
    /\ to # "claude" /\ (to \in Geminis => c.level # "auto")
    /\ \/ b.level = c.level
       \/ /\ to \in {"openai", "codex"} /\ c.level # "other"
          /\ \/ from \in BudgetBased
             \/ to = "codex" /\ from = "openai" /\ b.level = "unset" /\ c.level = "medium"
       \/ to = "iflow" /\ c.level \in {"auto", "none"}
       \/ /\ to = "iflow" /\ b.level = "unset" /\ b.budget # Absent
          /\ c.level = BudgetToLevel(b.budget) /\ c.level # "other"
BudgetHeard(c, b, from, to) ==
  c.mode = "budget" /\ c # NoSetting =>
    \/ to = "iflow" /\ c.budget = 1
    \/ /\ to \in BudgetBased
       /\ SameFamily(from, to) \/ c.budget < -1 =>
            b.budget = c.budget /\ c.budget # Absent /\ b.level = "unset"

Heard(c, b, from, to) ==
  /\ NoneHeard(c, b, from, to) /\ ThoughtHeard(c, b, from, to)
  /\ LevelHeard(c, b, from, to) /\ BudgetHeard(c, b, from, to)

LEMMA EmptyFields ==
  /\ Empty.type = "unset" /\ Empty.budget = Absent /\ Empty.level = "unset"
  /\ Empty.switch = "unset" /\ Absent < -1 /\ Absent \in Int
  BY DEF Empty, Absent

\* A client of OpenAI states a level, and may throw a switch.
LEMMA EffortFields ==
  ASSUME NEW from \in {"openai", "openai-response"}, NEW b \in ClientBodies(from)
  PROVE  /\ b.type = "unset" /\ b.budget = Absent
         /\ b.level \in Words \cup {"unset"} /\ b.switch \in {"unset", "on", "off"}
<1>1. PICK w \in Words \cup {"unset"}, s \in {"unset", "on", "off"}, r \in Rooms :
        b = EffortBody(w, s, r)
  BY DEF ClientBodies
<1> QED
  BY <1>1 DEF EffortBody, Empty

LEMMA ClaudeFields ==
  ASSUME NEW b \in ClientBodies("claude")
  PROVE  /\ b.type \in {"unset", "enabled", "disabled"} /\ b.budget \in Int
         /\ b.budget # Absent => b.type = "enabled"
         /\ b.level = "unset" /\ b.switch = "unset"
<1>1. PICK t \in {"unset", "enabled", "disabled"}, n \in Budgets \cup {Absent}, r \in Rooms :
        b = ClaudeBody(t, n, r) /\ (n # Absent => t = "enabled")
  BY DEF ClientBodies
<1>2. b.type = t /\ b.budget = n /\ b.level = "unset" /\ b.switch = "unset"
  BY <1>1 DEF ClaudeBody, Empty
<1> QED
  BY <1>1, <1>2, ThinkingAssumption, EmptyFields

LEMMA GeminiFields ==
  ASSUME NEW b \in ClientBodies("gemini")
  PROVE  /\ b.level \in Words \cup {"unset"} /\ b.budget \in Int
         /\ b.budget = Absent \/ b.level = "unset"
         /\ b.type = "unset" /\ b.switch = "unset"
<1>1. PICK w \in Words \cup {"unset"}, n \in Budgets \cup {Absent},
           t \in {"unset", "on"}, r \in Rooms :
        b = GeminiBody(w, n, t, r) /\ (n = Absent \/ w = "unset")
  BY DEF ClientBodies
<1>2. b.level = w /\ b.budget = n /\ b.type = "unset" /\ b.switch = "unset"
  BY <1>1 DEF GeminiBody, Empty
<1> QED
  BY <1>1, <1>2, ThinkingAssumption, EmptyFields

LEMMA WrittenFields ==
  ASSUME NEW b, NEW n
  PROVE  /\ ForClaude(b).type = "unset" /\ ForClaude(b).budget = Absent
         /\ Enabled(ForClaude(b), n).type = "enabled" /\ Enabled(ForClaude(b), n).budget = n
         /\ Disabled(ForClaude(b)).type = "disabled"
  BY DEF ForClaude, Enabled, Disabled, Empty

\* From OpenAI.
LEMMA EffortHeard ==
  ASSUME NEW from \in {"openai", "openai-response"}, NEW to \in Targets,
         NEW b \in ClientBodies(from)
  PROVE  Heard(FromBody(CarriedOver(b, from, to), to), b, from, to)
<1> DEFINE x == CarriedOver(b, from, to)
<1> DEFINE c == FromBody(x, to)
<1> SUFFICES Heard(c, b, from, to)
  OBVIOUS
<1>1. /\ b.type = "unset" /\ b.budget = Absent
      /\ b.level \in Words \cup {"unset"} /\ b.switch \in {"unset", "on", "off"}
  BY EffortFields
<1>2. ~Lost(b, from, to) /\ (to = "claude" \/ to \in Geminis => ~SameFamily(from, to))
  BY DEF Lost, SameFamily, Geminis
<1>3. /\ "auto" \notin Standard /\ "none" \notin Standard /\ "other" \notin Standard
      /\ "unset" \notin Words /\ Words = Standard \cup {"none", "auto", "other"}
  BY DEF Standard, Words
<1>4. CASE to \in Geminis
  <2>1. x = EffortToGemini(b) /\ c = FromGemini(x)
    BY <1>4 DEF CarriedOver, FromBody, Geminis
  <2>2. PICK n \in Int : n = IF b.level = "auto" THEN -1 ELSE Absent
    BY EmptyFields
  <2>3. /\ x.level = IF b.level = "auto" THEN "unset" ELSE b.level
        /\ x.budget = n
    BY <1>1, <2>1, <2>2 DEF EffortToGemini, Empty
  <2>4. c = CASE b.level = "unset" -> NoSetting [] b.level = "none" -> Off
              [] b.level = "auto" -> Automatic [] OTHER -> AtLevel(b.level)
    BY <1>3, <2>1, <2>2, <2>3, EmptyFields DEF FromGemini, AtBudget
  <2> HIDE DEF c, x
  <2>5. NoneHeard(c, b, from, to)
    BY <1>1, <1>4, <2>4, EmptyFields DEF NoneHeard, SaysNone, Geminis
  <2>6. ThoughtHeard(c, b, from, to)
    BY <1>1, <1>3, <1>4, <2>4, EmptyFields DEF ThoughtHeard, SaysThink, Thinks, Geminis
  <2>7. LevelHeard(c, b, from, to)
    BY <1>4, <2>4, SettingsDiffer DEF LevelHeard, Geminis
  <2>8. BudgetHeard(c, b, from, to)
    BY <1>4, <2>4, SettingsDiffer DEF BudgetHeard
  <2> QED
    BY <2>5, <2>6, <2>7, <2>8 DEF Heard
<1>5. CASE to = "claude"
  <2>1. x = EffortToClaude(b) /\ c = FromClaude(x)
    BY <1>5 DEF CarriedOver, FromBody, Geminis
  <2>2. CASE b.level \in Standard
    <3>1. PICK n \in Nat \ {0} : n = LevelToBudget[b.level]
      <4>1. LevelToBudget[b.level] \in Int /\ LevelToBudget[b.level] > 0
        BY <2>2, LevelBudgets
      <4> QED
        BY <4>1
    <3>2. x = Enabled(ForClaude(b), n)
      BY <1>3, <2>1, <2>2, <3>1 DEF EffortToClaude
    <3>3. x.type = "enabled" /\ x.budget = n
      BY <3>2, WrittenFields
    <3>4. c = Setting("budget", n, "unset")
      BY <2>1, <3>3, EmptyFields DEF FromClaude, AtBudget
    <3> HIDE DEF c, x
    <3>5. Thinks(c)
      BY <3>4 DEF Thinks
    <3>6. ~SaysNone(b, to)
      BY <1>1, <1>3, <1>5, <2>2 DEF SaysNone
    <3>7. c.mode = "budget" /\ ~(c.budget < -1)
      <4>1. c.mode = "budget" /\ c.budget = n
        BY <3>4, SettingsDiffer
      <4> QED
        BY <4>1
    <3>8. LevelHeard(c, b, from, to)
      BY <3>7 DEF LevelHeard
    <3>9. BudgetHeard(c, b, from, to)
      <4>1. ~SameFamily(from, to) /\ to \in BudgetBased
        BY <1>5 DEF SameFamily, Geminis, BudgetBased
      <4> QED
        BY <3>7, <4>1 DEF BudgetHeard
    <3>10. NoneHeard(c, b, from, to) /\ ThoughtHeard(c, b, from, to)
      BY <3>5, <3>6 DEF NoneHeard, ThoughtHeard
    <3> QED
      BY <3>8, <3>9, <3>10 DEF Heard
  <2>3. CASE b.level \notin Standard
    <3>1. /\ b.level = "none" => x.type = "disabled"
          /\ b.level = "auto" => x.type = "enabled" /\ x.budget = Absent
          /\ b.level \notin {"none", "auto"} => x.type = "unset" /\ x.budget = Absent
      BY <2>1, <2>3, WrittenFields DEF EffortToClaude
    <3>2. c = CASE b.level = "none" -> Off [] b.level = "auto" -> Automatic [] OTHER -> NoSetting
      BY <2>1, <3>1 DEF FromClaude
    <3> HIDE DEF c, x
    <3>3. NoneHeard(c, b, from, to)
      BY <1>1, <1>5, <3>2, EmptyFields DEF NoneHeard, SaysNone
    <3>4. ThoughtHeard(c, b, from, to)
      BY <1>1, <1>5, <2>3, <3>2, EmptyFields DEF ThoughtHeard, SaysThink, Thinks
    <3>5. c.mode # "level" /\ (c.mode = "budget" => c = NoSetting)
      BY <3>2, SettingsDiffer
    <3> QED
      BY <3>3, <3>4, <3>5 DEF Heard, LevelHeard, BudgetHeard
  <2> QED
    BY <2>2, <2>3
<1>6. CASE to \in {"openai", "codex", "iflow"}
  <2>1. PICK default \in {"unset", "medium"} :
          /\ x = EffortToEffort(b, default)
          /\ default = "medium" => to = "codex" /\ from = "openai"
    BY <1>6 DEF CarriedOver, Geminis
  <2>2. x.level = (IF b.level = "unset" THEN default ELSE b.level) /\ x.switch = b.switch
    BY <2>1 DEF EffortToEffort, Empty
  <2>3. c = IF to = "iflow" /\ b.switch = "on" THEN Setting("budget", 1, "unset")
            ELSE IF to = "iflow" /\ b.switch = "off" THEN Off
            ELSE CASE x.level = "unset" -> NoSetting [] x.level = "none" -> Off
                   [] OTHER -> AtLevel(x.level)
    BY <1>1, <1>6, <2>2 DEF FromBody, FromEffort, Geminis
  <2> HIDE DEF c, x
  <2>4. NoneHeard(c, b, from, to)
    BY <1>1, <1>6, <2>1, <2>2, <2>3, EmptyFields DEF NoneHeard, SaysNone
  <2>5. ThoughtHeard(c, b, from, to)
    BY <1>1, <1>3, <1>6, <2>1, <2>2, <2>3, EmptyFields DEF ThoughtHeard, SaysThink, Thinks
  <2>6. LevelHeard(c, b, from, to)
    BY <1>6, <2>1, <2>2, <2>3, SettingsDiffer DEF LevelHeard, Geminis
  <2>7. BudgetHeard(c, b, from, to)
    BY <1>6, <2>3, SettingsDiffer DEF BudgetHeard
  <2> QED
    BY <2>4, <2>5, <2>6, <2>7 DEF Heard
<1> QED
  BY <1>4, <1>5, <1>6 DEF Targets

\* From Claude.
LEMMA ClaudeHeard ==
  ASSUME NEW to \in Targets, NEW b \in ClientBodies("claude")
  PROVE  Heard(FromBody(CarriedOver(b, "claude", to), to), b, "claude", to)
<1> DEFINE x == CarriedOver(b, "claude", to)
<1> DEFINE c == FromBody(x, to)
<1> SUFFICES Heard(c, b, "claude", to)
  OBVIOUS
<1>1. /\ b.type \in {"unset", "enabled", "disabled"} /\ b.budget \in Int
      /\ b.budget # Absent => b.type = "enabled"
      /\ b.level = "unset" /\ b.switch = "unset"
  BY ClaudeFields
<1>2. /\ "unset" \notin Standard \cup {"auto", "none", "other"}
      /\ "claude" \in BudgetBased /\ 0 # Absent /\ -1 # Absent
  BY EmptyFields DEF Standard, BudgetBased
<1>3. /\ SaysNone(b, to) <=> b.type = "disabled" \/ b.budget = 0
      /\ SaysThink(b, to) <=> \/ b.type = "enabled" /\ b.budget = Absent
                              \/ b.budget = -1 \/ b.budget > 0
  BY <1>1, <1>2 DEF SaysNone, SaysThink
<1>4. b.budget > 0 => Thinks(Setting("budget", b.budget, "unset"))
  BY <1>1 DEF Thinks
<1>5. Thinks(Automatic) /\ (\A w \in Standard \cup {"auto"} : Thinks(AtLevel(w)))
  BY DEF Thinks
<1>6. CASE to = "claude"
  <2>1. x = b /\ c = FromClaude(b)
    BY <1>6 DEF CarriedOver, FromBody, Geminis
  <2>2. c = CASE b.type = "disabled" \/ b.budget = 0 -> Off
              [] (b.type = "enabled" /\ b.budget = Absent) \/ b.budget = -1 -> Automatic
              [] b.budget \notin {0, -1, Absent} -> Setting("budget", b.budget, "unset")
              [] OTHER -> NoSetting
    BY <1>1, <1>2, <2>1 DEF FromClaude, AtBudget
  <2> HIDE DEF c, x
  <2>3. NoneHeard(c, b, "claude", to)
    BY <1>1, <1>2, <1>3, <2>2 DEF NoneHeard
  <2>4. ThoughtHeard(c, b, "claude", to)
    BY <1>1, <1>2, <1>3, <1>4, <1>5, <2>2, EmptyFields DEF ThoughtHeard
  <2>5. c.mode # "level"
    BY <2>2, <1>1, SettingsDiffer
  <2>6. BudgetHeard(c, b, "claude", to)
    BY <1>1, <1>2, <1>6, <2>2, SettingsDiffer DEF BudgetHeard
  <2> QED
    BY <2>3, <2>4, <2>5, <2>6 DEF Heard, LevelHeard
<1>7. CASE to \in Geminis
  <2>1. x = ClaudeSettingToGemini(b) /\ c = FromGemini(x)
    BY <1>7 DEF CarriedOver, FromBody, Geminis
  <2>2. x.level = "unset" /\ x.budget = b.budget
    BY <1>1, <2>1 DEF ClaudeSettingToGemini, Empty
  <2>3. c = IF b.budget # Absent THEN AtBudget(b.budget) ELSE NoSetting
    BY <2>1, <2>2 DEF FromGemini
  <2>4. c = CASE b.budget = 0 -> Off [] b.budget = -1 -> Automatic
              [] b.budget \notin {0, -1, Absent} -> Setting("budget", b.budget, "unset")
              [] OTHER -> NoSetting
    BY <1>1, <1>2, <2>3 DEF AtBudget
  <2> HIDE DEF c, x
  <2>5. NoneHeard(c, b, "claude", to)
    BY <1>3, <1>7, <2>4 DEF NoneHeard, Lost
  <2>6. ThoughtHeard(c, b, "claude", to)
    BY <1>1, <1>2, <1>3, <1>4, <1>5, <1>7, <2>4 DEF ThoughtHeard, Lost
  <2>7. c.mode # "level"
    BY <2>4, <1>1, SettingsDiffer
  <2>8. BudgetHeard(c, b, "claude", to)
    BY <1>1, <1>7, <2>4, SettingsDiffer DEF BudgetHeard, BudgetBased
  <2> QED
    BY <2>5, <2>6, <2>7, <2>8 DEF Heard, LevelHeard
<1>8. CASE to \in {"openai", "codex", "iflow"}
  <2>1. PICK default \in {"unset", "medium"}, unbounded \in {"medium", "auto"} :
          /\ x = ClaudeSettingToEffort(b, default, unbounded)
          /\ default = "medium" \/ unbounded = "medium" => to = "codex"
    BY <1>8 DEF CarriedOver, Geminis
  <2> DEFINE effort == CASE b.type = "enabled" /\ b.budget # Absent -> BudgetToLevel(b.budget)
                         [] b.type = "enabled" /\ b.budget = Absent -> unbounded
                         [] b.type = "disabled" -> "none"
                         [] b.type = "unset" -> "unset"
  <2>2. /\ SaysNone(b, to) => effort = "none"
        /\ SaysThink(b, to) => effort \in Standard \cup {"auto"}
        /\ effort \in Standard \cup {"auto", "none", "unset"}
        /\ \/ effort \in {unbounded, "none", "unset"}
           \/ b.budget # Absent /\ effort = BudgetToLevel(b.budget)
    <3>1. "medium" \in Standard
      BY DEF Standard
    <3>2. CASE b.type = "enabled" /\ b.budget # Absent
      <4>1. CASE b.budget > 0
        <5> PICK n \in Nat \ {0} : n = b.budget
          BY <1>1, <4>1
        <5> QED
          BY <1>3, <3>2, <4>1, PositiveLevels
      <4>2. CASE b.budget = 0 \/ b.budget = -1 \/ b.budget < -1
        BY <1>1, <1>3, <3>2, <4>2, PositiveLevels
      <4> QED
        BY <1>1, <4>1, <4>2
    <3>3. CASE b.type = "enabled" /\ b.budget = Absent
      BY <1>2, <1>3, <3>1, <3>3, EmptyFields
    <3>4. CASE b.type # "enabled"
      BY <1>1, <1>2, <1>3, <3>4, EmptyFields
    <3> QED
      BY <3>2, <3>3, <3>4
  <2>3. x.level = (IF effort = "unset" THEN default ELSE effort) /\ x.switch = "unset"
    BY <2>1 DEF ClaudeSettingToEffort, Empty
  <2> HIDE DEF effort
  <2>4. c = CASE x.level = "unset" -> NoSetting [] x.level = "none" -> Off
              [] OTHER -> AtLevel(x.level)
    BY <1>8, <2>3 DEF FromBody, FromEffort, Geminis
  <2> HIDE DEF c, x
  <2>5. NoneHeard(c, b, "claude", to)
    BY <2>2, <2>3, <2>4 DEF NoneHeard
  <2>6. ThoughtHeard(c, b, "claude", to)
    <3>1. SUFFICES ASSUME SaysThink(b, to) PROVE Thinks(c)
      BY DEF ThoughtHeard
    <3>2. x.level \in Standard \cup {"auto"} /\ x.level # "none" /\ x.level # "unset"
      BY <2>2, <2>3, <3>1 DEF Standard
    <3> QED
      BY <1>5, <2>4, <3>2
  <2>7. LevelHeard(c, b, "claude", to)
    <3>1. SUFFICES ASSUME c.mode = "level"
                   PROVE  /\ to \notin Geminis
                          /\ c.level # "other"
                          /\ \/ to = "iflow" /\ c.level \in {"auto", "none"}
                             \/ /\ to = "iflow" /\ b.level = "unset" /\ b.budget # Absent
                                /\ c.level = BudgetToLevel(b.budget)
                             \/ to \in {"openai", "codex"}
      <4>1. "claude" \in BudgetBased /\ to # "claude"
        BY <1>8 DEF BudgetBased
      <4> QED
        BY <4>1 DEF LevelHeard
    <3>2. c = AtLevel(x.level) /\ x.level # "unset"
      BY <2>4, <3>1, SettingsDiffer
    <3>3. c.level = x.level
      BY <3>2 DEF AtLevel, Setting
    <3>4. to \notin Geminis
      BY <1>8 DEF Geminis
    <3>5. x.level # "other"
      BY <2>1, <2>2, <2>3, <3>2 DEF Standard
    <3>6. CASE to = "iflow"
      <4>1. default = "unset" /\ unbounded = "auto"
        BY <2>1, <3>6
      <4>2. x.level = effort /\ effort # "unset"
        BY <2>3, <3>2, <4>1
      <4>3. \/ effort \in {"auto", "none", "unset"}
            \/ b.budget # Absent /\ effort = BudgetToLevel(b.budget)
        BY <2>2, <4>1
      <4>4. b.level = "unset"
        BY <1>1
      <4> QED
        BY <3>3, <3>4, <3>5, <3>6, <4>2, <4>3, <4>4
    <3> QED
      BY <1>8, <3>3, <3>4, <3>5, <3>6
  <2>8. BudgetHeard(c, b, "claude", to)
    BY <2>4, SettingsDiffer DEF BudgetHeard
  <2> QED
    BY <2>5, <2>6, <2>7, <2>8 DEF Heard
<1> QED
  BY <1>6, <1>7, <1>8 DEF Targets

\* From Gemini.
LEMMA GeminiHeard ==
  ASSUME NEW to \in Targets, NEW b \in ClientBodies("gemini")
  PROVE  Heard(FromBody(CarriedOver(b, "gemini", to), to), b, "gemini", to)
<1> DEFINE x == CarriedOver(b, "gemini", to)
<1> DEFINE c == FromBody(x, to)
<1> SUFFICES Heard(c, b, "gemini", to)
  OBVIOUS
<1>1. /\ b.level \in Words \cup {"unset"} /\ b.budget \in Int
      /\ b.budget = Absent \/ b.level = "unset"
      /\ b.type = "unset" /\ b.switch = "unset"
  BY GeminiFields
<1>2. /\ "auto" \notin Standard /\ "none" \notin Standard /\ "other" \notin Standard
      /\ "unset" \notin Words /\ Words = Standard \cup {"none", "auto", "other"}
      /\ "gemini" \in BudgetBased /\ 0 # Absent /\ -1 # Absent
  BY EmptyFields DEF Standard, Words, BudgetBased, Geminis
<1>3. /\ SaysNone(b, to) <=> b.level = "none" \/ b.budget = 0
      /\ SaysThink(b, to) <=> \/ b.level \in Standard \cup {"auto"}
                              \/ b.budget = -1 \/ b.budget > 0
  BY <1>1, <1>2, EmptyFields DEF SaysNone, SaysThink
<1>4. b.budget > 0 => Thinks(Setting("budget", b.budget, "unset"))
  BY <1>1 DEF Thinks
<1>5. Thinks(Automatic) /\ (\A w \in Standard \cup {"auto"} : Thinks(AtLevel(w)))
  BY DEF Thinks
<1>6. CASE to \in Geminis
  <2>1. x = b /\ c = FromGemini(b)
    BY <1>6 DEF CarriedOver, FromBody, Geminis
  <2>2. c = CASE b.level = "none" \/ b.budget = 0 -> Off
              [] b.level = "auto" \/ b.budget = -1 -> Automatic
              [] b.level \in Standard \cup {"other"} -> AtLevel(b.level)
              [] b.budget \notin {0, -1, Absent} -> Setting("budget", b.budget, "unset")
              [] OTHER -> NoSetting
    BY <1>1, <1>2, <2>1 DEF FromGemini, AtBudget
  <2> HIDE DEF c, x
  <2>3. NoneHeard(c, b, "gemini", to)
    BY <1>1, <1>2, <1>3, <2>2 DEF NoneHeard
  <2>4. ThoughtHeard(c, b, "gemini", to)
    BY <1>1, <1>2, <1>3, <1>4, <1>5, <2>2, EmptyFields DEF ThoughtHeard
  <2>5. LevelHeard(c, b, "gemini", to)
    BY <1>1, <1>2, <1>6, <2>2, SettingsDiffer DEF LevelHeard, Geminis
  <2>6. BudgetHeard(c, b, "gemini", to)
    BY <1>1, <1>2, <1>6, <2>2, SettingsDiffer DEF BudgetHeard, BudgetBased
  <2> QED
    BY <2>3, <2>4, <2>5, <2>6 DEF Heard
<1>7. CASE to = "claude"
  <2>1. x = GeminiSettingToClaude(b) /\ c = FromClaude(x)
    BY <1>7 DEF CarriedOver, FromBody, Geminis
  <2>2. CASE b.level \in Standard
    <3>1. PICK n \in Nat \ {0} : n = LevelToBudget[b.level]
      <4>1. LevelToBudget[b.level] \in Int /\ LevelToBudget[b.level] > 0
        BY <2>2, LevelBudgets
      <4> QED
        BY <4>1
    <3>2. x = Enabled(ForClaude(b), n)
      BY <1>2, <2>1, <2>2, <3>1 DEF GeminiSettingToClaude
    <3>3. x.type = "enabled" /\ x.budget = n
      BY <3>2, WrittenFields
    <3>4. c = Setting("budget", n, "unset")
      BY <2>1, <3>3, EmptyFields DEF FromClaude, AtBudget
    <3> HIDE DEF c, x
    <3>5. Thinks(c)
      BY <3>4, SettingsDiffer DEF Thinks
    <3>6. ~SaysNone(b, to)
      BY <1>1, <1>2, <1>3, <2>2
    <3>7. c.mode = "budget" /\ ~(c.budget < -1)
      <4>1. c.mode = "budget" /\ c.budget = n
        BY <3>4, SettingsDiffer
      <4> QED
        BY <4>1
    <3>8. LevelHeard(c, b, "gemini", to)
      BY <3>7 DEF LevelHeard
    <3>9. BudgetHeard(c, b, "gemini", to)
      <4>1. ~SameFamily("gemini", to) /\ to \in BudgetBased
        BY <1>7 DEF SameFamily, Geminis, BudgetBased
      <4> QED
        BY <3>7, <4>1 DEF BudgetHeard
    <3>10. NoneHeard(c, b, "gemini", to) /\ ThoughtHeard(c, b, "gemini", to)
      BY <3>5, <3>6 DEF NoneHeard, ThoughtHeard
    <3> QED
      BY <3>8, <3>9, <3>10 DEF Heard
  <2>3. CASE b.level \notin Standard
    <3>1. /\ b.level = "none" \/ b.budget = 0 => x.type = "disabled"
          /\ b.level = "auto" \/ b.budget = -1 => x.type = "enabled" /\ x.budget = Absent
          /\ b.budget \notin {0, -1, Absent} => x.type = "enabled" /\ x.budget = b.budget
          /\ b.level = "other" => x.type = "unset" /\ x.budget = Absent
          /\ b.level = "unset" /\ b.budget = Absent =>
               x.type \in {"unset", "enabled"} /\ x.budget = Absent
      BY <1>1, <1>2, <2>1, <2>3, EmptyFields, WrittenFields DEF GeminiSettingToClaude
    <3>2. \/ c \in {Off, Automatic, NoSetting}
          \/ /\ c = Setting("budget", b.budget, "unset")
             /\ b.budget # Absent /\ b.level = "unset"
      BY <1>1, <1>2, <2>1, <2>3, <3>1, EmptyFields DEF FromClaude, AtBudget
    <3>3. /\ b.level = "none" \/ b.budget = 0 => c = Off
          /\ b.level = "auto" \/ b.budget = -1 => c = Automatic
          /\ b.budget > 0 => c = Setting("budget", b.budget, "unset")
      BY <1>1, <1>2, <2>1, <3>1, EmptyFields DEF FromClaude, AtBudget
    <3> HIDE DEF c, x
    <3>4. NoneHeard(c, b, "gemini", to)
      BY <1>3, <3>3 DEF NoneHeard
    <3>5. ThoughtHeard(c, b, "gemini", to)
      BY <1>3, <1>4, <1>5, <2>3, <3>3 DEF ThoughtHeard
    <3>6. c.mode # "level"
      BY <3>2, SettingsDiffer
    <3>7. ~SameFamily("gemini", to) /\ to \in BudgetBased
      BY <1>7 DEF SameFamily, Geminis, BudgetBased
    <3>8. BudgetHeard(c, b, "gemini", to)
      BY <3>2, <3>7, SettingsDiffer DEF BudgetHeard
    <3> QED
      BY <3>4, <3>5, <3>6, <3>8 DEF Heard, LevelHeard
  <2> QED
    BY <2>2, <2>3
<1>8. CASE to \in {"openai", "codex", "iflow"}
  <2>1. PICK default \in {"unset", "medium"} :
          x = GeminiSettingToEffort(b, default) /\ (default = "medium" => to = "codex")
    BY <1>8 DEF CarriedOver, Geminis
  <2> DEFINE effort == CASE b.level # "unset" -> b.level
                         [] b.level = "unset" /\ b.budget # Absent -> BudgetToLevel(b.budget)
                         [] OTHER -> "unset"
  <2>2. /\ SaysNone(b, to) => effort = "none"
        /\ SaysThink(b, to) => effort \in Standard \cup {"auto"}
        /\ effort = b.level \/ effort \in Standard \cup {"auto", "none", "unset"}
        /\ \/ effort = b.level
           \/ b.level = "unset" /\ b.budget # Absent /\ effort = BudgetToLevel(b.budget)
    <3>1. CASE b.level # "unset"
      BY <1>1, <1>2, <1>3, <3>1, EmptyFields
    <3>2. CASE b.level = "unset" /\ b.budget # Absent
      <4>1. CASE b.budget > 0
        <5> PICK n \in Nat \ {0} : n = b.budget
          BY <1>1, <4>1
        <5> QED
          BY <1>2, <1>3, <3>2, <4>1, PositiveLevels
      <4>2. CASE b.budget = 0 \/ b.budget = -1 \/ b.budget < -1
        BY <1>1, <1>2, <1>3, <3>2, <4>2, PositiveLevels
      <4> QED
        BY <1>1, <4>1, <4>2
    <3>3. CASE b.level = "unset" /\ b.budget = Absent
      BY <1>2, <1>3, <3>3, EmptyFields
    <3> QED
      BY <3>1, <3>2, <3>3
  <2>3. x.level = (IF effort = "unset" THEN default ELSE effort) /\ x.switch = "unset"
    BY <2>1 DEF GeminiSettingToEffort, Empty
  <2> HIDE DEF effort
  <2>4. c = CASE x.level = "unset" -> NoSetting [] x.level = "none" -> Off
              [] OTHER -> AtLevel(x.level)
    BY <1>8, <2>3 DEF FromBody, FromEffort, Geminis
  <2> HIDE DEF c, x
  <2>5. NoneHeard(c, b, "gemini", to)
    BY <2>2, <2>3, <2>4 DEF NoneHeard
  <2>6. ThoughtHeard(c, b, "gemini", to)
    <3>1. SUFFICES ASSUME SaysThink(b, to) PROVE Thinks(c)
      BY DEF ThoughtHeard
    <3>2. x.level \in Standard \cup {"auto"} /\ x.level # "none" /\ x.level # "unset"
      BY <2>2, <2>3, <3>1 DEF Standard
    <3> QED
      BY <1>5, <2>4, <3>2
  <2>7. LevelHeard(c, b, "gemini", to)
    BY <1>2, <1>8, <2>1, <2>2, <2>3, <2>4, SettingsDiffer DEF LevelHeard, Geminis, Standard
  <2>8. BudgetHeard(c, b, "gemini", to)
    BY <2>4, SettingsDiffer DEF BudgetHeard
  <2> QED
    BY <2>5, <2>6, <2>7, <2>8 DEF Heard
<1> QED
  BY <1>6, <1>7, <1>8 DEF Targets

LEMMA BodyHeard ==
  ASSUME NEW from \in Froms, NEW to \in Targets, NEW b \in ClientBodies(from)
  PROVE  Heard(FromBody(CarriedOver(b, from, to), to), b, from, to)
  BY EffortHeard, ClaudeHeard, GeminiHeard DEF Froms

LEMMA SuffixHeard ==
  ASSUME NEW s \in Suffix
  PROVE  LET c == FromSuffix(s) IN
         /\ s.word = "none" \/ (s.word = "unset" /\ s.number = 0) => c = Off
         /\ s.word \in Standard \cup {"auto"} \/ s.number > 0 => Thinks(c)
         /\ c.mode = "level" => c.level = s.word /\ s.word \in Standard
         /\ c.mode = "budget" /\ c # NoSetting => c.budget > 0
<1> DEFINE c == FromSuffix(s)
<1>1. /\ s.word \in Words \cup {"unset"} /\ s.number \in Int
      /\ s.word # "unset" => s.number = 0
  BY DEF Suffix
<1>2. /\ "auto" \notin Standard /\ "none" \notin Standard
      /\ "unset" \notin Standard
  BY DEF Standard
<1>3. c = CASE s.word = "none" \/ (s.word = "unset" /\ s.number = 0) -> Off
            [] s.word = "auto" -> Automatic
            [] s.word \in Standard -> AtLevel(s.word)
            [] s.word = "unset" /\ s.number > 0 -> Setting("budget", s.number, "unset")
            [] OTHER -> NoSetting
  BY <1>1, <1>2 DEF FromSuffix
<1> HIDE DEF c
<1>4. s.word \in Standard \cup {"auto"} \/ s.number > 0 => Thinks(c)
  <2>1. CASE s.word = "auto"
    BY <1>1, <1>2, <1>3, <2>1 DEF Thinks
  <2>2. CASE s.word \in Standard
    BY <1>1, <1>2, <1>3, <2>2 DEF Thinks
  <2>3. CASE s.number > 0
    <3>1. s.word = "unset" /\ s.number \in Nat \ {0}
      BY <1>1, <2>3
    <3>2. c = Setting("budget", s.number, "unset")
      BY <1>2, <1>3, <2>3, <3>1
    <3> QED
      BY <3>1, <3>2 DEF Thinks
  <2> QED
    BY <2>1, <2>2, <2>3
<1>5. c.mode = "level" => c.level = s.word /\ s.word \in Standard
  BY <1>1, <1>2, <1>3, SettingsDiffer
<1>6. c.mode = "budget" /\ c # NoSetting => c.budget > 0
  BY <1>1, <1>2, <1>3, SettingsDiffer
<1>7. s.word = "none" \/ (s.word = "unset" /\ s.number = 0) => c = Off
  BY <1>1, <1>2, <1>3
<1> QED
  BY <1>4, <1>5, <1>6, <1>7 DEF c

\* Why ValidateConfig refuses a setting.
LEMMA Refusals ==
  ASSUME NEW m \in ModelShape, NEW to \in Targets, Offered(m),
         NEW c, Asked(c), c # NoSetting, NEW from, NEW suffixed \in BOOLEAN,
         ValidateConfig(c, m, from, to, suffixed) = NotSettled
  PROVE  \/ c.mode = "level" /\ c.level = "other"
         \/ /\ c.mode = "level" /\ c.level \in Standard /\ HasLevels(m) /\ c.level \notin m.levels
            /\ ~(from \in BudgetBased /\ to \in LevelBased)
         \/ c.mode = "budget" /\ c.budget < -1 /\ Capability(m) = "level"
         \/ /\ ~suffixed /\ SameFamily(from, to) /\ c.mode = "budget" /\ HasBudgets(m)
            /\ c.budget < m.min \/ c.budget > m.max
<1> USE Shape
<1> DEFINE lenient == from \in BudgetBased /\ to \in LevelBased
<1> DEFINE k == Converted(c, m)
<1> DEFINE d == Named(k)
<1> DEFINE e == LevelChecked(d, m, lenient)
<1> DEFINE f == IF e.mode = "auto" /\ ~m.dynamic THEN MidRange(m) ELSE e
<1> DEFINE derived == c.mode = "level" /\ Capability(m) = "budget"
<1>1. CASE e # NotSettled
  <2>1. Fits(Clamped(f, m, to), m, to, c)
    <3>1. lenient \in BOOLEAN
      OBVIOUS
    <3>2. Checked(e, m) /\ (e = Automatic => AutoAsked(c))
      BY <1>1, <3>1, CheckedByValidation
    <3>3. Ready(f, m, c)
      <4>1. CASE e.mode = "auto" /\ ~m.dynamic
        <5>1. e = Automatic
          BY <3>2, <4>1, SettingsDiffer DEF Checked
        <5> QED
          BY <3>2, <4>1, <5>1, MiddleReady
      <4>2. CASE ~(e.mode = "auto" /\ ~m.dynamic)
        <5>1. e = Automatic => m.dynamic
          BY <4>2 DEF Automatic, Setting
        <5> QED
          BY <3>2, <4>2, <5>1 DEF Checked, Ready
      <4> QED
        BY <4>1, <4>2
    <3> QED
      BY <3>3, ClampedFits
  <2>2. Clamped(f, m, to) # NotSettled
    <3>1. Clamped(f, m, to) \in SettingShape
      BY <2>1 DEF Fits
    <3> QED
      BY <3>1 DEF SettingShape, NotSettled, Setting
  <2>3. /\ ~suffixed /\ SameFamily(from, to) /\ ~derived /\ e.mode = "budget" /\ HasBudgets(m)
        /\ e.budget < m.min \/ e.budget > m.max
    BY <1>1, <2>2 DEF ValidateConfig
  <2>4. e = d
    <3>1. \A w : AtLevel(w).mode = "level"
      BY SettingsDiffer
    <3> QED
      BY <1>1, <2>3, <3>1 DEF LevelChecked
  <2>5. d = k
    BY <2>3, <2>4, SettingsDiffer DEF Named
  <2>6. k = c
    <3>1. CASE c.mode = "level"
      BY <2>3, <2>4, <2>5, <3>1 DEF Converted
    <3>2. CASE c.mode # "level"
      BY <2>3, <2>4, <2>5, <3>2, SettingsDiffer DEF Converted, NotSettled, Setting
    <3> QED
      BY <3>1, <3>2
  <2> HIDE DEF k, d, e
  <2> QED
    BY <2>3, <2>4, <2>5, <2>6
<1>2. CASE e = NotSettled /\ k = NotSettled
  <2>1. NotSettled.mode = "refused"
    BY DEF NotSettled, Setting
  <2>2. c.mode # "refused"
    BY DEF Asked, NoSetting, Off, Automatic, Setting
  <2>3. CASE Capability(m) = "budget" /\ c.mode = "level" /\ c.level # "auto"
    <3>1. c.level \notin DOMAIN LevelToBudget
      BY <1>2, <2>1, <2>3, SettingsDiffer DEF Converted
    <3>2. c.level \in Words
      BY <2>3 DEF Asked, NoSetting, Off, Automatic, Setting
    <3>3. c.level = "other"
      BY <3>1, <3>2, LevelBudgets DEF Words, Standard
    <3> QED
      BY <2>3, <3>3
  <2>4. CASE Capability(m) = "level" /\ c.mode = "budget"
    <3>1. c.budget \in Int
      BY <2>4 DEF Asked, NoSetting, Off, Automatic, Setting
    <3>2. ~(c.budget >= -1)
      BY <1>2, <2>1, <2>4, SettingsDiffer DEF Converted
    <3> QED
      BY <2>4, <3>1, <3>2
  <2> QED
    BY <1>2, <2>1, <2>2, <2>3, <2>4 DEF Converted
<1>3. CASE e = NotSettled /\ k # NotSettled
  <2>1. NotSettled.mode = "refused" /\ d # NotSettled
    BY <1>3, SettingsDiffer DEF NotSettled, Setting, Named
  <2>2. /\ HasLevels(m) /\ d.mode = "level" /\ d.level \notin m.levels
        /\ (IF lenient THEN ClampLevel(d.level, m) ELSE d.level) \notin m.levels
    BY <1>3, <2>1, SettingsDiffer DEF LevelChecked
  <2>3. d = k /\ k.mode = "level" /\ k.level \notin {"none", "auto"}
    BY <2>2, SettingsDiffer DEF Named
  <2>4. HasLevels(m) => m.levels \cap Standard # {}
    BY DEF Offered
  <2>5. CASE k = c
    <3>1. c.level \in Words
      BY <2>3, <2>5 DEF Asked, NoSetting, Off, Automatic, Setting
    <3>2. CASE c.level = "other"
      BY <2>3, <2>5, <3>2
    <3>3. CASE c.level \in Standard
      <4>1. ~lenient
        <5>1. ASSUME lenient PROVE ClampLevel(c.level, m) \in m.levels
          BY <2>2, <2>4, <3>3, <5>1, NearestLevel
        <5> QED
          BY <2>2, <2>3, <2>5, <5>1
      <4> QED
        BY <2>2, <2>3, <2>5, <3>3, <4>1
    <3> QED
      BY <2>3, <2>5, <3>1, <3>2, <3>3 DEF Words
  <2>6. CASE k # c
    <3>1. Capability(m) = "level" /\ c.mode = "budget"
      BY <1>3, <2>3, <2>6, SettingsDiffer DEF Converted
    <3>2. CASE c.budget < -1
      BY <3>1, <3>2
    <3>3. CASE ~(c.budget < -1)
      <4>1. c.budget \in Int /\ c.budget # 0
        BY <3>1 DEF Asked, NoSetting, Off, Automatic, Setting
      <4>2. k = AtLevel(ClampLevel(BudgetToLevel(c.budget), m))
        BY <3>1, <3>3, <4>1 DEF Converted
      <4>3. CASE c.budget = -1
        BY <3>1, <4>3 DEF Asked, NoSetting, Off, Automatic, Setting
      <4>4. CASE c.budget # -1
        <5>1. PICK n \in Nat \ {0} : n = c.budget
          BY <3>3, <4>1, <4>4
        <5>2. m.levels \cap Standard # {}
          BY <2>2, <2>4
        <5>3. ClampLevel(BudgetToLevel(n), m) \in m.levels
          BY <5>2, PositiveLevels, NearestLevel
        <5> QED
          BY <2>2, <2>3, <4>2, <5>1, <5>3, SettingsDiffer
      <4> QED
        BY <4>3, <4>4
    <3> QED
      BY <3>2, <3>3
  <2> QED
    BY <2>5, <2>6
<1> QED
  BY <1>1, <1>2, <1>3

-----------------------------------------------------------------------------
(* What the upstream does of a setting that is written *)

\* Not to think is heard; so is to think.
Quiet(x, m, to) ==
  \/ EffectOf(x, to) \in {"off", "hidden"}
  \/ to \in {"openai", "codex"} /\ HasLevels(m) /\ x.level = m.lowest
  \/ to = "antigravity" /\ m.family = "claude" /\ EffectOf(x, to) = "own"
Aloud(x, b, m, to) ==
  \/ EffectOf(x, to) = "shown"
  \/ /\ to = "antigravity" /\ m.family = "claude" /\ EffectOf(x, to) = "own"
     /\ Room(b, m) <= m.min

LEMMA WrittenGemini ==
  ASSUME NEW m \in ModelShape, NEW to \in Geminis, NEW b \in Body,
         NEW v \in SettingShape
  PROVE  /\ v.mode = "none" => EffectOf(InLevels(b, v), to) = "hidden"
         /\ v.mode = "none" => EffectOf(InBudget(b, v), to) \in {"off", "hidden"}
         /\ v.mode # "none" => EffectOf(InLevels(b, v), to) = "shown"
         /\ v.mode = "auto" /\ v.budget = -1 => EffectOf(InBudget(b, v), to) = "shown"
         /\ v.mode = "budget" /\ v.budget > 0 => EffectOf(InBudget(b, v), to) = "shown"
<1>1. to # "claude" /\ Absent # 0 /\ to \notin {"openai", "codex", "iflow"}
  BY EmptyFields DEF Geminis
<1>2. /\ InLevels(b, v).budget = Absent
      /\ InLevels(b, v).thoughts = IF v.mode = "none" THEN "off" ELSE "on"
  BY DEF InLevels, Body
<1>3. /\ InBudget(b, v).budget = v.budget
      /\ InBudget(b, v).thoughts = IF v.mode = "auto" \/ (v.mode = "budget" /\ v.budget > 0)
                                   THEN "on" ELSE "off"
  BY DEF InBudget, Body
<1>4. v.budget \in Int
  BY DEF SettingShape
<1> QED
  BY <1>1, <1>2, <1>3, <1>4 DEF EffectOf

\* Claude behind Antigravity, which may have no room to think.
LEMMA WrittenAntigravity ==
  ASSUME NEW m \in ModelShape, NEW b \in Body, NEW v \in SettingShape,
         m.family = "claude", v.mode = "budget" => m.min > 0
  PROVE  LET x == InBudgetOfClaude(b, v, m) IN
         /\ v.mode = "none" => Quiet(x, m, "antigravity")
         /\ \/ v.mode = "auto" /\ v.budget = -1
            \/ v.mode = "budget" /\ m.min <= v.budget
            => Aloud(x, b, m, "antigravity")
<1> USE Shape
<1> DEFINE x == InBudgetOfClaude(b, v, m)
<1> DEFINE room == Room(b, m)
<1> DEFINE less == Below(v.budget, room)
<1> DEFINE out == m.min > 0 /\ less >= 0 /\ less < m.min
<1>1. /\ "antigravity" \in Geminis /\ Absent # 0
      /\ "antigravity" \notin {"claude", "openai", "codex", "iflow"}
  BY EmptyFields DEF Geminis
<1>2. v.budget \in Int /\ room \in Nat
  BY DEF SettingShape, Room, Body
<1>3. CASE out
  <2>1. x.budget = Absent /\ x.thoughts = "unset"
    BY <1>3 DEF InBudgetOfClaude, Body
  <2>2. EffectOf(x, "antigravity") = "own"
    BY <1>1, <2>1 DEF EffectOf
  <2>3. v.mode = "auto" /\ v.budget = -1 => ~out
    BY <1>2 DEF Below
  <2>4. v.mode = "budget" /\ m.min <= v.budget => room <= m.min
    BY <1>2, <1>3 DEF Below
  <2> QED
    BY <1>3, <2>2, <2>3, <2>4 DEF Quiet, Aloud
<1>4. CASE ~out
  <2>1. /\ x.budget = less
        /\ x.thoughts = IF v.mode = "auto" \/ (v.mode = "budget" /\ v.budget > 0)
                        THEN "on" ELSE "off"
    BY <1>4 DEF InBudgetOfClaude, InBudget, Body
  <2>2. less \in Int
    BY <1>2 DEF Below
  <2>3. \/ v.mode = "auto" /\ v.budget = -1
        \/ v.mode = "budget" /\ m.min <= v.budget
        => less # 0
    BY <1>2, <1>4, <2>2 DEF Below
  <2> HIDE DEF x, less, out
  <2>4. v.mode = "none" => EffectOf(x, "antigravity") \in {"off", "hidden"}
    BY <1>1, <2>1 DEF EffectOf
  <2>5. \/ v.mode = "auto" /\ v.budget = -1
        \/ v.mode = "budget" /\ m.min <= v.budget
        => EffectOf(x, "antigravity") = "shown"
    BY <1>1, <1>2, <2>1, <2>3 DEF EffectOf
  <2> QED
    BY <2>4, <2>5 DEF Quiet, Aloud, x
<1> QED
  BY <1>3, <1>4

\* A body that was left as it was carried over: it says itself what was asked,
\* unless that was said by the suffix, or to iFlow.
Left(x, m, to, k) == Bare(x, m, to, k) \/ (to = "iflow" /\ m.family = "other" /\ x = k)

LEMMA StatedThought ==
  ASSUME NEW to \in {"claude", "openai", "codex"}, NEW b, Carries(b, to), Thinks(FromBody(b, to))
  PROVE  EffectOf(b, to) = "shown"
<1> DEFINE c == FromBody(b, to)
<1>1. c # Off /\ c # NoSetting
  BY SettingsDiffer DEF Thinks
<1>2. CASE to = "claude"
  <2>1. c = FromClaude(b)
    BY <1>2 DEF FromBody, Geminis
  <2>2. b.type = "enabled"
    BY <1>1, <1>2, <2>1 DEF FromClaude, Carries
  <2> QED
    BY <1>2, <2>2 DEF EffectOf, Geminis
<1>3. CASE to \in {"openai", "codex"}
  <2>1. c = FromEffort(b)
    BY <1>3 DEF FromBody, Geminis
  <2>2. b.level \notin {"none", "unset"}
    BY <1>1, <2>1 DEF FromEffort
  <2> QED
    BY <1>3, <2>2 DEF EffectOf, Geminis
<1> QED
  BY <1>2, <1>3

LEMMA StatedNone ==
  ASSUME NEW to \in {"openai", "codex"}, NEW b, FromBody(b, to) = Off
  PROVE  EffectOf(b, to) = "off"
<1>1. FromEffort(b) = Off
  BY DEF FromBody, Geminis
<1>2. b.level = "none"
  BY <1>1, SettingsDiffer DEF FromEffort
<1> QED
  BY <1>2 DEF EffectOf, Geminis

\* A model the registry knows.
LEMMA QuietWritten ==
  ASSUME NEW to \in Targets, NEW m \in ModelShape, m.known, Offered(m),
         NEW b, Carries(b, to), NEW c, NEW v, Fits(v, m, to, c),
         v.mode = "none", to = "claude" => v.budget = 0
  PROVE  LET x == Applied(b, v, m, to) IN
         Quiet(x, m, to) \/ (Left(x, m, to, b) /\ to # "claude")
<1> DEFINE x == Applied(b, v, m, to)
<1> SUFFICES Quiet(x, m, to) \/ (Left(x, m, to, b) /\ to # "claude")
  OBVIOUS
<1>1. b \in Body /\ v \in SettingShape
  BY DEF Carries, Fits
<1>2. CASE to = "claude"
  <2>1. x = Disabled(b)
    BY <1>2 DEF Applied, Geminis, ApplyClaude
  <2>2. x.type = "disabled"
    BY <1>1, <2>1 DEF Disabled, Body
  <2>3. EffectOf(x, to) = "off"
    BY <1>2, <2>2 DEF EffectOf, Geminis
  <2> QED
    BY <2>3 DEF Quiet
<1>3. CASE to \in Geminis
  <2>1. x = ApplyGemini(b, v, m, to)
    BY <1>3 DEF Applied, Geminis
  <2>2. \/ x = InLevels(b, v) \/ x = InBudget(b, v)
        \/ x = InBudgetOfClaude(b, v, m) /\ to = "antigravity" /\ m.family = "claude"
    BY <2>1 DEF ApplyGemini
  <2> HIDE DEF x
  <2> QED
    BY <1>1, <1>3, <2>2, WrittenGemini, WrittenAntigravity DEF Quiet
<1>4. CASE to \in {"openai", "codex"}
  <2>1. x = ApplyEffort(b, v, m)
    BY <1>4 DEF Applied, Geminis
  <2>2. CASE v.budget = 0 /\ (m.zero \/ "none" \in m.levels)
    <3>1. x = [b EXCEPT !.level = "none"]
      BY <2>1, <2>2 DEF ApplyEffort
    <3>2. x.level = "none"
      BY <1>1, <3>1 DEF Body
    <3> HIDE DEF x
    <3> QED
      BY <1>4, <3>2 DEF Quiet, EffectOf, Geminis
  <2>3. CASE ~(v.budget = 0 /\ (m.zero \/ "none" \in m.levels)) /\ HasLevels(m)
    <3>1. v.level \in {"unset", m.lowest} /\ m.lowest # "unset"
      BY <2>3, Shape DEF Fits, Offered, Words, Standard
    <3>2. x = [b EXCEPT !.level = m.lowest]
      BY <2>1, <2>3, <3>1 DEF ApplyEffort
    <3>3. x.level = m.lowest
      BY <1>1, <3>2 DEF Body
    <3> HIDE DEF x
    <3> QED
      BY <1>4, <2>3, <3>3 DEF Quiet
  <2>4. CASE ~(v.budget = 0 /\ (m.zero \/ "none" \in m.levels)) /\ ~HasLevels(m)
    <3>1. m.lowest = "unset" /\ HasBudgets(m) /\ v.level = "unset"
      BY <2>4 DEF Offered, Fits
    <3>2. x = b
      BY <2>1, <2>4, <3>1 DEF ApplyEffort
    <3> HIDE DEF x
    <3> QED
      BY <1>4, <3>1, <3>2 DEF Left, Bare
  <2> QED
    BY <2>2, <2>3, <2>4
<1>5. CASE to = "iflow"
  <2>1. CASE m.family = "other"
    <3>1. x = b
      BY <1>5, <2>1 DEF Applied, ApplyIFlow, Geminis
    <3> HIDE DEF x
    <3> QED
      BY <1>5, <2>1, <3>1 DEF Left
  <2>2. CASE m.family # "other"
    <3>1. x = [b EXCEPT !.switch = "off"]
      BY <1>5, <2>2 DEF Applied, ApplyIFlow, Geminis
    <3>2. x.switch = "off"
      BY <1>1, <3>1 DEF Body
    <3>3. EffectOf(x, to) = "off"
      BY <1>5, <3>2 DEF EffectOf, Geminis
    <3> QED
      BY <3>3 DEF Quiet
  <2> QED
    BY <2>1, <2>2
<1> QED
  BY <1>2, <1>3, <1>4, <1>5 DEF Targets

LEMMA AloudWritten ==
  ASSUME NEW to \in Targets, NEW m \in ModelShape, m.known, Offered(m),
         NEW b, Carries(b, to), NEW c, NEW v, Fits(v, m, to, c),
         StillThinks(v)
  PROVE  LET x == Applied(b, v, m, to) IN Aloud(x, b, m, to) \/ Left(x, m, to, b)
<1> DEFINE x == Applied(b, v, m, to)
<1> SUFFICES Aloud(x, b, m, to) \/ Left(x, m, to, b)
  OBVIOUS
<1>1. b \in Body /\ v \in SettingShape
  BY DEF Carries, Fits
<1>2. v.mode = "level" => v.level \in Standard /\ v.level \notin {"none", "unset"}
  BY DEF StillThinks, Standard
<1>3. CASE to = "claude"
  <2>1. x = ApplyClaude(b, v, m)
    BY <1>3 DEF Applied, Geminis
  <2>2. CASE v.mode = "budget"
    <3>1. v.budget > 0 /\ v.budget \in Int
      BY <2>2 DEF StillThinks, SettingShape
    <3>2. PICK n, r : x = [Enabled(b, n) EXCEPT !.max = r]
      <4>1. v.mode \in {"budget", "none"} /\ ~(v.budget = 0) /\ ~(v.budget < 0)
        BY <2>2, <3>1
      <4> HIDE DEF x
      <4> QED
        BY <2>1, <4>1 DEF ApplyClaude
    <3>3. x.type = "enabled"
      BY <1>1, <3>2 DEF Enabled, Body
    <3>4. EffectOf(x, to) = "shown"
      BY <1>3, <3>3 DEF EffectOf, Geminis
    <3> QED
      BY <3>4 DEF Aloud
  <2>3. CASE v.mode # "budget"
    <3>1. v.mode \in {"auto", "level"} /\ (HasLevels(m) \/ m.dynamic)
      BY <2>3 DEF StillThinks, Fits, SettingShape
    <3>2. x = b
      BY <2>1, <3>1 DEF ApplyClaude
    <3> HIDE DEF x
    <3> QED
      BY <1>3, <3>1, <3>2 DEF Left, Bare
  <2> QED
    BY <2>2, <2>3
<1>4. CASE to \in Geminis
  <2>1. x = ApplyGemini(b, v, m, to)
    BY <1>4 DEF Applied, Geminis
  <2>2. CASE v.mode = "level"
    <3>1. HasLevels(m)
      BY <2>2 DEF Fits
    <3>2. x = InLevels(b, v)
      BY <2>1, <2>2, <3>1 DEF ApplyGemini
    <3> HIDE DEF x
    <3> QED
      BY <1>1, <1>4, <2>2, <3>2, WrittenGemini DEF Aloud
  <2>3. CASE v.mode # "level"
    <3>1. v.mode \in {"auto", "budget"}
      BY <2>3 DEF StillThinks, SettingShape
    <3>2. /\ v.mode = "auto" => v.budget = -1
          /\ v.mode = "budget" => v.budget > 0 /\ m.min <= v.budget
      BY DEF StillThinks, Fits
    <3>3. \/ x = InBudget(b, v)
          \/ x = InBudgetOfClaude(b, v, m) /\ to = "antigravity" /\ m.family = "claude"
      BY <2>1, <3>1 DEF ApplyGemini
    <3>4. m.family = "claude" /\ v.mode = "budget" => m.min > 0
      BY DEF Offered, Fits
    <3> HIDE DEF x
    <3>5. CASE x = InBudget(b, v)
      BY <1>1, <1>4, <3>1, <3>2, <3>5, WrittenGemini DEF Aloud
    <3>6. CASE x = InBudgetOfClaude(b, v, m) /\ to = "antigravity" /\ m.family = "claude"
      BY <1>1, <3>1, <3>2, <3>4, <3>6, WrittenAntigravity
    <3> QED
      BY <3>3, <3>5, <3>6
  <2> QED
    BY <2>2, <2>3
<1>5. CASE to \in {"openai", "codex"}
  <2>1. x = ApplyEffort(b, v, m)
    BY <1>5 DEF Applied, Geminis
  <2>2. CASE v.mode = "level"
    <3>1. x = [b EXCEPT !.level = v.level]
      BY <1>2, <2>1, <2>2 DEF ApplyEffort
    <3>2. x.level = v.level
      BY <1>1, <3>1 DEF Body
    <3>3. EffectOf(x, to) = "shown"
      BY <1>2, <1>5, <2>2, <3>2 DEF EffectOf, Geminis
    <3> QED
      BY <3>3 DEF Aloud
  <2>3. CASE v.mode # "level"
    <3>1. v.mode \in {"auto", "budget"} /\ (HasBudgets(m) \/ m.dynamic)
      BY <2>3 DEF StillThinks, Fits, SettingShape
    <3>2. x = b
      BY <2>1, <3>1 DEF ApplyEffort
    <3> HIDE DEF x
    <3> QED
      BY <1>5, <3>1, <3>2 DEF Left, Bare
  <2> QED
    BY <2>2, <2>3
<1>6. CASE to = "iflow"
  <2>1. CASE m.family = "other"
    <3>1. x = b
      BY <1>6, <2>1 DEF Applied, ApplyIFlow, Geminis
    <3> HIDE DEF x
    <3> QED
      BY <1>6, <2>1, <3>1 DEF Left
  <2>2. CASE m.family # "other"
    <3>1. \/ v.mode = "auto" \/ (v.mode = "budget" /\ v.budget > 0)
          \/ v.mode = "level" /\ v.level # "none"
      BY <1>2 DEF StillThinks, SettingShape
    <3>2. x = [b EXCEPT !.switch = "on"]
      BY <1>6, <2>2, <3>1 DEF Applied, ApplyIFlow, Geminis
    <3>3. x.switch = "on"
      BY <1>1, <3>2 DEF Body
    <3>4. EffectOf(x, to) = "shown"
      BY <1>6, <3>3 DEF EffectOf, Geminis
    <3> QED
      BY <3>4 DEF Aloud
  <2> QED
    BY <2>1, <2>2
<1> QED
  BY <1>3, <1>4, <1>5, <1>6 DEF Targets

\* A model the registry does not know, which iFlow leaves alone.
LEMMA UncheckedQuiet ==
  ASSUME NEW to \in Targets, to # "iflow", NEW m \in ModelShape, ~m.known, NEW b \in Body
  PROVE  Quiet(Applied(b, Off, m, to), m, to)
<1> DEFINE x == Applied(b, Off, m, to)
<1> SUFFICES EffectOf(x, to) \in {"off", "hidden"}
  BY DEF Quiet
<1>1. /\ Off.mode = "none" /\ Off.level = "unset" /\ Off.budget = 0 /\ Off \in SettingShape
  BY DEF Off, Setting, SettingShape
<1>2. CASE to = "claude"
  <2>1. x = Disabled(b)
    BY <1>1, <1>2 DEF Applied, Geminis, CompatibleClaude
  <2>2. x.type = "disabled"
    BY <2>1 DEF Disabled, Body
  <2> QED
    BY <1>2, <2>2 DEF EffectOf, Geminis
<1>3. CASE to \in Geminis
  <2>1. x = InBudget(b, Off)
    BY <1>1, <1>3 DEF Applied, Geminis, CompatibleGemini
  <2> HIDE DEF x
  <2> QED
    BY <1>1, <1>3, <2>1, WrittenGemini
<1>4. CASE to \in {"openai", "codex"}
  <2>1. x = CompatibleEffort(b, Off)
    BY <1>4 DEF Applied, Geminis
  <2>2. x = [b EXCEPT !.level = "none"]
    BY <1>1, <2>1 DEF CompatibleEffort
  <2>3. x.level = "none"
    BY <2>2 DEF Body
  <2> QED
    BY <1>4, <2>3 DEF EffectOf, Geminis
<1> QED
  BY <1>2, <1>3, <1>4 DEF Targets

LEMMA UncheckedAloud ==
  ASSUME NEW to \in Targets, to # "iflow", NEW m \in ModelShape, ~m.known, NEW b \in Body,
         NEW v, Thinks(v), v = AtLevel("auto") => to \notin Geminis,
         v.mode = "level" => to # "claude"
  PROVE  EffectOf(Applied(b, v, m, to), to) = "shown"
<1> DEFINE x == Applied(b, v, m, to)
<1>1. /\ v \in SettingShape /\ v.mode # "none"
      /\ v.mode = "auto" => v.budget = -1
      /\ v.mode = "budget" => v.budget \in Nat \ {0}
      /\ v.mode = "level" => v.level \in Standard \cup {"auto"} /\ v = AtLevel(v.level)
  <2>1. CASE v = Automatic
    BY <2>1 DEF Automatic, Setting, SettingShape
  <2>2. CASE \E w \in Standard \cup {"auto"} : v = AtLevel(w)
    BY <2>2 DEF AtLevel, Setting, SettingShape, Words
  <2>3. CASE \E n \in Nat \ {0} : v = Setting("budget", n, "unset")
    BY <2>3 DEF Setting, SettingShape
  <2> QED
    BY <2>1, <2>2, <2>3 DEF Thinks
<1>2. CASE to = "claude"
  <2>1. PICK n : x = Enabled(b, n)
    <3>1. x = CompatibleClaude(b, v)
      BY <1>2 DEF Applied, Geminis
    <3> HIDE DEF x
    <3>2. v.mode \in {"auto", "budget"}
      BY <1>1, <1>2 DEF SettingShape
    <3> QED
      BY <3>1, <3>2 DEF CompatibleClaude
  <2>2. x.type = "enabled"
    BY <2>1 DEF Enabled, Body
  <2> QED
    BY <1>2, <2>2 DEF EffectOf, Geminis
<1>3. CASE to \in Geminis
  <2>1. x = CompatibleGemini(b, v)
    BY <1>3 DEF Applied, Geminis
  <2>2. x = IF v.mode = "level" THEN InLevels(b, v) ELSE InBudget(b, v)
    BY <1>1, <2>1 DEF CompatibleGemini
  <2>3. v.mode \in {"auto", "level", "budget"} /\ (v.mode = "budget" => v.budget > 0)
    BY <1>1 DEF SettingShape
  <2> HIDE DEF x
  <2> QED
    BY <1>1, <1>3, <2>2, <2>3, WrittenGemini DEF x
<1>4. CASE to \in {"openai", "codex"}
  <2>1. PICK w \in Standard \cup {"auto"} : x = [b EXCEPT !.level = w]
    <3>1. x = CompatibleEffort(b, v)
      BY <1>4 DEF Applied, Geminis
    <3> HIDE DEF x
    <3>2. "unset" \notin Standard \cup {"auto"}
      BY DEF Standard
    <3>3. CASE v.mode = "auto"
      BY <3>1, <3>3 DEF CompatibleEffort
    <3>4. CASE v.mode = "level"
      BY <1>1, <3>1, <3>2, <3>4 DEF CompatibleEffort
    <3>5. CASE v.mode = "budget"
      <4>1. BudgetToLevel(v.budget) \in Standard
        BY <1>1, <3>5, PositiveLevels
      <4> QED
        BY <3>1, <3>2, <3>5, <4>1 DEF CompatibleEffort
    <3> QED
      BY <1>1, <3>3, <3>4, <3>5 DEF SettingShape
  <2>2. x.level = w /\ w \notin {"none", "unset"}
    BY <2>1 DEF Body, Standard
  <2> QED
    BY <1>4, <2>2 DEF EffectOf, Geminis
<1> QED
  BY <1>2, <1>3, <1>4 DEF Targets

LEMMA RoomCarried ==
  ASSUME NEW from \in Froms, NEW to \in Geminis, NEW b
  PROVE  CarriedOver(b, from, to).max = b.max
<1>1. CASE from \in {"openai", "openai-response"}
  <2>1. CarriedOver(b, from, to) = EffortToGemini(b)
    BY <1>1 DEF CarriedOver, Geminis
  <2> QED
    BY <2>1 DEF EffortToGemini, Empty
<1>2. CASE from = "claude"
  <2>1. CarriedOver(b, from, to) = ClaudeSettingToGemini(b)
    BY <1>2 DEF CarriedOver, Geminis
  <2> QED
    BY <2>1 DEF ClaudeSettingToGemini, Empty
<1>3. CASE from = "gemini"
  BY <1>3 DEF CarriedOver, Geminis
<1> QED
  BY <1>1, <1>2, <1>3 DEF Froms

-----------------------------------------------------------------------------
(* The request is heard at every step *)

Alone(x) == Unwritten(x) /\ (ask.suffix.has \/ Target = "iflow")
NoneKept(x) == WantsNone => Quiet(x, Model, Target) \/ NotCarried \/ Alone(x)
ThoughtKept(x) ==
  WantsThinking => \/ Aloud(x, ask.body, Model, Target)
                   \/ ToolForced \/ NotCarried \/ Alone(x) \/ LevelIgnored

HonouredInv ==
  /\ ThinkingInv
  /\ phase \in {"applied", "sent"} /\ (Model.thinks \/ ~Model.known) =>
       NoneKept(carried) /\ ThoughtKept(carried)
  /\ phase = "refused" => RefusedForReason

LEMMA InitHonoured == ThinkingInit => HonouredInv
<1>1. ThinkingInit => phase = "asked"
  BY DEF ThinkingInit
<1> QED
  BY <1>1, InitThinking DEF HonouredInv

\* What ApplyThinking finds is what the client says.
LEMMA ConfigHeard ==
  ASSUME HonouredInv, phase = "translated"
  PROVE  /\ WantsNone => Config = Off \/ NotCarried
         /\ WantsThinking => Thinks(Config) \/ NotCarried
         /\ ask.suffix.has /\ Config.mode = "level" =>
              Config.level = ask.suffix.word /\ ask.suffix.word \in Standard
         /\ ~ask.suffix.has => Heard(Config, ask.body, ask.from, Target)
<1> DEFINE b == ask.body
<1>1. /\ ask.from \in Froms /\ Target \in Targets /\ b \in ClientBodies(ask.from)
      /\ ask.suffix \in Suffix /\ carried = CarriedOver(b, ask.from, Target)
  BY AskFacts DEF HonouredInv, ThinkingInv, AsCarried
<1>2. CASE ask.suffix.has
  <2>1. Config = FromSuffix(ask.suffix)
    BY <1>2 DEF Config
  <2> HIDE DEF Config
  <2> QED
    BY <1>1, <1>2, <2>1, SuffixHeard DEF WantsNone, WantsThinking
<1>3. CASE ~ask.suffix.has
  <2>1. Config = FromBody(carried, Target)
    BY <1>3 DEF Config
  <2>2. Heard(Config, b, ask.from, Target)
    BY <1>1, <2>1, BodyHeard
  <2>3. /\ WantsNone <=> SaysNone(b, Target)
        /\ WantsThinking <=> SaysThink(b, Target)
    BY <1>3 DEF WantsNone, WantsThinking, SaysNone, SaysThink, Switched
  <2>4. Lost(b, ask.from, Target) => NotCarried
    BY <1>3 DEF Lost, NotCarried
  <2> HIDE DEF b
  <2> QED
    BY <1>3, <2>2, <2>3, <2>4 DEF Heard, NoneHeard, ThoughtHeard, b
<1> QED
  BY <1>2, <1>3

LEMMA RefusalHeard ==
  ASSUME HonouredInv, phase = "translated", ThinkingRefused
  PROVE  RefusedForReason
<1> DEFINE c == Config
<1> DEFINE b == ask.body
<1>1. /\ ask.from \in Froms /\ Target \in Targets /\ b \in ClientBodies(ask.from)
      /\ ask.suffix \in Suffix /\ ask.suffix.has \in BOOLEAN
      /\ Model \in ModelShape /\ Offered(Model)
  BY AskFacts DEF HonouredInv, ThinkingRefused
<1>2. c # NoSetting /\ Asked(c)
  BY ConfigAsked DEF HonouredInv, ThinkingRefused
<1>3. ValidateConfig(c, Model, ask.from, Target, ask.suffix.has) = NotSettled
  BY DEF ThinkingRefused
<1> HIDE DEF c
<1>4. \/ c.mode = "level" /\ c.level = "other"
      \/ /\ c.mode = "level" /\ c.level \in Standard /\ HasLevels(Model)
         /\ c.level \notin Model.levels
         /\ ~(ask.from \in BudgetBased /\ Target \in LevelBased)
      \/ c.mode = "budget" /\ c.budget < -1 /\ Capability(Model) = "level"
      \/ /\ ~ask.suffix.has /\ SameFamily(ask.from, Target) /\ c.mode = "budget"
         /\ HasBudgets(Model) /\ (c.budget < Model.min \/ c.budget > Model.max)
  BY <1>1, <1>2, <1>3, Refusals
<1>5. "other" \notin Standard /\ "medium" \in Standard
  BY DEF Standard
<1>6. CASE ask.suffix.has
  <2>1. c.mode = "level" => c.level = ask.suffix.word /\ ask.suffix.word \in Standard
    BY <1>6, ConfigHeard DEF c
  <2>2. c.mode = "budget" => c.budget > 0
    BY <1>1, <1>2, <1>6, SuffixHeard DEF c, Config
  <2>3. c.budget \in Int
    BY <1>2 DEF Asked, NoSetting, Off, Automatic, Setting
  <2> QED
    BY <1>4, <1>5, <1>6, <2>1, <2>2, <2>3 DEF RefusedForReason
<1>7. CASE ~ask.suffix.has
  <2>1. LevelHeard(c, b, ask.from, Target) /\ BudgetHeard(c, b, ask.from, Target)
    BY <1>7, ConfigHeard DEF Heard, c
  <2>2. CASE c.mode = "level" /\ c.level = "other"
    BY <1>7, <2>1, <2>2 DEF LevelHeard, RefusedForReason
  <2>3. CASE /\ c.mode = "level" /\ c.level \in Standard /\ HasLevels(Model)
             /\ c.level \notin Model.levels
             /\ ~(ask.from \in BudgetBased /\ Target \in LevelBased)
    <3>1. Target \in {"openai", "codex"} => ask.from \notin BudgetBased
      BY <2>3 DEF LevelBased
    <3>2. CASE b.level = c.level
      BY <1>7, <2>3, <3>2 DEF RefusedForReason
    <3>3. CASE /\ Target = "codex" /\ ask.from = "openai" /\ b.level = "unset"
               /\ c.level = "medium"
      BY <1>7, <2>3, <3>3 DEF RefusedForReason, DefaultRefused
    <3>4. CASE /\ Target = "iflow" /\ b.level = "unset" /\ b.budget # Absent
               /\ c.level = BudgetToLevel(b.budget)
      BY <1>7, <2>3, <3>4 DEF RefusedForReason, BudgetRefused
    <3>5. c.level \notin {"auto", "none"}
      BY <2>3 DEF Standard
    <3> QED
      BY <2>1, <2>3, <3>1, <3>2, <3>3, <3>4, <3>5 DEF LevelHeard
  <2>4. CASE c.mode = "budget" /\ c.budget < -1 /\ Capability(Model) = "level"
    <3>1. b.budget = c.budget /\ c.budget # Absent /\ b.level = "unset"
      BY <1>2, <2>1, <2>4 DEF BudgetHeard
    <3> QED
      BY <1>7, <2>4, <3>1 DEF RefusedForReason
  <2>5. CASE /\ SameFamily(ask.from, Target) /\ c.mode = "budget"
             /\ HasBudgets(Model) /\ (c.budget < Model.min \/ c.budget > Model.max)
    <3>1. Target # "iflow"
      BY <1>1, <2>5 DEF SameFamily, Froms, Geminis
    <3>2. b.budget = c.budget /\ c.budget # Absent /\ b.level = "unset"
      BY <1>2, <2>1, <2>5, <3>1 DEF BudgetHeard
    <3> QED
      BY <1>7, <2>5, <3>2 DEF RefusedForReason
  <2> QED
    BY <1>4, <2>2, <2>3, <2>4, <2>5
<1> QED
  BY <1>6, <1>7

\* And what it makes of it is heard by the upstream.
LEMMA SettledHeard ==
  ASSUME HonouredInv, phase = "translated", ~ThinkingRefused, Model.thinks \/ ~Model.known
  PROVE  NoneKept(Settled) /\ ThoughtKept(Settled)
<1> DEFINE c == Config
<1> DEFINE x == Settled
<1>1. /\ ask.from \in Froms /\ Target \in Targets /\ Model \in ModelShape
      /\ ask.suffix.has \in BOOLEAN /\ carried \in Body /\ Carries(carried, Target)
      /\ Model.known /\ Model.thinks => Offered(Model)
      /\ carried = CarriedOver(ask.body, ask.from, Target) /\ carried = AsCarried
  BY AskFacts DEF HonouredInv, ThinkingInv, AsCarried
<1>2. /\ WantsNone => c = Off \/ NotCarried
      /\ WantsThinking => Thinks(c) \/ NotCarried
      /\ ask.suffix.has /\ c.mode = "level" =>
           c.level = ask.suffix.word /\ ask.suffix.word \in Standard
      /\ ~ask.suffix.has => Heard(c, ask.body, ask.from, Target)
  BY ConfigHeard
<1>3. Asked(c)
  BY ConfigAsked DEF HonouredInv
<1>4. Off # NoSetting /\ ~Thinks(NoSetting) /\ ~Thinks(Off)
  BY SettingsDiffer DEF Thinks
<1>5. SUFFICES /\ c = Off => Quiet(x, Model, Target) \/ Alone(x)
               /\ Thinks(c) => Aloud(x, ask.body, Model, Target) \/ Alone(x) \/ LevelIgnored
  BY <1>2 DEF NoneKept, ThoughtKept
<1>6. CASE c = NoSetting
  BY <1>4, <1>6
<1>7. CASE Model.known /\ c # NoSetting
  <2> DEFINE v == ValidateConfig(c, Model, ask.from, Target, ask.suffix.has)
  <2>1. Offered(Model) /\ v # NotSettled
    BY <1>1, <1>7 DEF ThinkingRefused
  <2>2. x = Applied(carried, v, Model, Target)
    BY <1>7 DEF Settled
  <2>3. Fits(v, Model, Target, c)
    BY <1>1, <1>3, <1>7, <2>1, ValidatedFits
  <2>6. ~ask.suffix.has => c = FromBody(carried, Target)
    BY DEF Config
  <2> HIDE DEF x, c
  <2>7. Left(x, Model, Target, carried) => x = carried /\ Unwritten(x)
    BY <1>1 DEF Left, Bare, Unwritten
  <2>8. ASSUME Left(x, Model, Target, carried), ~Alone(x)
        PROVE  /\ ~ask.suffix.has /\ Target \in {"claude", "openai", "codex"}
               /\ x = carried /\ c = FromBody(carried, Target)
    BY <2>6, <2>7, <2>8 DEF Alone, Left, Bare
  <2>4. ASSUME c = Off PROVE Quiet(x, Model, Target) \/ Alone(x)
    <3>1. v.mode = "none" /\ (Target = "claude" => v.budget = 0)
      BY <1>1, <2>4, NoneValidated
    <3> HIDE DEF v
    <3>2. Quiet(x, Model, Target) \/ (Left(x, Model, Target, carried) /\ Target # "claude")
      BY <1>1, <1>7, <2>1, <2>2, <2>3, <3>1, QuietWritten
    <3>3. ASSUME Left(x, Model, Target, carried), Target # "claude", ~Alone(x)
          PROVE  Quiet(x, Model, Target)
      <4>1. Target \in {"openai", "codex"} /\ x = carried /\ FromBody(carried, Target) = Off
        BY <2>4, <2>8, <3>3
      <4> QED
        BY <4>1, StatedNone DEF Quiet
    <3> QED
      BY <3>2, <3>3
  <2>5. ASSUME Thinks(c) PROVE Aloud(x, ask.body, Model, Target) \/ Alone(x)
    <3>1. StillThinks(v)
      BY <1>1, <2>1, <2>5, ThoughtValidated
    <3> HIDE DEF v
    <3>2. Aloud(x, carried, Model, Target) \/ Left(x, Model, Target, carried)
      BY <1>1, <1>7, <2>1, <2>2, <2>3, <3>1, AloudWritten
    <3>4. ASSUME Left(x, Model, Target, carried), ~Alone(x)
          PROVE  Aloud(x, ask.body, Model, Target)
      <4>1. /\ Target \in {"claude", "openai", "codex"} /\ x = carried
            /\ Thinks(FromBody(carried, Target))
        BY <2>5, <2>8, <3>4
      <4> QED
        BY <1>1, <4>1, StatedThought DEF Aloud
    <3>3. Target = "antigravity" => Room(carried, Model) = Room(ask.body, Model)
      <4>1. Target = "antigravity" => Target \in Geminis
        BY DEF Geminis
      <4> QED
        BY <1>1, <4>1, RoomCarried DEF Room
    <3> QED
      BY <3>2, <3>3, <3>4 DEF Aloud
  <2> QED
    BY <2>4, <2>5
<1>8. CASE ~Model.known /\ c # NoSetting
  <2> DEFINE over == /\ c.mode = "level" /\ c.level \in DOMAIN LevelToBudget
                     /\ Target \in BudgetBased /\ ask.from \in LevelBased
  <2> DEFINE v == IF over THEN Setting("budget", LevelToBudget[c.level], "unset") ELSE c
  <2>1. x = Applied(carried, v, Model, Target)
    BY <1>8 DEF Settled
  <2>2. CASE Target = "iflow"
    <3>1. x = carried
      BY <1>8, <2>1, <2>2 DEF Applied, Geminis
    <3> HIDE DEF x
    <3> QED
      BY <1>1, <1>8, <2>2, <3>1 DEF Alone, Unwritten
  <2>3. CASE Target # "iflow" /\ c = Off
    <3>1. v = Off
      BY <2>3, SettingsDiffer
    <3> HIDE DEF x, v
    <3> QED
      BY <1>1, <1>4, <1>8, <2>1, <2>3, <3>1, UncheckedQuiet
  <2>4. CASE Target # "iflow" /\ Thinks(c) /\ ~LevelIgnored
    <3>1. c.mode = "level" => c = AtLevel(c.level) /\ c.level \in Standard \cup {"auto"}
      BY <2>4, SettingsDiffer DEF Thinks
    <3>2. c.mode = "level" /\ Target \in BudgetBased => c.level \in Standard
      <4>1. SUFFICES ASSUME c.mode = "level", Target \in BudgetBased, c.level = "auto" PROVE FALSE
        BY <3>1
      <4>2. ~ask.suffix.has
        BY <1>1, <1>2, <4>1 DEF Standard
      <4>3. LevelHeard(c, ask.body, ask.from, Target)
        BY <1>2, <4>2 DEF Heard
      <4> HIDE DEF c
      <4> QED
        BY <4>1, <4>3 DEF LevelHeard, BudgetBased
    <3>3. c.mode = "level" /\ Target = "claude" => over
      <4>1. SUFFICES ASSUME c.mode = "level", Target = "claude" PROVE over
        OBVIOUS
      <4>2. Target \in BudgetBased
        BY <4>1 DEF BudgetBased
      <4>3. c.level \in Standard /\ c.level \in DOMAIN LevelToBudget
        BY <3>2, <4>1, <4>2, LevelBudgets
      <4>4. ask.suffix.has
        BY <1>2, <4>1 DEF Heard, LevelHeard
      <4>5. ask.suffix.word \in Standard
        BY <1>2, <4>1, <4>4
      <4>6. ask.from \in LevelBased
        BY <1>8, <2>4, <4>1, <4>5 DEF LevelIgnored
      <4> QED
        BY <4>1, <4>2, <4>3, <4>6
    <3>4. Thinks(v) /\ (v = AtLevel("auto") => Target \notin Geminis)
          /\ (v.mode = "level" => Target # "claude")
      <4>1. CASE over
        <5>1. c.level \in Standard
          BY <3>2, <4>1
        <5>2. LevelToBudget[c.level] \in Int /\ LevelToBudget[c.level] > 0
          BY <5>1, LevelBudgets
        <5>3. PICK n \in Nat \ {0} : n = LevelToBudget[c.level]
          BY <5>2
        <5>4. v = Setting("budget", n, "unset")
          BY <4>1, <5>3
        <5> HIDE DEF v
        <5> QED
          BY <5>4, SettingsDiffer DEF Thinks
      <4>2. CASE ~over
        <5>1. v = c
          BY <4>2
        <5>2. c = AtLevel("auto") => c.mode = "level" /\ c.level = "auto"
          BY SettingsDiffer
        <5>3. "auto" \notin Standard /\ (Target \in Geminis => Target \in BudgetBased)
          BY DEF Standard, BudgetBased
        <5> QED
          BY <2>4, <3>2, <3>3, <4>2, <5>1, <5>2, <5>3
      <4> QED
        BY <4>1, <4>2
    <3> HIDE DEF x, v
    <3>5. EffectOf(x, Target) = "shown"
      BY <1>1, <1>8, <2>1, <2>4, <3>4, UncheckedAloud
    <3> QED
      BY <1>4, <2>4, <3>5 DEF Aloud
  <2> QED
    BY <1>4, <2>2, <2>3, <2>4
<1> QED
  BY <1>1, <1>6, <1>7, <1>8

LEMMA HonouredStep == HonouredInv /\ [ThinkingNext]_thinkVars => HonouredInv'
<1> SUFFICES ASSUME HonouredInv, [ThinkingNext]_thinkVars PROVE HonouredInv'
  OBVIOUS
<1>1. ThinkingInv'
  BY ThinkingInvStep DEF HonouredInv
<1>2. ask' = ask
  BY DEF ThinkingNext, TranslateSetting, ApplyThinking, SendSetting, thinkVars
<1>3. /\ Target' = Target /\ Model' = Model /\ RefusedForReason' = RefusedForReason
  BY <1>2 DEF Target, Model, RefusedForReason, BudgetRefused, DefaultRefused
<1>4. /\ NoneKept(carried)' <=> NoneKept(carried')
      /\ ThoughtKept(carried)' <=> ThoughtKept(carried')
  BY <1>2, <1>3 DEF NoneKept, ThoughtKept, WantsNone, WantsThinking, Switched, NotCarried,
                    Alone, Unwritten, AsCarried, LevelIgnored, ToolForced
<1>5. CASE TranslateSetting
  BY <1>1, <1>2, <1>3, <1>5 DEF HonouredInv, TranslateSetting
<1>6. CASE ApplyThinking
  <2>1. CASE ThinkingRefused
    BY <1>1, <1>3, <1>6, <2>1, RefusalHeard DEF HonouredInv, ApplyThinking
  <2>2. CASE ~ThinkingRefused
    <3>1. phase = "translated" /\ phase' = "applied" /\ carried' = Settled
      BY <1>6, <2>2 DEF ApplyThinking
    <3>2. Model.thinks \/ ~Model.known => NoneKept(carried') /\ ThoughtKept(carried')
      BY <2>2, <3>1, SettledHeard
    <3> QED
      BY <1>1, <1>2, <1>3, <1>4, <3>1, <3>2 DEF HonouredInv
  <2> QED
    BY <2>1, <2>2
<1>7. CASE SendSetting
  <2>1. phase = "applied" /\ phase' = "sent"
    BY <1>7 DEF SendSetting
  <2>2. CASE Target = "claude" /\ ask.forced
    <3>1. carried' = [carried EXCEPT !.type = "unset", !.budget = Absent]
      BY <1>7, <2>2 DEF SendSetting, Stripped, Geminis
    <3>2. carried'.type = "unset"
      BY <3>1, AskFacts DEF HonouredInv, Body
    <3>3. EffectOf(carried', Target) = "off"
      BY <2>2, <3>2 DEF EffectOf, Geminis
    <3>4. NoneKept(carried') /\ ThoughtKept(carried')
      BY <2>2, <3>3 DEF NoneKept, ThoughtKept, Quiet, ToolForced
    <3> QED
      BY <1>1, <1>2, <1>3, <1>4, <2>1, <3>4 DEF HonouredInv
  <2>3. CASE ~(Target = "claude" /\ ask.forced)
    <3>1. carried' = carried
      BY <1>7, <2>3 DEF SendSetting
    <3> QED
      BY <1>1, <1>2, <1>3, <1>4, <2>1, <3>1 DEF HonouredInv
  <2> QED
    BY <2>2, <2>3
<1>8. CASE UNCHANGED thinkVars
  <2>1. carried' = carried /\ phase' = phase
    BY <1>8 DEF thinkVars
  <2> QED
    BY <1>1, <1>2, <1>3, <1>4, <2>1 DEF HonouredInv
<1> QED
  BY <1>5, <1>6, <1>7, <1>8 DEF ThinkingNext

LEMMA HonouredHolds == HonouredInv => ThinkingHonoured
<1> SUFFICES ASSUME HonouredInv PROVE ThinkingHonoured
  OBVIOUS
<1>1. Effect = EffectOf(carried, Target) /\ (Alone(carried) => LeftAlone)
  BY DEF Effect, Alone, LeftAlone
<1>2. NoneKept(carried) => NoneHonoured
  BY <1>1 DEF NoneKept, NoneHonoured, Quiet, TakenOut
<1>3. ThoughtKept(carried) => ThoughtHonoured
  BY <1>1 DEF ThoughtKept, ThoughtHonoured, Aloud, TakenOut
<1> QED
  BY <1>2, <1>3 DEF HonouredInv, ThinkingHonoured

\* The client is heard across formats, or its word is lost in one of the named
\* ways, and it is refused for what it asked (internal/thinking and the request
\* translators), for every model of the table, budget, limit and suffix.
THEOREM SettingsHonoured == ThinkingSpec => []ThinkingHonoured
  BY InitHonoured, HonouredStep, HonouredHolds, PTL DEF ThinkingSpec
=============================================================================
