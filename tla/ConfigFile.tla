----------------------------- MODULE ConfigFile -----------------------------
(***************************************************************************)
(* config.yaml and what the program makes of it (internal/config), as the  *)
(* management API edits it (config_lists.go, config_basic.go): an edit     *)
(* changes the configuration in memory and then saves it, by merging what  *)
(* it marshals to into the YAML tree of the file, whose comments, order    *)
(* and unknown keys are kept; a hot reload or a restart reads it back.     *)
(*                                                                         *)
(* Saving and loading treat every top-level key by itself, so a behaviour  *)
(* follows one section of the configuration, chosen at the start.  The     *)
(* five lists of credentials differ by what CredentialKinds says of them.  *)
(*                                                                         *)
(* Edits are whole here, one after the other: ConfigEdits has what happens *)
(* when they meet a reload.                                                *)
(***************************************************************************)
EXTENDS Naturals, Sequences, TLC

LOCAL INSTANCE SequencesExt

CONSTANTS Followed,        \* sections a behaviour may follow
          Credentials,     \* entries of those lists: name (or API key), URL and headers
          Models,          \* members of the other lists
          CredentialLimit  \* bound: entries of a list

ASSUME ConfigFileAssumption ==
  /\ \A e \in Credentials : DOMAIN e = {"name", "url", "headers"}
  /\ CredentialLimit \in Nat

VARIABLES section,    \* the section followed
          tree,       \* the file: its YAML tree, of the keys of the section
          settings    \* the section in memory

configFileVars == <<section, tree, settings>>
----------------------------------------------------------------------------
(* YAML nodes.                                                             *)

Scalar(v)   == [kind |-> "scalar",   value |-> v,  at |-> <<>>, items |-> <<>>]
Mapping(f)  == [kind |-> "mapping",  value |-> "", at |-> f,    items |-> <<>>]
Sequence(s) == [kind |-> "sequence", value |-> "", at |-> <<>>, items |-> s]
Null == Scalar("null")

Without(node, keys) == Mapping([k \in DOMAIN node.at \ keys |-> node.at[k]])

RECURSIVE IsZeroValueNode(_)
IsZeroValueNode(node) ==
  CASE node.kind = "scalar"   -> node.value \in {"", "0", "false", "null"}
    [] node.kind = "sequence" -> \A i \in DOMAIN node.items : IsZeroValueNode(node.items[i])
    [] node.kind = "mapping"  -> \A k \in DOMAIN node.at : IsZeroValueNode(node.at[k])

\* What tells an element of a sequence from others: the first of these it has.
SequenceElementIdentity(node) ==
  IF node.kind = "scalar" THEN node.value
  ELSE LET given == SelectSeq(<<"name", "api-key", "upstream-api-key", "from", "base-url">>,
                              LAMBDA k : k \in DOMAIN node.at /\ node.at[k].value # "")
       IN  IF given = <<>> THEN "" ELSE node.at[Head(given)].value

\* The unused element of old that target updates, or 0.
MatchSequenceElement(old, used, target) ==
  LET same == {i \in DOMAIN old \ used :
                 /\ SequenceElementIdentity(target) # ""
                 /\ old[i].kind = target.kind
                 /\ SequenceElementIdentity(old[i]) = SequenceElementIdentity(target)}
      equal == {i \in DOMAIN old \ used : old[i] = target}
      First(S) == CHOOSE i \in S : \A j \in S : i <= j
  IN  IF same # {} THEN First(same) ELSE IF equal # {} THEN First(equal) ELSE 0

\* reorderSequenceForMerge: for each element of new, the one of old it updates.
Matches(old, new) ==
  LET match[i \in DOMAIN new] ==
        MatchSequenceElement(old, {match[j] : j \in 1..(i - 1)}, new[i])
  IN  match

PruneMissingMapKeys(dst, src) ==
  IF dst.kind = "mapping" /\ src.kind = "mapping" THEN Without(dst, DOMAIN dst.at \ DOMAIN src.at)
                                                  ELSE dst

RECURSIVE MergeNodePreserve(_, _)

\* A key the file has is updated, a new one is added only with a value.
MergeMappingPreserve(dst, src) ==
  LET added == {k \in DOMAIN src.at \ DOMAIN dst.at : ~IsZeroValueNode(src.at[k])}
  IN  Mapping([k \in DOMAIN dst.at \cup added |->
                 IF k \notin DOMAIN src.at THEN dst.at[k]
                 ELSE IF k \in added THEN src.at[k]
                 ELSE MergeNodePreserve(dst.at[k], src.at[k])])

MergedElement(old, match, new) ==
  IF match = 0 THEN new
               ELSE PruneMissingMapKeys(MergeNodePreserve(old[match], new), new)

\* Faulty variant: nothing is appended to a sequence of the file.
MergeSequenceInPlace(old, new) ==
  LET m == Matches(old, new)
  IN  [i \in 1..(IF Len(old) < Len(new) THEN Len(old) ELSE Len(new)) |->
         MergedElement(old, m[i], new[i])]

MergeSequence(old, new) ==
  LET m == Matches(old, new) IN [i \in DOMAIN new |-> MergedElement(old, m[i], new[i])]

MergeNodePreserve(dst, src) ==
  CASE src.kind = "mapping"  -> MergeMappingPreserve(IF dst.kind = "mapping" THEN dst
                                                                            ELSE Mapping(<<>>), src)
    [] src.kind = "sequence" -> IF dst = Null /\ src.items = <<>> THEN dst
                                ELSE Sequence(MergeSequence(dst.items, src.items))
    [] src.kind = "scalar"   -> src
----------------------------------------------------------------------------
(* The sections: their keys, what is in memory, what it marshals to.       *)

\* needs: fields without which an entry is dropped; unique: those two
\* entries may not share; clears: those a PATCH deletes the entry by emptying.
CredentialKinds ==
  [gemini |-> [key |-> "gemini-api-key", name |-> "api-key", terse |-> TRUE,
               needs |-> {"name"}, unique |-> {"name"}, clears |-> {"name"}],
   claude |-> [key |-> "claude-api-key", name |-> "api-key", terse |-> FALSE,
               needs |-> {}, unique |-> {}, clears |-> {}],
   codex  |-> [key |-> "codex-api-key", name |-> "api-key", terse |-> FALSE,
               needs |-> {"url"}, unique |-> {}, clears |-> {"url"}],
   compat |-> [key |-> "openai-compatibility", name |-> "name", terse |-> FALSE,
               needs |-> {"url"}, unique |-> {}, clears |-> {"url"}],
   vertex |-> [key |-> "vertex-api-key", name |-> "api-key", terse |-> TRUE,
               needs |-> {"name", "url"}, unique |-> {"name", "url"}, clears |-> {"name", "url"}]]

Names == {e.name : e \in Credentials}
CredentialTypes == [name : Names, url : {e.url : e \in Credentials},
                    headers : SUBSET UNION {e.headers : e \in Credentials}]
ListsOf(S) == UNION {[1..n -> S] : n \in 0..CredentialLimit}
Channels == {"antigravity", "codex"}
MapsOf(S) == UNION {[C -> S] : C \in SUBSET Channels}

Sections == DOMAIN CredentialKinds \cup {"strings", "excluded", "alias", "amp", "number", "secret"}
ASSUME FollowedAssumption == Followed \subseteq Sections

\* Each is dropped when it misses a field it needs, or repeats an earlier one.
Sanitize(kind, entries) ==
  LET whole == SelectSeq(entries, LAMBDA e : \A f \in kind.needs : e[f] # "")
      repeats(i, j) == kind.unique # {} /\ \A f \in kind.unique : whole[i][f] = whole[j][f]
      kept == SelectSeq([i \in DOMAIN whole |-> i], LAMBDA i : \A j \in 1..(i - 1) : ~repeats(i, j))
  IN  [n \in DOMAIN kept |-> whole[kept[n]]]

RenderCredential(kind, e) ==
  Mapping((kind.name :> Scalar(e.name))
          @@ (IF kind.terse /\ e.url = "" THEN <<>> ELSE "base-url" :> Scalar(e.url))
          @@ (IF e.headers = {} THEN <<>>
              ELSE "headers" :> Mapping([h \in e.headers |-> Scalar("set")])))

RenderStrings(s) == Sequence([i \in DOMAIN s |-> Scalar(s[i])])
RenderOmitEmpty(key, map) ==
  IF map = <<>> THEN <<>> ELSE key :> Mapping([c \in DOMAIN map |-> RenderStrings(map[c])])

\* Marshalled as the field tags of the configuration say.
Render(values) ==
  Mapping(CASE section \in DOMAIN CredentialKinds ->
                 LET kind == CredentialKinds[section]
                 IN  kind.key :> Sequence([i \in DOMAIN values |-> RenderCredential(kind, values[i])])
            [] section = "strings"  -> "api-keys" :> RenderStrings(values)
            [] section = "excluded" -> RenderOmitEmpty("oauth-excluded-models", values)
            [] section = "alias"    -> RenderOmitEmpty("oauth-model-alias", values)
            [] section = "amp" ->
                 "ampcode" :> Mapping(
                   ("model-mappings" :> Sequence([i \in DOMAIN values.mappings |->
                                           Mapping("from" :> Scalar(values.mappings[i]))]))
                   @@ (IF values.upstream = <<>> THEN <<>>
                       ELSE "upstream-api-keys" :>
                              Sequence([i \in DOMAIN values.upstream |->
                                 Mapping("upstream-api-key" :> Scalar(values.upstream[i]))])))
            [] section = "number"   -> "error-logs-max-files" :> Scalar(values)
            [] section = "secret"   -> "remote-management" :>
                                         Mapping("secret-key" :> Scalar(values)))
----------------------------------------------------------------------------
(* Saving.                                                                 *)

LegacyKeys == {"generative-language-api-key", "amp-model-mappings"}

\* pruneMappingToGeneratedKeys, for the two maps that are left out when empty.
\* Without its key the file would be given the default aliases when loaded.
PruneToGenerated(root, rendered) ==
  LET gone == DOMAIN root.at \ DOMAIN rendered.at
  IN  [root EXCEPT !.at =
         [k \in DOMAIN @ \ (gone \cap {"oauth-excluded-models"}) |->
            IF k = "oauth-model-alias" /\ k \in gone THEN Mapping(<<>>)
            ELSE IF k \in {"oauth-model-alias", "oauth-excluded-models"}
                 THEN (IF @[k].kind = "mapping" THEN PruneMissingMapKeys(@[k], rendered.at[k])
                                                ELSE rendered.at[k])
            ELSE @[k]]]

\* SaveConfigPreserveComments.
Saved(root, values) ==
  MergeMappingPreserve(PruneToGenerated(Without(root, LegacyKeys), Render(values)), Render(values))
----------------------------------------------------------------------------
(* Loading: what is read, and the file as the load leaves it.              *)

At(node, key) == IF key \in DOMAIN node.at THEN node.at[key] ELSE Null
ItemsAt(node, key) == At(node, key).items
ScalarAt(node, key) == IF At(node, key) = Null THEN "" ELSE At(node, key).value
Values(items) == [i \in DOMAIN items |-> items[i].value]
ListsAt(node, key) ==
  LET found == At(node, key).at
      given == {c \in DOMAIN found : found[c].items # <<>>}
  IN  [c \in given |-> Values(found[c].items)]

Hashed(secret) == IF secret = "" THEN "" ELSE "hashed"

\* The aliases antigravity is given by default, as one.
WithDefaults(lists) ==
  [c \in DOMAIN lists |-> IF c = "antigravity" /\ ~Contains(lists[c], "default")
                            THEN Append(lists[c], "default") ELSE lists[c]]

\* MigrateOAuthModelAlias: from the old field, or the default aliases.
Migrated(root) ==
  IF section # "alias" \/ "oauth-model-alias" \in DOMAIN root.at THEN root
  ELSE IF "oauth-model-mappings" \in DOMAIN root.at
  THEN IF root.at["oauth-model-mappings"].kind # "mapping" THEN root
       ELSE Mapping(RenderOmitEmpty("oauth-model-alias",
                                    WithDefaults(ListsAt(root, "oauth-model-mappings"))))
  ELSE Mapping(RenderOmitEmpty("oauth-model-alias", "antigravity" :> <<"default">>))

Parsed(root) ==
  CASE section \in DOMAIN CredentialKinds ->
         LET kind == CredentialKinds[section]
             items == ItemsAt(root, kind.key)
         IN  [i \in DOMAIN items |-> [name |-> ScalarAt(items[i], kind.name),
                                      url |-> ScalarAt(items[i], "base-url"),
                                      headers |-> DOMAIN At(items[i], "headers").at]]
    [] section = "strings"  -> Values(ItemsAt(root, "api-keys"))
    [] section = "excluded" -> ListsAt(root, "oauth-excluded-models")
    [] section = "alias"    -> ListsAt(root, "oauth-model-alias")
    [] section = "amp" ->
         LET amp == At(root, "ampcode")
             names(key, name) == [i \in DOMAIN ItemsAt(amp, key) |->
                                    ScalarAt(ItemsAt(amp, key)[i], name)]
         IN  [mappings |-> names("model-mappings", "from"),
              upstream |-> names("upstream-api-keys", "upstream-api-key")]
    [] section = "number" -> IF "error-logs-max-files" \in DOMAIN root.at
                               THEN ScalarAt(root, "error-logs-max-files") ELSE "10"
    [] section = "secret" -> ScalarAt(At(root, "remote-management"), "secret-key")

\* migrateLegacyGeminiKeys and migrateLegacyAmpConfig.
WithLegacy(root, values) ==
  CASE section = "gemini" ->
         FoldLeft(LAMBDA acc, k : IF \E i \in DOMAIN acc : acc[i].name = k THEN acc
                                  ELSE Append(acc, [name |-> k, url |-> "", headers |-> {}]),
                  values, Values(ItemsAt(root, "generative-language-api-key")))
    [] section = "amp" /\ values.mappings = <<>> ->
         [values EXCEPT !.mappings = Values(ItemsAt(root, "amp-model-mappings"))]
    [] OTHER -> values

\* LoadConfigOptional.
Loaded(root) ==
  LET base == Migrated(root)
      read == Parsed(base)
      full == WithLegacy(base, read)
      clean == CASE section \in DOMAIN CredentialKinds -> Sanitize(CredentialKinds[section], full)
                 [] section = "secret" -> Hashed(full)
                 [] OTHER -> full
  IN  [settings |-> clean,
       tree |-> IF full # read THEN Saved(base, clean)
                ELSE IF section = "secret" /\ clean # full THEN Saved(base, clean)
                ELSE base]
----------------------------------------------------------------------------
(* Edits through the management API: what a request may leave in memory.   *)

Dropped(s, i) == RemoveAt(s, i)

CredentialEdits(kind) ==
  LET put == ListsOf(Credentials)
      patched == {IF \E f \in kind.clears : e[f] = "" THEN Dropped(settings, i)
                                                      ELSE [settings EXCEPT ![i] = e] :
                    i \in DOMAIN settings, e \in Credentials}
      deleted == {Dropped(settings, i) : i \in DOMAIN settings}
                 \cup {SelectSeq(settings, LAMBDA e : e.name # k) : k \in Names \ {""}}
  IN  put \cup patched \cup deleted

\* Faulty variant: the result is not sanitized.
EditedAsGiven(kind) == CredentialEdits(kind)

EditedCredentials(kind) == {Sanitize(kind, s) : s \in CredentialEdits(kind)}

\* PATCH replaces at an index, or the old value by the new one, or appends it.
EditedStrings ==
  LET put == ListsOf(Models)
      patched == {[settings EXCEPT ![i] = v] : i \in DOMAIN settings, v \in Models}
                 \cup {Append(settings, v) : v \in Models}
      deleted == {Dropped(settings, i) : i \in DOMAIN settings}
                 \cup {SelectSeq(settings, LAMBDA e : e # v) : v \in Models}
  IN  {s \in put \cup patched \cup deleted : Len(s) <= CredentialLimit}

\* PATCH with models sets a channel, without any it deletes it, as DELETE does.
EditedMap ==
  MapsOf(ListsOf(Models) \ {<<>>})
  \cup {c :> s @@ settings : c \in Channels, s \in ListsOf(Models) \ {<<>>}}
  \cup {[d \in DOMAIN settings \ {c} |-> settings[d]] : c \in Channels}

\* PATCH updates those that are there and appends the others.
EditedNames(s) ==
  ListsOf(Models) \cup {IF v \in {s[i] : i \in DOMAIN s} \/ Len(s) = CredentialLimit
                          THEN s ELSE Append(s, v) : v \in Models}
  \cup {SelectSeq(s, LAMBDA e : e # v) : v \in Models}

Edited ==
  {settings} \cup
  CASE section \in DOMAIN CredentialKinds -> EditedCredentials(CredentialKinds[section])
    [] section = "strings" -> EditedStrings
    [] section \in {"excluded", "alias"} -> EditedMap
    [] section = "amp" -> {[settings EXCEPT !.mappings = s] : s \in EditedNames(settings.mappings)}
                          \cup {[settings EXCEPT !.upstream = s] : s \in EditedNames(settings.upstream)}
    [] section = "number" -> {"0", "5", "10"}
    [] section = "secret" -> {}

Edit(values) ==
  /\ settings' = values
  /\ tree' = Saved(tree, values)
  /\ UNCHANGED section

\* A hot reload or a restart.
Load ==
  /\ settings' = Loaded(tree).settings
  /\ tree' = Loaded(tree).tree
  /\ UNCHANGED section

\* What an operator may have written.
HandWritten ==
  {Mapping(<<>>)} \cup
  CASE section \in DOMAIN CredentialKinds ->
         LET key == CredentialKinds[section].key
         IN  {Mapping(key :> Null)} \cup {Render(s) : s \in ListsOf(Credentials)}
             \cup {Mapping("generative-language-api-key" :> RenderStrings(s)) : s \in ListsOf(Names)}
    [] section = "strings" -> {Mapping("api-keys" :> Null)} \cup {Render(s) : s \in ListsOf(Models)}
    [] section = "excluded" -> {Render(m) : m \in MapsOf(ListsOf(Models))}
    [] section = "alias" ->
         UNION {{Mapping(key :> Null), Mapping(key :> Mapping(<<>>))}
                \cup {Mapping(RenderOmitEmpty(key, m)) : m \in MapsOf(ListsOf(Models))} :
                key \in {"oauth-model-alias", "oauth-model-mappings"}}
    [] section = "amp" ->
         {Render([mappings |-> m, upstream |-> u]) : m \in ListsOf(Models), u \in ListsOf(Models)}
         \cup {Mapping("amp-model-mappings" :> RenderStrings(m)) : m \in ListsOf(Models)}
    [] section = "number" -> {Render(n) : n \in {"0", "5"}}
    [] section = "secret" -> {Render(s) : s \in {"", "plain", "hashed"}}

ConfigFileInit ==
  /\ section \in Followed
  /\ \E root \in HandWritten : tree = Loaded(root).tree /\ settings = Loaded(root).settings

ConfigFileNext == (\E values \in Edited : Edit(values)) \/ Load

ConfigFileSpec == ConfigFileInit /\ [][ConfigFileNext]_configFileVars
----------------------------------------------------------------------------
(* Properties.                                                             *)

ConfigFileTypeOK ==
  /\ section \in Followed
  /\ tree.kind = "mapping"
  /\ section \in DOMAIN CredentialKinds =>
       /\ \A i \in DOMAIN settings : settings[i] \in CredentialTypes
       /\ Sanitize(CredentialKinds[section], settings) = settings

Blank == [name |-> "", url |-> "", headers |-> {}]

\* b is a, but that its entries may have headers those of a have not.
SameCredentials(a, b) ==
  LET x == SelectSeq(a, LAMBDA e : e # Blank)
      y == SelectSeq(b, LAMBDA e : e # Blank)
  IN  /\ Len(x) = Len(y)
      /\ \A i \in DOMAIN x : /\ x[i].name = y[i].name /\ x[i].url = y[i].url
                             /\ x[i].headers \subseteq y[i].headers

(***************************************************************************)
(* Once an edit has been saved, a restart finds what the edit left in      *)
(* memory: every entry, in order, with nothing that was removed coming     *)
(* back, neither from the tree of the file nor from keys of older          *)
(* versions.  What is not kept is listed here: headers removed from an     *)
(* entry that keeps others, the removal of the last upstream key of Amp,   *)
(* a zero given to a number the file has no key for, and an empty alias    *)
(* map when the file has no key for it.                                    *)
(***************************************************************************)
FileKeepsEntries ==
  LET found == Loaded(tree).settings
  IN    CASE section \in DOMAIN CredentialKinds -> SameCredentials(settings, found)
          [] section = "amp" -> /\ found.mappings = settings.mappings
                                /\ settings.upstream # <<>> => found.upstream = settings.upstream
          [] section = "number" -> \/ found = settings
                                   \/ settings = "0" /\ "error-logs-max-files" \notin DOMAIN tree.at
          [] section = "alias" -> \/ found = settings
                                  \/ settings = <<>> /\ "oauth-model-alias" \notin DOMAIN tree.at
          [] OTHER -> found = settings

(***************************************************************************)
(* A load may rewrite the file it reads (keys of older versions, default   *)
(* aliases, the hash of the management key), and the watcher sees each     *)
(* such write as a change to reload.  After two loads it is left alone.    *)
(***************************************************************************)
ReloadsSettle ==
  LET Twice == Loaded(Loaded(tree).tree).tree IN Loaded(Twice).tree = Twice

\* What is saved is loaded as it was, and loading it again changes nothing.
SavesKeepFile == FileKeepsEntries /\ ReloadsSettle
=============================================================================
