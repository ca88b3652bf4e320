---------------------------- MODULE MCSharedState ----------------------------
(* The components around files and tables that several goroutines share.     *)
(* They do not meet each other here, so a behaviour has one of them step and *)
(* keeps the others in an initial state.                                     *)
EXTENDS FileWatch, ConfigFile, ConfigEdits, SignatureCache, OAuthLogins, TokenKeeping

CONSTANT v1

VARIABLE focus

Entry(name, url, headers) == [name |-> name, url |-> url, headers |-> headers]
Entries ==
  {Entry("", "", {}), Entry("k1", "", {"h1"}), Entry("k1", "u1", {"h1", "h2"}),
   Entry("k1", "u1", {}), Entry("k1", "u2", {"h2"}), Entry("k2", "u1", {"h1"})}

AllStartWith(t) == (\A s \in Storers : storer[s].text = t) /\ (\A g \in Fetchers : fetcher[g].text = t)

SharedStateInit ==
  /\ focus \in {"watch", "file", "edits", "cache", "logins", "tokens"}
  /\ WatchInit /\ (focus # "watch" => disk = [f \in Files |-> v1])
  /\ IF focus = "file" THEN ConfigFileInit
                       ELSE section = "secret" /\ tree = Mapping(<<>>) /\ settings = ""
  /\ EditsInit
  /\ CacheInit /\ (focus # "cache" => AllStartWith(CHOOSE t \in Texts : TRUE))
  /\ LoginInit /\ (focus # "logins" => provider = Qwen)
  /\ TokenInit /\ (focus # "tokens" => store = "file" /\ habit.info)

SharedStateNext ==
  /\ UNCHANGED focus
  /\ \/ /\ focus = "watch" /\ WatchNext
        /\ UNCHANGED <<configFileVars, editVars, cacheVars, loginVars, tokenVars>>
     \/ /\ focus = "file" /\ ConfigFileNext
        /\ UNCHANGED <<watchVars, editVars, cacheVars, loginVars, tokenVars>>
     \/ /\ focus = "edits" /\ EditsNext
        /\ UNCHANGED <<watchVars, configFileVars, cacheVars, loginVars, tokenVars>>
     \/ /\ focus = "cache" /\ CacheNext
        /\ UNCHANGED <<watchVars, configFileVars, editVars, loginVars, tokenVars>>
     \/ /\ focus = "logins" /\ LoginNext
        /\ UNCHANGED <<watchVars, configFileVars, editVars, cacheVars, tokenVars>>
     \/ /\ focus = "tokens" /\ TokenNext
        /\ UNCHANGED <<watchVars, configFileVars, editVars, cacheVars, loginVars>>

SharedStateSpec ==
  /\ SharedStateInit
  /\ [][SharedStateNext]_<<focus, watchVars, configFileVars, editVars, cacheVars, loginVars, tokenVars>>
  /\ LoginFairness

\* Each component's variables have their types.
SharedStateTypeOK == WatchTypeOK /\ ConfigFileTypeOK /\ EditsTypeOK /\ CacheTypeOK /\ LoginTypeOK
                     /\ TokenTypeOK
=============================================================================
