SPECIFICATION SharedStateSpec
CONSTANTS
  v1 = v1
  AuthFiles = {f1}
  Config = conf
  Versions = {v1, v2}
  Absent = absent
  Empty = empty
  Broken = broken
  Unset = unset
  Main = main
  Events = events
  Reloaders = {r1}
  ChangeLimit = 2
  Followed = {"gemini", "claude", "codex", "compat", "vertex", "strings", "excluded", "alias",
              "amp", "number", "secret"}
  Credentials <- Entries
  Models = {"m1", "m2"}
  CredentialLimit = 2
  SectionEdits = {{"e1", "e2"}, {"e3"}}
  Uploads = {"u1"}
  Base = "base"
  Texts = {"x", "y"}
  Storers = {s1, s2}
  Fetchers = {g1}
  TTL = 1
  BucketLimit = 2
  Logins = {l1, l2}
  Callbacks = {b1}
  None = none
  TokenLimit = 3
  UpdateLimit = 2
  FailureLimit = 1
  CrashLimit = 1
INVARIANTS
  SharedStateTypeOK
  SlowChangesPickedUp
  SavesKeepFile
  UncrossedEditsKept
  SignaturesFound
  LoginsUndisturbed
  TokensKept
PROPERTIES
  WaitingEnds
CHECK_DEADLOCK FALSE
