SPECIFICATION ProviderSpec
CONSTANTS
  RequestRetry = 1
  LineLimit = 2
  PieceLimit = 4
  BootstrapRetries = 2
  ChunksPerAttempt = 2
  TurnLimit = 5
  Upstreams <- ModelTable
  ModelSuffixes <- SuffixTable
  Budgets <- BudgetTable
  Rooms <- RoomTable
INVARIANTS
  ProviderTypeOK
  RecordTellsOutcome AllHostsAsked
  RequestsArrive
  AnswersArrive
  ClientNotMisled
  SettingsInRange
  ThinkingHonoured
PROPERTY RequestsEnd
CHECK_DEADLOCK FALSE
