SPECIFICATION Spec
CONSTANTS
  RpId = "localhost"
  CorsOrigins <- MCOrigins
  Aliases = TRUE
  Absent = Absent
  Responses <- MCResponses
  Worker = {w1, w2}
  Device = {d1}
  Account = {"local", "user"}
  Mixes <- MCMixes
  None = None
  Limit = 1
  MaxTokens = 2
  MaxGeneration = 2
  MaxChallenges = 2
  MaxCount = 2
  MaxCrashes = 1
  LateExpire = FALSE
  AccessTtlMax = 20
  StandingTtlMax = 5
  RuleMaxAge = 7
  RateWindow = 3
  RateMax = 2
SYMMETRY Workers
INVARIANTS
  TypeOK
  DeadSessionsServeNothing
  LimitHolds
  ChallengesServeOnce
PROPERTY
  RowsNeverRegress
CHECK_DEADLOCK FALSE
