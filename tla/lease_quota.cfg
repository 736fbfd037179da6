CONSTANTS
  Token = {t1, t2}
  Mode = {"auto", "fast"}
  ModeOrder <- TwoModes
  Request = {r1, r2}
  AnyRequest = {}
  EditRequest = {r2}
  Returning = {}
  NoToken = NoToken
  Strategy = "quota"
  Cap = 1
  MaxFails = 2
  Total = 1
  Window = 1
  RateCooling = 1
  ForbiddenCooling = 1
  MaxRetries = 1
  RetryKind <- Retryable
  MaxTime = 2
  MaxEdits = 1
SPECIFICATION FairSpec
INVARIANTS InflightCapped
PROPERTIES RequestsEnd
CHECK_DEADLOCK FALSE
