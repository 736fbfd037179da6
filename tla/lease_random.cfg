CONSTANTS
  Token = {t1, t2}
  Mode = {"auto"}
  ModeOrder <- OneMode
  Request = {r1, r2, r3}
  AnyRequest = {r3}
  EditRequest = {}
  Returning = {r1}
  NoToken = NoToken
  Strategy = "random"
  Cap = 1
  MaxFails = 1
  Total = 1
  Window = 2
  RateCooling = 2
  ForbiddenCooling = 1
  MaxRetries = 1
  RetryKind <- Retryable
  MaxTime = 3
  MaxEdits = 1
SPECIFICATION Spec
INVARIANTS InflightIsLeases NoAccountTriedTwice Converged
PROPERTIES PoolSpec
SYMMETRY Symmetry
CHECK_DEADLOCK FALSE
