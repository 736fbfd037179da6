CONSTANTS
  Account = {a1}
  Request = {r1, r2}
  Verifier = {v1}
  Absent = Absent
  Free = Free
  Answer = {"ok", "unauthorized", "transient"}
  Streaming = TRUE
  MaxRetries = 1
  RateDelay = 1
  TransientDelay = 1
  MaxIssued = 2
  MaxEdits = 1
  MaxImports = 1
  MaxLost = 1
  MaxTime = 2
SPECIFICATION FairSpec
INVARIANTS InflightIsLeases CredentialsLive DisabledMeansDead
PROPERTIES RequestsEnd
CHECK_DEADLOCK FALSE
