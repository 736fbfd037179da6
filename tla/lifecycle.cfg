CONSTANTS
  Call = {c1, c2}
  Operator = Operator
  Total = 2
  Low = 0
  Window = 1
  RateCooling = 1
  ForbiddenCooling = 1
  Sliding = 1
  Limit = 2
  MinUses = 0
  Wait = 1
  MaxCalls = 3
  MaxEdits = 1
  LastCall = 3
  MaxTime = 5
SPECIFICATION FairSpec
INVARIANTS QuotaAccounted
PROPERTIES RepeatedLimitsExpire OnlyOperatorRevives ActiveRefills ThresholdRecovers
CHECK_DEADLOCK FALSE
