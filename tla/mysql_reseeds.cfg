CONSTANTS
  Token = {t1}
  Pool = {basic}
  NoRow = NoRow
  NoSlot = NoSlot
  NoTx = NoTx
  Process = {me, other}
  Me = me
  Dialects = {"mysql"}
  Starting = {"mysql"}
  MaxRevision = 2
  MaxBulk = 1
  BatchLimit = 2
  MaxRestart = 1
SPECIFICATION FairSqlSpec
PROPERTIES EventuallyConsistent
CHECK_DEADLOCK FALSE
