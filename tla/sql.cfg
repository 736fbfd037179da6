CONSTANTS
  Token = {t1, t2}
  Pool = {basic}
  NoRow = NoRow
  NoSlot = NoSlot
  NoTx = NoTx
  Process = {me, other}
  Me = me
  Dialects = {"postgresql", "mysql"}
  Starting = {"postgresql"}
  MaxRevision = 3
  MaxBulk = 1
  BatchLimit = 2
  MaxRestart = 1
SPECIFICATION FairSqlSpec
PROPERTIES EventuallyConsistent
CHECK_DEADLOCK FALSE
