CONSTANTS
  Token = {t1, t2}
  Pool = {basic, super}
  NoRow = NoRow
  NoSlot = NoSlot
  MaxRevision = 3
  MaxBulk = 2
  BatchLimit = 2
  MaxRestart = 1
SPECIFICATION FairSpec
INVARIANTS NoRowSkipped IndexMatchesSlots
PROPERTIES ReplicaSpec EventuallyConsistent
CHECK_DEADLOCK FALSE
