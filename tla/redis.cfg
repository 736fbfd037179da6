CONSTANTS
  Token = {t1, t2}
  Pool = {basic}
  NoRow = NoRow
  NoSlot = NoSlot
  Idle = Idle
  MaxRevision = 3
  MaxBulk = 1
  BatchLimit = 1
  MaxRestart = 1
  Writer = {w1, w2}
SPECIFICATION RedisSpec
INVARIANTS OnlyTornMissed
SYMMETRY Symmetry
CHECK_DEADLOCK FALSE
