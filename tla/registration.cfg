CONSTANTS
  Address = {a1, a2}
  Owner <- OneInbox
  ReadMode = "auto"
  Task = {1, 2}
  MaxAttempts = 2
  Nothing = Nothing
  Rounds = 1
  Target <- OneWanted
  Scope = {"busy", "retryable", "used"}
  MaxChanges = 1
SPECIFICATION Spec
INVARIANTS OneChild ReservationsReleased RegisteredAddressKept EndAccounts
PROPERTIES NoOvershoot CodeEnteredOnce
SYMMETRY AnyAddress
CHECK_DEADLOCK FALSE
