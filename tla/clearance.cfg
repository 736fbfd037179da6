CONSTANTS
  Client = {c1, c2, c3}
  Warmer = {c2}
  Proxy = {"p1", "p2"}
  Nobody = Nobody
  Config = {g1, g2}
  FirstConfig = g1
  Pool <- TwoPools
  Scheduled = TRUE
  MaxRequests = 1
  MaxSolves = 2
  MaxChanges = 1
SPECIFICATION FairSpec
INVARIANTS SingleFlight
PROPERTIES WorkingBundleKept AcquireEnds
CHECK_DEADLOCK FALSE
