CONSTANTS
  k1 = k1
  k2 = k2
  r1 = r1
  r2 = r2
  r3 = r3
  w1 = w1
  w2 = w2
  f1 = f1
  f2 = f2
  Worker = {w1, w2}
  Thread = {k1, k2, r1, r2, r3}
  Keeper = {k1, k2}
  Home <- Homes
  File = {f1, f2}
  Size <- Sizes
  Limit = {0, 3}
  Stock = {f1}
  Nobody = Nobody
  MaxWrites = 3
  MaxUpsets = 2
  Admin = {k2}
  Account = {a1, a2}
  NoAccount = NoAccount
  Mix <- Mixes
  FileOf <- Files
  Referring = {r3}
  MaxRetries = 1
  RetryCodes = {"unauthorized"}
SPECIFICATION FairSpec
INVARIANTS SavedFileStays IndexMatchesDisk DiskBounded LeasesSettle
PROPERTIES RequestsEnd
CHECK_DEADLOCK FALSE
