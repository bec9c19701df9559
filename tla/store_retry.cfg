SPECIFICATION StoreSpec
CONSTANTS
  p1 = p1
  p2 = p2
  p3 = p3
  a = a
  b = b
  t1 = t1
  t2 = t2
  Procs = {p1, p2}
  Ids = {a}
  TempNames = {t1, t2}
  NoId = NoId
  NoTemp = NoTemp
  NoProc = NoProc
  MaxEntries = 4
  MaxCrashes = 1
  Bypass = {p1, p2}
SYMMETRY StoreSymmetry
INVARIANT RetryConverges
