SPECIFICATION HeadSpec
CONSTANTS
  p1 = p1
  p2 = p2
  a = a
  b = b
  c = c
  t1 = t1
  Procs = {p1, p2}
  Ids = {a, b}
  TempNames = {t1}
  NoId = NoId
  NoTemp = NoTemp
  NoProc = NoProc
  MaxEntries = 4
  MaxCrashes = 1
  Bypass = {}
  MaxBatch = 1
  MaxGen = 2
  Outsiders = {p2}
  Sweepers = {}
  Foreign = {b}
  Ordered = FALSE
INVARIANT NothingForeignPromoted
