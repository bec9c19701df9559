SPECIFICATION TrustLiveSpec
CONSTANTS
  p1 = p1
  p2 = p2
  p3 = p3
  k1 = k1
  k2 = k2
  Keys = {k1, k2}
  NoPolicy = NoPolicy
  NoProc = NoProc
  NoKey = NoKey
  MaxKeys = 2
  MaxGen = 3
  Procs = {p1, p2}
  Held <- MCHeld
  MaxFaults = 2
  Retry = {p1}
  From <- First
  To <- Second
  MaxCalls = 4
INVARIANTS RevokedStayOut AckedNotRolledBack OneLine
PROPERTY RetriedRotationConverges
