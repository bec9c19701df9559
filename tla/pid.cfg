SPECIFICATION PidLiveSpec
CONSTANTS
  d1 = d1
  d2 = d2
  Target = t
  Descendants = {d1, d2}
  Init = Init
  Limit = 1
  MaxOutput = 2
  MaxLateForks = 1
  Offered <- MCOffered
INVARIANTS NoSurvivors PriorityKept HonestOutcome
CHECK_DEADLOCK FALSE
PROPERTY RunEnds
