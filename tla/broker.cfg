SPECIFICATION BrokerSpec
CONSTANTS
  Routes = {0, 1}
  Pinned = {0}
  MaxPerRoute <- MCLimits
  ReadyByte = 1
  MaxBytes = 2
  MaxSnapshot = 1
  MaxTotal = 1
  MaxWritten = 6
  MaxUnread = 2
  MaxSwaps = 1
  MaxConnects = 2
  MaxCalls = 1
  MaxRounds = 3
  RoomFor = 1
  MaxAsked = 4
  MaxMxFaults = 1
  r1 = r1
  r2 = r2
  r3 = r3
  x = x
  Ids = {r1, r2, r3}
  Bodies = {x}
  Earlier <- MCEarlier
  MaxRequests = 3
  MaxInFlight = 2
  QueueLimit = 2
  MaxPackets = 4
  MaxFaults = 1
  NoAck = NoAck
INVARIANTS
  GrantAskedFor GrantWithinPolicy SupplyExact DeadlinePrecedence
  ExactlyOnce AckMeansRead ConformingServed
PROPERTIES
  RevokedIsFinal BoundedCallEnds RefinesSerialLedger Completes RefinesLedger
CHECK_DEADLOCK FALSE
