\* Dropped broker connections, repeated GOT_IP events and lost links.
SPECIFICATION FairSpec
CONSTANTS
  Client = {c1, c2, c3}
  NoClient = NoClient
  QueueLength = 2
  MaxReadings = 3
  MaxDrops = 1
  MaxRenewals = 2
  MaxLosses = 1
INVARIANTS OwnClientInTurn
PROPERTIES SessionEnds
CHECK_DEADLOCK FALSE
