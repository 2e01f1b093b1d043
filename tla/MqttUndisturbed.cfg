\* One broker connection and one address per session; a link may be lost.
SPECIFICATION FairSpec
CONSTANTS
  Client = {c1, c2}
  NoClient = NoClient
  QueueLength = 2
  MaxReadings = 5
  MaxDrops = 0
  MaxRenewals = 0
  MaxLosses = 1
INVARIANTS TypeOK NoNullClient SessionEndsDelivered CleanBetweenSessions
PROPERTIES NoCommandLost ImplementsPipelineSteps PipelineGoesOn
CHECK_DEADLOCK FALSE
