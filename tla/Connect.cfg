\* Both programs; an access point that answers at once or late, renewed addresses and a lost link.
SPECIFICATION FairSpec
CONSTANTS
  JoinTime = 13
  MaxRenewals = 2
  MaxLosses = 1
  MaxUptime = 18
PROPERTIES RestartCause WorksInTheEnd
