\* The address is obtained once more while the link is up.
SPECIFICATION Spec
CONSTANTS
  JoinTime = 5
  MaxRenewals = 1
  MaxLosses = 0
  MaxUptime = 18
PROPERTIES RestartOnlyWithoutConnection
