\* The delays and the limit of the code; two presses at once; three bits of cnt.
SPECIFICATION AnySpec
CONSTANTS
  Limit = 10
  Sleep = 10
  MaxBurst = 2
  Patience = 20
  BinarySleep = 10
  Alarm = 100
  Latency = 2
  INT_MAX = 3
INVARIANTS AnsweredInTime
PROPERTIES NoGiveLost TimeoutOnlyIfQuiet SquareWave
