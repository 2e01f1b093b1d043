\* The delays of the code, in ticks of 10 ms, and the two halves of its loop; twenty
\* notifications, ten turns of their sender.
SPECIFICATION AnySpec
CONSTANTS
  LPDelay = 10
  HPDelay = 40
  Period = 100
  MainDelay = 1
  Turn <- Halves
  MaxGiven = 20
INVARIANTS BoundedBlocking ReleasedTogether NoBitLost HalvesNotMixed
PROPERTIES EachExpiryCounted RoundComplete EveryGivePrinted
