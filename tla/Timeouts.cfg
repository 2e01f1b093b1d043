\* The delays of the code, in ticks of 10 ms.
SPECIFICATION AnySpec
CONSTANTS
  Gap = 33
  Rest = 100
  Patience = 100
  Slots = 10
  Items = 15
  FrontSlots = 5
  Second = 10
  MaxCounter = 3
  MutexPatience = 100
  Sleep1 = 100
  Sleep2 = 200
INVARIANTS NeverTimesOut
PROPERTIES TimeoutAfterThree NoEventMerged ReceivedInTurn TimeoutsOnlyInPause SenderOrder
