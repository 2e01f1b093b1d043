\* 1024 bytes are three units; the twelfth byte of the text is a NUL.
SPECIFICATION AnySpec
CONSTANTS
  Allocated <- Buffers
  Asked <- Requests
  Ring = 6
  Zeros = {12}
  Total = 14
  MaxFaults = 3
  NoFile = NoFile
  Cut = Cut
  Greeting = Greeting
  Garbage = Garbage
INVARIANTS Echoed OneFaultSurvives LineIsGreeting RunRepairs
PROPERTIES TimeShown
\* The senders stop after Total.
CHECK_DEADLOCK FALSE
