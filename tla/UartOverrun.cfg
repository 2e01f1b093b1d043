\* 1024 bytes are three units; a text without NULs.
SPECIFICATION AnySpec
CONSTANTS
  Allocated <- Buffers
  Asked <- Requests
  Ring = 6
  Zeros = {}
  Total = 14
  MaxFaults = 0
  NoFile = NoFile
  Cut = Cut
  Greeting = Greeting
  Garbage = Garbage
INVARIANTS AllDataSent
\* The senders stop after Total.
CHECK_DEADLOCK FALSE
