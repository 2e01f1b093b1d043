\* Links for two turns and one read more, and no fault.
SPECIFICATION Spec
CONSTANTS
  Links = 10
  Readings = {0, 255, 256}
  Garbage = Garbage
  MaxFaults = 0
INVARIANTS FunctionsRead
