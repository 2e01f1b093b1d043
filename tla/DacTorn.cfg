\* The range dacSetVoltage documents for its argument.
SPECIFICATION Spec
CONSTANTS
  NO_OF_SAMPLES = 3
  Raw = {0, 1, 2047, 4095}
INVARIANTS VoltageInRange
