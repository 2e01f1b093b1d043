\* Three samples out of the range of the ADC, bytes of two bits, links for two turns and one read more,
\* one address used on both channels of the multiplexer.
SPECIFICATION AnySpec
CONSTANTS
  NO_OF_SAMPLES = 3
  Raw = {0, 1, 2047, 4095}
  BYTE_BITS = 2
  Percents <- SmallPercents
  Degrees <- SmallDegrees
  MaxGlitches = 1
  Garbage = Garbage
  Links = 10
  Readings <- Registers
  MaxFaults = 2
  LastAddress = 6
  PCA9548ADDR = 2
  Direct = {1}
  BehindFirst = {3, 5}
  BehindSecond = {4, 5, 6}
  Temperatures <- Eighths
  Delay = 10
  Conversion = 1
  Period = 10
INVARIANTS AverageWithinSamples SettingsKept ReadingIsMeasured PrintedAsHeld ScanShowsSelected FreshTemperature
PROPERTIES SteadyLineRead
