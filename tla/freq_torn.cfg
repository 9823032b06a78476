SPECIFICATION Spec
CONSTANTS
  N = 3
  Phases = 2
  Once = TRUE
  MaxSamples = 8
  Bins = 5
  MaxPower = 2
INVARIANTS Consecutive
