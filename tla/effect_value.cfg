SPECIFICATION Spec
CONSTANTS
  BUF_LEN = 3
  Node = 2
  MaxSamples = 9
INVARIANTS WindowSummed DivisorClose
