SPECIFICATION Spec
CONSTANTS
  Last = 2
  Rms = {1}
  Tunable = {0, 1}
  PerFrame = 1
  MaxSamples = 2
  MaxMessages = 2
  MaxKills = 1
INVARIANTS OneSample ConfigPaired Prompt
PROPERTIES Onward CopiesAtomically
