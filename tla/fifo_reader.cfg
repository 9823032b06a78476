SPECIFICATION FairSpec
CONSTANTS
  Bits = 2
  Depth = 2
  StrayPins <- Stray
  MaxWords <- Words
  MaxFaults = 1
  MaxKills = 1
INVARIANTS WordWhole Fresh
PROPERTIES Successive ReadsAtomically CatchesUp
