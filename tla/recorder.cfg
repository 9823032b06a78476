SPECIFICATION FairSpec
CONSTANTS
  Block = 2
  QueueCap = 2
  FileCost = 2
  FileLimit = 1
  Drop = 1
  MaxFrames = 4
  MaxClock = 4
  MaxFailures = 1
  SetAgain = FALSE
INVARIANTS OnCardOnce LossBounded FilesBounded
PROPERTIES OpensNewFile DropsOldest LogKept BlockTaken
CHECK_DEADLOCK FALSE
