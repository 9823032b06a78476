CONSTANTS
  FrameLen = 3
  Depth = 12
  MaxSkew = 2
  Start <- AlignedStart
  Alias <- SomeAlias
  MaxWords = 12
  Positions = {TRUE, FALSE}
SPECIFICATION FairSpec
INVARIANTS InStep
PROPERTIES Gapless FrameDelivered SwitchFollowed
