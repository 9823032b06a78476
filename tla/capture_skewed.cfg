CONSTANTS
  FrameLen = 2
  Depth = 1
  MaxSkew = 6
  Start <- StraddledStart
  Alias <- NoAlias
  MaxWords = 9
  Positions = {FALSE}
SPECIFICATION Spec
INVARIANTS WholeFrame
PROPERTIES Gapless Forward
