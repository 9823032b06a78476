CONSTANTS
  F = 2
  Clamp = 5
  BufBytes = 7
  MaxClients = 2
  MaxFrames = 5
SPECIFICATION FairSpec
INVARIANTS InBuffer NoOverlap ChunkWhole ChunkAscending
PROPERTIES RoundsAscend Drains
