SPECIFICATION StatsSpec
CONSTANTS
  m1 = m1
  g1 = g1
  r1 = r1
  b1 = b1
  Noise = Noise
  NoFrame = NoFrame
  NoRow = NoRow
  Messages <- MCMessages
  Garbage <- MCGarbage
  AckOnly <- None
  Rows <- MCRows
  BadTokens <- None
  Prefetch = 2
  MaxNoise = 1
  MaxDrops = 1
  MaxCrashes = 0
  MaxStops = 0
  MaxFails = 0
  MaxConnects = 3
INVARIANTS
  FramesInCountsFrames
