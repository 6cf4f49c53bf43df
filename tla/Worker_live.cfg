SPECIFICATION FairSpec
CONSTANTS
  m1 = m1
  g1 = g1
  r1 = r1
  b1 = b1
  Noise = Noise
  NoFrame = NoFrame
  NoRow = NoRow
  Messages <- MCMessages
  Garbage <- MCGarbage
  AckOnly <- None
  Rows <- MCRows
  BadTokens <- MCBadTokens
  Prefetch = 1
  MaxNoise = 1
  MaxDrops = 1
  MaxCrashes = 1
  MaxStops = 1
  MaxFails = 1
PROPERTIES
  EventuallySettled
  Resubscribes
