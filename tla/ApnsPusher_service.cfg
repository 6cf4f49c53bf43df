SPECIFICATION FairPusherSpec
CONSTANTS
  m1 = m1
  r1 = r1
  r2 = r2
  Noise = Noise
  NoFrame = NoFrame
  NoRow = NoRow
  Messages <- MCMessages
  Garbage <- None
  AckOnly <- None
  Rows <- MCRows
  BadTokens <- None
  Prefetch = 1
  MaxNoise = 1
  MaxDrops = 1
  MaxCrashes = 1
  MaxStops = 1
  MaxFails = 1
INVARIANTS
  PusherTypeOK
  SentMeansSent
  OncePerPromise
PROPERTIES
  ServiceSpec
  PromiseKept
