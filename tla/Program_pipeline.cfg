SPECIFICATION FairProgramSpec
CONSTANTS
  t1 = t1
  fb = fb
  m1 = m1
  r1 = r1
  NoMessage = NoMessage
  Feedbacker = fb
  SslThreads <- MCThreads
  Messages <- MCTickets
  Feedbacks <- None
  EnableFeedback = TRUE
  MaxQueue = 1
  Texts <- MCTexts
  Garbage <- None
  AckOnly <- None
  Noise = Noise
  NoFrame = NoFrame
  NoRow = NoRow
  Rows <- MCRows
  BadTokens <- None
  Prefetch = 1
  MaxNoise = 0
  MaxDrops = 1
  MaxCrashes = 1
  MaxStops = 1
  MaxFails = 1
  MaxTickets = 3
INVARIANTS
  OneLife
PROPERTIES
  PipelineSpec
  PromiseDelivered
