SPECIFICATION FairSpec
CONSTANTS
  t1 = t1
  t2 = t2
  fb = fb
  m1 = m1
  m2 = m2
  f1 = f1
  f2 = f2
  NoMessage = NoMessage
  Feedbacker = fb
  SslThreads <- MCThreads
  Messages <- MCMessages
  Feedbacks <- MCFeedbacks
  EnableFeedback = TRUE
  MaxQueue = 1
INVARIANTS
  TypeOK
  InOnePlace
  Backpressure
  NoUseAfterDelete
  FeedbackConserved
PROPERTIES
  ShutdownRunsOut
  ChannelSpec
  HandedOver
  StopEnds
CHECK_DEADLOCK FALSE
