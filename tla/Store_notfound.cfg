SPECIFICATION Spec
CONSTANTS
  w1 = w1
  w2 = w2
  c1 = c1
  r1 = r1
  o1 = o1
  NoItem = NoItem
  NoAnswer = NoAnswer
  Workers <- MCOneWorker
  Callsigns <- MCCalls
  LongCalls <- None
  Rows <- MCRows
  OddRows <- MCOdd
  Answers <- MCAnswers
  Expire = 2
  FailHold = 1
  MaxLookup = 1
  MaxTime = 5
INVARIANTS
  NotFoundIsTrue
