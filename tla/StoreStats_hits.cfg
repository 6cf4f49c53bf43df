SPECIFICATION StatsSpec
CONSTANTS
  w1 = w1
  c1 = c1
  long1 = long1
  r1 = r1
  o1 = o1
  NoItem = NoItem
  NoAnswer = NoAnswer
  Workers <- MCWorkers
  Callsigns <- MCCalls
  LongCalls <- MCLong
  Rows <- MCRows
  OddRows <- MCOdd
  Answers <- MCAnswers
  Expire = 1
  FailHold = 1
  MaxLookup = 1
  MaxTime = 4
  MaxLookups = 3
INVARIANTS
  HitsAreHits
CHECK_DEADLOCK FALSE
