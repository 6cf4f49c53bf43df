SPECIFICATION Spec
CONSTANTS
  w1 = w1
  w2 = w2
  c1 = c1
  r1 = r1
  o1 = o1
  NoItem = NoItem
  NoAnswer = NoAnswer
  Workers <- MCWorkers
  Callsigns <- MCCalls
  LongCalls <- None
  Rows <- MCRows
  OddRows <- MCOdd
  Answers <- MCAnswers
  Expire = 2
  FailHold = 0
  MaxLookup = 1
  MaxTime = 4
SYMMETRY Symmetry
CONSTRAINT OneUnlucky
INVARIANTS
  BoundedStaleness
PROPERTIES
  DirectorySpec
