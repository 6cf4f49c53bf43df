SPECIFICATION FairSpec
CONSTANTS
  w1 = w1
  w2 = w2
  s1 = s1
  s2 = s2
  Stray = Stray
  Workers <- MCWorkers
  Slots <- MCSlots
  MaxFailures = 1
INVARIANTS
  TypeOK
  
  StopsWhatItStarted
  AbortNeedsCause
  NobodyWaits
PROPERTIES
  SigintEnds
CHECK_DEADLOCK FALSE
