SPECIFICATION FairSpec
CONSTANTS
  p1 = p1
  p2 = p2
  p3 = p3
  p4 = p4
  NoPid = NoPid
  Pids <- MCPids
  MaxCrashes = 1
  MaxUpdates = 1
  MaxReuses = 1
INVARIANTS
  TypeOK
  OneTrackedInstance
PROPERTIES
  Restarted
  UpdateEnds
