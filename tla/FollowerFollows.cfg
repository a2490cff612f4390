SPECIFICATION FairSpec
CONSTANTS
  p = p  q = q
  Parts <- BothParts
  Published <- Kinds
  MaxChanges = 3
  MaxFailures = 1
INVARIANTS
  TypeOK
  ReplicaIsAtItsCheckpoint
  NothingMissedWhileLive
PROPERTIES
  EveryChangeArrives
