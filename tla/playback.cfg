SPECIFICATION FairSpec
CONSTANTS
  Entities <- MCEntities
  MaxGiven = 3
  MaxTime = 3
  MaxGone = 1
INVARIANTS
  NoGaps
PROPERTIES
  PlaysOut
CHECK_DEADLOCK FALSE
