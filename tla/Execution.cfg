CONSTANTS
  None = None
  Cases = 2
  Levels = 4
  MaxChanges = 1
SPECIFICATION FairSpec
INVARIANTS TypeOK ReviewableSound
PROPERTIES StopHonoured RunEnds
