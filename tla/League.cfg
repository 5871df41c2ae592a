SPECIFICATION FairSpec
CONSTANTS
  MAXPLAYER = 2
  NUMTEAM = 2
  WARMUP = 1
  REGULATION = 1
  RESUME = 1
  Wishes = 1
  PausePhases = {2, 3}
INVARIANTS GameInOrder
PROPERTIES GameGoesOn PauseEnds
