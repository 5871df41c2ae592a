SPECIFICATION FairSpec
CONSTANTS
  NUMTEAM = 3
  Populations <- MCPopulations
  tournplayers = 2
  nottimeout = 2
  TicksPerSec = 2
  SecsPerMin = 2
  Patience = 2
  WORD = 8
  MaxClock = 1
PROPERTIES LonelyEnd GamesEnd BalancedPlays UnbalancedHalts
CHECK_DEADLOCK FALSE
