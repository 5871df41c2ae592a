SPECIFICATION Spec
CONSTANTS
  MAXPLAYER = 2
  MAXTORP = 2
  NPTHINGIES = 1
  RACK = 1
  Armed = {1}
  Racked = {1}
  Carriers = {1}
  Hasty = {}
  Slow = {}
  Nuked = FALSE
  Counts <- MCCounts
INVARIANTS TorpLimit
