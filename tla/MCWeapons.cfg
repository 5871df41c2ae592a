SPECIFICATION FairSpec
CONSTANTS
  MAXPLAYER = 2
  MAXTORP = 1
  NPTHINGIES = 1
  RACK = 1
  Armed = {1}
  Racked = {2}
  Carriers = {2}
  Hasty = {}
  Slow = {1}
  Nuked = FALSE
  Counts <- MCCounts
INVARIANTS SlotsCounted
PROPERTIES DeathComes
