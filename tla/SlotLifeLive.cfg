SPECIFICATION FairSpec
CONSTANTS
  p = p
  q = q
  Proc = {p, q}
  MAXPLAYER = 1
  GHOSTTIME = 2
  OUTFITTIME = 4
  ExplodeTime = 1
  DeadTime = 2
  Tries = 2
  league = TRUE
  Events = {"crash", "idle", "slow", "endgame", "retake", "freeslot", "ping"}
PROPERTIES OrphansFreed HungUpLeaves
