SPECIFICATION FairSpec
CONSTANTS
  Proc = {p1, p2, p3}
  MAXPLAYER = 1
  ntesters = 0
  Testers = {}
  league = FALSE
  Home = {p1}
  Side <- MCSide
  Departures = {"quit"}
  Shutdown = FALSE
  ReqTurns = 4
  StaleTurns = 8
  PatientTurns = 5
  LongQueue = 18
PROPERTIES OpenSlotTaken
