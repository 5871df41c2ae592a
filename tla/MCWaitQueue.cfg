SPECIFICATION Spec
CONSTANTS
  Proc = {p1, p2, p3}
  MAXPLAYER = 1
  ntesters = 0
  Testers = {p3}
  league = FALSE
  Home = {p1, p2, p3}
  Side <- MCSide
  Departures = {"quit", "crash"}
  Shutdown = TRUE
  ReqTurns = 4
  StaleTurns = 8
  PatientTurns = 5
  LongQueue = 1
INVARIANTS NumbersUnique
PROPERTIES LowestServed
