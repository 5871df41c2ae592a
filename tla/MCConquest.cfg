SPECIFICATION MCSpec
CONSTANTS
  Player = {1, 2}
  Planet = {p1, p2, p3, p4}
  MCTeams = {"FED", "ROM", "KLI"}
  SURRSTART = 1
  SURREND = 2
  SURRLENGTH = 2
  tournplayers = 1
  victory_planets = 0
CHECK_DEADLOCK FALSE
INVARIANTS CountsFresh LoserHasLost
PROPERTIES ClockJustified CollapseComes
