SPECIFICATION MCSpec
CONSTANTS
  p = p
  q = q
  h = h
  earth = earth
  vega = vega
  terra = terra
  Player = {p, q, h}
  Planet = {earth, terra, vega}
  maxarmies <- MCmaxarmies
  Fighters = {}
  FAE_RATE = 2
  FEW = 1
  STARTREV = 2
  evacuation = TRUE
  beamlastarmies = FALSE
  defended = TRUE
  Growing = {earth}
  popcap = 3
  Side <- MCSide
  Reached = {earth}
  Leavers = {q}
  Hosts = {h}
  SURRSTART = 1
  SURREND = 2
  SURRLENGTH = 2
  tournplayers = 1
  victory_planets = 0
CHECK_DEADLOCK FALSE
INVARIANTS OwnedIsHeld HoldRespected
PROPERTIES ArmiesConserved ConquestSpec
