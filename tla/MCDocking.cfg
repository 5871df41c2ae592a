SPECIFICATION FairSpec
CONSTANTS
  MAXPLAYER = 2
  MAXPORTS = 1
  DOCKDAMAGE = 1
  MaxHull = 2
  Erosion = 0
  base = base
  ShipTypes = {gunboat, base}
  NumPorts <- MCNumPorts
  Undockable = {}
  MassProduced = {gunboat}
  Abrupt = {}
INVARIANTS TableConsistent DockedAreInGame MooredRight
PROPERTY ExplosionUndocks
