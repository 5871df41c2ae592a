SPECIFICATION Spec
CONSTANTS
  Pilot = {a, b, c}
  Sides <- SidesDef
  tournplayers = 1
  s_timer = 1
  Limited = {"CARRIER"}
  Ported = {}
  Loopholes = {"mass-produced"}
INVARIANTS ShipLimit
