SPECIFICATION Spec
CONSTANTS
  None = None
  Node = {a, b}
  NULL = NULL
  Retained = {b}
  MAX_FAT_LIST = 2
  Room = 1
  FatAnswers = {"given"}
  Mortal = {"TCP", "SIMPLE"}
  Kinds = {"torp", "short", "missile", "plasma"}
  Whose = {"me", "friend", "foe"}
  Paused = {"torp", "missile", "plasma"}
  Still = {"torp", "missile", "plasma"}
  Returns = {"torp", "short", "plasma"}
  Reused = {"torp", "missile", "plasma"}
  Team = {FED, ROM}
  NOBODY = NOBODY
  Me = FED
  MAXARMIES = 2
  Safe = 1
  PLGFUEL = 1
  Near = {n1, n2}
  Far = {f1, f2}
  Nine = 3
  Styles = {"TABORT","TPREVENT","TSUSPEND","NOTRACT"}
  PrepSpeed = 1
  ImpSpeed = 2
  AfterSpeed = 3
  WarpSpeed = 4
  s_warpinittime = 3
  Damages = {0, 2, 3}
  s_maxdamage = 4
  cloakduringwarpprep = FALSE
  cloakwhilewarping = TRUE
  warpdecel = FALSE
  tractabortwarp = FALSE
  repair_during_warp = TRUE
  repair_during_warp_prep = TRUE
  ByAdmin = FALSE
  WarTime = 2
  RefitTime = 1
  DestructTime = 2
  ExplodeTime = 2
  DeadTime = 2
  ClueDelay = 1
  ClueTime = 2
  Veterans = {FALSE}
  Pilot = {p1, p2, p3}
  tournplayers = 1
  Limited = {"WARBASE"}
  Ported = {"WARBASE"}
  s_timer = 1
  Loopholes = {"mass-produced"}
  MAXMESSAGE = 3
  Races = {"fill"}
  Texts = {"x", "y", "z"}
  WQLEN = 4
  Proc = {p1, p2}
  Names = {"Kirk", "Kang"}
  MaxStats = 1
  MaxFile = 3
  LoginRaces = {"twice"}
  length = 2
  Guard = FALSE
  Chase = 2
  Linger = 3
  Characters = {"guard", "practice", "terminator"}
  AVOID_TIME = 2
  BOREDOM_TIME = 1
  MAXTORP = 1
  BYTE = 8
  HASHSIZE = 2
  PingMax = 4
  AnswerMax = 3
  LostMax = 1
  Flight = 2
  Disorder = TRUE
  Metas = 2
  minimum = 2
  maximum = 3
  Reports = {"x", "y"}
  Hosts = {"us"}
  Fails = TRUE
  ShipTypes = {"CA", "SB"}
  NoShip = NoShip
  Unsigned = TRUE
  Ntserv = {p1, p2, p3}
  Seats = {1, 2}
  NoOne = NoOne
  MaxSegs = 2
  MaxDaemons = 3
  Overlaps = {}
  Served = {p1, p2, p3}
  MAXPLAYER = 1
  GHOSTTIME = 2
  OUTFITTIME = 4
  Tries = 3
  league = TRUE
  Events = {"crash", "die"}
INVARIANTS FatSound ScreenTrue OwnerKnows OutfitSound LettersRight OwnPlace 
INVARIANTS RobotSound PingSound RecordsTrue StartSound
PROPERTIES WarpEarned CountedDown SlotsSafe
SYMMETRY Symmetric
