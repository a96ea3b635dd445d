SPECIFICATION MCSpec
CONSTANTS
  IsoUrbs = {"u1", "u2"}
  Packets = 2
  IsoReqs = 1
  Interval = 2
  CatchUp = 1
  Requests = FALSE
  HubPowersOff = TRUE
  Impatient = TRUE
  MaxUnbinds = 0
  MaxSuspends = 1
  Eps = {"in"}
  Urbs = {"u1", "u2"}
  Reqs = {"a"}
  ReqLengths = {1}
  UrbLengths = {2}
  MaxPacket = 2
  FifoSize = 0
  Total = 4
  Interrupt = TRUE
  Delayed = FALSE
  ZeroPacket = TRUE
  MaxData = 1
  MaxTroubles = 2
  RacyQueue = FALSE
  Parts = {"port", "patient", "in", "out", "control", "nukes", "unlink", "iso"}
INVARIANTS PortHonest RequestOnce InOrder PacketsInTurn
PROPERTY HostServed
