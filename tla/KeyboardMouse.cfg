SPECIFICATION MCSpec
CONSTANTS
  Owners = {o1, o2}
  Client = o1
  Callbacks = {c1}
  SecondCallback = c2
  Kinds = {"keyboard"}
  Capacity = 1
  MaxOpens = 2
  MaxPowerDowns = 1
INVARIANTS LifetimesNest HostMatches NoLostWakeup
PROPERTIES CleanupEnds
CHECK_DEADLOCK FALSE
