SPECIFICATION MCSpec
CONSTANTS
  Slots = {s1}
  Ticks = {t1, t2}
  MaxEffects = 2
  NominalMax = 4
  GainMax = 2
  RumbleMax = 8
  Forever = 255
  Reports <- ClockReports
  Created <- OneType
  MaxWrites = 4
  MaxLives = 1
  MaxDowns = 1
  MaxElapsed = 3
  EarlyWrites = FALSE
  PrivateTest = TRUE
  Hosts = {"control", "clock", "envelope"}
INVARIANTS
  ClockCoversEffects
  EnvelopeHull
PROPERTIES
  EveryChangeTold
  EffectsAndTimerEnd
CHECK_DEADLOCK FALSE
