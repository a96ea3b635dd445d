SPECIFICATION MCSpec
CONSTANTS
  Slots = {s1}
  Ticks = {t1}
  MaxEffects = 1
  NominalMax = 4
  GainMax = 2
  RumbleMax = 8
  Forever = 255
  Reports <- ClockReports
  Created <- OneType
  MaxWrites = 4
  MaxLives = 1
  MaxDowns = 0
  MaxElapsed = 3
  EarlyWrites = TRUE
  PrivateTest = TRUE
  Hosts = {"clock"}
PROPERTIES
  FiniteEffectsEnd
CHECK_DEADLOCK FALSE
