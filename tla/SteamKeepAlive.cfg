SPECIFICATION MCSpec
CONSTANTS
  Slots = {s1, s2}
  First = s1
  MaxWorkers = 2
  MaxFaults = 0
  MaxDowns = 1
  MaxReports = 0
INVARIANTS NoLostWakeup WorkerExact
PROPERTIES SamplesCarried
CHECK_DEADLOCK FALSE
