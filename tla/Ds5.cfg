SPECIFICATION MCSpec
CONSTANTS
  Files = {"f1", "f2"}
  Audio = {"iso_out"}
  Inputs = {"x"}
  EventFifo = 1
  MaxCreates = 2
  MaxResets = 2
  MaxNum = 5
  Slots = 4
  Reports = {"x", "y"}
INVARIANTS Listens DestroyedQuiet LoadedWhole
PROPERTIES PadInputArrives
CHECK_DEADLOCK FALSE
