SPECIFICATION MCSpec
CONSTANTS
  Nodes = {"n1", "n2"}
  Packages = {1, 2}
  Requests = {2}
  Attempts = 0
  Actuators = {left, right}
  HapticCapacity = 3
  SettingsCapacity = 3
  ChunksPerWrite = 2
  Fields = {rumble, lights, trigger}
  MaxWrites = 6
INVARIANTS
  OkMeansReloaded NodesAccounted
  StopNeverLost HapticsExact SettingsExact CoalescedExact
PROPERTY RunEnds
