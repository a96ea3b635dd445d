SPECIFICATION MCSpec
CONSTANTS
  TransitionCapacity = 2
  PriorityCapacity = 1
  Signatures = {released, pressed}
  NoSignature = NoSignature
  NoReport = NoReport
  Profile = "playstation"
  MaxInputs = 4
  MaxEdges = 4
  MaxWrites = 0
  MaxFailures = 1
  SwitchWrites = 2
  SteamInputs = 3
INVARIANTS NoStall EdgesAccounted OneSubmission
PROPERTIES ImplementsStream HeldBufferStable CatchesUp
CHECK_DEADLOCK FALSE
