SPECIFICATION Spec
CONSTANTS
  Nodes = {"n1"}
  Packages = {1, 2}
  Requests = {2}
  Attempts = 0
INVARIANT OkMeansRunning
