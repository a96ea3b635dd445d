SPECIFICATION Spec
CONSTANTS
  Files = {f1}
  NoFile = NoFile
  MaxControllers = 1
  NoChild = NoChild
  Free = Free
  MaxCreates = 2
  MaxPowerUps = 1
PROPERTIES TeardownEnds
