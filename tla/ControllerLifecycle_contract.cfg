SPECIFICATION SafetySpec
CONSTANTS
  Files = {f1, f2}
  NoFile = NoFile
  MaxControllers = 1
  NoChild = NoChild
  Free = Free
  MaxCreates = 1
  MaxPowerUps = 1
PROPERTIES SubmitErrorContract
