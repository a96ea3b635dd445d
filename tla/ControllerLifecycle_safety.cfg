SPECIFICATION MCSpec
CONSTANTS
  Files = {f1, f2}
  Client = f3
  NoFile = NoFile
  MaxControllers = 1
  NoChild = NoChild
  Free = Free
  MaxCreates = 2
  MaxPowerUps = 2
INVARIANTS NoUseAfterDelete SlotOutlivesChild SubmitsExact SettledWhenFree
PROPERTIES LostStaysWithOwner
SYMMETRY Symmetry
