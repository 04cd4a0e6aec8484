SPECIFICATION Spec
CONSTANTS
  MaxIndex = 5
  Terms = {1, 2}
  MaxPack = 2
INVARIANT AppendTakesNextSlot
