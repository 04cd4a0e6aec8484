SPECIFICATION Spec
CONSTANTS
  MaxIndex = 5
  Terms = {1, 2}
  MaxPack = 3
INVARIANTS TypeOK SizeCountsTheLog
PROPERTIES KeepsContract
CHECK_DEADLOCK FALSE
