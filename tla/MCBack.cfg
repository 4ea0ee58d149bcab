SPECIFICATION Spec
CONSTANT None = None
CHECK_DEADLOCK FALSE
INVARIANTS
  LogicCovered
  MemoriesMapped
  ProductsMapped
  PackedSame
  PinsAndClocks
  PlacedLegally
