SPECIFICATION Spec
CONSTANT None = None
CHECK_DEADLOCK FALSE
INVARIANTS
  RegistersKept
  MemoriesKept
  CellsKept
PROPERTIES
  ChoicesKept
