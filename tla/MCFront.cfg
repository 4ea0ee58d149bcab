SPECIFICATION Spec
CONSTANT None = None
CHECK_DEADLOCK FALSE
INVARIANTS
  BlocksAndDrivers
  TextAndNames
PROPERTIES
  ExpressionsKept
