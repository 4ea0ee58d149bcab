SPECIFICATION PrioritySpec
CONSTANT None = None
CHECK_DEADLOCK FALSE
INVARIANT EarlierArmWins
