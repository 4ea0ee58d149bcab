SPECIFICATION BetweenSpec
CONSTANT None = None
CHECK_DEADLOCK FALSE
INVARIANT MergedWordsKept
