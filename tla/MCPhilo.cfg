CONSTANTS
  N = 3
  MustEat = 1
  MealCap = 1
SPECIFICATION Spec
INVARIANTS
  TypeOK
  NeighboursNeverEatTogether
  VerdictNotStale
  AtMostTwoLinesAfterEnd
  NothingLockedAtDestroy
  OnlyTheCircleBlocks
CHECK_DEADLOCK FALSE
