CONSTANTS
  IntMin <- MCIntMin
  IntMax = 20
  Inputs <- MCInputs
SPECIFICATION Spec
INVARIANTS
  TypeOK
  WorkStaysInOrder
  PriceIsPaid
PROPERTIES
  ImplementsSorter
  AnswersComeAtLast
CHECK_DEADLOCK FALSE
