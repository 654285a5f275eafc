SPECIFICATION FairSpec
CONSTANTS
  Lines <- MCLines
  PipexLines <- MCPipexLines
  PicoLines <- MCPicoLines
  MaxStages = 4
  Cap = 2
  MaxLines = 2
  MaxPresses = 1
INVARIANTS
  TypeOK
  LinesAreSettled
  OnlyTheUnstartedBlock
PROPERTIES
  EveryLineEnds
CHECK_DEADLOCK FALSE
