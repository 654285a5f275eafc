CONSTANTS
  c1 = c1
  c2 = c2
  c3 = c3
  Clients = {c1, c2, c3}
  Casts <- MCCasts
  Asks <- MCAsks
  Locations <- MCLocations
  Names <- MCNames
  Tree <- MCTree
  MaxBody = 6
  PipeCap = 1
  Abrupt = {c1}
  Listens = 1
  MaxFd = 3
  Limit = 1
  MaxVoid = 1
  Unlucky = {c3}
SPECIFICATION FairSpec
CHECK_DEADLOCK FALSE
INVARIANTS TypeOK PlacesAgree NobodyIsAnsweredEarly StoredAsSent OnlyFullPipesBlock
PROPERTIES EveryConnectionEnds OnlyTheSilentAreCutOff
