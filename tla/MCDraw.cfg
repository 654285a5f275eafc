CONSTANTS
  Users = {a, b, c}
  Nobody = Nobody
  MaxGames = 1
  RoundWinTarget = 1
  MaxLobbies = 1
  LobbySize = 3
  MaxSockets = 3
SPECIFICATION Spec
SYMMETRY Symmetry
VIEW WithoutRatings
INVARIANTS
  TypeOK
  EntriesLeadToLiveGames
  AwayIsWatched
  LobbiesKeepTheirHost
CHECK_DEADLOCK FALSE
