CONSTANTS
  Users = {a, b}
  Nobody = Nobody
  MaxGames = 2
  RoundWinTarget = 1
  MaxLobbies = 0
  LobbySize = 2
  MaxSockets = 2
SPECIFICATION Spec
SYMMETRY Symmetry
INVARIANTS
  RatingsCountEveryRankedGame
CHECK_DEADLOCK FALSE
