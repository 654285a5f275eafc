CONSTANTS
  Users = {a, b}
  Nobody = Nobody
  MaxGames = 1
  RoundWinTarget = 2
  MaxLobbies = 0
  LobbySize = 2
  MaxSockets = 2
SPECIFICATION Spec
SYMMETRY Symmetry
INVARIANTS
  WhoSurrendersDoesNotWin
CHECK_DEADLOCK FALSE
