CONSTANTS
  Users = {a, b}
  Nobody = Nobody
  MaxGames = 1
  RoundWinTarget = 1
  MaxLobbies = 0
  LobbySize = 2
  MaxSockets = 3
SPECIFICATION Spec
SYMMETRY Symmetry
PROPERTIES
  GraceSparesWhoIsBack
CHECK_DEADLOCK FALSE
