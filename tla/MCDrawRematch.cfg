CONSTANTS
  Users = {a, b}
  Nobody = Nobody
  MaxGames = 2
  RoundWinTarget = 2
  MaxLobbies = 0
  LobbySize = 2
  MaxSockets = 3
SPECIFICATION Spec
SYMMETRY Symmetry
VIEW WithoutRatings
INVARIANTS
  EntriesLeadToLiveGames
  LiveGamesAreTimed
  AwayIsWatched
  GamesEndAtTheTarget
PROPERTIES
  EndedGamesStayEnded
CHECK_DEADLOCK FALSE
