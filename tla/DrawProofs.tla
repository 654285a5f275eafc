------------------------------ MODULE DrawProofs ------------------------------
(***************************************************************************)
(* Proofs about DrawServer, for every number of users, connections, games  *)
(* and lobbies.                                                            *)
(*                                                                         *)
(* What is claimed of the games is inductive as a whole (GameInv): a       *)
(* round may only be added to a score because no live game has reached the *)
(* target, and a guess finds its game because entries lead to live games.  *)
(* The proof therefore goes by operation of DrawGame first (one lemma      *)
(* each), and by handler of DrawServer after that.                         *)
(***************************************************************************)
EXTENDS DrawServer, FiniteSetTheorems, SequenceTheorems, TLAPS

GameInv ==
  /\ GameTypeOK
  /\ EntriesLeadToLiveGames
  /\ LiveGamesAreTimed
  /\ RankedGamesAreDuels
  /\ GamesEndAtTheTarget

\* The step condition of EndedGamesStayEnded
OverGamesStay == \A g \in GameIds : games[g].state = "over" => games'[g] = games[g]

\* Ids of games are numbers, so NoGame is none of them.
LEMMA GameIdsAreNat == GameIds \subseteq Nat /\ NoGame \notin GameIds
BY GameAssumption DEF GameIds, NoGame

-----------------------------------------------------------------------------
(* Operations of DrawGame *)

\* create_game starts a live game with an entry for each player and its first timer to come.
LEMMA CreateGameKeeps ==
  ASSUME GameInv, NEW players \in SUBSET Users, NEW ranked \in BOOLEAN,
         ranked => Cardinality(players) = 2, CreateGame(players, ranked)
  PROVE  GameInv' /\ OverGamesStay
<1> DEFINE new == [FreeGame EXCEPT !.state = "live", !.players = players, !.ranked = ranked]
<1>1. PICK g \in GameIds :
        /\ games[g].state = "free"
        /\ games' = [games EXCEPT ![g] = new]
        /\ playerGames' = [u \in Users |-> IF u \in players THEN g ELSE playerGames[u]]
        /\ starting' = starting \cup {g}
        /\ UNCHANGED <<timed, stray, away, elo, results>>
  BY DEF CreateGame
<1>2. /\ new \in Game
      /\ new.state = "live" /\ new.players = players /\ new.ranked = ranked
      /\ new.wins = [u \in Users |-> 0] /\ new.quitter = Nobody
  <2>1. 0 \in 0 .. RoundWinTarget
    BY GameAssumption
  <2>2. [u \in Users |-> 0] \in [Users -> 0 .. RoundWinTarget]
    BY <2>1
  <2> QED BY <2>2 DEF Game, FreeGame
<1> HIDE DEF new
<1>3. GameTypeOK'
  BY <1>1, <1>2, GameIdsAreNat DEF GameInv, GameTypeOK
<1>4. EntriesLeadToLiveGames'
  BY <1>1, <1>2, GameIdsAreNat DEF GameInv, GameTypeOK, EntriesLeadToLiveGames, Live
<1>5. LiveGamesAreTimed'
  BY <1>1, <1>2 DEF GameInv, GameTypeOK, LiveGamesAreTimed, Live
<1>6. RankedGamesAreDuels'
  BY <1>1, <1>2 DEF GameInv, GameTypeOK, RankedGamesAreDuels
<1>7. GamesEndAtTheTarget'
  <2>1. \A u \in new.players : ~(new.wins[u] >= RoundWinTarget)
    BY <1>2, GameAssumption
  <2>2. new.state # "over"
    BY <1>2
  <2> QED BY <1>1, <2>1, <2>2 DEF GameInv, GameTypeOK, GamesEndAtTheTarget, Live
<1>8. OverGamesStay
  BY <1>1 DEF GameInv, GameTypeOK, OverGamesStay
<1> QED BY <1>3, <1>4, <1>5, <1>6, <1>7, <1>8 DEF GameInv

\* _start_game_timer replaces the promise of a timer by one.
LEMMA StartGameTimerKeeps ==
  ASSUME GameInv, NEW g \in GameIds, StartGameTimer(g)
  PROVE  GameInv' /\ OverGamesStay
BY DEF StartGameTimer, GameInv, GameTypeOK, EntriesLeadToLiveGames, LiveGamesAreTimed,
       RankedGamesAreDuels, GamesEndAtTheTarget, Live, OverGamesStay

\* A step that forgets entries and changes the list of the disconnected
LEMMA ForgettingKeeps ==
  ASSUME GameInv, UNCHANGED <<games, starting, timed, stray, elo, results>>,
         playerGames' \in [Users -> GameIds \cup {NoGame}],
         \A u \in Users : playerGames'[u] \in {playerGames[u], NoGame},
         away' \in [Users -> Nat]
  PROVE  GameInv' /\ OverGamesStay
BY DEF GameInv, GameTypeOK, EntriesLeadToLiveGames, LiveGamesAreTimed,
       RankedGamesAreDuels, GamesEndAtTheTarget, Live, OverGamesStay

\* A list without one entry is a list of the same kind.
LEMMA RemovedType ==
  ASSUME NEW list \in [Users -> Nat], NEW users
  PROVE  Removed(list, users) \in [Users -> Nat]
BY DEF Removed

\* The scores that an end of a game may leave: nobody but a single winner has
\* reached the target, and somebody has unless the game was surrendered.
EndingScores(g, wins, winner, quitter) ==
  LET reached == { u \in games[g].players : wins[u] >= RoundWinTarget }
  IN  IF quitter = Nobody THEN reached = {winner} ELSE reached = {}

\* end_game and cleanup_game: the game is over and none of its players keeps an entry.
LEMMA EndGameKeeps ==
  ASSUME GameInv, NEW g \in GameIds, Live(g),
         NEW wins \in [Users -> 0 .. RoundWinTarget],
         NEW winner \in games[g].players, NEW winnerElo \in Int,
         NEW surrender \in Users \cup {Nobody}, NEW quitter \in Users \cup {Nobody},
         quitter = Nobody => surrender = Nobody,
         EndingScores(g, wins, winner, quitter),
         EndGame(g, wins, winner, winnerElo, surrender, quitter)
  PROVE  GameInv' /\ OverGamesStay
<1> DEFINE winners == IF ~(games[g].ranked /\ Cardinality(games[g].players \ {winner}) = 1)
                          /\ surrender # Nobody
                        THEN games[g].players \ {surrender} ELSE {winner}
           ended   == [games[g] EXCEPT !.state = "over", !.wins = wins,
                                       !.quitter = quitter, !.winners = winners]
<1>1. /\ games' = [games EXCEPT ![g] = ended]
      /\ timed' = timed \ {g} /\ stray' = stray \ {g} /\ starting' = starting
      /\ playerGames' = WithoutEntries(games[g].players)
      /\ away' = Removed(away, games[g].players)
  <2>1. games[g] \in Game
    BY DEF GameInv, GameTypeOK
  <2>2. games' = [games EXCEPT ![g].state = "over", ![g].wins = wins,
                               ![g].quitter = quitter, ![g].winners = winners]
    BY DEF EndGame
  <2>3. games' = [games EXCEPT ![g] = ended]
    BY <2>1, <2>2 DEF GameInv, GameTypeOK
  <2> QED BY <2>3 DEF EndGame
<1>2. winners \subseteq Users /\ (quitter = Nobody => winners = {winner})
  BY DEF GameInv, GameTypeOK, Game
<1>3. /\ ended \in Game
      /\ ended.state = "over" /\ ended.players = games[g].players
      /\ ended.ranked = games[g].ranked /\ ended.wins = wins
      /\ ended.quitter = quitter /\ ended.winners = winners
  BY <1>2 DEF GameInv, GameTypeOK, Game
<1> HIDE DEF winners, ended
<1>4. elo' \in [Users -> Int] /\ results' \in [Users -> Int]
  BY DEF EndGame, GameInv, GameTypeOK
<1>5. GameTypeOK'
  BY <1>1, <1>3, <1>4, RemovedType DEF GameInv, GameTypeOK, WithoutEntries
<1>6. EntriesLeadToLiveGames'
  BY <1>1, <1>3, GameIdsAreNat
     DEF GameInv, GameTypeOK, EntriesLeadToLiveGames, Live, WithoutEntries
<1>7. LiveGamesAreTimed'
  BY <1>1, <1>3 DEF GameInv, GameTypeOK, LiveGamesAreTimed, Live
<1>8. RankedGamesAreDuels'
  BY <1>1, <1>3 DEF GameInv, GameTypeOK, RankedGamesAreDuels
<1>9. GamesEndAtTheTarget'
  BY <1>1, <1>2, <1>3 DEF GameInv, GameTypeOK, GamesEndAtTheTarget, Live, EndingScores
<1>10. OverGamesStay
  BY <1>1 DEF GameInv, GameTypeOK, OverGamesStay, Live
<1> QED BY <1>5, <1>6, <1>7, <1>8, <1>9, <1>10 DEF GameInv

\* start_next_round registers a timer for a game that goes on.
LEMMA StartNextRoundKeeps ==
  ASSUME GameInv, NEW g \in GameIds, Live(g),
         NEW wins \in [Users -> 0 .. RoundWinTarget],
         \A u \in games[g].players : wins[u] < RoundWinTarget,
         NEW left, StartNextRound(g, wins, left)
  PROVE  GameInv' /\ OverGamesStay
<1> DEFINE next == [games[g] EXCEPT !.wins = wins]
<1>1. games' = [games EXCEPT ![g] = next]
  BY DEF StartNextRound, GameInv, GameTypeOK
<1>2. /\ next \in Game
      /\ next.state = games[g].state /\ next.players = games[g].players
      /\ next.ranked = games[g].ranked /\ next.wins = wins
      /\ next.quitter = games[g].quitter /\ next.winners = games[g].winners
  BY DEF GameInv, GameTypeOK, Game
<1>3. /\ timed' = timed \cup {g} /\ stray' \subseteq stray
      /\ UNCHANGED <<playerGames, starting, away, elo, results>>
  BY DEF StartNextRound
<1> HIDE DEF next
<1>4. GameTypeOK'
  BY <1>1, <1>2, <1>3 DEF GameInv, GameTypeOK
<1>5. EntriesLeadToLiveGames'
  BY <1>1, <1>2, <1>3 DEF GameInv, GameTypeOK, EntriesLeadToLiveGames, Live
<1>6. LiveGamesAreTimed'
  BY <1>1, <1>2, <1>3 DEF GameInv, GameTypeOK, LiveGamesAreTimed, Live
<1>7. RankedGamesAreDuels'
  BY <1>1, <1>2 DEF GameInv, GameTypeOK, RankedGamesAreDuels
<1>8. GamesEndAtTheTarget'
  <2>1. \A u \in next.players : ~(next.wins[u] >= RoundWinTarget)
    BY <1>2, GameAssumption DEF GameInv, GameTypeOK, Game
  <2>2. next.state # "over"
    BY <1>2 DEF Live
  <2> QED BY <1>1, <2>1, <2>2 DEF GameInv, GameTypeOK, GamesEndAtTheTarget, Live
<1>9. OverGamesStay
  BY <1>1 DEF GameInv, GameTypeOK, OverGamesStay, Live
<1> QED BY <1>4, <1>5, <1>6, <1>7, <1>8, <1>9 DEF GameInv

\* In a live game nobody has reached the target.
LEMMA LiveGamesGoOn ==
  ASSUME GameInv, NEW g \in GameIds, Live(g)
  PROVE  /\ \A u \in games[g].players : games[g].wins[u] < RoundWinTarget
         /\ games[g].wins \in [Users -> 0 .. RoundWinTarget]
         /\ games[g].players \subseteq Users
BY GameAssumption DEF GameInv, GameTypeOK, Game, GamesEndAtTheTarget

\* handle_round_end ends the game at the target and starts a round otherwise.
LEMMA HandleRoundEndKeeps ==
  ASSUME GameInv, NEW g \in GameIds, Live(g), NEW winner \in games[g].players,
         NEW winnerElo \in Int, NEW left, HandleRoundEnd(g, winner, winnerElo, left)
  PROVE  GameInv' /\ OverGamesStay
<1> DEFINE wins == [games[g].wins EXCEPT ![winner] = @ + 1]
<1>1. /\ wins \in [Users -> 0 .. RoundWinTarget]
      /\ \A u \in games[g].players \ {winner} : wins[u] < RoundWinTarget
  BY LiveGamesGoOn, GameAssumption
<1>2. winner \in Users
  BY LiveGamesGoOn
<1>3. \/ wins[winner] >= RoundWinTarget /\ EndGame(g, wins, winner, winnerElo, Nobody, Nobody)
      \/ ~(wins[winner] >= RoundWinTarget) /\ StartNextRound(g, wins, left)
  BY DEF HandleRoundEnd
<1> HIDE DEF wins
<1>4. CASE wins[winner] >= RoundWinTarget
  <2>1. \A u \in games[g].players : wins[u] >= RoundWinTarget <=> u = winner
    BY <1>1, <1>2, <1>4, GameAssumption, LiveGamesGoOn
  <2>2. EndingScores(g, wins, winner, Nobody)
    BY <2>1 DEF EndingScores
  <2> QED BY <1>1, <1>3, <1>4, <2>2, EndGameKeeps
<1>5. CASE ~(wins[winner] >= RoundWinTarget)
  <2>1. \A u \in games[g].players : wins[u] < RoundWinTarget
    BY <1>1, <1>2, <1>5, GameAssumption, LiveGamesGoOn
  <2> QED BY <1>1, <1>3, <1>5, <2>1, StartNextRoundKeeps
<1> QED BY <1>4, <1>5

\* A guess changes a live game of its author only.
LEMMA AiGuessKeeps ==
  ASSUME GameInv, NEW user \in Users, NEW userElo \in Int, AiGuess(user, userElo)
  PROVE  GameInv' /\ OverGamesStay
<1> DEFINE g == playerGames[user]
<1>1. g \in GameIds /\ Live(g) /\ user \in games[g].players
  BY DEF AiGuess, GameInv, GameTypeOK, EntriesLeadToLiveGames
<1>2. HandleRoundEnd(g, user, userElo, {})
  BY DEF AiGuess
<1> QED BY <1>1, <1>2, HandleRoundEndKeeps

\* A round that ends by time is an end of a round.
LEMMA TimerEndsRoundKeeps ==
  ASSUME GameInv, NEW g \in GameIds, TimerEndsRound(g)
  PROVE  GameInv' /\ OverGamesStay
<1>1. PICK left \in {{}, stray \cap {g}} :
        \/ \E winner \in games[g].players : HandleRoundEnd(g, winner, elo[winner], left)
        \/ StartNextRound(g, games[g].wins, left)
  BY DEF TimerEndsRound
<1>2. Live(g) /\ \A u \in games[g].players : elo[u] \in Int
  BY LiveGamesGoOn DEF TimerEndsRound, GameInv, GameTypeOK
<1>3. CASE StartNextRound(g, games[g].wins, left)
  BY <1>2, <1>3, LiveGamesGoOn, StartNextRoundKeeps
<1>4. CASE \E winner \in games[g].players : HandleRoundEnd(g, winner, elo[winner], left)
  BY <1>2, <1>4, HandleRoundEndKeeps
<1> QED BY <1>1, <1>3, <1>4

\* A surrender ends a live game in favour of somebody else or of the leader.
LEMMA EndBySurrenderKeeps ==
  ASSUME GameInv, NEW user \in Users, NEW userElo \in Int, EndBySurrender(user, userElo)
  PROVE  GameInv' /\ OverGamesStay
<1> DEFINE g == playerGames[user]
<1>1. g \in GameIds /\ Live(g) /\ user \in games[g].players
  BY DEF EndBySurrender, GameInv, GameTypeOK, EntriesLeadToLiveGames
<1>2. user # Nobody
  BY GameAssumption
<1>3. \E w \in games[g].players, e \in Int, surrender \in {user, Nobody} :
        EndGame(g, games[g].wins, w, e, surrender, user)
  <2>1. \A w \in games[g].players : elo[w] \in Int
    BY <1>1, LiveGamesGoOn DEF GameInv, GameTypeOK
  <2> QED BY <1>1, <2>1 DEF EndBySurrender, Leaders, Opponents
<1>4. PICK w \in games[g].players, e \in Int, surrender \in {user, Nobody} :
        EndGame(g, games[g].wins, w, e, surrender, user)
  BY <1>3
<1>5. EndingScores(g, games[g].wins, w, user)
  BY <1>1, <1>2, LiveGamesGoOn, GameAssumption DEF EndingScores
<1> QED BY <1>1, <1>2, <1>4, <1>5, LiveGamesGoOn, EndGameKeeps

-----------------------------------------------------------------------------
(* Lobbies and the queue *)

\* The code pairs the second user that comes, whatever the ratings: a fact of this
\* code, not a promise of it.  It spares lemmas about longer queues.
QueueIsShort == Len(queue) <= 1

LobbyInv ==
  /\ LobbyTypeOK
  /\ LobbiesKeepTheirHost
  /\ QueueIsShort

\* Removing a user from a queue of at most one leaves it so.
LEMMA WithoutQueuedIsShort ==
  ASSUME queue \in Seq(Users), Len(queue) <= 1, NEW user
  PROVE  WithoutQueued(user) \in Seq(Users) /\ Len(WithoutQueued(user)) <= 1
<1>1. CASE user \notin Queued
  BY <1>1 DEF WithoutQueued
<1>2. CASE user \in Queued
  <2>1. Len(queue) = 1 /\ queue[1] = user /\ DOMAIN queue = {1}
    <3>1. Len(queue) \in Nat /\ DOMAIN queue = 1 .. Len(queue)
      BY LenProperties
    <3>2. PICK i \in DOMAIN queue : queue[i] = user
      BY <1>2 DEF Queued
    <3>3. Len(queue) = 1 /\ i = 1
      BY <3>1, <3>2
    <3> QED BY <3>1, <3>2, <3>3
  <2>2. (CHOOSE i \in DOMAIN queue : queue[i] = user /\ \A j \in 1 .. i - 1 : queue[j] # user) = 1
    BY <2>1
  <2>3. SubSeq(queue, 1, 0) = <<>> /\ SubSeq(queue, 2, 1) = <<>>
    BY SubSeqEmpty
  <2>4. WithoutQueued(user) = <<>> \o <<>>
    BY <1>2, <2>1, <2>2, <2>3 DEF WithoutQueued
  <2> QED BY <2>4, EmptySeq, ConcatEmptySeq
<1> QED BY <1>1, <1>2

\* What the handlers do to lobbies leaves an open one with its host.
LEMMA LobbyUpdatesKeepHosts ==
  ASSUME LobbyInv, NEW user \in Users
  PROVE  /\ AfterCleanup(user) \in [Codes -> Lobby]
         /\ AfterHostSurrender(user) \in [Codes -> Lobby]
         /\ \A c \in Codes : AfterCleanup(user)[c].state = "open" =>
              AfterCleanup(user)[c].host \in AfterCleanup(user)[c].players
         /\ \A c \in Codes : AfterHostSurrender(user)[c].state = "open" =>
              AfterHostSurrender(user)[c].host \in AfterHostSurrender(user)[c].players
<1>1. ClosedLobby \in Lobby /\ ClosedLobby.state = "closed"
  BY DEF ClosedLobby, FreeLobby, Lobby
<1>2. \A c \in Codes : lobbies[c] \in Lobby
  BY DEF LobbyInv, LobbyTypeOK
<1>3. ASSUME NEW c \in Codes, c \in Cleaned(user), lobbies[c].host # user
      PROVE  LET left == [lobbies[c] EXCEPT !.players = @ \ {user}]
             IN  left \in Lobby /\ (left.state = "open" => left.host \in left.players)
  BY <1>2, <1>3 DEF Lobby, LobbyInv, LobbiesKeepTheirHost
<1>4. \A c \in Codes : AfterCleanup(user)[c] \in Lobby
                       /\ (AfterCleanup(user)[c].state = "open" =>
                             AfterCleanup(user)[c].host \in AfterCleanup(user)[c].players)
  BY <1>1, <1>2, <1>3 DEF AfterCleanup, LobbyInv, LobbiesKeepTheirHost
<1>5. \A c \in Codes : AfterHostSurrender(user)[c] \in Lobby
                       /\ (AfterHostSurrender(user)[c].state = "open" =>
                             AfterHostSurrender(user)[c].host \in AfterHostSurrender(user)[c].players)
  BY <1>1, <1>2 DEF AfterHostSurrender, LobbyInv, LobbiesKeepTheirHost
<1>6. /\ AfterCleanup(user) = [c \in Codes |-> AfterCleanup(user)[c]]
      /\ AfterHostSurrender(user) = [c \in Codes |-> AfterHostSurrender(user)[c]]
  BY DEF AfterCleanup, AfterHostSurrender
<1> QED BY <1>4, <1>5, <1>6

\* A new lobby has its host.
LEMMA CreateLobbyKeeps ==
  ASSUME LobbyInv, NEW user \in Users, CreateLobby(user)
  PROVE  LobbyInv'
<1>1. queue' \in Seq(Users) /\ Len(queue') <= 1
  BY WithoutQueuedIsShort DEF CreateLobby, LobbyInv, LobbyTypeOK, QueueIsShort
<1>2. PICK c \in Codes : lobbies' = [lobbies EXCEPT ![c] =
                           [state |-> "open", host |-> user, players |-> {user}]]
  BY DEF CreateLobby
<1>3. lobbies' \in [Codes -> Lobby] /\ LobbiesKeepTheirHost'
  BY <1>2 DEF LobbyInv, LobbyTypeOK, LobbiesKeepTheirHost, Lobby
<1> QED BY <1>1, <1>3 DEF LobbyInv, LobbyTypeOK, QueueIsShort

\* A lobby that is joined keeps its host.
LEMMA JoinLobbyKeeps ==
  ASSUME LobbyInv, NEW user \in Users, NEW c \in Codes, JoinLobby(user, c)
  PROVE  LobbyInv'
<1> DEFINE joined == [lobbies[c] EXCEPT !.players = @ \cup {user}]
<1>1. queue' \in Seq(Users) /\ Len(queue') <= 1
  BY WithoutQueuedIsShort DEF JoinLobby, LobbyInv, LobbyTypeOK, QueueIsShort
<1>2. lobbies' = lobbies \/ lobbies' = [lobbies EXCEPT ![c] = joined]
  BY DEF JoinLobby, LobbyInv, LobbyTypeOK
<1>3. joined \in Lobby /\ (joined.state = "open" => joined.host \in joined.players)
  BY DEF LobbyInv, LobbyTypeOK, LobbiesKeepTheirHost, Lobby
<1> HIDE DEF joined
<1>4. lobbies' \in [Codes -> Lobby] /\ LobbiesKeepTheirHost'
  BY <1>2, <1>3 DEF LobbyInv, LobbyTypeOK, LobbiesKeepTheirHost
<1> QED BY <1>1, <1>4 DEF LobbyInv, LobbyTypeOK, QueueIsShort

\* find_player pairs an arrival with who waits, or makes it wait alone.
LEMMA FindPlayerKeeps ==
  ASSUME GameInv, LobbyInv, NEW user \in Users, FindPlayer(user)
  PROVE  GameInv' /\ OverGamesStay /\ LobbyInv'
<1>1. CASE queue # <<>> /\ queue' = Tail(queue) /\ CreateGame({Head(queue), user}, TRUE)
  <2>1. Head(queue) \in Users /\ Tail(queue) \in Seq(Users) /\ Len(Tail(queue)) <= 1
    BY <1>1, HeadTailProperties, LenProperties
       DEF LobbyInv, LobbyTypeOK, QueueIsShort
  <2>2. Head(queue) # user
    BY <1>1, LenProperties, EmptySeq DEF FindPlayer, Queued, LobbyInv, LobbyTypeOK
  <2>3. Cardinality({Head(queue), user}) = 2
    <3>1. IsFiniteSet({user}) /\ Cardinality({user}) = 1
      BY FS_Singleton
    <3>2. Cardinality({user} \cup {Head(queue)}) = 2
      BY <2>2, <3>1, FS_AddElement
    <3>3. {user} \cup {Head(queue)} = {Head(queue), user}
      OBVIOUS
    <3> QED BY <3>2, <3>3
  <2>4. GameInv' /\ OverGamesStay
    BY <1>1, <2>1, <2>3, CreateGameKeeps
  <2> QED BY <1>1, <2>1, <2>4
          DEF FindPlayer, LobbyInv, LobbyTypeOK, LobbiesKeepTheirHost, QueueIsShort
<1>2. CASE queue = <<>> /\ queue' = Append(queue, user) /\ UNCHANGED gameVars
  <2>1. queue' \in Seq(Users) /\ Len(queue') <= 1
    BY <1>2
  <2>2. GameInv' /\ OverGamesStay
    BY <1>2 DEF gameVars, GameInv, GameTypeOK, EntriesLeadToLiveGames, LiveGamesAreTimed,
                RankedGamesAreDuels, GamesEndAtTheTarget, Live, OverGamesStay
  <2> QED BY <2>1, <2>2
          DEF FindPlayer, LobbyInv, LobbyTypeOK, LobbiesKeepTheirHost, QueueIsShort
<1> QED BY <1>1, <1>2 DEF FindPlayer

-----------------------------------------------------------------------------
(* Handlers of DrawServer *)

ServerTypeOK ==
  /\ sockets \in [Sockets -> Socket]
  /\ connections \in [Users -> Sockets \cup {NoSocket}]
  /\ grace \in [Sockets -> GracePhase]

\* A handler or a grace task works for a user.
HandlersHaveUsers ==
  \A s \in Sockets : sockets[s].phase # "free" \/ grace[s] # "none" => User(s) \in Users

IInv == GameInv /\ LobbyInv /\ ServerTypeOK /\ HandlersHaveUsers

\* What touches nothing of the games keeps what is claimed of them.
LEMMA GameStutter ==
  ASSUME GameInv, UNCHANGED gameVars
  PROVE  GameInv' /\ OverGamesStay
BY DEF gameVars, GameInv, GameTypeOK, EntriesLeadToLiveGames, LiveGamesAreTimed,
       RankedGamesAreDuels, GamesEndAtTheTarget, Live, OverGamesStay

\* What touches neither lobbies nor the queue keeps what is claimed of them.
LEMMA LobbyStutter ==
  ASSUME LobbyInv, UNCHANGED lobbyVars
  PROVE  LobbyInv'
BY DEF lobbyVars, LobbyInv, LobbyTypeOK, LobbiesKeepTheirHost, QueueIsShort

\* A step that only moves a handler or a grace task on
LEMMA PhaseMoves ==
  ASSUME ServerTypeOK, HandlersHaveUsers, NEW s \in Sockets, User(s) \in Users,
         \/ UNCHANGED sockets
         \/ \E phase \in {"open", "leaving", "cleaning", "closed"} : MovePhase(s, phase),
         UNCHANGED grace \/ \E phase \in GracePhase : MoveGrace(s, phase),
         connections' \in [Users -> Sockets \cup {NoSocket}]
  PROVE  ServerTypeOK' /\ HandlersHaveUsers'
<1>1. /\ sockets' \in [Sockets -> Socket]
      /\ sockets'[s].user = sockets[s].user
      /\ \A t \in Sockets \ {s} : sockets'[t] = sockets[t]
  BY DEF ServerTypeOK, MovePhase, Socket
<1>2. /\ grace' \in [Sockets -> GracePhase]
      /\ \A t \in Sockets \ {s} : grace'[t] = grace[t]
  BY DEF ServerTypeOK, MoveGrace
<1>3. HandlersHaveUsers'
  <2>1. sockets'[s].user \in Users
    BY <1>1 DEF User
  <2>2. ASSUME NEW t \in Sockets \ {s}, sockets'[t].phase # "free" \/ grace'[t] # "none"
        PROVE  sockets'[t].user \in Users
    BY <1>1, <1>2, <2>2 DEF User, HandlersHaveUsers
  <2> QED BY <2>1, <2>2 DEF HandlersHaveUsers, User
<1> QED BY <1>1, <1>2, <1>3 DEF ServerTypeOK

\* Leaving lobbies, with or without the queue
LEMMA LeavingKeeps ==
  ASSUME LobbyInv, NEW user \in Users,
         lobbies' \in {lobbies, AfterCleanup(user), AfterHostSurrender(user)},
         queue' \in {queue, WithoutQueued(user)}
  PROVE  LobbyInv'
<1>1. lobbies' \in [Codes -> Lobby] /\ LobbiesKeepTheirHost'
  BY LobbyUpdatesKeepHosts DEF LobbyInv, LobbyTypeOK, LobbiesKeepTheirHost
<1>2. queue' \in Seq(Users) /\ Len(queue') <= 1
  BY WithoutQueuedIsShort DEF LobbyInv, LobbyTypeOK, QueueIsShort
<1> QED BY <1>1, <1>2 DEF LobbyInv, LobbyTypeOK, QueueIsShort

\* disconnect forgets a user: its entry, its place in the queue, its connection.
LEMMA ForgetKeeps ==
  ASSUME GameInv, LobbyInv, ServerTypeOK, NEW user \in Users, Forget(user),
         lobbies' \in {lobbies, AfterCleanup(user)}
  PROVE  /\ GameInv' /\ OverGamesStay /\ LobbyInv'
         /\ connections' \in [Users -> Sockets \cup {NoSocket}]
<1>1. /\ UNCHANGED <<games, starting, timed, stray, elo, results>>
      /\ playerGames' = [playerGames EXCEPT ![user] = NoGame]
      /\ away' \in [Users -> Nat]
  BY RemovedType DEF Forget, GameInv, GameTypeOK
<1>2. GameInv' /\ OverGamesStay
  BY <1>1, ForgettingKeeps DEF GameInv, GameTypeOK
<1>3. LobbyInv'
  BY LeavingKeeps DEF Forget
<1> QED BY <1>2, <1>3 DEF Forget, ServerTypeOK

\* A connection is registered, with or without a game to come back to.
LEMMA ConnectKeeps ==
  ASSUME IInv, NEW user \in Users, Connect(user)
  PROVE  IInv' /\ OverGamesStay
<1>1. GameInv' /\ OverGamesStay
  <2>1. away' \in [Users -> Nat]
    BY RemovedType DEF Connect, IInv, GameInv, GameTypeOK
  <2> QED BY <2>1, ForgettingKeeps DEF Connect, IInv, GameInv, GameTypeOK
<1>2. LobbyInv'
  BY LobbyStutter DEF Connect, IInv
<1>3. ServerTypeOK' /\ HandlersHaveUsers'
  <2>1. elo[user] \in Int
    BY DEF IInv, GameInv, GameTypeOK
  <2> QED BY <2>1 DEF Connect, IInv, ServerTypeOK, HandlersHaveUsers, User, Socket
<1> QED BY <1>1, <1>2, <1>3 DEF IInv

\* GET /api/surrender ends the game of who asks.
LEMMA ApiSurrenderKeeps ==
  ASSUME IInv, NEW user \in Users, ApiSurrender(user)
  PROVE  IInv' /\ OverGamesStay
<1>1. GameInv' /\ OverGamesStay
  BY EndBySurrenderKeeps DEF ApiSurrender, IInv, GameInv, GameTypeOK
<1>2. LobbyInv'
  BY LeavingKeeps DEF ApiSurrender, IInv
<1>3. ServerTypeOK' /\ HandlersHaveUsers'
  BY DEF ApiSurrender, IInv, ServerTypeOK, HandlersHaveUsers, User
<1> QED BY <1>1, <1>2, <1>3 DEF IInv

\* Timer tasks.
LEMMA TimerStepKeeps ==
  ASSUME IInv, NEW g \in GameIds, TimerStep(g)
  PROVE  IInv' /\ OverGamesStay
<1>1. GameInv' /\ OverGamesStay
  BY StartGameTimerKeeps, TimerEndsRoundKeeps DEF TimerStep, IInv
<1>2. LobbyInv'
  BY LobbyStutter DEF TimerStep, IInv
<1>3. ServerTypeOK' /\ HandlersHaveUsers'
  BY DEF TimerStep, IInv, ServerTypeOK, HandlersHaveUsers, User
<1> QED BY <1>1, <1>2, <1>3 DEF IInv

\* Every step of the handler of a connection.
LEMMA SocketStepKeeps ==
  ASSUME IInv, NEW s \in Sockets, SocketStep(s)
  PROVE  IInv' /\ OverGamesStay
<1> DEFINE user == User(s)
<1>0. user \in Users /\ sockets[s].elo \in Int
  <2>1. sockets[s].phase # "free"
    BY DEF SocketStep, Open, DropInGame, DropOutsideGame, FinishDrop, AbortDrop, HandlerFails,
           CreateLobbyMsg, JoinLobbyMsg, StartGameMsg, FindPlayerMsg, GuessMsg, LeaveMsg,
           FinishLeave, SurrenderMsg
  <2> QED BY <2>1 DEF IInv, HandlersHaveUsers, ServerTypeOK, Socket
<1> USE DEF IInv
<1>1. CASE DropInGame(s)
  <2>1. ServerTypeOK' /\ HandlersHaveUsers'
    <3>1. connections' \in [Users -> Sockets \cup {NoSocket}]
      BY <1>1 DEF DropInGame, ServerTypeOK
    <3> QED BY <1>0, <1>1, <3>1, PhaseMoves DEF DropInGame, GracePhase
  <2> QED BY <1>1, <2>1, GameStutter, LobbyStutter DEF DropInGame
<1>2. CASE DropOutsideGame(s)
  <2>1. CASE Forget(user) /\ MovePhase(s, "closed")
    <3>1. /\ GameInv' /\ OverGamesStay /\ LobbyInv'
          /\ connections' \in [Users -> Sockets \cup {NoSocket}]
      BY <1>0, <1>2, <2>1, ForgetKeeps DEF DropOutsideGame
    <3> QED BY <1>0, <1>2, <2>1, <3>1, PhaseMoves DEF DropOutsideGame
  <2>2. CASE /\ connections' = [connections EXCEPT ![user] = NoSocket]
             /\ MovePhase(s, "cleaning")
             /\ UNCHANGED <<gameVars, queue>>
    <3>1. LobbyInv'
      BY <1>0, <1>2, <2>2, LeavingKeeps DEF DropOutsideGame
    <3>2. connections' \in [Users -> Sockets \cup {NoSocket}]
      BY <2>2 DEF ServerTypeOK
    <3> QED BY <1>0, <1>2, <2>2, <3>1, <3>2, GameStutter, PhaseMoves DEF DropOutsideGame
  <2> QED BY <1>2, <2>1, <2>2 DEF DropOutsideGame
<1>3. CASE FinishDrop(s)
  <2>1. /\ GameInv' /\ OverGamesStay /\ LobbyInv'
        /\ connections' \in [Users -> Sockets \cup {NoSocket}]
    BY <1>0, <1>3, ForgetKeeps DEF FinishDrop
  <2> QED BY <1>0, <1>3, <2>1, PhaseMoves DEF FinishDrop
<1>4. CASE AbortDrop(s) \/ HandlerFails(s)
  <2>1. /\ MovePhase(s, "closed")
        /\ UNCHANGED <<gameVars, lobbyVars, connections, grace>>
    BY <1>4 DEF AbortDrop, HandlerFails
  <2> QED BY <1>0, <2>1, GameStutter, LobbyStutter, PhaseMoves DEF ServerTypeOK
<1>5. CASE CreateLobbyMsg(s) \/ JoinLobbyMsg(s)
  <2>1. LobbyInv'
    BY <1>0, <1>5, CreateLobbyKeeps, JoinLobbyKeeps DEF CreateLobbyMsg, JoinLobbyMsg
  <2>2. UNCHANGED <<gameVars, sockets, connections, grace>>
    BY <1>5 DEF CreateLobbyMsg, JoinLobbyMsg
  <2> QED BY <1>0, <2>1, <2>2, GameStutter, PhaseMoves DEF ServerTypeOK
<1>6. CASE StartGameMsg(s)
  <2>1. PICK c \in Hosts(user) : CreateGame(lobbies[c].players, FALSE)
    BY <1>6 DEF StartGameMsg
  <2>2. lobbies[c].players \subseteq Users
    BY <2>1 DEF Hosts, LobbyInv, LobbyTypeOK, Lobby
  <2>3. GameInv' /\ OverGamesStay
    BY <2>1, <2>2, CreateGameKeeps
  <2> QED BY <1>0, <1>6, <2>3, LobbyStutter, PhaseMoves DEF StartGameMsg, ServerTypeOK
<1>7. CASE FindPlayerMsg(s)
  BY <1>0, <1>7, FindPlayerKeeps, PhaseMoves DEF FindPlayerMsg, ServerTypeOK
<1>8. CASE GuessMsg(s)
  BY <1>0, <1>8, AiGuessKeeps, LobbyStutter, PhaseMoves DEF GuessMsg, ServerTypeOK
<1>9. CASE LeaveMsg(s)
  <2>1. LobbyInv'
    BY <1>0, <1>9, LeavingKeeps DEF LeaveMsg
  <2>2. UNCHANGED gameVars
    BY <1>9 DEF LeaveMsg
  <2>3. ServerTypeOK' /\ HandlersHaveUsers'
    BY <1>0, <1>9, PhaseMoves DEF LeaveMsg, ServerTypeOK
  <2> QED BY <2>1, <2>2, <2>3, GameStutter
<1>10. CASE FinishLeave(s)
  <2>1. LobbyInv'
    BY <1>0, <1>10, LeavingKeeps DEF FinishLeave
  <2>2. ServerTypeOK' /\ HandlersHaveUsers'
    BY <1>0, <1>10, PhaseMoves DEF FinishLeave, ServerTypeOK
  <2> QED BY <1>10, <2>1, <2>2, GameStutter DEF FinishLeave
<1>11. ASSUME NEW leaveLobby \in BOOLEAN, SurrenderMsg(s, leaveLobby)
       PROVE  IInv' /\ OverGamesStay
  <2>1. LobbyInv'
    BY <1>0, <1>11, LeavingKeeps DEF SurrenderMsg
  <2>2. GameInv' /\ OverGamesStay
    BY <1>0, <1>11, EndBySurrenderKeeps DEF SurrenderMsg
  <2> QED BY <1>0, <1>11, <2>1, <2>2, PhaseMoves DEF SurrenderMsg, ServerTypeOK
<1> QED BY <1>1, <1>2, <1>3, <1>4, <1>5, <1>6, <1>7, <1>8, <1>9, <1>10, <1>11 DEF SocketStep

\* Every step of a grace task.
LEMMA GraceStepKeeps ==
  ASSUME IInv, NEW s \in Sockets, GraceStep(s)
  PROVE  IInv' /\ OverGamesStay
<1> DEFINE user == User(s)
<1>0. user \in Users /\ sockets[s].elo \in Int
  <2>1. grace[s] # "none"
    BY DEF GraceStep, GraceStart, GraceReturned, GraceGameOver, GraceSurrender, GraceFinish
  <2> QED BY <2>1 DEF IInv, HandlersHaveUsers, ServerTypeOK, Socket
<1> USE DEF IInv
<1>1. UNCHANGED <<sockets, connections>> /\ \E phase \in GracePhase : MoveGrace(s, phase)
  BY DEF GraceStep, GraceStart, GraceReturned, GraceGameOver, GraceSurrender, GraceFinish,
         GracePhase
<1>2. ServerTypeOK' /\ HandlersHaveUsers'
  BY <1>0, <1>1, PhaseMoves DEF ServerTypeOK
<1>3. CASE GraceStart(s) \/ GraceReturned(s) \/ GraceGameOver(s) \/ GraceFinish(s)
  <2>1. /\ UNCHANGED <<games, playerGames, starting, timed, stray, elo, results, lobbyVars>>
        /\ away' \in {away, Removed(away, {user}), [away EXCEPT ![user] = @ + 1]}
    BY <1>3 DEF GraceStart, GraceReturned, GraceGameOver, GraceFinish, gameVars
  <2>2. away' \in [Users -> Nat]
    BY <1>0, <2>1, RemovedType DEF GameInv, GameTypeOK
  <2>3. GameInv' /\ OverGamesStay
    BY <2>1, <2>2, ForgettingKeeps DEF GameInv, GameTypeOK
  <2> QED BY <1>2, <2>1, <2>3, LobbyStutter
<1>4. CASE GraceSurrender(s)
  <2>1. LobbyInv'
    BY <1>0, <1>4, LeavingKeeps DEF GraceSurrender
  <2>2. GameInv' /\ OverGamesStay
    BY <1>0, <1>4, EndBySurrenderKeeps DEF GraceSurrender
  <2> QED BY <1>2, <2>1, <2>2
<1> QED BY <1>3, <1>4 DEF GraceStep

-----------------------------------------------------------------------------

\* The invariant holds when the server starts.
LEMMA Initially == Init => IInv
<1> SUFFICES ASSUME Init PROVE IInv
  OBVIOUS
<1> USE DEF Init, GameInit, LobbyInit
<1>1. FreeGame \in Game /\ FreeGame.state = "free" /\ FreeGame.players = {}
      /\ FreeGame.ranked = FALSE /\ FreeGame.quitter = Nobody
  <2>1. [u \in Users |-> 0] \in [Users -> 0 .. RoundWinTarget]
    BY GameAssumption
  <2> QED BY <2>1 DEF Game, FreeGame
<1>2. GameInv
  BY <1>1 DEF GameInv, GameTypeOK, EntriesLeadToLiveGames, LiveGamesAreTimed,
              RankedGamesAreDuels, GamesEndAtTheTarget, Live
<1>3. LobbyInv
  BY EmptySeq DEF LobbyInv, LobbyTypeOK, LobbiesKeepTheirHost, QueueIsShort,
                  FreeLobby, Lobby
<1>4. ServerTypeOK /\ HandlersHaveUsers
  BY DEF ServerTypeOK, HandlersHaveUsers, Socket, GracePhase
<1> QED BY <1>2, <1>3, <1>4 DEF IInv

\* Every step keeps the invariant and the games that are over.
LEMMA NextKeeps == IInv /\ [Next]_vars => IInv' /\ OverGamesStay
<1> SUFFICES ASSUME IInv, [Next]_vars PROVE IInv' /\ OverGamesStay
  OBVIOUS
<1>1. CASE UNCHANGED vars
  <2>1. ServerTypeOK' /\ HandlersHaveUsers'
    BY <1>1 DEF vars, IInv, ServerTypeOK, HandlersHaveUsers, User
  <2> QED BY <1>1, <2>1, GameStutter, LobbyStutter DEF vars, IInv
<1>2. CASE Next
  BY <1>2, ConnectKeeps, ApiSurrenderKeeps, SocketStepKeeps, GraceStepKeeps, TimerStepKeeps
     DEF Next
<1> QED BY <1>1, <1>2

\* The invariant holds in every reachable state.
LEMMA Inductive == Spec => []IInv
BY Initially, NextKeeps, PTL DEF Spec

\* The variables of games, lobbies and connections keep their types.
THEOREM TypeCorrect == Spec => []TypeOK
<1>1. IInv => TypeOK
  BY DEF IInv, GameInv, LobbyInv, ServerTypeOK, TypeOK
<1> QED BY <1>1, Inductive, PTL

\* No handler looks up a game that is gone: an entry of player_games leads to a
\* live game of the user, whatever was suspended while the game ended.
THEOREM LookupsSucceed == Spec => []EntriesLeadToLiveGames
<1>1. IInv => EntriesLeadToLiveGames
  BY DEF IInv, GameInv
<1> QED BY <1>1, Inductive, PTL

\* A live game always has a timer task, or the task that will start it.
THEOREM GamesAreTimed == Spec => []LiveGamesAreTimed
<1>1. IInv => LiveGamesAreTimed
  BY DEF IInv, GameInv
<1> QED BY <1>1, Inductive, PTL

\* Whoever find_player takes from the queue is another user than the one who asks,
\* so that end_game raises one rating and lowers one for every ranked game.
THEOREM MatchmakingPairsTwo == Spec => []RankedGamesAreDuels
<1>1. IInv => RankedGamesAreDuels
  BY DEF IInv, GameInv
<1> QED BY <1>1, Inductive, PTL

\* An open lobby contains the only user that can start its game.
THEOREM HostsStay == Spec => []LobbiesKeepTheirHost
<1>1. IInv => LobbiesKeepTheirHost
  BY DEF IInv, LobbyInv
<1> QED BY <1>1, Inductive, PTL

\* A game ends when one player reaches the target, or by a surrender before that.
THEOREM TargetDecides == Spec => []GamesEndAtTheTarget
<1>1. IInv => GamesEndAtTheTarget
  BY DEF IInv, GameInv
<1> QED BY <1>1, Inductive, PTL

\* A game that is over is changed by no timer, guess, surrender or grace task.
THEOREM EndIsFinal == Spec => EndedGamesStayEnded
<1>1. IInv /\ [Next]_vars =>
        [\A g \in GameIds : games[g].state = "over" => games'[g] = games[g]]_vars
  BY NextKeeps DEF OverGamesStay
<1> QED BY <1>1, Inductive, PTL DEF Spec, EndedGamesStayEnded

-----------------------------------------------------------------------------
(* The list of the disconnected: an entry is made by a grace task that falls *)
(* asleep, and a grace task wakes up only to an empty place or to take its   *)
(* entry off.  Whatever else happens only takes entries off.                 *)

Watchers(u) == { s \in Sockets : User(s) = u /\ grace[s] = "asleep" }

\* Only a handler that has ended left a grace task behind.
GraceFollowsTheEnd == \A s \in Sockets : grace[s] # "none" => sockets[s].phase = "closed"

WatchInv == AwayIsWatched /\ GraceFollowsTheEnd

\* No entry is made.
AwayShrinks == \A u \in Users : away'[u] <= away[u]

\* Whoever sleeps sleeps on, except perhaps one socket's task.
OthersSleepOn(s) ==
  \A t \in Sockets \ {s} : grace[t] = "asleep" => grace'[t] = "asleep" /\ User(t)' = User(t)

\* There are finitely many watchers, and their number is a number.
LEMMA WatchersAreFinite ==
  \A u \in Users : /\ IsFiniteSet(Watchers(u)) /\ IsFiniteSet(Watchers(u)')
                   /\ Cardinality(Watchers(u)) \in Nat /\ Cardinality(Watchers(u)') \in Nat
<1>1. IsFiniteSet(Sockets)
  BY ServerAssumption, FS_Interval DEF Sockets
<1>2. \A u \in Users : Watchers(u) \subseteq Sockets /\ Watchers(u)' \subseteq Sockets
  BY DEF Watchers
<1>3. \A u \in Users : IsFiniteSet(Watchers(u)) /\ IsFiniteSet(Watchers(u)')
  BY <1>1, <1>2, FS_Subset
<1> QED BY <1>3, FS_CardinalityType

\* A finite set without one element is smaller by one at most.
LEMMA OneLess ==
  ASSUME NEW S, IsFiniteSet(S), NEW x
  PROVE  Cardinality(S) - 1 <= Cardinality(S \ {x}) /\ Cardinality(S \ {x}) \in Nat
<1>1. /\ IsFiniteSet(S \ {x})
      /\ Cardinality(S \ {x}) = IF x \in S THEN Cardinality(S) - 1 ELSE Cardinality(S)
  BY FS_RemoveElement
<1>2. Cardinality(S) \in Nat
  BY FS_CardinalityType
<1>3. Cardinality(S \ {x}) \in Nat
  BY <1>1, FS_CardinalityType
<1> QED BY <1>1, <1>2, <1>3

\* A step in which no entry is made and nobody wakes up
LEMMA NobodyWakes ==
  ASSUME GameTypeOK, GameTypeOK', AwayIsWatched, AwayShrinks,
         \A t \in Sockets : grace[t] = "asleep" => grace'[t] = "asleep" /\ User(t)' = User(t)
  PROVE  AwayIsWatched'
<1> SUFFICES ASSUME NEW u \in Users PROVE away'[u] <= Cardinality(Watchers(u)')
  BY DEF AwayIsWatched, Watchers
<1>1. Watchers(u) \subseteq Watchers(u)'
  BY DEF Watchers
<1>2. Cardinality(Watchers(u)) <= Cardinality(Watchers(u)')
  BY <1>1, WatchersAreFinite, FS_Subset
<1>3. away[u] <= Cardinality(Watchers(u))
  BY DEF AwayIsWatched, Watchers
<1> QED BY <1>2, <1>3, WatchersAreFinite DEF AwayShrinks, GameTypeOK

\* A step in which one task wakes up, with its entry off the list or none there
LEMMA OneWakes ==
  ASSUME GameTypeOK, GameTypeOK', AwayIsWatched, AwayShrinks,
         NEW s \in Sockets, User(s) \in Users, OthersSleepOn(s),
         away'[User(s)] = 0 \/ away'[User(s)] < away[User(s)]
  PROVE  AwayIsWatched'
<1> SUFFICES ASSUME NEW u \in Users PROVE away'[u] <= Cardinality(Watchers(u)')
  BY DEF AwayIsWatched, Watchers
<1>1. away[u] <= Cardinality(Watchers(u))
  BY DEF AwayIsWatched, Watchers
<1>2. CASE u # User(s)
  <2>1. Watchers(u) \subseteq Watchers(u)'
    BY <1>2 DEF Watchers, OthersSleepOn
  <2>2. Cardinality(Watchers(u)) <= Cardinality(Watchers(u)')
    BY <2>1, WatchersAreFinite, FS_Subset
  <2> QED BY <1>1, <2>2, WatchersAreFinite DEF AwayShrinks, GameTypeOK
<1>3. CASE u = User(s)
  <2>1. Watchers(u) \ {s} \subseteq Watchers(u)'
    BY <1>3 DEF Watchers, OthersSleepOn
  <2>2. Cardinality(Watchers(u) \ {s}) <= Cardinality(Watchers(u)')
    BY <2>1, WatchersAreFinite, FS_Subset
  <2>3. /\ Cardinality(Watchers(u)) - 1 <= Cardinality(Watchers(u) \ {s})
        /\ Cardinality(Watchers(u) \ {s}) \in Nat
    BY WatchersAreFinite, OneLess
  <2> QED BY <1>1, <1>3, <2>2, <2>3, WatchersAreFinite DEF GameTypeOK
<1> QED BY <1>2, <1>3

\* A task that falls asleep makes its entry.
LEMMA OneSleeps ==
  ASSUME GameTypeOK, AwayIsWatched, ServerTypeOK, NEW s \in Sockets, User(s) \in Users,
         GraceStart(s)
  PROVE  AwayIsWatched'
<1> SUFFICES ASSUME NEW u \in Users PROVE away'[u] <= Cardinality(Watchers(u)')
  BY DEF AwayIsWatched, Watchers
<1>1. away[u] <= Cardinality(Watchers(u)) /\ away[u] \in Nat
  BY DEF AwayIsWatched, Watchers, GameTypeOK
<1>2. CASE u # User(s)
  <2>1. Watchers(u)' = Watchers(u)
    BY <1>2 DEF Watchers, GraceStart, MoveGrace, User, ServerTypeOK
  <2>2. away'[u] = away[u]
    BY <1>2 DEF GraceStart, GameTypeOK
  <2> QED BY <1>1, <2>1, <2>2
<1>3. CASE u = User(s)
  <2>1. Watchers(u)' = Watchers(u) \cup {s} /\ s \notin Watchers(u)
    BY <1>3 DEF Watchers, GraceStart, MoveGrace, User, ServerTypeOK
  <2>2. Cardinality(Watchers(u)') = Cardinality(Watchers(u)) + 1
    BY <2>1, WatchersAreFinite, FS_AddElement
  <2>3. away'[u] = away[u] + 1
    BY <1>3 DEF GraceStart, GameTypeOK
  <2> QED BY <1>1, <2>2, <2>3, WatchersAreFinite
<1> QED BY <1>2, <1>3

\* list.remove makes no entry, and takes one off where there is one.
LEMMA RemovedShrinks ==
  ASSUME GameTypeOK, NEW users, away' = Removed(away, users)
  PROVE  /\ AwayShrinks
         /\ \A u \in Users \cap users : away[u] > 0 => away'[u] < away[u]
BY DEF Removed, AwayShrinks, GameTypeOK

\* The operations of the games make no entry.
LEMMA GamesMakeNoEntry ==
  ASSUME GameInv
  PROVE  /\ \A players, ranked : CreateGame(players, ranked) => AwayShrinks
         /\ \A g \in GameIds : StartGameTimer(g) \/ TimerEndsRound(g) => AwayShrinks
         /\ \A user, e : AiGuess(user, e) => AwayShrinks
         /\ \A user, e : EndBySurrender(user, e) => AwayShrinks
<1>1. UNCHANGED away => AwayShrinks
  BY DEF AwayShrinks, GameInv, GameTypeOK
<1>2. \A g, wins, winner, e, surrender, quitter :
        EndGame(g, wins, winner, e, surrender, quitter) => AwayShrinks
  BY RemovedShrinks DEF EndGame, GameInv
<1>3. \A g, winner, e, left : HandleRoundEnd(g, winner, e, left) => AwayShrinks
  BY <1>1, <1>2 DEF HandleRoundEnd, StartNextRound
<1>4. \A players, ranked : CreateGame(players, ranked) => AwayShrinks
  BY <1>1 DEF CreateGame
<1>5. \A g \in GameIds : StartGameTimer(g) \/ TimerEndsRound(g) => AwayShrinks
  BY <1>1, <1>3 DEF StartGameTimer, TimerEndsRound, StartNextRound
<1>6. \A user, e : AiGuess(user, e) => AwayShrinks
  BY <1>3 DEF AiGuess
<1>7. \A user, e : EndBySurrender(user, e) => AwayShrinks
  BY <1>2 DEF EndBySurrender
<1> QED BY <1>4, <1>5, <1>6, <1>7

\* A surrender takes an entry of who surrenders off the list.
LEMMA SurrenderTakesOff ==
  ASSUME GameInv, NEW user \in Users, NEW e, EndBySurrender(user, e), away[user] > 0
  PROVE  away'[user] < away[user]
<1> DEFINE g == playerGames[user]
<1>1. user \in games[g].players
  BY DEF EndBySurrender, GameInv, GameTypeOK, EntriesLeadToLiveGames
<1>2. away' = Removed(away, games[g].players)
  BY DEF EndBySurrender, EndGame
<1> QED BY <1>1, <1>2, RemovedShrinks DEF GameInv

\* No message and no disconnection makes an entry or wakes a task up.
LEMMA SocketStepKeepsWatch ==
  ASSUME IInv, IInv', WatchInv, NEW s \in Sockets, SocketStep(s)
  PROVE  WatchInv'
<1>1. AwayShrinks
  <2>1. UNCHANGED away => AwayShrinks
    BY DEF AwayShrinks, IInv, GameInv, GameTypeOK
  <2>2. Forget(User(s)) => AwayShrinks
    BY RemovedShrinks DEF Forget, IInv, GameInv
  <2>3. FindPlayer(User(s)) => AwayShrinks
    BY <2>1, GamesMakeNoEntry DEF FindPlayer, gameVars, IInv
  <2>4. CASE DropInGame(s) \/ DropOutsideGame(s) \/ FinishDrop(s) \/ AbortDrop(s) \/ HandlerFails(s)
    BY <2>1, <2>2, <2>4 DEF DropInGame, DropOutsideGame, FinishDrop, AbortDrop, HandlerFails, gameVars
  <2>5. CASE CreateLobbyMsg(s) \/ JoinLobbyMsg(s) \/ LeaveMsg(s) \/ FinishLeave(s)
    BY <2>1, <2>5 DEF CreateLobbyMsg, JoinLobbyMsg, LeaveMsg, FinishLeave, gameVars
  <2>6. CASE StartGameMsg(s) \/ FindPlayerMsg(s)
    BY <2>3, <2>6, GamesMakeNoEntry DEF StartGameMsg, FindPlayerMsg, IInv
  <2>7. CASE GuessMsg(s) \/ \E leaveLobby \in BOOLEAN : SurrenderMsg(s, leaveLobby)
    BY <2>7, GamesMakeNoEntry DEF GuessMsg, SurrenderMsg, IInv
  <2> QED BY <2>4, <2>5, <2>6, <2>7 DEF SocketStep
<1>2. /\ sockets[s].phase # "closed"
      /\ UNCHANGED sockets \/ \E phase \in {"open", "leaving", "cleaning", "closed"} :
                                MovePhase(s, phase)
      /\ UNCHANGED grace \/ (MoveGrace(s, "created") /\ MovePhase(s, "closed"))
  BY DEF SocketStep, DropInGame, DropOutsideGame, FinishDrop, AbortDrop, HandlerFails,
         CreateLobbyMsg, JoinLobbyMsg, StartGameMsg, FindPlayerMsg, GuessMsg, LeaveMsg,
         FinishLeave, SurrenderMsg, Open
<1>3. grace[s] = "none"
  BY <1>2 DEF WatchInv, GraceFollowsTheEnd
<1>4. \A t \in Sockets \ {s} : sockets'[t] = sockets[t] /\ grace'[t] = grace[t]
  BY <1>2 DEF MovePhase, MoveGrace, IInv, ServerTypeOK
<1>5. grace'[s] # "none" => sockets'[s].phase = "closed"
  BY <1>2, <1>3 DEF MovePhase, MoveGrace, IInv, ServerTypeOK, Socket
<1>6. GraceFollowsTheEnd'
  BY <1>4, <1>5 DEF WatchInv, GraceFollowsTheEnd
<1>7. \A t \in Sockets : grace[t] = "asleep" => grace'[t] = "asleep" /\ User(t)' = User(t)
  BY <1>3, <1>4 DEF User
<1> QED BY <1>1, <1>6, <1>7, NobodyWakes DEF WatchInv, IInv, GameInv

\* A grace task that ends its sleep leaves no entry behind that nobody watches.
LEMMA GraceStepKeepsWatch ==
  ASSUME IInv, IInv', WatchInv, NEW s \in Sockets, GraceStep(s)
  PROVE  WatchInv'
<1> DEFINE user == User(s)
<1>1. grace[s] # "none" /\ UNCHANGED sockets /\ \E phase \in GracePhase : MoveGrace(s, phase)
  BY DEF GraceStep, GraceStart, GraceReturned, GraceGameOver, GraceSurrender, GraceFinish,
         GracePhase
<1>2. user \in Users
  BY <1>1 DEF IInv, HandlersHaveUsers
<1>3. GraceFollowsTheEnd'
  BY <1>1 DEF WatchInv, GraceFollowsTheEnd, MoveGrace, IInv, ServerTypeOK
<1>4. OthersSleepOn(s)
  BY <1>1 DEF OthersSleepOn, MoveGrace, User, IInv, ServerTypeOK
<1>5. CASE GraceStart(s)
  BY <1>2, <1>3, <1>5, OneSleeps DEF WatchInv, IInv, GameInv
<1>6. CASE GraceReturned(s)
  <2>1. away' = away /\ away[user] = 0
    BY <1>6 DEF GraceReturned, gameVars
  <2>2. AwayShrinks
    BY <2>1 DEF AwayShrinks, IInv, GameInv, GameTypeOK
  <2> QED BY <1>2, <1>3, <1>4, <2>1, <2>2, OneWakes DEF WatchInv, IInv, GameInv
<1>7. CASE GraceGameOver(s)
  <2>1. away[user] > 0 /\ away' = Removed(away, {user})
    BY <1>7 DEF GraceGameOver
  <2>2. AwayShrinks /\ away'[user] < away[user]
    BY <1>2, <2>1, RemovedShrinks DEF IInv, GameInv
  <2> QED BY <1>2, <1>3, <1>4, <2>2, OneWakes DEF WatchInv, IInv, GameInv
<1>8. CASE GraceSurrender(s)
  <2>1. EndBySurrender(user, sockets[s].elo) /\ away[user] > 0
    BY <1>8 DEF GraceSurrender
  <2>2. AwayShrinks /\ away'[user] < away[user]
    BY <1>2, <2>1, GamesMakeNoEntry, SurrenderTakesOff DEF IInv
  <2> QED BY <1>2, <1>3, <1>4, <2>2, OneWakes DEF WatchInv, IInv, GameInv
<1>9. CASE GraceFinish(s)
  <2>1. AwayShrinks
    BY <1>9, RemovedShrinks DEF GraceFinish, AwayShrinks, IInv, GameInv, GameTypeOK
  <2>2. grace[s] # "asleep"
    BY <1>9 DEF GraceFinish
  <2>3. \A t \in Sockets : grace[t] = "asleep" => grace'[t] = "asleep" /\ User(t)' = User(t)
    BY <1>4, <2>2 DEF OthersSleepOn
  <2> QED BY <1>3, <2>1, <2>3, NobodyWakes DEF WatchInv, IInv, GameInv
<1> QED BY <1>5, <1>6, <1>7, <1>8, <1>9 DEF GraceStep

\* A connection takes an entry of its user off the list.
LEMMA ConnectKeepsWatch ==
  ASSUME IInv, IInv', WatchInv, NEW user \in Users, Connect(user)
  PROVE  WatchInv'
<1>1. PICK s \in Sockets :
        /\ sockets[s].phase = "free"
        /\ sockets' = [sockets EXCEPT ![s] = [user |-> user, elo |-> elo[user],
                                              phase |-> "open"]]
  BY DEF Connect
<1>2. grace[s] = "none" /\ grace' = grace
  BY <1>1 DEF Connect, WatchInv, GraceFollowsTheEnd
<1>3. \A t \in Sockets \ {s} : sockets'[t] = sockets[t]
  BY <1>1 DEF IInv, ServerTypeOK
<1>4. GraceFollowsTheEnd'
  BY <1>2, <1>3 DEF WatchInv, GraceFollowsTheEnd
<1>5. AwayShrinks
  BY RemovedShrinks DEF Connect, IInv, GameInv
<1>6. \A t \in Sockets : grace[t] = "asleep" => grace'[t] = "asleep" /\ User(t)' = User(t)
  BY <1>2, <1>3 DEF User
<1> QED BY <1>4, <1>5, <1>6, NobodyWakes DEF WatchInv, IInv, GameInv

\* Every step keeps the list watched.
LEMMA NextKeepsWatch == IInv /\ IInv' /\ WatchInv /\ [Next]_vars => WatchInv'
<1> SUFFICES ASSUME IInv, IInv', WatchInv, [Next]_vars PROVE WatchInv'
  OBVIOUS
<1>1. CASE UNCHANGED <<sockets, grace>> /\ AwayShrinks
  <2>1. GraceFollowsTheEnd'
    BY <1>1 DEF WatchInv, GraceFollowsTheEnd
  <2>2. \A t \in Sockets : grace[t] = "asleep" => grace'[t] = "asleep" /\ User(t)' = User(t)
    BY <1>1 DEF User
  <2> QED BY <1>1, <2>1, <2>2, NobodyWakes DEF WatchInv, IInv, GameInv
<1>2. CASE UNCHANGED vars
  BY <1>1, <1>2 DEF vars, gameVars, AwayShrinks, IInv, GameInv, GameTypeOK
<1>3. ASSUME NEW user \in Users, ApiSurrender(user) PROVE WatchInv'
  BY <1>1, <1>3, GamesMakeNoEntry DEF ApiSurrender, IInv
<1>4. ASSUME NEW g \in GameIds, TimerStep(g) PROVE WatchInv'
  BY <1>1, <1>4, GamesMakeNoEntry DEF TimerStep, IInv
<1>5. CASE Next
  BY <1>3, <1>4, <1>5, ConnectKeepsWatch, SocketStepKeepsWatch, GraceStepKeepsWatch DEF Next
<1> QED BY <1>2, <1>5

\* Nobody is on the list when the server starts.
LEMMA InitiallyWatched == Init => WatchInv
<1> SUFFICES ASSUME Init PROVE WatchInv
  OBVIOUS
<1>1. \A u \in Users : away[u] <= Cardinality(Watchers(u))
  BY WatchersAreFinite DEF Init, GameInit
<1>2. GraceFollowsTheEnd
  BY DEF Init, GraceFollowsTheEnd
<1> QED BY <1>1, <1>2 DEF WatchInv, AwayIsWatched, Watchers

\* Every entry of the list of the disconnected has a grace task that will come by it.
THEOREM EntriesAreWatched == Spec => []AwayIsWatched
<1>1. WatchInv => AwayIsWatched
  BY DEF WatchInv
<1> QED BY <1>1, Inductive, InitiallyWatched, NextKeepsWatch, PTL DEF Spec

===============================================================================
