------------------------------- MODULE DrawGame -------------------------------
(***************************************************************************)
(* ft_transcendence/backend/game: the games held in memory by the backend, *)
(* their rounds, their timer tasks, and the ratings they change.           *)
(*                                                                         *)
(* The backend is one asyncio event loop: a handler runs alone from one    *)
(* await that really suspends to the next.  Nothing in this module         *)
(* suspends (events are emitted as new tasks, the recognition runs in      *)
(* place), so each operation is one step.  Scores are abstracted to who    *)
(* wins a round; a rating counts points won and lost, one per ranked game  *)
(* (calculate_new_elo adds something to the rating it is given).           *)
(***************************************************************************)
EXTENDS Naturals, Integers, FiniteSets

CONSTANTS Users,          \* usernames
          Nobody,         \* Python's None
          MaxGames,       \* bound: games created in a behaviour
          RoundWinTarget  \* ROUND_WIN_TARGET

ASSUME GameAssumption ==
  /\ Nobody \notin Users
  /\ MaxGames \in Nat
  /\ RoundWinTarget \in Nat \ {0}

GameIds == 1 .. MaxGames
NoGame == 0

VARIABLES
  games,        \* every game ever created, by id, with how it ended
  playerGames,  \* player_games: the game a user is in, or NoGame
  starting,     \* games whose _start_game_timer task has not run yet
  timed,        \* game_timers: games with a registered timer task
  stray,        \* games with a running timer task that is not registered
  away,         \* disconnected_players, a list: how often each user is in it
  elo,          \* the rating column of the database
  results       \* history: ranked games won minus lost

gameVars == <<games, playerGames, starting, timed, stray, away, elo, results>>

Game == [state : {"free", "live", "over"}, players : SUBSET Users, ranked : BOOLEAN,
         wins : [Users -> 0 .. RoundWinTarget],
         winners : SUBSET Users,            \* who was told "winner"
         quitter : Users \cup {Nobody}]     \* who surrendered

FreeGame == [state |-> "free", players |-> {}, ranked |-> FALSE,
             wins |-> [u \in Users |-> 0], winners |-> {}, quitter |-> Nobody]

Live(g) == games[g].state = "live"

GameInit ==
  /\ games = [g \in GameIds |-> FreeGame]
  /\ playerGames = [u \in Users |-> NoGame]
  /\ starting = {}
  /\ timed = {}
  /\ stray = {}
  /\ away = [u \in Users |-> 0]
  /\ elo = [u \in Users |-> 0]
  /\ results = [u \in Users |-> 0]

GameTypeOK ==
  /\ games \in [GameIds -> Game]
  /\ playerGames \in [Users -> GameIds \cup {NoGame}]
  /\ starting \subseteq GameIds
  /\ timed \subseteq GameIds
  /\ stray \subseteq GameIds
  /\ away \in [Users -> Nat]
  /\ elo \in [Users -> Int]
  /\ results \in [Users -> Int]

\* Mutant of Removed: the membership test is left out.
RemovedUnguarded(list, users) ==
  [u \in Users |-> IF u \in users THEN list[u] - 1 ELSE list[u]]

\* list.remove guarded by a membership test
Removed(list, users) ==
  [u \in Users |-> IF u \in users /\ list[u] > 0 THEN list[u] - 1 ELSE list[u]]

\* Mutant of WithoutEntries: the entry of a player that is away is kept for it.
WithoutPresent(players) ==
  [u \in Users |-> IF u \in players /\ away[u] = 0 THEN NoGame ELSE playerGames[u]]

\* Mutant of WithoutEntries: an entry that is not there any more makes pop raise.
WithoutMissing(players) ==
  [u \in Users |-> IF u \in players /\ \A v \in players : playerGames[v] # NoGame
                    THEN NoGame ELSE playerGames[u]]

\* cleanup_game pops the entry of every player
WithoutEntries(players) ==
  [u \in Users |-> IF u \in players THEN NoGame ELSE playerGames[u]]

-----------------------------------------------------------------------------

\* create_game: every player now points at the new game, whatever it pointed
\* at before; the game_created event schedules the task that starts the timer.
CreateGame(players, ranked) ==
  \E g \in GameIds :
    /\ games[g].state = "free"
    /\ \A h \in GameIds : h < g => games[h].state # "free"
    /\ games' = [games EXCEPT ![g] = [FreeGame EXCEPT !.state = "live",
                                       !.players = players, !.ranked = ranked]]
    /\ playerGames' = [u \in Users |-> IF u \in players THEN g ELSE playerGames[u]]
    /\ starting' = starting \cup {g}
    /\ UNCHANGED <<timed, stray, away, elo, results>>

\* _start_game_timer: registers a timer task, over one that start_next_round
\* may have registered already and that then runs on unregistered.
StartGameTimer(g) ==
  /\ g \in starting
  /\ starting' = starting \ {g}
  /\ timed' = timed \cup {g}
  /\ stray' = IF g \in timed THEN stray \cup {g} ELSE stray
  /\ UNCHANGED <<games, playerGames, away, elo, results>>

\* end_game: the winner comes as a User object read earlier, with the rating
\* it had then; the losers are read now.  Every player's entry is removed.
EndGame(g, wins, winner, winnerElo, surrender, quitter) ==
  LET game   == games[g]
      losers == game.players \ {winner}
      rated  == game.ranked /\ Cardinality(losers) = 1
  IN  /\ games' = [games EXCEPT ![g].state = "over", ![g].wins = wins,
                     ![g].quitter = quitter,
                     ![g].winners = IF ~rated /\ surrender # Nobody
                                      THEN game.players \ {surrender}
                                      ELSE {winner}]
      /\ elo' = IF ~rated THEN elo
                ELSE [u \in Users |-> CASE u = winner -> winnerElo + 1
                                        [] u \in losers -> elo[u] - 1
                                        [] OTHER -> elo[u]]
      /\ results' = IF ~rated THEN results
                    ELSE [u \in Users |-> CASE u = winner -> results[u] + 1
                                            [] u \in losers -> results[u] - 1
                                            [] OTHER -> results[u]]
      /\ timed' = timed \ {g}
      /\ stray' = stray \ {g}
      /\ playerGames' = WithoutEntries(game.players)
      /\ away' = Removed(away, game.players)
      /\ UNCHANGED starting

\* Mutant of StartNextRound: the timer is cancelled after the new one is registered.
CancelLast(g, wins, left) ==
  /\ games' = [games EXCEPT ![g].wins = wins]
  /\ timed' = timed \ {g}
  /\ stray' = stray \ left
  /\ UNCHANGED <<playerGames, starting, away, elo, results>>

\* start_next_round: the registered timer task is cancelled and another one
\* takes its place.  "left" are the unregistered tasks that end by calling this.
StartNextRound(g, wins, left) ==
  /\ games' = [games EXCEPT ![g].wins = wins]
  /\ timed' = timed \cup {g}
  /\ stray' = stray \ left
  /\ UNCHANGED <<playerGames, starting, away, elo, results>>

\* Mutant of HandleRoundEnd: more rounds than the target are asked for.
RoundEndBeyond(g, winner, winnerElo, left) ==
  LET wins == [games[g].wins EXCEPT ![winner] = @ + 1]
  IN  IF wins[winner] > RoundWinTarget
        THEN EndGame(g, wins, winner, winnerElo, Nobody, Nobody)
        ELSE StartNextRound(g, wins, left)

\* handle_round_end
HandleRoundEnd(g, winner, winnerElo, left) ==
  LET wins == [games[g].wins EXCEPT ![winner] = @ + 1]
  IN  IF wins[winner] >= RoundWinTarget
        THEN EndGame(g, wins, winner, winnerElo, Nobody, Nobody)
        ELSE StartNextRound(g, wins, left)

\* ai_guess by a player whose User object holds the rating userElo: the guess
\* that completes the score ends the round; any other changes scores only.
AiGuess(user, userElo) ==
  LET g == playerGames[user]
  IN  g # NoGame /\ HandleRoundEnd(g, user, userElo, {})

\* Mutant of TimerEndsRound: the task does not look whether its game is still there.
TimerEndsAnyRound(g) ==
  /\ g \in timed \cup stray
  /\ \E winner \in games[g].players : HandleRoundEnd(g, winner, elo[winner], {})

\* increase_scores and end_game_by_timeout, run by a timer task of a live game:
\* a player reaches the full score or leads when the time is up, and wins the
\* round with the rating the database has now; or the round is a tie.  A task
\* that is not registered survives the first and ends with the time.
TimerEndsRound(g) ==
  /\ Live(g)
  /\ g \in timed \cup stray
  /\ \E left \in {{}, stray \cap {g}} :
       \/ \E winner \in games[g].players : HandleRoundEnd(g, winner, elo[winner], left)
       \/ StartNextRound(g, games[g].wins, left)

Opponents(user, g) == games[g].players \ {user}

\* get_game_winner: the players with the most rounds
Leaders(g) ==
  { u \in games[g].players :
      \A v \in games[g].players : games[g].wins[v] <= games[g].wins[u] }

\* surrender_game, up to the lobby: the leader of the game wins it, whoever
\* surrenders; without a single leader the only opponent wins; with several
\* opponents the user is passed as winner and as the one who surrendered.
EndBySurrender(user, userElo) ==
  LET g == playerGames[user]
      End(winner, winnerElo, surrender) ==
        EndGame(g, games[g].wins, winner, winnerElo, surrender, user)
  IN  /\ g # NoGame
      /\ \/ \E w \in Leaders(g) : Leaders(g) = {w} /\ End(w, elo[w], Nobody)
         \/ /\ Cardinality(Leaders(g)) # 1
            /\ \E w \in Opponents(user, g) :
                 Opponents(user, g) = {w} /\ End(w, elo[w], Nobody)
         \/ /\ Cardinality(Leaders(g)) # 1
            /\ Cardinality(Opponents(user, g)) # 1
            /\ End(user, userElo, user)

=============================================================================
