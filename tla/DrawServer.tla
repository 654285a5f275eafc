------------------------------ MODULE DrawServer ------------------------------
(***************************************************************************)
(* ft_transcendence/backend/ws: WebSocket connections, the messages they   *)
(* carry to games and lobbies, and the grace period of a player that       *)
(* disconnects during a game.                                              *)
(*                                                                         *)
(* A socket is one WebSocket handler task.  It handles its messages one    *)
(* after the other; different sockets interleave where a handler suspends  *)
(* before it changes more state: while it tells other players that a lobby *)
(* closed or lost a member (the send may also fail, and the rest of the    *)
(* handler is then skipped), between the disconnection of a player in a    *)
(* game and the start of its grace task, and during the grace period.      *)
(* Messages to clients are not modelled.                                   *)
(***************************************************************************)
EXTENDS DrawLobby

CONSTANT MaxSockets  \* bound: connections accepted in a behaviour

ASSUME ServerAssumption == MaxSockets \in Nat

Sockets == 1 .. MaxSockets
NoSocket == 0

VARIABLES
  sockets,      \* the handler tasks of the connections, in order of arrival
  connections,  \* connections: the socket registered for a user, or NoSocket
  grace         \* the grace task each socket left behind

vars == <<gameVars, lobbyVars, sockets, connections, grace>>

\* An open socket waits for a message; "leaving" and "cleaning" sockets are
\* suspended inside cleanup_lobby_on_disconnect, called for a "leave" message
\* and for a disconnection.  elo is what the User object read at connection says.
Socket == [user : Users \cup {Nobody}, elo : Int,
           phase : {"free", "open", "leaving", "cleaning", "closed"}]

GracePhase == {"none", "created", "asleep", "surrendered", "done"}

Init ==
  /\ GameInit
  /\ LobbyInit
  /\ sockets = [s \in Sockets |-> [user |-> Nobody, elo |-> 0, phase |-> "free"]]
  /\ connections = [u \in Users |-> NoSocket]
  /\ grace = [s \in Sockets |-> "none"]

User(s) == sockets[s].user
Open(s) == sockets[s].phase = "open"
Registered(u) == connections[u] # NoSocket

MovePhase(s, phase) == sockets' = [sockets EXCEPT ![s].phase = phase]
MoveGrace(s, phase) == grace' = [grace EXCEPT ![s] = phase]

\* Somebody has to be told of the lobbies that "user" leaves, so that the
\* handler suspends in a send.
Tells(user, registered) == \E u \in ToldOfCleanup(user) : registered[u] # NoSocket

-----------------------------------------------------------------------------
(* Connections *)

\* connect: a second connection of a user is refused, so only the first one
\* changes something.  A player on the list of the disconnected is taken off.
Connect(user) ==
  /\ ~Registered(user)
  /\ \E s \in Sockets :
       /\ sockets[s].phase = "free"
       /\ \A t \in Sockets : t < s => sockets[t].phase # "free"
       /\ sockets' = [sockets EXCEPT ![s] = [user |-> user, elo |-> elo[user],
                                             phase |-> "open"]]
       /\ connections' = [connections EXCEPT ![user] = s]
  /\ away' = Removed(away, {user})
  /\ UNCHANGED <<games, playerGames, starting, timed, stray, elo, results, lobbyVars, grace>>

\* utils.disconnect: everything the user has by then is forgotten
Forget(user) ==
  /\ connections' = [connections EXCEPT ![user] = NoSocket]
  /\ playerGames' = [playerGames EXCEPT ![user] = NoGame]
  /\ away' = Removed(away, {user})
  /\ queue' = WithoutQueued(user)
  /\ UNCHANGED <<games, starting, timed, stray, elo, results>>

\* disconnect, of a player in a game: the grace task is created
DropInGame(s) ==
  LET user == User(s)
  IN  /\ Open(s)
      /\ playerGames[user] # NoGame
      /\ connections' = [connections EXCEPT ![user] = NoSocket]
      /\ MovePhase(s, "closed")
      /\ MoveGrace(s, "created")
      /\ UNCHANGED <<gameVars, lobbyVars>>

\* disconnect, of a user in no game: its lobbies first, then all the rest;
\* the two come apart when somebody has to be told.
DropOutsideGame(s) ==
  LET user == User(s)
      unregistered == [connections EXCEPT ![user] = NoSocket]
  IN  /\ Open(s)
      /\ playerGames[user] = NoGame
      /\ lobbies' = AfterCleanup(user)
      /\ \/ /\ Tells(user, unregistered)
            /\ connections' = unregistered
            /\ MovePhase(s, "cleaning")
            /\ UNCHANGED <<gameVars, queue>>
         \/ /\ ~Tells(user, unregistered)
            /\ Forget(user)
            /\ MovePhase(s, "closed")
      /\ UNCHANGED grace

FinishDrop(s) ==
  /\ sockets[s].phase = "cleaning"
  /\ Forget(User(s))
  /\ MovePhase(s, "closed")
  /\ UNCHANGED <<lobbies, grace>>

\* A send to another player raised: the rest of disconnect is skipped.
AbortDrop(s) ==
  /\ sockets[s].phase = "cleaning"
  /\ MovePhase(s, "closed")
  /\ UNCHANGED <<gameVars, lobbyVars, connections, grace>>

\* An exception that websocket_endpoint does not catch (a frame that is not JSON,
\* a send of _reconnect_user that raises): disconnect is not called at all, and
\* the connection stays registered.
HandlerFails(s) ==
  /\ Open(s)
  /\ MovePhase(s, "closed")
  /\ UNCHANGED <<gameVars, lobbyVars, connections, grace>>

-----------------------------------------------------------------------------
(* Messages: handle_message *)

\* create_lobby and join_lobby look the user's socket up in connections first
\* and fail, with no effect, when it is not there.
CreateLobbyMsg(s) ==
  /\ Open(s)
  /\ Registered(User(s))
  /\ CreateLobby(User(s))
  /\ UNCHANGED <<gameVars, sockets, connections, grace>>

JoinLobbyMsg(s) ==
  /\ Open(s)
  /\ Registered(User(s))
  /\ \E c \in Codes : JoinLobby(User(s), c)
  /\ UNCHANGED <<gameVars, sockets, connections, grace>>

\* start_game: by the host of a lobby whose players are all free and connected
StartGameMsg(s) ==
  /\ Open(s)
  /\ \E c \in Hosts(User(s)) :
       /\ Cardinality(lobbies[c].players) >= 2
       /\ \A u \in lobbies[c].players : playerGames[u] = NoGame /\ Registered(u)
       /\ CreateGame(lobbies[c].players, FALSE)
  /\ UNCHANGED <<lobbyVars, sockets, connections, grace>>

FindPlayerMsg(s) ==
  /\ Open(s)
  /\ FindPlayer(User(s))
  /\ UNCHANGED <<sockets, connections, grace>>

\* The User object of the connection is what a winning guess hands to end_game.
GuessMsg(s) ==
  /\ Open(s)
  /\ AiGuess(User(s), sockets[s].elo)
  /\ UNCHANGED <<lobbyVars, sockets, connections, grace>>

\* surrender_game, from a message of the client
SurrenderMsg(s, leaveLobby) ==
  /\ Open(s)
  /\ EndBySurrender(User(s), sockets[s].elo)
  /\ lobbies' = IF leaveLobby THEN AfterCleanup(User(s)) ELSE AfterHostSurrender(User(s))
  /\ UNCHANGED <<queue, sockets, connections, grace>>

\* GET /api/surrender, which needs no socket and reads the user afresh
ApiSurrender(user) ==
  /\ EndBySurrender(user, elo[user])
  /\ lobbies' = AfterHostSurrender(user)
  /\ UNCHANGED <<queue, sockets, connections, grace>>

LeaveMsg(s) ==
  LET user == User(s)
  IN  /\ Open(s)
      /\ lobbies' = AfterCleanup(user)
      /\ \/ /\ Tells(user, connections)
            /\ MovePhase(s, "leaving")
            /\ UNCHANGED queue
         \/ /\ ~Tells(user, connections)
            /\ queue' = WithoutQueued(user)
            /\ UNCHANGED sockets
      /\ UNCHANGED <<gameVars, connections, grace>>

\* After the sends, or after one that raised
FinishLeave(s) ==
  /\ sockets[s].phase = "leaving"
  /\ MovePhase(s, "open")
  /\ queue' \in { WithoutQueued(User(s)), queue }
  /\ UNCHANGED <<gameVars, lobbies, connections, grace>>

-----------------------------------------------------------------------------
(* Grace period: _handle_disconnect_grace_period *)

GraceStart(s) ==
  /\ grace[s] = "created"
  /\ MoveGrace(s, "asleep")
  /\ away' = [away EXCEPT ![User(s)] = @ + 1]
  /\ UNCHANGED <<games, playerGames, starting, timed, stray, elo, results, lobbyVars,
                 sockets, connections>>

\* Ten seconds later the user is not on the list any more.
GraceReturned(s) ==
  /\ grace[s] = "asleep"
  /\ away[User(s)] = 0
  /\ MoveGrace(s, "done")
  /\ UNCHANGED <<gameVars, lobbyVars, sockets, connections>>

\* Mutant of GraceGameOver: the task returns when there is no game to surrender.
GraceGivesUp(s) ==
  /\ grace[s] = "asleep"
  /\ away[User(s)] > 0
  /\ playerGames[User(s)] = NoGame
  /\ MoveGrace(s, "done")
  /\ UNCHANGED <<gameVars, lobbyVars, sockets, connections>>

\* It is, but its game is over: it is only taken off the list.
GraceGameOver(s) ==
  /\ grace[s] = "asleep"
  /\ away[User(s)] > 0
  /\ playerGames[User(s)] = NoGame
  /\ away' = Removed(away, {User(s)})
  /\ MoveGrace(s, "done")
  /\ UNCHANGED <<games, playerGames, starting, timed, stray, elo, results, lobbyVars,
                 sockets, connections>>

\* Mutant of GraceSurrender: the lobby is left before the game is surrendered, so
\* that a send to a player of the lobby that raises skips the surrender.
GraceLeavesFirst(s) ==
  LET user == User(s)
  IN  /\ grace[s] = "asleep"
      /\ away[user] > 0
      /\ playerGames[user] # NoGame
      /\ lobbies' = AfterCleanup(user)
      /\ MoveGrace(s, IF Tells(user, connections) THEN "surrendered" ELSE "done")
      /\ IF Tells(user, connections) THEN UNCHANGED gameVars
                                     ELSE EndBySurrender(user, sockets[s].elo)
      /\ UNCHANGED <<queue, sockets, connections>>

\* It is, and it surrenders and leaves its lobby; the end of the game takes it
\* off the list once, and the task does so again after the sends.
GraceSurrender(s) ==
  LET user == User(s)
  IN  /\ grace[s] = "asleep"
      /\ away[user] > 0
      /\ EndBySurrender(user, sockets[s].elo)
      /\ lobbies' = AfterCleanup(user)
      /\ MoveGrace(s, IF away[user] = 1 /\ ~Tells(user, connections)
                        THEN "done" ELSE "surrendered")
      /\ UNCHANGED <<queue, sockets, connections>>

\* After the sends, or after one that raised
GraceFinish(s) ==
  /\ grace[s] = "surrendered"
  /\ MoveGrace(s, "done")
  /\ away' \in { Removed(away, {User(s)}), away }
  /\ UNCHANGED <<games, playerGames, starting, timed, stray, elo, results, lobbyVars,
                 sockets, connections>>

-----------------------------------------------------------------------------

TimerStep(g) ==
  /\ StartGameTimer(g) \/ TimerEndsRound(g)
  /\ UNCHANGED <<lobbyVars, sockets, connections, grace>>

SocketStep(s) ==
  \/ DropInGame(s) \/ DropOutsideGame(s) \/ FinishDrop(s) \/ AbortDrop(s)
  \/ HandlerFails(s)
  \/ CreateLobbyMsg(s) \/ JoinLobbyMsg(s) \/ StartGameMsg(s) \/ FindPlayerMsg(s)
  \/ GuessMsg(s) \/ LeaveMsg(s) \/ FinishLeave(s)
  \/ \E leaveLobby \in BOOLEAN : SurrenderMsg(s, leaveLobby)

GraceStep(s) ==
  GraceStart(s) \/ GraceReturned(s) \/ GraceGameOver(s) \/ GraceSurrender(s) \/ GraceFinish(s)

Next ==
  \/ \E u \in Users : Connect(u) \/ ApiSurrender(u)
  \/ \E s \in Sockets : SocketStep(s) \/ GraceStep(s)
  \/ \E g \in GameIds : TimerStep(g)

Spec == Init /\ [][Next]_vars

-----------------------------------------------------------------------------
(* Properties *)

TypeOK ==
  /\ GameTypeOK
  /\ LobbyTypeOK
  /\ sockets \in [Sockets -> Socket]
  /\ connections \in [Users -> Sockets \cup {NoSocket}]
  /\ grace \in [Sockets -> GracePhase]

\* A user's entry leads to a live game it plays in, so no lookup of a game by
\* its id (disconnect, _reconnect_user, ai_guess, surrender_game) can fail,
\* whatever tasks were suspended when the game ended.
EntriesLeadToLiveGames ==
  \A u \in Users : playerGames[u] # NoGame =>
    LET g == playerGames[u] IN Live(g) /\ u \in games[g].players

\* A live game always has a timer task, or the task that starts it: no player
\* is ever kept by a game that nothing would end.
LiveGamesAreTimed == \A g \in GameIds : Live(g) => g \in starting \cup timed

\* A ranked game has two players, so exactly one rating goes up and one down.
RankedGamesAreDuels ==
  \A g \in GameIds : games[g].ranked => Cardinality(games[g].players) = 2

\* A game that is over stays as it ended: timers, guesses and grace tasks that
\* outlive it decide nothing any more.
EndedGamesStayEnded ==
  [][\A g \in GameIds : games[g].state = "over" => games'[g] = games[g]]_vars

\* Whoever is on the list of the disconnected has a grace task under way that
\* will find it there.
AwayIsWatched ==
  \A u \in Users :
    away[u] <= Cardinality({ s \in Sockets : User(s) = u /\ grace[s] = "asleep" })

\* The host of an open lobby is one of its players, on every way out of a lobby
\* (leave, disconnect, surrender): only the host can start its game.
LobbiesKeepTheirHost ==
  \A c \in Codes : lobbies[c].state = "open" => lobbies[c].host \in lobbies[c].players

\* A game is won by as many rounds as the target, unless somebody surrendered;
\* then nobody had reached it.
GamesEndAtTheTarget ==
  \A g \in GameIds :
    LET reached == { u \in games[g].players : games[g].wins[u] >= RoundWinTarget }
    IN  /\ (games[g].state = "over" /\ games[g].quitter = Nobody)
             => reached # {} /\ reached = games[g].winners
        /\ (Live(g) \/ games[g].quitter # Nobody) => reached = {}

-----------------------------------------------------------------------------
(* What the documentation and the code's own messages say, and the code does *)
(* not do: each of these is refuted by a run.                                *)

\* README.md, Ranking: "ELO update after ranked games".  A rating is the sum of
\* the ranked results of its user.
RatingsCountEveryRankedGame == elo = results

\* README.md, Surrender: "forfeit a match".  Whoever surrenders does not win.
WhoSurrendersDoesNotWin == \A g \in GameIds : games[g].quitter \notin games[g].winners

\* README.md, Reconnection: "disconnected players rejoin the ongoing game during a
\* grace period".  The end of a grace period forfeits no game of a user who is back.
GraceSparesWhoIsBack ==
  [][\A s \in Sockets : GraceSurrender(s) => ~Registered(User(s))]_vars
=============================================================================
