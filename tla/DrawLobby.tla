------------------------------ MODULE DrawLobby ------------------------------
(***************************************************************************)
(* ft_transcendence/backend/game/lobby_logic.py and the matchmaking queue: *)
(* private lobbies, held by code, and the list of users waiting for an     *)
(* opponent.                                                               *)
(*                                                                         *)
(* A code is an index here; a fresh code is the next index, so the order   *)
(* of the codes is the order the dictionary of lobbies is walked in.       *)
(***************************************************************************)
EXTENDS DrawGame, Sequences

CONSTANTS MaxLobbies,  \* bound: lobbies created in a behaviour
          LobbySize    \* players a lobby takes, 4 in join_lobby

ASSUME LobbyAssumption == MaxLobbies \in Nat /\ LobbySize \in Nat \ {0}

Codes == 1 .. MaxLobbies

VARIABLES
  lobbies,  \* lobbies, by code
  queue     \* matchmaking_queue

lobbyVars == <<lobbies, queue>>

Lobby == [state : {"free", "open", "closed"}, host : Users \cup {Nobody},
          players : SUBSET Users]

FreeLobby == [state |-> "free", host |-> Nobody, players |-> {}]
ClosedLobby == [FreeLobby EXCEPT !.state = "closed"]

LobbyInit ==
  /\ lobbies = [c \in Codes |-> FreeLobby]
  /\ queue = <<>>

LobbyTypeOK ==
  /\ lobbies \in [Codes -> Lobby]
  /\ queue \in Seq(Users)

Queued == { queue[i] : i \in DOMAIN queue }

\* remove_from_matchmaking: list.remove takes the first occurrence out
WithoutQueued(user) ==
  IF user \notin Queued THEN queue
  ELSE LET first == CHOOSE i \in DOMAIN queue :
                      queue[i] = user /\ \A j \in 1 .. i - 1 : queue[j] # user
       IN  SubSeq(queue, 1, first - 1) \o SubSeq(queue, first + 1, Len(queue))

-----------------------------------------------------------------------------

\* create_lobby: nothing is asked about other lobbies or games of the host
CreateLobby(user) ==
  /\ queue' = WithoutQueued(user)
  /\ \E c \in Codes :
       /\ lobbies[c].state = "free"
       /\ \A d \in Codes : d < c => lobbies[d].state # "free"
       /\ lobbies' = [lobbies EXCEPT ![c] = [state |-> "open", host |-> user,
                                             players |-> {user}]]

\* join_lobby: the user leaves the queue even when the lobby refuses it
JoinLobby(user, c) ==
  /\ queue' = WithoutQueued(user)
  /\ lobbies' =
       IF /\ lobbies[c].state = "open"
          /\ Cardinality(lobbies[c].players) < LobbySize
          /\ user \notin lobbies[c].players
         THEN [lobbies EXCEPT ![c].players = @ \cup {user}]
         ELSE lobbies

\* find_player: the head of the queue is the opponent, whatever its rating,
\* its connection and its games; with an empty queue the user waits.  (README.md
\* promises a range of ratings that grows; its constants in game_manager.py are unused.)
FindPlayer(user) ==
  /\ playerGames[user] = NoGame
  /\ user \notin Queued
  /\ UNCHANGED lobbies
  /\ \/ /\ queue # <<>>
        /\ queue' = Tail(queue)
        /\ CreateGame({Head(queue), user}, TRUE)
     \/ /\ queue = <<>>
        /\ queue' = Append(queue, user)
        /\ UNCHANGED gameVars

-----------------------------------------------------------------------------
(* Leaving lobbies *)

Hosts(user)   == { c \in Codes : lobbies[c].state = "open" /\ lobbies[c].host = user }
Members(user) == { c \in Codes : lobbies[c].state = "open" /\ user \in lobbies[c].players }

\* cleanup_lobby_on_disconnect walks the lobbies of the user in order and stops
\* at the first one it hosts, which close_lobby closes.
Cleaned(user) ==
  { c \in Members(user) : \A d \in Hosts(user) \cap Members(user) : c <= d }

\* Mutant of AfterCleanup: a host leaves its lobby like any other player.
AfterLeaving(user) ==
  [c \in Codes |-> IF c \in Cleaned(user) THEN [lobbies[c] EXCEPT !.players = @ \ {user}]
                                         ELSE lobbies[c]]

AfterCleanup(user) ==
  [c \in Codes |->
     IF c \notin Cleaned(user) THEN lobbies[c]
     ELSE IF lobbies[c].host = user THEN ClosedLobby
     ELSE [lobbies[c] EXCEPT !.players = @ \ {user}]]

\* Who is told: everybody in a lobby that closes, the others in one that is left
ToldOfCleanup(user) ==
  UNION { IF lobbies[c].host = user THEN lobbies[c].players
          ELSE lobbies[c].players \ {user} : c \in Cleaned(user) }

\* surrender_game without leaving: the first lobby the user hosts is closed
AfterHostSurrender(user) ==
  [c \in Codes |->
     IF /\ c \in Hosts(user) \cap Members(user)
        /\ \A d \in Hosts(user) \cap Members(user) : c <= d
       THEN ClosedLobby ELSE lobbies[c]]

=============================================================================
