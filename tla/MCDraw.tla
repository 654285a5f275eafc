-------------------------------- MODULE MCDraw --------------------------------
(***************************************************************************)
(* DrawServer with a few users, connections, games and lobbies.  Users are *)
(* interchangeable.  No step of the backend asks for a rating before it    *)
(* acts, so the runs that ask nothing of ratings identify the states that  *)
(* differ in ratings only.                                                 *)
(***************************************************************************)
EXTENDS DrawServer, TLC

Symmetry == Permutations(Users)

\* A closed socket whose grace task is over, if it had one, never acts again.
Gone(s) == sockets[s].phase = "closed" /\ grace[s] \in {"none", "done"}

WithoutRatings ==
  <<games, playerGames, starting, timed, stray, away, lobbies, queue, connections,
    [s \in Sockets |-> IF Gone(s) THEN "gone" ELSE
                          <<sockets[s].user, sockets[s].phase, grace[s]>>]>>

===============================================================================
