----------------------------- MODULE MCMiniServ -----------------------------
(***************************************************************************)
(* Values of MiniServ's constants for TLC.                                 *)
(***************************************************************************)
EXTENDS MiniServ

CONSTANTS c1, c2

TwoClients == {c1, c2}
\* One types a line in pieces or two lines, the other a line or a part of one
Texts == [c \in Clients |-> IF c = c1 THEN 2 ELSE 1]
=============================================================================
