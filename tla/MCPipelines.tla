---------------------------- MODULE MCPipelines ----------------------------
(***************************************************************************)
(* Lines of one to four commands,  with every kind of node, more data than *)
(* a pipe holds, and redirections in the middle of a line.                 *)
(***************************************************************************)
EXTENDS Pipelines

Stage(kind, adds, wants, copies, c) ==
  [kind |-> kind, in |-> "default", out |-> "default",
   adds |-> adds, wants |-> wants, copies |-> copies, code |-> c]

Source(n) == Stage("external", n, 0, FALSE, 0)
Echo      == Stage("forked", 1, 0, FALSE, 0)
Cat       == Stage("external", 0, 4, TRUE, 0)
Grep      == Stage("external", 0, 4, FALSE, 1)
Head1      == Stage("external", 0, 1, TRUE, 0)
Missing   == Stage("missing", 0, 0, FALSE, 0)
Unforked  == Stage("unforked", 0, 0, FALSE, 0)
Cd        == Stage("inside", 0, 0, FALSE, 1)
Leave     == Stage("exit", 0, 0, FALSE, 0)
To(s, place)   == [s EXCEPT !.out = place]
From(s, place) == [s EXCEPT !.in = place]

MCLines == {
  <<Source(3), Cat, Cat, Head1>>, <<Source(3), Cat, Grep>>, <<Source(3), Head1>>, <<Echo>>,
  <<Missing, Grep>>, <<Source(3), Missing>>, <<Source(1), Missing, Cat>>,
  <<Cd>>, <<Source(3), Cd>>, <<Unforked, Grep>>, <<Leave, Cat>>,
  <<To(Source(3), "file"), Grep>>, <<Cat, From(Grep, "file")>> }

MCPipexLines == {
  <<Source(1), To(Grep, "file")>>, <<Source(3), To(Head1, "file")>>,
  <<From(Cat, "nofile"), To(Grep, "file")>>, <<Missing, To(Cat, "file")>>,
  <<Source(2), To(Grep, "nofile")>>, <<Source(1), Missing>> }

MCPicoLines == {
  <<Source(3), Cat, Head1, Grep>>,
  <<Source(3), Cat, Grep>>, <<Source(3), Head1, Cat>>, <<Missing, Cat>>, <<Source(3), Missing>>,
  <<Echo>> }
=============================================================================
