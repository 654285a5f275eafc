------------------------------ MODULE Sorting -------------------------------
(***************************************************************************)
(* The two sorting programs of the repository, each with any arguments.    *)
(***************************************************************************)
EXTENDS PushSwap, PmergeMe

CONSTANT Inputs

\* Every argument is a number, in range or not
ASSUME InputsAssumption == Inputs \subseteq Seq(Int)

VARIABLE program

vars == <<program, pc, args, pushSwap, pmergeMe>>

Init ==
  /\ args \in Inputs
  /\ \/ program = "push_swap" /\ pc = "read"
     \/ program = "PmergeMe" /\ pc = "check"
  /\ PushSwapInit /\ PmergeMeInit

Next ==
  \/ PushSwapNext /\ UNCHANGED <<program, pmergeMe>>
  \/ PmergeMeNext /\ UNCHANGED <<program, pushSwap>>

\* A program that can go on does
Spec == Init /\ [][Next]_vars /\ WF_vars(Next)

-----------------------------------------------------------------------------
TypeOK ==
  /\ program \in {"push_swap", "PmergeMe"}
  /\ pc \in {"read", "push", "highest", "swap", "turn", "both", "finish", "last",
             "check", "sort", "return", "insert", "sorted", "refused", "killed"}
  /\ a \in Seq(Values) /\ b \in Seq(Values)
  /\ Len(a) + Len(b) = Cardinality(Elements(a) \cup Elements(b))
  /\ above \in [Values -> BOOLEAN] /\ {node, target} \subseteq Values \cup {IntMin}
  /\ price \in Nat /\ moves \in Nat
  /\ c \in Seq(1 .. IntMax) /\ order \in Seq(1 .. Len(args))
  /\ \A i \in DOMAIN frames : Len(frames[i].ogMain) = Len(frames[i].pend)

(***************************************************************************)
(* Whenever push_swap looks for the next node to push, and while it        *)
(* rotates, one rotation would sort stack a; and PmergeMe inserts only     *)
(* into a sorted main in which the larger of each pair still is            *)
(* (set_target_node, insertSmallBeforeBig).                                *)
(***************************************************************************)
Descents(s) == { i \in DOMAIN s : s[i] > s[IF i = Len(s) THEN 1 ELSE i + 1] }
WorkStaysInOrder ==
  /\ pc \in {"turn", "both", "finish", "last"} => Cardinality(Descents(a)) <= 1
  /\ pc = "insert" =>
       /\ Ascending(c)
       /\ \A i \in DOMAIN order : Call.ogMain[order[i]] \in Elements(c)

\* A node is on its target after no more rotations than the price it was
\* chosen for, although the halves the nodes are on are not looked up again
\* after each rotation (set_price, rotate_both, finish_rotation)
PriceIsPaid ==
  /\ pc \in {"both", "finish"} => moves <= price
  /\ pc = "finish" => moves + Way(target, a) + Way(node, b) <= price

\* What the programs take
Taken ==
  /\ args # <<>>
  /\ IF program = "push_swap"
     THEN /\ \A i \in DOMAIN args : args[i] \in Values
          /\ \A i, j \in DOMAIN args : i # j => args[i] # args[j]
     ELSE \A i \in DOMAIN args : args[i] \in 1 .. IntMax

Promise == INSTANCE Sorter
     WITH taken  <- Taken,
          meant  <- program = "PmergeMe" \/ args # <<>>,
          answer <- IF pc \in {"sorted", "refused"} THEN pc ELSE "none",
          list   <- IF program = "push_swap" THEN a ELSE c

\* Both programs sort what they take, losing and inventing no number, and
\* refuse the rest; neither changes its answer
ImplementsSorter == Promise!Spec

\* Both come to an answer, but push_swap does not have to for a list without
\* numbers (argument_error, tiny_sort)
AnswersComeAtLast == Promise!AnswersAtLast
=============================================================================
