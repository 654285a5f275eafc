------------------------------ MODULE PmergeMe ------------------------------
(***************************************************************************)
(* PmergeMe (cpp 09, ex02): the merge-insertion sort of Ford and Johnson,  *)
(* once for a vector and once for a deque with the same steps.             *)
(*                                                                         *)
(* fordJohnson calls itself on the larger number of each pair; frames are  *)
(* the calls that wait, the innermost last.                                *)
(***************************************************************************)
EXTENDS Arguments, SequencesExt

VARIABLES
  c,           \* the container, and main of the innermost call
  frames,      \* ogMain, pend and the straggler, if any, of each call
  order        \* what is left of jacobOrder in putPendInMain

pmergeMe == <<c, frames, order>>

\* inputIsCorrect, parseArgsToContainer, inputIsAlreadySorted
ReadInput ==
  /\ pc = "check"
  /\ IF args = <<>> \/ \E i \in DOMAIN args : args[i] \notin 1 .. IntMax
     THEN pc' = "refused" /\ UNCHANGED c
     ELSE c' = args /\ pc' = IF Ascending(args) THEN "sorted" ELSE "sort"
  /\ UNCHANGED <<args, frames, order>>

-----------------------------------------------------------------------------
Pairs(s) == [i \in 1 .. Len(s) \div 2 |-> <<s[2 * i - 1], s[2 * i]>>]
Larger(p)  == IF p[1] > p[2] THEN p[1] ELSE p[2]
Smaller(p) == IF p[1] > p[2] THEN p[2] ELSE p[1]

\* fordJohnson down to its call of itself
SortPairsAndPush ==
  /\ pc = "sort" /\ Len(c) > 1
  /\ LET pairs == Pairs(c)
         main  == [i \in DOMAIN pairs |-> Larger(pairs[i])]
     IN  /\ c' = main
         /\ frames' = Append(frames,
              [ogMain |-> main, pend |-> [i \in DOMAIN pairs |-> Smaller(pairs[i])],
               straggler |-> SubSeq(c, 2 * Len(pairs) + 1, Len(c))])
  /\ UNCHANGED <<pc, args, order>>

Innermost ==
  /\ pc = "sort" /\ Len(c) <= 1
  /\ pc' = "return"
  /\ UNCHANGED <<args, pmergeMe>>

-----------------------------------------------------------------------------
(***************************************************************************)
(* jacobsthalOrder: steps at 1, 3, 5, 11, ..., the numbers of a step       *)
(* downwards, the last step cut off at k.  A step fills as many places as  *)
(* it is long: those up to its end.                                        *)
(***************************************************************************)
Jacobsthal[n \in Nat] ==
  IF n < 2 THEN n ELSE Jacobsthal[n - 1] + 2 * Jacobsthal[n - 2]

Pal(k) == ({ Jacobsthal[n] : n \in 1 .. k } \cap 1 .. k) \cup {k}
StepEnd(x, k)    == Min({ cur \in Pal(k) : cur >= x })
StepBefore(x, k) == Max({ prev \in Pal(k) \cup {0} : prev < x })

\* The last step left out
JacobsthalOrderCut(k) ==
  [x \in 1 .. StepBefore(k, k) |-> StepEnd(x, k) + StepBefore(x, k) + 1 - x]

JacobsthalOrder(k) ==
  [x \in 1 .. k |-> StepEnd(x, k) + StepBefore(x, k) + 1 - x]

Call == frames[Len(frames)]
First(s, x) == CHOOSE i \in DOMAIN s : s[i] = x /\ \A j \in 1 .. i - 1 : s[j] # x

\* lower_bound among the first n, which are sorted
LowerBound(s, n, x) == Cardinality({ i \in 1 .. n : s[i] < x }) + 1

\* putPendInMain: the partner of the smallest goes to the front
PutFirst ==
  /\ pc = "return" /\ frames # <<>>
  /\ LET first == First(Call.ogMain, c[1])
     IN  /\ c' = <<Call.pend[first]>> \o c
         /\ order' = RemoveFirst(JacobsthalOrder(Len(Call.pend)), first)
  /\ pc' = "insert"
  /\ UNCHANGED <<args, frames>>

\* insertSmallBeforeBig; nothing is inserted when big is not found
InsertSmallBeforeBig ==
  /\ pc = "insert" /\ order # <<>>
  /\ LET small == Call.pend[order[1]]
         big   == Call.ogMain[order[1]]
     IN  c' = IF big \in Elements(c)
              THEN InsertAt(c, LowerBound(c, First(c, big) - 1, small), small) ELSE c
  /\ order' = Tail(order)
  /\ UNCHANGED <<pc, args, frames>>

\* The straggler, and the return to the call before
InsertStraggler ==
  /\ pc = "insert" /\ order = <<>>
  /\ c' = IF Call.straggler = <<>> THEN c
          ELSE InsertAt(c, LowerBound(c, Len(c), Call.straggler[1]), Call.straggler[1])
  /\ frames' = SubSeq(frames, 1, Len(frames) - 1)
  /\ pc' = "return"
  /\ UNCHANGED <<args, order>>

Returned ==
  /\ pc = "return" /\ frames = <<>>
  /\ pc' = "sorted"
  /\ UNCHANGED <<args, pmergeMe>>

PmergeMeInit == c = <<>> /\ frames = <<>> /\ order = <<>>

PmergeMeNext ==
  \/ ReadInput \/ SortPairsAndPush \/ Innermost
  \/ PutFirst \/ InsertSmallBeforeBig \/ InsertStraggler \/ Returned
=============================================================================
