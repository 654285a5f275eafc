------------------------------ MODULE PushSwap ------------------------------
(***************************************************************************)
(* push_swap: a stack of different numbers sorted with a second stack.     *)
(*                                                                         *)
(* A node is named by its value, since values do not repeat.  The top of a *)
(* stack is its head.  One action is one iteration of a loop that moves    *)
(* nodes; a decision between two loops goes with the first of them.        *)
(***************************************************************************)
EXTENDS Arguments

VARIABLES
  a, b,            \* the stacks
  above,           \* above_median of each node, since it was last set
  node, target,    \* cheapest_node and its target_node; smallest_node at the end
                   \* (IntMin before, which is no node's value)
  price,           \* push_price of node
  moves            \* history: rotations since init_nodes

pushSwap == <<a, b, above, node, target, price, moves>>

Values == IntMin + 1 .. IntMax - 1
Position(v, s) == (CHOOSE i \in DOMAIN s : s[i] = v) - 1

Push(s, t)       == <<Head(s)>> \o t
Rotate(s)        == IF s = <<>> THEN s ELSE Append(Tail(s), Head(s))
ReverseRotate(s) == IF s = <<>> THEN s ELSE <<s[Len(s)]>> \o SubSeq(s, 1, Len(s) - 1)
Swap(s)          == <<s[2], s[1]>> \o SubSeq(s, 3, Len(s))

-----------------------------------------------------------------------------
(***************************************************************************)
(* stack_init and main.                                                    *)
(***************************************************************************)
\* Without repetition_error
StackInitRepeating ==
  /\ pc = "read" /\ Len(a) < Len(args)
  /\ LET nb == args[Len(a) + 1] IN
       IF nb \notin Values THEN pc' = "refused" /\ UNCHANGED a
       ELSE a' = Append(a, nb) /\ UNCHANGED pc
  /\ UNCHANGED <<args, b, above, node, target, price, moves>>

StackInit ==
  /\ pc = "read" /\ Len(a) < Len(args)
  /\ LET nb == args[Len(a) + 1] IN
       IF nb \notin Values \/ nb \in Elements(a) THEN pc' = "refused" /\ UNCHANGED a
       ELSE a' = Append(a, nb) /\ UNCHANGED pc
  /\ UNCHANGED <<args, b, above, node, target, price, moves>>

\* No argument, which is one return, or one argument of blanks, which goes on
NoArguments ==
  /\ pc = "read" /\ args = <<>>
  /\ pc' = "refused"
  /\ UNCHANGED <<args, pushSwap>>

Main ==
  /\ pc = "read" /\ Len(a) = Len(args)
  /\ IF a # <<>> /\ Ascending(a) THEN pc' = "sorted" /\ UNCHANGED a
     ELSE IF Len(a) = 2 THEN pc' = "sorted" /\ a' = Swap(a)
     ELSE pc' = "push" /\ UNCHANGED a
  /\ UNCHANGED <<args, b, above, node, target, price, moves>>

-----------------------------------------------------------------------------
(***************************************************************************)
(* push_swap down to three nodes, and tiny_sort, which main calls too.     *)
(***************************************************************************)
PushB ==
  /\ pc = "push"
  /\ IF Len(a) > 3 THEN b' = Push(a, b) /\ a' = Tail(a) /\ UNCHANGED pc
     ELSE pc' = "highest" /\ UNCHANGED <<a, b>>
  /\ UNCHANGED <<args, above, node, target, price, moves>>

TinyRotate ==
  /\ pc = "highest"
  /\ a' = CASE a = <<>> -> a
            [] a # <<>> /\ \A v \in Elements(a) : v <= a[1] -> Rotate(a)
            [] Len(a) > 1 /\ \A v \in Elements(a) : v <= a[2] -> ReverseRotate(a)
            [] OTHER -> a
  /\ pc' = "swap"
  /\ UNCHANGED <<args, b, above, node, target, price, moves>>

\* An empty stack has no value: the program is killed
TinySwap ==
  /\ pc = "swap"
  /\ IF a = <<>> THEN pc' = "killed" /\ UNCHANGED a
     ELSE /\ a' = IF a[1] > a[2] THEN Swap(a) ELSE a
          /\ pc' = IF Len(args) = 3 THEN "sorted" ELSE "turn"
  /\ UNCHANGED <<args, b, above, node, target, price, moves>>

-----------------------------------------------------------------------------
(***************************************************************************)
(* init_nodes.                                                             *)
(***************************************************************************)
Smallest(S) == CHOOSE v \in S : \A w \in S : v <= w

\* set_current_position: the nodes of the two stacks, the others keep theirs
IsAbove(v, s) == Position(v, s) <= Len(s) \div 2
Medians(s, t) ==
  [v \in Values |-> IF v \in Elements(s) THEN IsAbove(v, s)
                    ELSE IF v \in Elements(t) THEN IsAbove(v, t) ELSE above[v]]

\* best_match taken for a node that is smaller
TargetNodeBelow(v) ==
  LET smaller == { w \in Elements(a) : w < v }
  IN  Smallest(IF smaller = {} THEN Elements(a) ELSE smaller)

\* set_target_node
TargetNode(v) ==
  LET greater == { w \in Elements(a) : w > v }
  IN  Smallest(IF greater = {} THEN Elements(a) ELSE greater)

\* set_price
Way(v, s) == IF IsAbove(v, s) THEN Position(v, s) ELSE Len(s) - Position(v, s)
PushPrice(v) == Way(v, b) + Way(TargetNode(v), a)

\* set_cheapest, return_cheapest: the first of them
IsCheapest(i) ==
  \A j \in DOMAIN b : IF j < i THEN PushPrice(b[i]) < PushPrice(b[j])
                     ELSE PushPrice(b[i]) <= PushPrice(b[j])

InitNodes ==
  /\ pc = "turn"
  /\ \E i \in DOMAIN b :
       /\ IsCheapest(i)
       /\ node' = b[i] /\ target' = TargetNode(b[i]) /\ price' = PushPrice(b[i])
  /\ moves' = 0
  /\ above' = Medians(a, b)
  /\ pc' = "both"
  /\ UNCHANGED <<args, a, b>>

-----------------------------------------------------------------------------
(***************************************************************************)
(* move_nodes.                                                             *)
(***************************************************************************)
Both == a[1] # target /\ b[1] # node

RotateBoth ==
  /\ pc = "both" /\ above[node] = above[target] /\ Both
  /\ IF above[node] THEN a' = Rotate(a) /\ b' = Rotate(b)
     ELSE a' = ReverseRotate(a) /\ b' = ReverseRotate(b)
  /\ moves' = moves + 1
  /\ UNCHANGED <<pc, args, above, node, target, price>>

BothRotated ==
  /\ pc = "both" /\ ~(above[node] = above[target] /\ Both)
  /\ above' = IF above[node] = above[target] THEN Medians(a, b) ELSE above
  /\ pc' = "finish"
  /\ UNCHANGED <<args, a, b, node, target, price, moves>>

Toward(v, s) == IF above[v] THEN Rotate(s) ELSE ReverseRotate(s)

\* finish_rotation that asks on which half the other node is
FinishAAskingB ==
  /\ pc = "finish" /\ a[1] # target
  /\ a' = Toward(node, a)
  /\ moves' = moves + 1
  /\ UNCHANGED <<pc, args, b, above, node, target, price>>

FinishA ==
  /\ pc = "finish" /\ a[1] # target
  /\ a' = Toward(target, a)
  /\ moves' = moves + 1
  /\ UNCHANGED <<pc, args, b, above, node, target, price>>

FinishB ==
  /\ pc = "finish" /\ a[1] = target /\ b[1] # node
  /\ b' = Toward(node, b)
  /\ moves' = moves + 1
  /\ UNCHANGED <<pc, args, a, above, node, target, price>>

PushA ==
  /\ pc = "finish" /\ a[1] = target /\ b[1] = node
  /\ a' = Push(b, a) /\ b' = Tail(b)
  /\ pc' = "turn"
  /\ UNCHANGED <<args, above, node, target, price, moves>>

-----------------------------------------------------------------------------
\* The end of push_swap: the smallest to the top
FindSmallest ==
  /\ pc = "turn" /\ b = <<>>
  /\ target' = Smallest(Elements(a)) /\ above' = Medians(a, b)
  /\ pc' = "last"
  /\ UNCHANGED <<args, a, b, node, price, moves>>

\* With no reverse rotation
LastRotationOneWay ==
  /\ pc = "last"
  /\ IF a[1] # target THEN a' = (IF above[target] THEN Rotate(a) ELSE a) /\ UNCHANGED pc
     ELSE pc' = "sorted" /\ UNCHANGED a
  /\ UNCHANGED <<args, b, above, node, target, price, moves>>

LastRotation ==
  /\ pc = "last"
  /\ IF a[1] # target THEN a' = Toward(target, a) /\ UNCHANGED pc
     ELSE pc' = "sorted" /\ UNCHANGED a
  /\ UNCHANGED <<args, b, above, node, target, price, moves>>

PushSwapInit ==
  /\ a = <<>> /\ b = <<>>
  /\ above = [v \in Values |-> FALSE]
  /\ node = IntMin /\ target = IntMin
  /\ price = 0 /\ moves = 0

PushSwapNext ==
  \/ StackInit \/ NoArguments \/ Main
  \/ PushB \/ TinyRotate \/ TinySwap
  \/ InitNodes \/ RotateBoth \/ BothRotated \/ FinishA \/ FinishB \/ PushA
  \/ FindSmallest \/ LastRotation
=============================================================================
