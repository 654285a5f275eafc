----------------------------- MODULE Arguments -----------------------------
(***************************************************************************)
(* What push_swap and PmergeMe are both started with: numbers.  An         *)
(* argument that is the text of no int is a number out of range here, and  *)
(* any other is its value.  So two texts of a sign are left out: a lone    *)
(* one, which push_swap takes for 0, and "+5", which PmergeMe refuses.     *)
(***************************************************************************)
EXTENDS Integers, Sequences, FiniteSets

CONSTANTS IntMin, IntMax

ASSUME IntAssumption == IntMin \in Int /\ IntMax \in Int /\ IntMin < IntMax

VARIABLES
  pc,          \* where the program is; how it ended
  args         \* argv

Elements(s) == { s[i] : i \in DOMAIN s }

\* stack_is_sorted, inputIsAlreadySorted
Ascending(s) == \A i \in 1 .. Len(s) - 1 : s[i] <= s[i + 1]
=============================================================================
