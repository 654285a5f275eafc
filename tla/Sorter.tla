------------------------------- MODULE Sorter -------------------------------
(***************************************************************************)
(* What a sorting program promises: for arguments that it takes, the same  *)
(* numbers in ascending order; for others a refusal; and an answer to all  *)
(* arguments but those it is not meant for.                                *)
(***************************************************************************)
EXTENDS Integers, Sequences, FiniteSets

VARIABLES
  taken,       \* whether these are arguments the program takes
  meant,       \* whether it is meant for these arguments
  args,
  answer,      \* "none" so far, "refused" or "sorted"
  list         \* what it has arranged

InOrder(s) == \A i \in 1 .. Len(s) - 1 : s[i] <= s[i + 1]
Occurrences(s, x) == Cardinality({ i \in DOMAIN s : s[i] = x })
Rearranges(s, t) ==
  /\ Len(s) = Len(t)
  /\ \A i \in DOMAIN s : Occurrences(s, s[i]) = Occurrences(t, s[i])

Answer ==
  /\ answer = "none"
  /\ IF taken THEN answer' = "sorted" /\ InOrder(list') /\ Rearranges(args, list')
     ELSE answer' = "refused"
  /\ UNCHANGED <<taken, meant, args>>

\* Before its answer, the program may arrange as it likes
Arrange == answer = "none" /\ UNCHANGED <<taken, meant, args, answer>>

Init == answer = "none"
Next == Answer \/ Arrange
Spec == Init /\ [][Next]_<<taken, meant, args, answer, list>>

AnswersAtLast == <>(meant => answer # "none")
=============================================================================
