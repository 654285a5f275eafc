----------------------------- MODULE MCSorting ------------------------------
(***************************************************************************)
(* All lists of up to three arguments, acceptable or not; all permutations *)
(* of up to seven numbers; lists with repetitions; and lists of twelve.    *)
(***************************************************************************)
EXTENDS Sorting

SeqsUpTo(n, T) == UNION { [1 .. m -> T] : m \in 0 .. n }

MCIntMin == -1

MCInputs ==
  SeqsUpTo(3, {IntMin, 0, 1, 2, IntMax})
  \cup UNION { SetToSeqs(1 .. n) : n \in 4 .. 7 }
  \cup [1 .. 6 -> 1 .. 2]
  \cup { [i \in 1 .. 12 |-> (k * i) % 13] : k \in 1 .. 12 }
  \cup { [i \in 1 .. 11 |-> ((k * i) % 7) + 1] : k \in 1 .. 6 }
=============================================================================
