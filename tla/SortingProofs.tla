--------------------------- MODULE SortingProofs ----------------------------
(***************************************************************************)
(* For any arguments: push_swap keeps its stacks one rotation from sorted  *)
(* and turns no more than it priced, PmergeMe inserts only into a sorted   *)
(* main in which it finds the larger of the pair.                          *)
(***************************************************************************)
EXTENDS Sorting, FiniteSetTheorems, ExtremeNumbers

-----------------------------------------------------------------------------
(***************************************************************************)
(* Sequences, element by element.                                          *)
(***************************************************************************)

\* An element of a sequence is of its elements' kind.
LEMMA ElementIs ==
  ASSUME NEW T, NEW s \in Seq(T), NEW i \in 1 .. Len(s)
  PROVE  s[i] \in T
OBVIOUS

\* A function from 1 .. n is a sequence.
LEMMA SequenceFrom ==
  ASSUME NEW T, NEW n \in Nat, NEW s, s = [i \in 1 .. n |-> s[i]],
         \A i \in 1 .. n : s[i] \in T
  PROVE  s \in Seq(T) /\ Len(s) = n
<1>1. s \in [1 .. n -> T]
  OBVIOUS
<1> QED BY <1>1

\* What a sequence has.
LEMMA ElementsOf ==
  ASSUME NEW T, NEW s \in Seq(T)
  PROVE  /\ Elements(s) = { s[i] : i \in 1 .. Len(s) } /\ Elements(s) \subseteq T
         /\ Len(s) \in Nat /\ DOMAIN s = 1 .. Len(s)
BY DEF Elements

\* The first of a sequence, and the rest.
LEMMA TailIs ==
  ASSUME NEW T, NEW s \in Seq(T), s # <<>>
  PROVE  /\ Head(s) = s[1] /\ s[1] \in T /\ Tail(s) \in Seq(T)
         /\ Len(Tail(s)) = Len(s) - 1 /\ Len(s) >= 1
         /\ \A i \in 1 .. Len(s) - 1 : Tail(s)[i] = s[i + 1]
OBVIOUS

\* A sequence without its last.
LEMMA FrontIs ==
  ASSUME NEW T, NEW s \in Seq(T), s # <<>>
  PROVE  /\ SubSeq(s, 1, Len(s) - 1) \in Seq(T) /\ Len(SubSeq(s, 1, Len(s) - 1)) = Len(s) - 1
         /\ \A i \in 1 .. Len(s) - 1 : SubSeq(s, 1, Len(s) - 1)[i] = s[i]
<1> DEFINE m == Len(s) - 1
<1>1. m \in 0 .. Len(s) /\ Len(s) \in Nat
  OBVIOUS
<1> HIDE DEF m
<1>2. SubSeq(s, 1, m) \in Seq(T) /\ Len(SubSeq(s, 1, m)) = m
  BY <1>1
<1>3. \A i \in 1 .. m : SubSeq(s, 1, m)[i] = s[i]
  BY <1>1
<1> QED BY <1>2, <1>3 DEF m

\* Push puts the head of s on t.
LEMMA PushIs ==
  ASSUME NEW T, NEW s \in Seq(T), s # <<>>, NEW t \in Seq(T)
  PROVE  /\ Push(s, t) \in Seq(T) /\ Len(Push(s, t)) = Len(t) + 1
         /\ Push(s, t)[1] = s[1]
         /\ \A i \in 1 .. Len(t) : Push(s, t)[i + 1] = t[i]
BY DEF Push

\* Where what stands at a place of a turned stack stood.
After(s, i) == IF i = Len(s) THEN 1 ELSE i + 1
Before(s, i) == IF i = 1 THEN Len(s) ELSE i - 1

\* Rotate takes every node one place up, the top to the bottom.
LEMMA RotateIs ==
  ASSUME NEW T, NEW s \in Seq(T), s # <<>>
  PROVE  /\ Rotate(s) \in Seq(T) /\ Len(Rotate(s)) = Len(s) /\ Len(s) \in Nat \ {0}
         /\ \A i \in 1 .. Len(s) : Rotate(s)[i] = s[After(s, i)]
BY DEF Rotate, After

\* ReverseRotate takes every node one place down, the bottom to the top.
LEMMA ReverseIs ==
  ASSUME NEW T, NEW s \in Seq(T), s # <<>>
  PROVE  /\ ReverseRotate(s) \in Seq(T) /\ Len(ReverseRotate(s)) = Len(s)
         /\ Len(s) \in Nat \ {0}
         /\ \A i \in 1 .. Len(s) : ReverseRotate(s)[i] = s[Before(s, i)]
BY DEF ReverseRotate, Before

-----------------------------------------------------------------------------
(***************************************************************************)
(* The stacks and their rotations.                                         *)
(***************************************************************************)
Distinct(s) == \A i, j \in 1 .. Len(s) : s[i] = s[j] => i = j
OneDescent(s) == \A i, j \in Descents(s) : i = j

\* What a rotation leaves: the nodes, that none is there twice, and how far the stack
\* is from sorted.
LEMMA RotationKeeps ==
  ASSUME NEW T, T \subseteq Int, NEW s \in Seq(T), s # <<>>,
         NEW t, t = Rotate(s) \/ t = ReverseRotate(s)
  PROVE  /\ t \in Seq(T) /\ Len(t) = Len(s) /\ Elements(t) = Elements(s)
         /\ Distinct(s) => Distinct(t)
         /\ OneDescent(s) => OneDescent(t)
<1> DEFINE n == Len(s)
<1>1. /\ t \in Seq(T) /\ Len(t) = n /\ n \in Nat \ {0}
      /\ \/ \A i \in 1 .. n : t[i] = s[After(s, i)]
         \/ \A i \in 1 .. n : t[i] = s[Before(s, i)]
  BY RotateIs, ReverseIs
<1>2. \A i \in 1 .. n : /\ After(s, i) \in 1 .. n /\ Before(s, i) \in 1 .. n
                        /\ After(s, Before(s, i)) = i /\ Before(s, After(s, i)) = i
  BY <1>1 DEF After, Before
<1>3. /\ DOMAIN s = 1 .. n /\ DOMAIN t = 1 .. n
      /\ Elements(s) = { s[i] : i \in 1 .. n } /\ Elements(t) = { t[i] : i \in 1 .. n }
  BY <1>1, ElementsOf
<1>4. /\ Descents(s) = { i \in 1 .. n : s[i] > s[After(s, i)] }
      /\ Descents(t) = { i \in 1 .. n : t[i] > t[After(s, i)] }
  BY <1>1, <1>3 DEF Descents, After
<1> HIDE DEF n
<1>5. CASE \A i \in 1 .. n : t[i] = s[After(s, i)]
  <2>1. Elements(t) = Elements(s)
    BY <1>2, <1>3, <1>5
  <2>2. Distinct(s) => Distinct(t)
    <3> SUFFICES ASSUME Distinct(s), NEW i \in 1 .. n, NEW j \in 1 .. n, t[i] = t[j]
                 PROVE  i = j
      BY <1>1 DEF Distinct
    <3>1. After(s, i) = After(s, j)
      BY <1>2, <1>5 DEF Distinct, n
    <3> QED BY <1>2, <3>1
  <2>3. \A i \in Descents(t) : After(s, i) \in Descents(s) /\ i \in 1 .. n
    BY <1>2, <1>4, <1>5
  <2>4. OneDescent(s) => OneDescent(t)
    BY <1>2, <2>3 DEF OneDescent
  <2> QED BY <1>1, <2>1, <2>2, <2>4 DEF n
<1>6. CASE \A i \in 1 .. n : t[i] = s[Before(s, i)]
  <2>1. Elements(t) = Elements(s)
    BY <1>2, <1>3, <1>6
  <2>2. Distinct(s) => Distinct(t)
    <3> SUFFICES ASSUME Distinct(s), NEW i \in 1 .. n, NEW j \in 1 .. n, t[i] = t[j]
                 PROVE  i = j
      BY <1>1 DEF Distinct
    <3>1. Before(s, i) = Before(s, j)
      BY <1>2, <1>6 DEF Distinct, n
    <3> QED BY <1>2, <3>1
  <2>3. \A i \in Descents(t) : Before(s, i) \in Descents(s) /\ i \in 1 .. n
    BY <1>2, <1>4, <1>6
  <2>4. OneDescent(s) => OneDescent(t)
    BY <1>2, <2>3 DEF OneDescent
  <2> QED BY <1>1, <2>1, <2>2, <2>4 DEF n
<1> QED BY <1>1, <1>5, <1>6

\* The position of a node counts from 0.
LEMMA PositionIs ==
  ASSUME NEW T, NEW s \in Seq(T), Distinct(s), NEW v \in Elements(s)
  PROVE  \E k \in 1 .. Len(s) : v = s[k] /\ Position(v, s) = k - 1
<1>1. PICK k \in 1 .. Len(s) : v = s[k]
  BY ElementsOf
<1>2. (CHOOSE i \in DOMAIN s : s[i] = v) = k
  <2>1. \A i \in DOMAIN s : s[i] = v => i = k
    BY <1>1, ElementsOf DEF Distinct
  <2>2. k \in DOMAIN s
    BY <1>1, ElementsOf
  <2> QED BY <1>1, <2>1, <2>2
<1> QED BY <1>1, <1>2 DEF Position

\* The rotations that take v to the top, if they all go the way up says
Turns(v, s, up) ==
  IF Position(v, s) = 0 THEN 0 ELSE IF up THEN Position(v, s) ELSE Len(s) - Position(v, s)

\* Turning a stack the way of a node that is not at the top takes it closer.
LEMMA TurnsFewer ==
  ASSUME NEW T, T \subseteq Int, NEW s \in Seq(T), Distinct(s), NEW v \in Elements(s),
         v # s[1], NEW up \in BOOLEAN,
         NEW t, t = IF up THEN Rotate(s) ELSE ReverseRotate(s)
  PROVE  Turns(v, t, up) \in Nat /\ Turns(v, s, up) = Turns(v, t, up) + 1
<1> DEFINE n == Len(s)
<1>1. PICK k \in 1 .. n : v = s[k] /\ Position(v, s) = k - 1
  BY PositionIs
<1>2. n \in Nat /\ k \in 2 .. n /\ s # <<>>
  BY <1>1
<1>3. t \in Seq(T) /\ Len(t) = n /\ Elements(t) = Elements(s) /\ Distinct(t)
  BY <1>2, RotationKeeps
<1>4. PICK m \in 1 .. n : v = t[m] /\ Position(v, t) = m - 1
  BY <1>3, PositionIs
<1>5. CASE up
  <2>1. t[k - 1] = s[k] /\ k - 1 \in 1 .. n
    <3>1. After(s, k - 1) = k /\ k - 1 \in 1 .. n
      BY <1>2 DEF After
    <3> QED BY <1>2, <1>5, <3>1, RotateIs
  <2>2. m = k - 1
    BY <1>1, <1>3, <1>4, <2>1 DEF Distinct
  <2> QED BY <1>1, <1>2, <1>4, <1>5, <2>2 DEF Turns
<1>6. CASE ~up
  <2> DEFINE l == IF k = n THEN 1 ELSE k + 1
  <2>1. t[l] = s[k] /\ l \in 1 .. n
    <3>1. Before(s, l) = k /\ l \in 1 .. n
      BY <1>2 DEF Before
    <3> QED BY <1>2, <1>6, <3>1, ReverseIs
  <2>2. m = l
    BY <1>1, <1>3, <1>4, <2>1 DEF Distinct
  <2> QED BY <1>1, <1>2, <1>3, <1>4, <1>6, <2>2 DEF Turns
<1> QED BY <1>5, <1>6

\* The way of a node is the shorter of the two ways round.
LEMMA WayIs ==
  ASSUME NEW T, T \subseteq Int, NEW s \in Seq(T), Distinct(s), NEW v \in Elements(s),
         NEW up \in BOOLEAN
  PROVE  /\ Turns(v, s, up) \in Nat /\ Way(v, s) \in Nat /\ Way(v, s) <= Turns(v, s, up)
         /\ Turns(v, s, IsAbove(v, s)) = Way(v, s) /\ IsAbove(v, s) \in BOOLEAN
<1> DEFINE n == Len(s)
           p == Position(v, s)
<1>1. n \in Nat /\ p \in 0 .. n - 1
  BY PositionIs
<1>2. \A l \in Nat : /\ l \div 2 \in Nat /\ l \div 2 <= l - (l \div 2)
                    /\ l - (l \div 2) <= (l \div 2) + 1
  OBVIOUS
<1>3. n \div 2 \in Nat /\ n \div 2 <= n - (n \div 2) /\ n - (n \div 2) <= (n \div 2) + 1
  BY <1>1, <1>2
<1> QED BY <1>1, <1>3 DEF Turns, Way, IsAbove

-----------------------------------------------------------------------------
(***************************************************************************)
(* The node a node is pushed upon.                                         *)
(***************************************************************************)

\* A set of values has a smallest.
LEMMA SmallestIs ==
  ASSUME NEW S, S \subseteq Values, S # {}
  PROVE  Smallest(S) \in S /\ \A w \in S : Smallest(S) <= w
<1> USE IntAssumption
<1> DEFINE D == { v - IntMin : v \in S }
<1>1. \A v \in S : v \in Int /\ v - IntMin \in Nat
  BY DEF Values
<1>2. D \subseteq Nat /\ D # {}
  BY <1>1
<1> HIDE DEF D
<1>3. PICK d \in D : \A e \in D : d <= e
  BY <1>2, Least
<1>4. PICK v \in S : d = v - IntMin
  BY DEF D
<1>5. \A w \in S : v <= w
  <2>1. \A w \in S : v - IntMin <= w - IntMin
    BY <1>3, <1>4 DEF D
  <2> QED BY <1>1, <2>1
<1> QED BY <1>5 DEF Smallest

\* t is the least of s above v, or of all if none is
IsTarget(t, v, s) ==
  /\ t \in Elements(s)
  /\ \/ v < t /\ \A w \in Elements(s) : v < w => t <= w
     \/ \A w \in Elements(s) : w < v /\ t <= w

\* set_target_node finds it.
LEMMA TargetIs ==
  ASSUME a \in Seq(Values), a # <<>>, NEW v \in Values, v \notin Elements(a)
  PROVE  IsTarget(TargetNode(v), v, a)
<1> USE IntAssumption
<1> DEFINE S == Elements(a)
           greater == { w \in S : w > v }
<1>1. S \subseteq Values /\ S # {}
  <2>1. a[1] \in S /\ S \subseteq Values
    BY ElementsOf
  <2> QED BY <2>1
<1> HIDE DEF S
<1>2. CASE greater = {}
  <2>1. TargetNode(v) = Smallest(S)
    BY <1>2 DEF TargetNode, S
  <2>2. \A w \in S : w < v
    BY <1>1, <1>2 DEF Values, S
  <2> QED BY <1>1, <2>1, <2>2, SmallestIs DEF IsTarget, S
<1>3. CASE greater # {}
  <2>1. TargetNode(v) = Smallest(greater)
    BY <1>3 DEF TargetNode, S
  <2>2. greater \subseteq Values
    BY <1>1
  <2>3. Smallest(greater) \in greater /\ \A w \in greater : Smallest(greater) <= w
    BY <1>3, <2>2, SmallestIs
  <2> QED BY <1>1, <2>1, <2>3 DEF IsTarget, S, Values
<1> QED BY <1>2, <1>3

\* A push takes the first of u to the top of s; nothing is lost or doubled.
LEMMA PushMoves ==
  ASSUME NEW T, NEW s \in Seq(T), NEW u \in Seq(T), u # <<>>,
         Distinct(s), Distinct(u), Elements(s) \cap Elements(u) = {}
  PROVE  /\ Push(u, s) \in Seq(T) /\ Tail(u) \in Seq(T) /\ Push(u, s) # <<>>
         /\ Len(Push(u, s)) = Len(s) + 1 /\ Len(Tail(u)) = Len(u) - 1
         /\ Distinct(Push(u, s)) /\ Distinct(Tail(u))
         /\ Elements(Push(u, s)) \cap Elements(Tail(u)) = {}
         /\ u[1] \in Elements(u) /\ u[1] \notin Elements(s)
<1> DEFINE t == Push(u, s)
           r == Tail(u)
           n == Len(s)
           m == Len(u)
           v == u[1]
<1>1. /\ t \in Seq(T) /\ Len(t) = n + 1 /\ t[1] = v /\ \A i \in 1 .. n : t[i + 1] = s[i]
      /\ n \in Nat
  <2>1. n \in Nat
    OBVIOUS
  <2>2. /\ t \in Seq(T) /\ Len(t) = n + 1
        /\ t[1] = v
        /\ \A i \in 1 .. n : t[i + 1] = s[i]
    BY PushIs
  <2> QED BY <2>1, <2>2
<1>2. r \in Seq(T) /\ Len(r) = m - 1 /\ m \in Nat /\ m >= 1 /\ \A i \in 1 .. m - 1 : r[i] = u[i + 1]
  BY TailIs
<1>3. /\ Elements(s) = { s[i] : i \in 1 .. n } /\ Elements(u) = { u[i] : i \in 1 .. m }
      /\ Elements(t) = { t[i] : i \in 1 .. n + 1 } /\ Elements(r) = { r[i] : i \in 1 .. m - 1 }
  <2>1. \A q \in Seq(T) : Elements(q) = { q[i] : i \in 1 .. Len(q) }
    BY ElementsOf
  <2> HIDE DEF t, r
  <2>2. Elements(t) = { t[i] : i \in 1 .. n + 1 }
    BY <1>1, <2>1
  <2>3. Elements(r) = { r[i] : i \in 1 .. m - 1 }
    BY <1>2, <2>1
  <2> QED BY <2>1, <2>2, <2>3
<1> HIDE DEF t, r
<1>4. \A i \in 1 .. n + 1 : i = 1 \/ (i - 1 \in 1 .. n /\ t[i] = s[i - 1])
  <2> SUFFICES ASSUME NEW i \in 1 .. n + 1, i # 1 PROVE i - 1 \in 1 .. n /\ t[i] = s[i - 1]
    OBVIOUS
  <2>1. i - 1 \in 1 .. n /\ (i - 1) + 1 = i
    BY <1>1
  <2>2. t[(i - 1) + 1] = s[i - 1]
    BY <1>1, <2>1
  <2> QED BY <2>1, <2>2
<1>5. v \in Elements(u) /\ v \notin Elements(s)
  <2>1. 1 \in 1 .. m
    BY <1>2
  <2> QED BY <1>3, <2>1
<1>6. Distinct(t)
  <2> SUFFICES ASSUME NEW i \in 1 .. n + 1, NEW j \in 1 .. n + 1, t[i] = t[j] PROVE i = j
    BY <1>1 DEF Distinct
  <2>1. CASE i # 1 /\ j # 1
    <3>1. s[i - 1] = s[j - 1] /\ i - 1 \in 1 .. n /\ j - 1 \in 1 .. n
      BY <1>4, <2>1
    <3>2. i - 1 = j - 1
      BY <3>1 DEF Distinct
    <3> QED BY <1>1, <3>2
  <2>2. CASE i = 1 /\ j # 1
    BY <1>1, <1>3, <1>4, <1>5, <2>2
  <2>3. CASE j = 1 /\ i # 1
    BY <1>1, <1>3, <1>4, <1>5, <2>3
  <2> QED BY <2>1, <2>2, <2>3
<1>7. \A i \in 1 .. m - 1 : i + 1 \in 1 .. m /\ i + 1 # 1 /\ r[i] = u[i + 1] /\ i \in Int
  BY <1>2
<1>8. Distinct(r)
  <2> SUFFICES ASSUME NEW i \in 1 .. m - 1, NEW j \in 1 .. m - 1, r[i] = r[j] PROVE i = j
    BY <1>2 DEF Distinct
  <2>1. i + 1 = j + 1
    BY <1>7 DEF Distinct
  <2> QED BY <1>7, <2>1
<1>9. Elements(t) \cap Elements(r) = {}
  <2> SUFFICES ASSUME NEW i \in 1 .. n + 1, NEW j \in 1 .. m - 1, t[i] = r[j] PROVE FALSE
    BY <1>3
  <2>1. r[j] \in Elements(u) /\ r[j] # v
    <3>1. 1 \in 1 .. m
      BY <1>2
    <3> QED BY <1>3, <1>7, <3>1 DEF Distinct
  <2> QED BY <1>1, <1>3, <1>4, <2>1
<1>10. t # <<>>
  BY <1>1
<1> QED BY <1>1, <1>2, <1>5, <1>6, <1>8, <1>9, <1>10 DEF t, r

\* A node that is put upon its target leaves the stack one rotation from sorted.
LEMMA PushOrders ==
  ASSUME NEW T, T \subseteq Int, NEW s \in Seq(T), s # <<>>, NEW u \in Seq(T), u # <<>>,
         Distinct(s), OneDescent(s), u[1] \notin Elements(s), IsTarget(s[1], u[1], s)
  PROVE  OneDescent(Push(u, s))
<1> DEFINE t == Push(u, s)
           v == u[1]
           n == Len(s)
<1>1. n \in Nat \ {0} /\ v \in Int /\ \A i \in 1 .. n : s[i] \in Int /\ s[i] \in Elements(s)
  <2>1. n \in Nat \ {0}
    OBVIOUS
  <2>2. v \in T
    BY TailIs
  <2>3. \A i \in 1 .. n : s[i] \in Elements(s)
    BY ElementsOf
  <2>4. \A i \in 1 .. n : s[i] \in T
    BY ElementIs
  <2> QED BY <2>1, <2>2, <2>3, <2>4
<1>2. t \in Seq(T) /\ Len(t) = n + 1 /\ t[1] = v /\ \A i \in 1 .. n : t[i + 1] = s[i]
  BY PushIs
<1>3. DOMAIN t = 1 .. n + 1 /\ DOMAIN s = 1 .. n
  BY <1>2
<1> HIDE DEF t, v
<1>4. \A i \in 2 .. n + 1 : i - 1 \in 1 .. n /\ t[i] = s[i - 1]
  <2> SUFFICES ASSUME NEW i \in 2 .. n + 1 PROVE i - 1 \in 1 .. n /\ t[i] = s[i - 1]
    OBVIOUS
  <2>1. i - 1 \in 1 .. n /\ (i - 1) + 1 = i
    BY <1>1
  <2>2. t[(i - 1) + 1] = s[i - 1]
    BY <1>2, <2>1
  <2> QED BY <2>1, <2>2
<1>5. \A i \in Descents(t) : \/ i = 1 /\ v > s[1]
                             \/ i \in 2 .. n /\ i - 1 \in Descents(s)
                             \/ i = n + 1 /\ s[n] > v
  <2> SUFFICES ASSUME NEW i \in 1 .. n + 1, t[i] > t[IF i = n + 1 THEN 1 ELSE i + 1]
               PROVE  \/ i = 1 /\ v > s[1]
                      \/ i \in 2 .. n /\ i - 1 \in Descents(s)
                      \/ i = n + 1 /\ s[n] > v
    BY <1>2, <1>3 DEF Descents
  <2>1. CASE i = 1
    <3>1. t[1 + 1] = s[1] /\ 1 # n + 1
      BY <1>1, <1>2
    <3> QED BY <1>2, <2>1, <3>1
  <2>2. CASE i \in 2 .. n
    <3>1. t[i] = s[i - 1] /\ t[i + 1] = s[i] /\ i # n + 1
      BY <1>1, <1>2, <1>4, <2>2
    <3>2. i - 1 \in 1 .. n /\ i - 1 # n /\ (i - 1) + 1 = i
      BY <1>1, <2>2
    <3> QED BY <1>3, <2>2, <3>1, <3>2 DEF Descents
  <2>3. CASE i = n + 1
    <3>1. t[n + 1] = s[n]
      BY <1>1, <1>2
    <3> QED BY <1>2, <2>3, <3>1
  <2> QED BY <1>1, <2>1, <2>2, <2>3
<1>6. n > 1 /\ s[1] <= s[n] => n \in Descents(s)
  <2>1. n > 1 => s[1] # s[n]
    BY <1>1 DEF Distinct
  <2> QED BY <1>1, <1>3, <2>1 DEF Descents
<1>7. OneDescent(t)
  <2>1. CASE v < s[1] /\ \A w \in Elements(s) : v < w => s[1] <= w
    <3>1. \A i \in Descents(t) : \/ i \in 2 .. n /\ i - 1 \in Descents(s)
                                 \/ i = n + 1 /\ (n = 1 \/ n \in Descents(s))
      <4>1. s[n] > v => s[1] <= s[n]
        BY <1>1, <2>1
      <4>2. ~(v > s[1])
        BY <1>1, <2>1
      <4>3. n = 1 \/ n > 1
        <5>1. \A m \in Nat \ {0} : m = 1 \/ m > 1
          OBVIOUS
        <5> QED BY <1>1, <5>1
      <4>4. s[n] > v => n = 1 \/ n \in Descents(s)
        BY <1>6, <4>1, <4>3
      <4> QED BY <1>5, <4>2, <4>4
    <3>2. \A i \in Descents(t) : n = 1 => i = 2
      BY <1>1, <3>1
    <3>3. \A i \in Descents(t) : n # 1 => i - 1 \in Descents(s) /\ i \in Int
      BY <1>1, <3>1
    <3>4. ASSUME NEW i \in Descents(t), NEW j \in Descents(t) PROVE i = j
      <4>1. n # 1 => i - 1 = j - 1 /\ i \in Int /\ j \in Int
        BY <3>3 DEF OneDescent
      <4> QED BY <3>2, <4>1
    <3> QED BY <3>4 DEF OneDescent
  <2>2. CASE \A w \in Elements(s) : w < v /\ s[1] <= w
    <3>1. \A i \in Descents(t) : i = 1 \/ (i \in 2 .. n /\ i - 1 \in Descents(s))
      BY <1>1, <1>5, <2>2
    <3>2. n > 1 => n \in Descents(s)
      BY <1>1, <1>6, <2>2
    <3>3. \A i \in 2 .. n : i - 1 \notin Descents(s)
      <4>1. \A i \in 2 .. n : n > 1 /\ i - 1 # n
        BY <1>1
      <4> QED BY <3>2, <4>1 DEF OneDescent
    <3> QED BY <3>1, <3>3 DEF OneDescent
  <2> QED BY <2>1, <2>2 DEF IsTarget, v
<1> QED BY <1>7 DEF t

\* Three nodes in order have only the descent from the last to the first.
LEMMA ThreeInOrder ==
  ASSUME NEW T, T \subseteq Int, NEW s \in Seq(T), Len(s) = 3, s[1] <= s[2], s[2] <= s[3]
  PROVE  OneDescent(s)
<1>1. \A i \in Descents(s) : i = 3
  <2>1. DOMAIN s = 1 .. 3
    OBVIOUS
  <2>2. s[1] \in Int /\ s[2] \in Int /\ s[3] \in Int
    <3>1. \A i \in 1 .. 3 : s[i] \in T
      BY ElementIs
    <3>2. 1 \in 1 .. 3 /\ 2 \in 1 .. 3 /\ 3 \in 1 .. 3
      OBVIOUS
    <3>3. s[1] \in T /\ s[2] \in T /\ s[3] \in T
      BY <3>1, <3>2
    <3> QED BY <3>3
  <2> QED BY <2>1, <2>2 DEF Descents
<1> QED BY <1>1 DEF OneDescent

-----------------------------------------------------------------------------
(***************************************************************************)
(* How stacks are built and swapped.                                       *)
(***************************************************************************)

\* append_node adds a number that is not there yet.
LEMMA AppendKeeps ==
  ASSUME NEW T, NEW s \in Seq(T), Distinct(s), NEW v \in T, v \notin Elements(s)
  PROVE  Append(s, v) \in Seq(T) /\ Distinct(Append(s, v))
<1> DEFINE t == Append(s, v)
           n == Len(s)
<1>1. t \in Seq(T) /\ Len(t) = n + 1 /\ n \in Nat /\ t[n + 1] = v /\ \A i \in 1 .. n : t[i] = s[i]
  OBVIOUS
<1>2. \A i \in 1 .. n : s[i] # v
  BY ElementsOf
<1> HIDE DEF t
<1>3. \A i, j \in 1 .. n + 1 : t[i] = t[j] => i = j
  <2>1. \A i \in 1 .. n + 1 : i \in 1 .. n \/ i = n + 1
    BY <1>1
  <2> QED BY <1>1, <1>2, <2>1 DEF Distinct
<1> QED BY <1>1, <1>3 DEF t, Distinct

\* sa: the two at the top change places.
LEMMA SwapIs ==
  ASSUME NEW T, NEW s \in Seq(T), Len(s) \in {2, 3}
  PROVE  /\ Swap(s) \in Seq(T) /\ Len(Swap(s)) = Len(s)
         /\ Swap(s)[1] = s[2] /\ Swap(s)[2] = s[1] /\ (Len(s) = 3 => Swap(s)[3] = s[3])
         /\ Elements(Swap(s)) = Elements(s) /\ (Distinct(s) => Distinct(Swap(s)))
<1> DEFINE t == Swap(s)
<1>1. /\ t \in Seq(T) /\ Len(t) = Len(s) /\ t[1] = s[2] /\ t[2] = s[1]
      /\ Len(s) = 3 => t[3] = s[3]
  <2>1. /\ SubSeq(s, 3, Len(s)) \in Seq(T) /\ Len(SubSeq(s, 3, Len(s))) = Len(s) - 2
        /\ Len(s) = 3 => SubSeq(s, 3, Len(s))[1] = s[3]
    OBVIOUS
  <2>2. s[1] \in T /\ s[2] \in T
    OBVIOUS
  <2>3. <<s[2], s[1]>> \in Seq(T) /\ Len(<<s[2], s[1]>>) = 2
    BY <2>2
  <2> DEFINE r == SubSeq(s, 3, Len(s))
             h == <<s[2], s[1]>>
  <2>4. h[1] = s[2] /\ h[2] = s[1]
    OBVIOUS
  <2> HIDE DEF r, h
  <2>5. /\ h \o r \in Seq(T) /\ Len(h \o r) = 2 + (Len(s) - 2)
        /\ (h \o r)[1] = h[1] /\ (h \o r)[2] = h[2]
        /\ Len(s) = 3 => (h \o r)[3] = r[1]
    BY <2>1, <2>3 DEF r, h
  <2> QED BY <2>1, <2>4, <2>5 DEF Swap, r, h
<1>2. /\ Elements(s) = { s[i] : i \in 1 .. Len(s) } /\ Elements(t) = { t[i] : i \in 1 .. Len(s) }
  BY <1>1, ElementsOf
<1> HIDE DEF t
<1>3. \A i \in 1 .. Len(s) : \E j \in 1 .. Len(s) : t[i] = s[j]
  BY <1>1
<1>4. \A i \in 1 .. Len(s) : \E j \in 1 .. Len(s) : s[i] = t[j]
  BY <1>1
<1>5. Elements(t) = Elements(s)
  BY <1>2, <1>3, <1>4
<1>6. Distinct(s) => Distinct(t)
  BY <1>1 DEF Distinct
<1> QED BY <1>1, <1>5, <1>6 DEF t

-----------------------------------------------------------------------------
(***************************************************************************)
(* The inductive invariant of push_swap.                                   *)
(***************************************************************************)
Stacks ==
  /\ a \in Seq(Values) /\ b \in Seq(Values)
  /\ Distinct(a) /\ Distinct(b) /\ Elements(a) \cap Elements(b) = {}
  /\ above \in [Values -> BOOLEAN] /\ {node, target} \subseteq Values \cup {IntMin}
  /\ price \in Nat /\ moves \in Nat

\* What each loop of push_swap finds, so that what set_target_node and tiny_sort take for
\* granted is there
Stages ==
  /\ pc = "read" => b = <<>>
  /\ pc = "push" => Len(a) = 0 \/ Len(a) >= 3
  /\ pc \in {"highest", "swap"} => Len(a) \in {0, 3}
  /\ pc = "swap" /\ a # <<>> => a[1] <= a[3] /\ a[2] <= a[3]
  /\ pc \in {"turn", "both", "finish", "last"} => a # <<>> /\ OneDescent(a)
  /\ pc \in {"both", "finish"} => node \in Elements(b) /\ IsTarget(target, node, a)

\* The rotations there were, and those to come the way each node goes now
Payable ==
  pc \in {"both", "finish"} =>
    moves + Turns(target, a, above[target]) + Turns(node, b, above[node]) <= price

SInv == Stacks /\ Stages /\ Payable

\* Nothing of the invariant is about what else changes.
LEMMA SInvOf ==
  ASSUME SInv, UNCHANGED pushSwap,
         pc' \notin {"read", "push", "highest", "swap", "turn", "both", "finish", "last"}
  PROVE  SInv'
<1>1. Stacks'
  BY DEF SInv, Stacks, pushSwap
<1>2. Stages' /\ Payable'
  BY DEF Stages, Payable
<1> QED BY <1>1, <1>2 DEF SInv

\* Reading the arguments leaves one node, or two to swap, or none, or at least three.
LEMMA ReadingKeeps ==
  ASSUME SInv, StackInit \/ NoArguments \/ Main
  PROVE  SInv'
<1> USE DEF SInv
<1>1. CASE StackInit
  <2> DEFINE nb == args[Len(a) + 1]
  <2>1. CASE nb \notin Values \/ nb \in Elements(a)
    <3>1. pc' = "refused" /\ UNCHANGED pushSwap
      BY <1>1, <2>1 DEF StackInit, pushSwap
    <3> QED BY <3>1, SInvOf
  <2>2. CASE nb \in Values /\ nb \notin Elements(a)
    <3>1. /\ a' = Append(a, nb) /\ pc = "read" /\ pc' = "read"
          /\ UNCHANGED <<b, above, node, target, price, moves>>
      BY <1>1, <2>2 DEF StackInit
    <3>2. a' \in Seq(Values) /\ Distinct(a')
      BY <2>2, <3>1, AppendKeeps DEF Stacks
    <3>3. b = <<>> /\ Elements(a') \cap Elements(b) = {}
      BY <3>1 DEF Stages, Elements
    <3>4. Stacks'
      BY <3>1, <3>2, <3>3 DEF Stacks
    <3>5. Stages' /\ Payable'
      BY <3>1, <3>3 DEF Stages, Payable
    <3> QED BY <3>4, <3>5
  <2> QED BY <2>1, <2>2
<1>2. CASE NoArguments
  <2>1. pc' = "refused" /\ UNCHANGED pushSwap
    BY <1>2 DEF NoArguments
  <2> QED BY <2>1, SInvOf
<1>3. CASE Main
  <2>1. UNCHANGED <<b, above, node, target, price, moves>>
    BY <1>3 DEF Main
  <2>2. CASE pc' = "sorted" /\ UNCHANGED a
    <3>1. UNCHANGED pushSwap
      BY <2>1, <2>2 DEF pushSwap
    <3> QED BY <2>2, <3>1, SInvOf
  <2>3. CASE pc' = "sorted" /\ Len(a) = 2 /\ a' = Swap(a)
    <3>1. /\ a' \in Seq(Values) /\ Elements(a') = Elements(a) /\ Distinct(a')
      BY <2>3, SwapIs DEF Stacks
    <3>2. Stacks'
      BY <2>1, <3>1 DEF Stacks
    <3>3. Stages' /\ Payable'
      BY <2>3 DEF Stages, Payable
    <3> QED BY <3>2, <3>3
  <2>4. CASE pc' = "push" /\ UNCHANGED a /\ ~ (a # <<>> /\ Ascending(a)) /\ Len(a) # 2
    <3>1. Len(a) \in Nat /\ (Len(a) = 0 <=> a = <<>>)
      BY DEF Stacks
    <3>2. Len(a) # 1
      BY <2>4, <3>1 DEF Ascending
    <3>3. Len(a') = 0 \/ Len(a') >= 3
      <4>1. \A m \in Nat : m = 0 \/ m = 1 \/ m = 2 \/ m >= 3
        OBVIOUS
      <4> QED BY <2>4, <3>1, <3>2, <4>1
    <3>4. Stacks'
      BY <2>1, <2>4 DEF Stacks
    <3>5. Stages' /\ Payable'
      BY <2>4, <3>3 DEF Stages, Payable
    <3> QED BY <3>4, <3>5
  <2> QED BY <1>3, <2>2, <2>3, <2>4 DEF Main
<1> QED BY <1>1, <1>2, <1>3


\* push_swap leaves three nodes, and tiny_sort puts the highest of them last.
LEMMA ShrinkingKeeps ==
  ASSUME SInv, PushB \/ TinyRotate
  PROVE  SInv'
<1> USE DEF SInv
<1>1. /\ a \in Seq(Values) /\ b \in Seq(Values) /\ Distinct(a) /\ Distinct(b)
      /\ Elements(a) \cap Elements(b) = {} /\ Values \subseteq Int
      /\ Len(a) \in Nat /\ (Len(a) = 0 <=> a = <<>>)
  BY DEF Stacks, Values
<1>2. CASE PushB
  <2>1. UNCHANGED <<above, node, target, price, moves>> /\ pc = "push"
    BY <1>2 DEF PushB
  <2>2. CASE Len(a) > 3 /\ b' = Push(a, b) /\ a' = Tail(a) /\ pc' = "push"
    <3>1. /\ a' \in Seq(Values) /\ b' \in Seq(Values) /\ Distinct(a') /\ Distinct(b')
          /\ Elements(a') \cap Elements(b') = {} /\ Len(a') = Len(a) - 1
      <4>1. a # <<>> /\ Elements(b) \cap Elements(a) = {}
        BY <1>1, <2>2
      <4>2. /\ Push(a, b) \in Seq(Values) /\ Tail(a) \in Seq(Values) /\ Push(a, b) # <<>>
            /\ Len(Push(a, b)) = Len(b) + 1 /\ Len(Tail(a)) = Len(a) - 1
            /\ Distinct(Push(a, b)) /\ Distinct(Tail(a))
            /\ Elements(Push(a, b)) \cap Elements(Tail(a)) = {}
            /\ a[1] \in Elements(a) /\ a[1] \notin Elements(b)
        BY <1>1, <4>1, PushMoves
      <4> QED BY <2>2, <4>2
    <3>2. Stacks'
      BY <2>1, <3>1 DEF Stacks
    <3>3. Len(a') >= 3
      BY <1>1, <2>2, <3>1
    <3>4. Stages' /\ Payable'
      BY <2>2, <3>3 DEF Stages, Payable
    <3> QED BY <3>2, <3>4
  <2>3. CASE ~ (Len(a) > 3) /\ pc' = "highest" /\ UNCHANGED <<a, b>>
    <3>1. Len(a) = 0 \/ Len(a) >= 3
      BY <2>1 DEF Stages
    <3>2. Len(a') \in {0, 3}
      <4>1. \A m \in Nat : ~ (m > 3) /\ (m = 0 \/ m >= 3) => m \in {0, 3}
        OBVIOUS
      <4> QED BY <1>1, <2>3, <3>1, <4>1
    <3>3. Stacks'
      BY <2>1, <2>3 DEF Stacks
    <3>4. Stages' /\ Payable'
      BY <2>3, <3>2 DEF Stages, Payable
    <3> QED BY <3>3, <3>4
  <2> QED BY <1>2, <2>2, <2>3 DEF PushB
<1>3. CASE TinyRotate
  <2>1. UNCHANGED <<b, above, node, target, price, moves>> /\ pc = "highest" /\ pc' = "swap"
    BY <1>3 DEF TinyRotate
  <2>2. Len(a) \in {0, 3}
    BY <2>1 DEF Stages
  <2>3. CASE a = <<>>
    <3>1. a' = a
      BY <1>3, <2>3 DEF TinyRotate
    <3>2. Stacks'
      BY <2>1, <3>1 DEF Stacks
    <3>3. Len(a') = 0 /\ a' = <<>>
      BY <2>3, <3>1
    <3>4. Stages' /\ Payable'
      BY <2>1, <3>3 DEF Stages, Payable
    <3> QED BY <3>2, <3>4
  <2>4. CASE a # <<>>
    <3>1. Len(a) = 3
      BY <1>1, <2>2, <2>4
    <3>2. \A v \in Elements(a) : v = a[1] \/ v = a[2] \/ v = a[3]
      <4>1. \A i \in 1 .. 3 : i = 1 \/ i = 2 \/ i = 3
        OBVIOUS
      <4>2. \A v \in Elements(a) : \E i \in 1 .. 3 : v = a[i]
        BY <1>1, <3>1, ElementsOf
      <4> QED BY <4>1, <4>2
    <3>3. {a[1], a[2], a[3]} \subseteq Elements(a) /\ {a[1], a[2], a[3]} \subseteq Int
      <4>1. {a[1], a[2], a[3]} \subseteq Elements(a)
        BY <1>1, <3>1, ElementsOf
      <4>2. Elements(a) \subseteq Values
        BY <1>1, ElementsOf
      <4> QED BY <1>1, <4>1, <4>2
    <3>4. \/ (\A v \in Elements(a) : v <= a[1]) /\ a' = Rotate(a)
          \/ (\A v \in Elements(a) : v <= a[2]) /\ a' = ReverseRotate(a)
          \/ /\ a' = a
             /\ ~ \A v \in Elements(a) : v <= a[1]
             /\ ~ \A v \in Elements(a) : v <= a[2]
      BY <1>3, <2>4, <3>1 DEF TinyRotate
    <3>5. /\ a' \in Seq(Values) /\ Len(a') = 3 /\ Elements(a') = Elements(a) /\ Distinct(a')
      BY <1>1, <2>4, <3>1, <3>4, RotationKeeps
    <3>6. /\ Rotate(a)[1] = a[2] /\ Rotate(a)[2] = a[3] /\ Rotate(a)[3] = a[1]
          /\ ReverseRotate(a)[1] = a[3] /\ ReverseRotate(a)[2] = a[1] /\ ReverseRotate(a)[3] = a[2]
      <4>1. \A i \in 1 .. 3 : Rotate(a)[i] = a[After(a, i)] /\ ReverseRotate(a)[i] = a[Before(a, i)]
        BY <1>1, <2>4, <3>1, RotateIs, ReverseIs
      <4> QED BY <3>1, <4>1 DEF After, Before
    <3>7. a'[1] <= a'[3] /\ a'[2] <= a'[3]
      <4>1. CASE (\A v \in Elements(a) : v <= a[1]) /\ a' = Rotate(a)
        BY <3>3, <3>6, <4>1
      <4>2. CASE (\A v \in Elements(a) : v <= a[2]) /\ a' = ReverseRotate(a)
        BY <3>3, <3>6, <4>2
      <4>3. CASE /\ a' = a
                 /\ ~ \A v \in Elements(a) : v <= a[1]
                 /\ ~ \A v \in Elements(a) : v <= a[2]
        <5>1. /\ ~ (a[1] <= a[1] /\ a[2] <= a[1] /\ a[3] <= a[1])
              /\ ~ (a[1] <= a[2] /\ a[2] <= a[2] /\ a[3] <= a[2])
          BY <3>2, <4>3
        <5> QED BY <3>3, <4>3, <5>1
      <4> QED BY <3>4, <4>1, <4>2, <4>3
    <3>8. Stacks'
      BY <2>1, <3>5 DEF Stacks
    <3>9. Stages' /\ Payable'
      BY <2>1, <3>5, <3>7 DEF Stages, Payable
    <3> QED BY <3>8, <3>9
  <2> QED BY <2>3, <2>4
<1> QED BY <1>2, <1>3

\* Then the other two are in order.
LEMMA TinySwapKeeps ==
  ASSUME SInv, TinySwap
  PROVE  SInv'
<1> USE DEF SInv
<1>1. /\ a \in Seq(Values) /\ Distinct(a) /\ Values \subseteq Int
      /\ Len(a) \in Nat /\ (Len(a) = 0 <=> a = <<>>)
  BY DEF Stacks, Values
<1>2. UNCHANGED <<b, above, node, target, price, moves>> /\ pc = "swap"
  BY DEF TinySwap
<1>3. CASE a = <<>>
  <2>1. pc' = "killed" /\ UNCHANGED pushSwap
    BY <1>2, <1>3 DEF TinySwap, pushSwap
  <2> QED BY <2>1, SInvOf
<1>4. CASE a # <<>>
  <2>1. Len(a) = 3 /\ a[1] <= a[3] /\ a[2] <= a[3]
    BY <1>1, <1>2, <1>4 DEF Stages
  <2>2. a' = (IF a[1] > a[2] THEN Swap(a) ELSE a) /\ pc' \in {"sorted", "turn"}
    BY <1>4 DEF TinySwap
  <2>3. /\ Swap(a) \in Seq(Values) /\ Len(Swap(a)) = Len(a)
        /\ Swap(a)[1] = a[2] /\ Swap(a)[2] = a[1] /\ Swap(a)[3] = a[3]
        /\ Elements(Swap(a)) = Elements(a) /\ Distinct(Swap(a))
    BY <1>1, <2>1, SwapIs
  <2>4. a[1] \in Int /\ a[2] \in Int /\ a[3] \in Int
    <3>1. \A i \in 1 .. 3 : a[i] \in Values
      BY <1>1, <2>1, ElementIs
    <3>2. 1 \in 1 .. 3 /\ 2 \in 1 .. 3 /\ 3 \in 1 .. 3
      OBVIOUS
    <3>3. a[1] \in Values /\ a[2] \in Values /\ a[3] \in Values
      BY <3>1, <3>2
    <3> QED BY <1>1, <3>3
  <2>5. /\ a' \in Seq(Values) /\ Len(a') = 3 /\ Elements(a') = Elements(a) /\ Distinct(a')
        /\ a'[1] <= a'[2] /\ a'[2] <= a'[3]
    BY <1>1, <2>1, <2>2, <2>3, <2>4
  <2>6. OneDescent(a')
    BY <1>1, <2>5, ThreeInOrder
  <2>7. Stacks'
    BY <1>2, <2>5 DEF Stacks
  <2>8. a' # <<>>
    BY <2>5
  <2>9. Stages' /\ Payable'
    BY <2>2, <2>6, <2>8 DEF Stages, Payable
  <2> QED BY <2>7, <2>9
<1> QED BY <1>3, <1>4


\* The price init_nodes finds is what the ways of the two nodes add up to.
LEMMA InitNodesKeeps ==
  ASSUME SInv, InitNodes
  PROVE  SInv'
<1> USE DEF SInv
<1>1. /\ a \in Seq(Values) /\ b \in Seq(Values) /\ Distinct(a) /\ Distinct(b)
      /\ Elements(a) \cap Elements(b) = {} /\ Values \subseteq Int
      /\ above \in [Values -> BOOLEAN] /\ a # <<>> /\ OneDescent(a)
  BY DEF Stacks, Stages, InitNodes, Values
<1>2. PICK i \in DOMAIN b : node' = b[i] /\ target' = TargetNode(b[i]) /\ price' = PushPrice(b[i])
  BY DEF InitNodes
<1> DEFINE v == b[i]
           t == TargetNode(v)
<1>3. v \in Elements(b) /\ v \in Values /\ v \notin Elements(a)
  <2>1. v \in Elements(b) /\ Elements(b) \subseteq Values
    BY <1>1, ElementsOf
  <2> QED BY <1>1, <2>1
<1> HIDE DEF v
<1>4. IsTarget(t, v, a) /\ t \in Elements(a) /\ t \in Values
  <2>1. IsTarget(t, v, a)
    BY <1>1, <1>3, TargetIs
  <2>2. Elements(a) \subseteq Values
    BY <1>1, ElementsOf
  <2> QED BY <2>1, <2>2 DEF IsTarget
<1> HIDE DEF t
<1>5. node' = v /\ target' = t /\ price' = Way(v, b) + Way(t, a)
  BY <1>2 DEF PushPrice, v, t
<1>6. /\ moves' = 0 /\ a' = a /\ b' = b /\ pc' = "both"
      /\ above' = [w \in Values |-> IF w \in Elements(a) THEN IsAbove(w, a)
                     ELSE IF w \in Elements(b) THEN IsAbove(w, b) ELSE above[w]]
  BY DEF InitNodes, Medians
<1>7. /\ Way(v, b) \in Nat /\ Turns(v, b, IsAbove(v, b)) = Way(v, b)
      /\ Way(t, a) \in Nat /\ Turns(t, a, IsAbove(t, a)) = Way(t, a)
  BY <1>1, <1>3, <1>4, WayIs
<1>8. above' \in [Values -> BOOLEAN]
  <2>1. \A w \in Elements(a) : IsAbove(w, a) \in BOOLEAN
    BY DEF IsAbove
  <2>2. \A w \in Elements(b) : IsAbove(w, b) \in BOOLEAN
    BY DEF IsAbove
  <2> QED BY <1>1, <1>6, <2>1, <2>2
<1>9. above'[v] = IsAbove(v, b) /\ above'[t] = IsAbove(t, a)
  BY <1>3, <1>4, <1>6
<1>10. Stacks'
  BY <1>1, <1>3, <1>4, <1>5, <1>6, <1>7, <1>8 DEF Stacks
<1>11. Stages'
  BY <1>1, <1>3, <1>4, <1>5, <1>6 DEF Stages
<1>12. Payable'
  <2>1. moves' + Turns(t, a, above'[t]) + Turns(v, b, above'[v]) <= price'
    BY <1>5, <1>6, <1>7, <1>9
  <2> QED BY <1>5, <1>6, <2>1 DEF Payable
<1> QED BY <1>10, <1>11, <1>12


\* What is known while a node is brought to its target.
LEMMA Moving ==
  ASSUME SInv, pc \in {"both", "finish"}
  PROVE  /\ a \in Seq(Values) /\ b \in Seq(Values) /\ Distinct(a) /\ Distinct(b)
         /\ Elements(a) \cap Elements(b) = {} /\ Values \subseteq Int
         /\ a # <<>> /\ b # <<>> /\ OneDescent(a) /\ IsTarget(target, node, a)
         /\ node \in Elements(b) /\ target \in Elements(a)
         /\ above[node] \in BOOLEAN /\ above[target] \in BOOLEAN
         /\ moves \in Nat /\ price \in Nat
         /\ Turns(target, a, above[target]) \in Nat /\ Turns(node, b, above[node]) \in Nat
         /\ moves + Turns(target, a, above[target]) + Turns(node, b, above[node]) <= price
<1>1. /\ a \in Seq(Values) /\ b \in Seq(Values) /\ Distinct(a) /\ Distinct(b)
      /\ Elements(a) \cap Elements(b) = {} /\ Values \subseteq Int
      /\ above \in [Values -> BOOLEAN] /\ moves \in Nat /\ price \in Nat
      /\ a # <<>> /\ OneDescent(a) /\ node \in Elements(b) /\ IsTarget(target, node, a)
  BY DEF SInv, Stacks, Stages, Values
<1>2. target \in Elements(a)
  BY <1>1 DEF IsTarget
<1>3. node \in Values /\ target \in Values
  BY <1>1, <1>2, ElementsOf
<1>4. above[node] \in BOOLEAN /\ above[target] \in BOOLEAN
  BY <1>1, <1>3
<1>5. Turns(target, a, above[target]) \in Nat
  BY <1>1, <1>2, <1>4, WayIs
<1>6. Turns(node, b, above[node]) \in Nat
  BY <1>1, <1>4, WayIs
<1>7. b # <<>>
  <2>1. Len(b) \in Nat /\ \E i \in 1 .. Len(b) : node = b[i]
    BY <1>1, ElementsOf
  <2> QED BY <2>1
<1> QED BY <1>1, <1>2, <1>4, <1>5, <1>6, <1>7 DEF SInv, Payable

\* Turning the stacks keeps everything but how far the nodes still have to go.
LEMMA Turned ==
  ASSUME SInv, pc \in {"both", "finish"}, UNCHANGED <<pc, above, node, target, price>>,
         a' \in {a, Rotate(a), ReverseRotate(a)}, b' \in {b, Rotate(b), ReverseRotate(b)},
         moves' \in Nat,
         moves' + Turns(target, a', above[target]) + Turns(node, b', above[node]) <= price
  PROVE  SInv'
<1>1. /\ a \in Seq(Values) /\ b \in Seq(Values) /\ Distinct(a) /\ Distinct(b)
      /\ Elements(a) \cap Elements(b) = {} /\ Values \subseteq Int
      /\ a # <<>> /\ b # <<>> /\ OneDescent(a) /\ IsTarget(target, node, a)
      /\ node \in Elements(b) /\ target \in Elements(a)
  BY Moving
<1>2. /\ a' \in Seq(Values) /\ Len(a') = Len(a) /\ Elements(a') = Elements(a) /\ Distinct(a')
      /\ OneDescent(a')
  BY <1>1, RotationKeeps
<1>3. b' \in Seq(Values) /\ Elements(b') = Elements(b) /\ Distinct(b')
  BY <1>1, RotationKeeps
<1>4. Stacks'
  BY <1>2, <1>3 DEF SInv, Stacks
<1>5. a' # <<>>
  BY <1>1, <1>2
<1>6. IsTarget(target, node, a')
  BY <1>1, <1>2 DEF IsTarget
<1>7. Stages'
  BY <1>1, <1>2, <1>3, <1>5, <1>6 DEF Stages
<1>8. Payable'
  BY DEF Payable
<1> QED BY <1>4, <1>7, <1>8 DEF SInv

\* Every rotation brings the node, or its target, or both, one place closer.
LEMMA RotationsKeep ==
  ASSUME SInv, RotateBoth \/ FinishA \/ FinishB
  PROVE  SInv'
<1>1. /\ pc \in {"both", "finish"} /\ UNCHANGED <<pc, above, node, target, price>>
      /\ moves' = moves + 1
  BY DEF RotateBoth, FinishA, FinishB
<1>2. /\ a \in Seq(Values) /\ b \in Seq(Values) /\ Distinct(a) /\ Distinct(b)
      /\ Values \subseteq Int /\ a # <<>> /\ b # <<>>
      /\ node \in Elements(b) /\ target \in Elements(a)
      /\ above[node] \in BOOLEAN /\ above[target] \in BOOLEAN
      /\ moves \in Nat /\ price \in Nat
      /\ Turns(target, a, above[target]) \in Nat /\ Turns(node, b, above[node]) \in Nat
      /\ moves + Turns(target, a, above[target]) + Turns(node, b, above[node]) <= price
  BY <1>1, Moving
<1> DEFINE ta == Turns(target, a, above[target])
           tb == Turns(node, b, above[node])
<1>3. ASSUME a[1] # target, a' = Toward(target, a)
      PROVE  /\ a' \in {a, Rotate(a), ReverseRotate(a)}
             /\ Turns(target, a', above[target]) \in Nat
             /\ ta = Turns(target, a', above[target]) + 1
  <2> DEFINE up == above[target]
  <2>1. target # a[1] /\ up \in BOOLEAN /\ a' = IF up THEN Rotate(a) ELSE ReverseRotate(a)
    BY <1>2, <1>3 DEF Toward
  <2> HIDE DEF up
  <2>2. Turns(target, a', up) \in Nat /\ Turns(target, a, up) = Turns(target, a', up) + 1
    BY <1>2, <2>1, TurnsFewer
  <2>3. a' \in {a, Rotate(a), ReverseRotate(a)}
    BY <2>1
  <2> QED BY <2>2, <2>3 DEF up
<1>4. ASSUME b[1] # node, b' = Toward(node, b)
      PROVE  /\ b' \in {b, Rotate(b), ReverseRotate(b)}
             /\ Turns(node, b', above[node]) \in Nat
             /\ tb = Turns(node, b', above[node]) + 1
  <2> DEFINE up == above[node]
  <2>1. node # b[1] /\ up \in BOOLEAN /\ b' = IF up THEN Rotate(b) ELSE ReverseRotate(b)
    BY <1>2, <1>4 DEF Toward
  <2> HIDE DEF up
  <2>2. Turns(node, b', up) \in Nat /\ Turns(node, b, up) = Turns(node, b', up) + 1
    BY <1>2, <2>1, TurnsFewer
  <2>3. b' \in {b, Rotate(b), ReverseRotate(b)}
    BY <2>1
  <2> QED BY <2>2, <2>3 DEF up
<1>5. ta \in Nat /\ tb \in Nat /\ moves + ta + tb <= price
  BY <1>2
<1> HIDE DEF ta, tb
<1> DEFINE na == Turns(target, a', above[target])
           nb == Turns(node, b', above[node])
<1>6. /\ a' \in {a, Rotate(a), ReverseRotate(a)} /\ b' \in {b, Rotate(b), ReverseRotate(b)}
      /\ na \in Nat /\ nb \in Nat /\ na <= ta /\ nb <= tb /\ (na + 1 = ta \/ nb + 1 = tb)
  <2>1. CASE RotateBoth
    <3>1. a[1] # target /\ b[1] # node /\ a' = Toward(target, a) /\ b' = Toward(node, b)
      BY <2>1 DEF RotateBoth, Both, Toward
    <3> QED BY <1>3, <1>4, <1>5, <3>1
  <2>2. CASE FinishA
    <3>1. a[1] # target /\ a' = Toward(target, a) /\ b' = b
      BY <2>2 DEF FinishA
    <3>2. nb = tb
      BY <3>1 DEF tb
    <3> QED BY <1>3, <1>5, <3>1, <3>2
  <2>3. CASE FinishB
    <3>1. b[1] # node /\ b' = Toward(node, b) /\ a' = a
      BY <2>3 DEF FinishB
    <3>2. na = ta
      BY <3>1 DEF ta
    <3> QED BY <1>4, <1>5, <3>1, <3>2
  <2> QED BY <2>1, <2>2, <2>3
<1>7. moves' \in Nat /\ moves' + na + nb <= price
  <2> HIDE DEF na, nb
  <2> QED BY <1>1, <1>2, <1>5, <1>6
<1> QED BY <1>1, <1>6, <1>7, Turned

\* Looking up the halves again makes no node's way longer.
LEMMA BothRotatedKeeps ==
  ASSUME SInv, BothRotated
  PROVE  SInv'
<1>1. /\ pc = "both" /\ pc' = "finish" /\ UNCHANGED <<a, b, node, target, price, moves>>
      /\ above' = IF above[node] = above[target] THEN Medians(a, b) ELSE above
  BY DEF BothRotated
<1>2. /\ a \in Seq(Values) /\ b \in Seq(Values) /\ Distinct(a) /\ Distinct(b)
      /\ Values \subseteq Int /\ a # <<>> /\ Elements(a) \cap Elements(b) = {}
      /\ OneDescent(a) /\ IsTarget(target, node, a)
      /\ node \in Elements(b) /\ target \in Elements(a)
      /\ above[node] \in BOOLEAN /\ above[target] \in BOOLEAN
      /\ moves \in Nat /\ price \in Nat
      /\ Turns(target, a, above[target]) \in Nat /\ Turns(node, b, above[node]) \in Nat
      /\ moves + Turns(target, a, above[target]) + Turns(node, b, above[node]) <= price
  BY <1>1, Moving
<1>3. above \in [Values -> BOOLEAN]
  BY DEF SInv, Stacks
<1>4. node \in Values /\ target \in Values /\ node \notin Elements(a)
  BY <1>2, ElementsOf
<1> DEFINE M == Medians(a, b)
<1>5. /\ M \in [Values -> BOOLEAN]
      /\ M[node] = IsAbove(node, b) /\ M[target] = IsAbove(target, a)
  <2>1. M = [w \in Values |-> IF w \in Elements(a) THEN IsAbove(w, a)
              ELSE IF w \in Elements(b) THEN IsAbove(w, b) ELSE above[w]]
    BY DEF Medians
  <2>2. \A w \in Elements(a) : IsAbove(w, a) \in BOOLEAN
    BY DEF IsAbove
  <2>3. \A w \in Elements(b) : IsAbove(w, b) \in BOOLEAN
    BY DEF IsAbove
  <2> QED BY <1>2, <1>3, <1>4, <2>1, <2>2, <2>3
<1> HIDE DEF M
<1>6. /\ Turns(target, a, M[target]) \in Nat
      /\ Turns(target, a, M[target]) <= Turns(target, a, above[target])
  <2>1. /\ Way(target, a) \in Nat /\ Way(target, a) <= Turns(target, a, above[target])
        /\ Turns(target, a, IsAbove(target, a)) = Way(target, a)
    BY <1>2, WayIs
  <2> QED BY <1>5, <2>1
<1>7. /\ Turns(node, b, M[node]) \in Nat
      /\ Turns(node, b, M[node]) <= Turns(node, b, above[node])
  <2>1. /\ Way(node, b) \in Nat /\ Way(node, b) <= Turns(node, b, above[node])
        /\ Turns(node, b, IsAbove(node, b)) = Way(node, b)
    BY <1>2, WayIs
  <2> QED BY <1>5, <2>1
<1>8. above' = M \/ above' = above
  BY <1>1 DEF M
<1>9. Stacks'
  BY <1>1, <1>5, <1>8 DEF SInv, Stacks
<1>10. Stages'
  BY <1>1, <1>2 DEF Stages
<1>11. Payable'
  <2>1. moves + Turns(target, a, above'[target]) + Turns(node, b, above'[node]) <= price
    <3>1. CASE above' = M
      BY <1>2, <1>6, <1>7, <3>1
    <3>2. CASE above' = above
      BY <1>2, <3>2
    <3> QED BY <1>8, <3>1, <3>2
  <2> QED BY <1>1, <2>1 DEF Payable
<1> QED BY <1>9, <1>10, <1>11 DEF SInv

\* The node goes upon its target, between the two it belongs between.
LEMMA PushAKeeps ==
  ASSUME SInv, PushA
  PROVE  SInv'
<1>1. /\ pc = "finish" /\ pc' = "turn" /\ a[1] = target /\ b[1] = node
      /\ a' = Push(b, a) /\ b' = Tail(b) /\ UNCHANGED <<above, node, target, price, moves>>
  BY DEF PushA
<1>2. /\ a \in Seq(Values) /\ b \in Seq(Values) /\ Distinct(a) /\ Distinct(b)
      /\ Elements(a) \cap Elements(b) = {} /\ Values \subseteq Int
      /\ a # <<>> /\ b # <<>> /\ OneDescent(a) /\ IsTarget(target, node, a)
  BY <1>1, Moving
<1>3. /\ Push(b, a) \in Seq(Values) /\ Tail(b) \in Seq(Values) /\ Push(b, a) # <<>>
      /\ Len(Push(b, a)) = Len(a) + 1 /\ Len(Tail(b)) = Len(b) - 1
      /\ Distinct(Push(b, a)) /\ Distinct(Tail(b))
      /\ Elements(Push(b, a)) \cap Elements(Tail(b)) = {}
      /\ b[1] \in Elements(b) /\ b[1] \notin Elements(a)
  BY <1>2, PushMoves
<1>4. OneDescent(Push(b, a))
  BY <1>1, <1>2, <1>3, PushOrders
<1>5. Stacks'
  BY <1>1, <1>3 DEF SInv, Stacks
<1>6. Stages' /\ Payable'
  BY <1>1, <1>3, <1>4 DEF Stages, Payable
<1> QED BY <1>5, <1>6 DEF SInv

\* The rotations at the end.
LEMMA EndingKeeps ==
  ASSUME SInv, FindSmallest \/ LastRotation
  PROVE  SInv'
<1>1. /\ pc \in {"turn", "last"} /\ pc' \in {"last", "sorted"}
      /\ UNCHANGED <<b, node, price, moves>>
  BY DEF FindSmallest, LastRotation
<1>2. /\ a \in Seq(Values) /\ b \in Seq(Values) /\ Distinct(a) /\ Distinct(b)
      /\ Elements(a) \cap Elements(b) = {} /\ Values \subseteq Int
      /\ above \in [Values -> BOOLEAN] /\ a # <<>> /\ OneDescent(a)
      /\ {node, target} \subseteq Values \cup {IntMin} /\ price \in Nat /\ moves \in Nat
  BY <1>1 DEF SInv, Stacks, Stages, Values
<1>3. CASE FindSmallest
  <2>1. a' = a /\ target' = Smallest(Elements(a)) /\ above' = Medians(a, b)
    BY <1>3 DEF FindSmallest
  <2>2. target' \in Values
    <3>1. Elements(a) \subseteq Values /\ Elements(a) # {}
      <4>1. a[1] \in Elements(a)
        BY <1>2, ElementsOf
      <4> QED BY <1>2, <4>1, ElementsOf
    <3>2. Smallest(Elements(a)) \in Elements(a)
      BY <3>1, SmallestIs
    <3> QED BY <2>1, <3>1, <3>2
  <2>3. above' \in [Values -> BOOLEAN]
    <3>1. \A w \in Elements(a) : IsAbove(w, a) \in BOOLEAN
      BY DEF IsAbove
    <3>2. \A w \in Elements(b) : IsAbove(w, b) \in BOOLEAN
      BY DEF IsAbove
    <3> QED BY <1>2, <2>1, <3>1, <3>2 DEF Medians
  <2>4. Stacks'
    BY <1>1, <1>2, <2>1, <2>2, <2>3 DEF Stacks
  <2>5. Stages' /\ Payable'
    BY <1>1, <1>2, <2>1 DEF Stages, Payable
  <2> QED BY <2>4, <2>5 DEF SInv
<1>4. CASE LastRotation
  <2>1. a' \in {a, Rotate(a), ReverseRotate(a)} /\ UNCHANGED <<target, above>>
    BY <1>4 DEF LastRotation, Toward
  <2>2. /\ a' \in Seq(Values) /\ Len(a') = Len(a) /\ Elements(a') = Elements(a) /\ Distinct(a')
        /\ OneDescent(a')
    BY <1>2, <2>1, RotationKeeps
  <2>3. a' # <<>>
    BY <1>2, <2>2
  <2>4. Stacks'
    BY <1>1, <1>2, <2>1, <2>2 DEF Stacks
  <2>5. Stages' /\ Payable'
    BY <1>1, <2>2, <2>3 DEF Stages, Payable
  <2> QED BY <2>4, <2>5 DEF SInv
<1> QED BY <1>3, <1>4

\* Every step of push_swap.
LEMMA PushSwapKeeps ==
  ASSUME SInv, PushSwapNext
  PROVE  SInv'
BY ReadingKeeps, ShrinkingKeeps, TinySwapKeeps, InitNodesKeeps, RotationsKeep,
   BothRotatedKeeps, PushAKeeps, EndingKeeps DEF PushSwapNext

-----------------------------------------------------------------------------
(***************************************************************************)
(* Sorted lists, and what is inserted into them and removed.               *)
(***************************************************************************)

\* In a sorted list no later number is smaller.
LEMMA LaterIsLarger ==
  ASSUME NEW T, T \subseteq Int, NEW s \in Seq(T), Ascending(s),
         NEW i \in 1 .. Len(s), NEW j \in 1 .. Len(s), i <= j
  PROVE  s[i] <= s[j]
<1> DEFINE n == Len(s)
           D == { l \in 1 .. n : i <= l /\ s[l] < s[i] }
<1>1. n \in Nat /\ (\A l \in 1 .. n : s[l] \in T) /\ \A l \in 1 .. n - 1 : s[l] <= s[l + 1]
  <2>1. \A l \in 1 .. n : s[l] \in T
    BY ElementIs
  <2>2. n \in Nat
    OBVIOUS
  <2> QED BY <2>1, <2>2 DEF Ascending
<1>2. \A l \in 1 .. n : s[l] \in Int
  BY <1>1
<1> HIDE DEF n
<1>3. SUFFICES ASSUME D # {} PROVE FALSE
  BY <1>2 DEF D, n
<1>4. D \subseteq Nat
  BY <1>1
<1> HIDE DEF D
<1>5. PICK m \in D : \A l \in D : m <= l
  BY <1>3, <1>4, Least
<1>6. m \in 1 .. n /\ i <= m /\ s[m] < s[i]
  BY <1>5 DEF D
<1>7. i \in 1 .. n /\ i # m
  BY <1>2, <1>6 DEF n
<1>8. m - 1 \in 1 .. n - 1 /\ m - 1 \in 1 .. n /\ i <= m - 1 /\ (m - 1) + 1 = m
  BY <1>1, <1>6, <1>7
<1>9. s[m - 1] <= s[m]
  BY <1>1, <1>8
<1>10. s[m - 1] < s[i]
  BY <1>2, <1>6, <1>7, <1>8, <1>9
<1>11. m - 1 \in D
  BY <1>8, <1>10 DEF D
<1> QED BY <1>1, <1>5, <1>6, <1>11

\* lower_bound: the first place among n that is not smaller than x.
LEMMA LowerBoundIs ==
  ASSUME NEW T, T \subseteq Int, NEW s \in Seq(T), Ascending(s),
         NEW n \in 0 .. Len(s), NEW x \in Int
  PROVE  /\ LowerBound(s, n, x) \in 1 .. n + 1
         /\ \A i \in 1 .. LowerBound(s, n, x) - 1 : s[i] < x
         /\ \A i \in LowerBound(s, n, x) .. n : x <= s[i]
<1> DEFINE S == { i \in 1 .. n : s[i] < x }
<1>1. n \in Nat /\ \A i \in 1 .. n : s[i] \in Int /\ i \in 1 .. Len(s)
  <2>1. \A i \in 1 .. Len(s) : s[i] \in T
    BY ElementIs
  <2>2. Len(s) \in Nat
    OBVIOUS
  <2>3. n \in Nat /\ \A i \in 1 .. n : i \in 1 .. Len(s)
    BY <2>2
  <2>4. \A i \in 1 .. Len(s) : s[i] \in Int
    BY <2>1
  <2> QED BY <2>3, <2>4
<1>2. PICK g \in 0 .. n : S = 1 .. g
  <2>1. CASE S = {}
    <3>1. S = 1 .. 0
      BY <2>1
    <3>2. 0 \in 0 .. n
      BY <1>1
    <3> HIDE DEF S
    <3> QED BY <3>1, <3>2
  <2>2. CASE S # {}
    <3>1. S \subseteq 0 .. n
      OBVIOUS
    <3> HIDE DEF S
    <3>2. PICK g \in S : \A i \in S : i <= g
      BY <1>1, <2>2, <3>1, Greatest
    <3>3. g \in 1 .. n /\ s[g] < x
      BY <3>2 DEF S
    <3>4. ASSUME NEW i \in 1 .. g PROVE i \in S
      <4>1. i \in 1 .. n /\ i <= g
        BY <1>1, <3>3
      <4>2. s[i] <= s[g]
        BY <1>1, <3>3, <4>1, LaterIsLarger
      <4> QED BY <1>1, <3>3, <4>1, <4>2 DEF S
    <3>5. \A i \in S : i \in 1 .. g
      BY <1>1, <3>2, <3>3 DEF S
    <3>6. S = 1 .. g
      BY <3>4, <3>5
    <3> QED BY <1>1, <3>3, <3>6
  <2> QED BY <2>1, <2>2
<1>3. Cardinality(S) = g
  <2>1. Cardinality(1 .. g) = IF 1 > g THEN 0 ELSE g - 1 + 1
    BY <1>1, FS_Interval
  <2>2. Cardinality(1 .. g) = g
    BY <1>1, <2>1
  <2> HIDE DEF S
  <2> QED BY <1>2, <2>2
<1>4. LowerBound(s, n, x) = g + 1
  BY <1>3 DEF LowerBound
<1>5. \A i \in 1 .. g : s[i] < x
  BY <1>2
<1>6. \A i \in g + 1 .. n : x <= s[i]
  <2>1. \A i \in g + 1 .. n : i \in 1 .. n /\ i \notin 1 .. g
    BY <1>1
  <2> QED BY <1>1, <1>2, <2>1
<1> QED BY <1>1, <1>4, <1>5, <1>6

\* InsertAt, element by element.
LEMMA InsertAtIs ==
  ASSUME NEW T, NEW s \in Seq(T), NEW p \in 1 .. Len(s) + 1, NEW e \in T
  PROVE  /\ InsertAt(s, p, e) \in Seq(T) /\ Len(InsertAt(s, p, e)) = Len(s) + 1
         /\ \A j \in 1 .. p - 1 : InsertAt(s, p, e)[j] = s[j]
         /\ InsertAt(s, p, e)[p] = e
         /\ \A j \in p .. Len(s) : InsertAt(s, p, e)[j + 1] = s[j]
<1> DEFINE h == SubSeq(s, 1, p - 1)
           r == SubSeq(s, p, Len(s))
           n == Len(s)
           f == h \o <<e>>
<1>1. h \in Seq(T) /\ Len(h) = p - 1 /\ \A j \in 1 .. p - 1 : h[j] = s[j]
  OBVIOUS
<1>2. r \in Seq(T) /\ Len(r) = n - p + 1 /\ \A j \in p .. n : r[j - p + 1] = s[j]
  OBVIOUS
<1>3. n \in Nat /\ p \in 1 .. n + 1
  OBVIOUS
<1>4. InsertAt(s, p, e) = f \o r
  BY DEF InsertAt
<1> HIDE DEF h, r
<1>5. f \in Seq(T) /\ Len(f) = p /\ f[p] = e /\ \A j \in 1 .. p - 1 : f[j] = s[j]
  BY <1>1, <1>3
<1> HIDE DEF f, n
<1>6. f \o r \in Seq(T) /\ Len(f \o r) = p + (n - p + 1)
  <2>1. f \in Seq(T) /\ r \in Seq(T)
    BY <1>2, <1>5
  <2>2. f \o r \in Seq(T) /\ Len(f \o r) = Len(f) + Len(r)
    BY <2>1
  <2> QED BY <1>2, <1>5, <2>2
<1>7. \A j \in 1 .. p : (f \o r)[j] = f[j]
  BY <1>2, <1>3, <1>5
<1>8. \A j \in p .. n : (f \o r)[j + 1] = r[j - p + 1]
  BY <1>2, <1>3, <1>5
<1>9. \A j \in 1 .. p - 1 : j \in 1 .. p
  BY <1>3
<1>10. p \in 1 .. p /\ p + (n - p + 1) = n + 1
  BY <1>3
<1> QED BY <1>2, <1>4, <1>5, <1>6, <1>7, <1>8, <1>9, <1>10 DEF n

\* p is a place for e: none before it is larger, and what stands there is no smaller
Fits(s, p, e) ==
  /\ p \in 1 .. Len(s) + 1
  /\ \A i \in 1 .. p - 1 : s[i] <= e
  /\ p <= Len(s) => e <= s[p]

\* t is s with e, and sorted
SortedWith(t, s, e, T) == t \in Seq(T) /\ Ascending(t) /\ Elements(t) = Elements(s) \cup {e}

\* The place lower_bound finds, when what follows the n it looks at is no smaller.
LEMMA LowerBoundFits ==
  ASSUME NEW T, T \subseteq Int, NEW s \in Seq(T), Ascending(s), NEW e \in T,
         NEW n \in 0 .. Len(s), n < Len(s) => e <= s[n + 1]
  PROVE  Fits(s, LowerBound(s, n, e), e)
<1> DEFINE p == LowerBound(s, n, e)
<1>1. Len(s) \in Nat /\ n \in 0 .. Len(s) /\ e \in Int
  OBVIOUS
<1>2. \A i \in 1 .. Len(s) : s[i] \in Int
  <2>1. \A i \in 1 .. Len(s) : s[i] \in T
    BY ElementIs
  <2> QED BY <2>1
<1>3. /\ p \in 1 .. n + 1 /\ (\A i \in 1 .. p - 1 : s[i] < e)
      /\ \A i \in p .. n : e <= s[i]
  BY <1>1, LowerBoundIs
<1> HIDE DEF p
<1>4. ASSUME NEW i \in 1 .. p - 1 PROVE s[i] <= e
  <2>1. i \in 1 .. Len(s)
    BY <1>1, <1>3
  <2>2. s[i] \in Int /\ s[i] < e
    BY <1>2, <1>3, <2>1
  <2> QED BY <1>1, <2>2
<1>5. p <= Len(s) => e <= s[p]
  <2>1. p \in p .. n \/ p = n + 1
    BY <1>1, <1>3
  <2>2. p = n + 1 /\ p <= Len(s) => n < Len(s)
    BY <1>1
  <2> QED BY <1>3, <2>1, <2>2
<1>6. p \in 1 .. Len(s) + 1
  BY <1>1, <1>3
<1> QED BY <1>4, <1>5, <1>6 DEF Fits, p

\* A number put in front of a larger one, and behind none larger, keeps the list sorted.
LEMMA InsertingKeeps ==
  ASSUME NEW T, T \subseteq Int, NEW s \in Seq(T), Ascending(s), NEW e \in T,
         NEW p, Fits(s, p, e)
  PROVE  SortedWith(InsertAt(s, p, e), s, e, T)
<1> DEFINE t == InsertAt(s, p, e)
           n == Len(s)
<1>1. /\ t \in Seq(T) /\ Len(t) = n + 1 /\ (\A j \in 1 .. p - 1 : t[j] = s[j])
      /\ t[p] = e /\ \A j \in p .. n : t[j + 1] = s[j]
  <2>1. p \in 1 .. Len(s) + 1
    BY DEF Fits
  <2> QED BY <2>1, InsertAtIs
<1>2. /\ n \in Nat /\ p \in 1 .. n + 1 /\ e \in Int
      /\ (\A i \in 1 .. p - 1 : s[i] <= e) /\ (p <= n => e <= s[p])
  BY DEF Fits
<1>3. /\ Elements(s) = { s[i] : i \in 1 .. n } /\ Elements(t) = { t[i] : i \in 1 .. n + 1 }
      /\ \A j \in 1 .. n - 1 : s[j] <= s[j + 1]
  <2>1. Elements(s) = { s[i] : i \in 1 .. n }
    BY ElementsOf
  <2>2. Elements(t) = { t[i] : i \in 1 .. Len(t) }
    BY <1>1, ElementsOf
  <2> QED BY <1>1, <2>1, <2>2 DEF Ascending
<1> HIDE DEF t, n
<1>4. \A j \in 1 .. n + 1 : \/ j \in 1 .. p - 1 /\ j \in 1 .. n /\ t[j] = s[j]
                            \/ j = p /\ t[j] = e
                            \/ j - 1 \in p .. n /\ j - 1 \in 1 .. n /\ t[j] = s[j - 1]
  <2> SUFFICES ASSUME NEW j \in 1 .. n + 1, j \notin 1 .. p - 1, j # p
               PROVE  j - 1 \in p .. n /\ j - 1 \in 1 .. n /\ t[j] = s[j - 1]
    BY <1>1, <1>2
  <2>1. j - 1 \in p .. n /\ j - 1 \in 1 .. n /\ (j - 1) + 1 = j
    BY <1>2
  <2>2. t[(j - 1) + 1] = s[j - 1]
    BY <1>1, <2>1
  <2> QED BY <2>1, <2>2
<1>5. Elements(t) = Elements(s) \cup {e}
  <2>1. \A j \in 1 .. n + 1 : t[j] \in Elements(s) \cup {e}
    BY <1>3, <1>4
  <2>2. ASSUME NEW j \in 1 .. n PROVE s[j] \in Elements(t)
    <3>1. CASE j \in 1 .. p - 1
      <4>1. j \in 1 .. n + 1 /\ t[j] = s[j]
        BY <1>1, <1>2, <3>1
      <4> QED BY <1>3, <4>1
    <3>2. CASE j \in p .. n
      <4>1. j + 1 \in 1 .. n + 1 /\ t[j + 1] = s[j]
        BY <1>1, <1>2, <3>2
      <4> QED BY <1>3, <4>1
    <3> QED BY <1>2, <3>1, <3>2
  <2>3. e \in Elements(t)
    BY <1>1, <1>2, <1>3
  <2> QED BY <1>3, <2>1, <2>2, <2>3
<1>6. ASSUME NEW j \in 1 .. n PROVE t[j] <= t[j + 1]
  <2>1. CASE j + 1 \in 1 .. p - 1
    <3>1. j \in 1 .. p - 1 /\ j \in 1 .. n - 1 /\ t[j] = s[j] /\ t[j + 1] = s[j + 1]
      BY <1>1, <1>2, <2>1
    <3> QED BY <1>3, <3>1
  <2>2. CASE j + 1 = p
    <3>1. j \in 1 .. p - 1 /\ t[j] = s[j] /\ t[j + 1] = e
      BY <1>1, <1>2, <2>2
    <3> QED BY <1>2, <3>1
  <2>3. CASE j = p
    <3>1. j \in p .. n /\ t[j] = e /\ t[j + 1] = s[p] /\ p <= n
      BY <1>1, <1>2, <2>3
    <3> QED BY <1>2, <3>1
  <2>4. CASE j \in p + 1 .. n
    <3>1. j - 1 \in p .. n /\ j - 1 \in 1 .. n - 1 /\ (j - 1) + 1 = j /\ j \in p .. n
      BY <1>2, <2>4
    <3>2. t[(j - 1) + 1] = s[j - 1] /\ t[j + 1] = s[j]
      BY <1>1, <3>1
    <3>3. s[j - 1] <= s[(j - 1) + 1]
      BY <1>3, <3>1
    <3> QED BY <3>1, <3>2, <3>3
  <2> QED BY <1>2, <2>1, <2>2, <2>3, <2>4
<1>7. Ascending(t)
  <2>1. Len(t) - 1 = n
    BY <1>1, <1>2
  <2> QED BY <1>6, <2>1 DEF Ascending
<1> QED BY <1>1, <1>5, <1>7 DEF t, SortedWith

\* find: the first place of what is there.
LEMMA FirstIs ==
  ASSUME NEW T, NEW s \in Seq(T), NEW x \in Elements(s)
  PROVE  First(s, x) \in 1 .. Len(s) /\ s[First(s, x)] = x
<1> DEFINE D == { i \in 1 .. Len(s) : s[i] = x }
<1>1. D # {} /\ D \subseteq Nat
  BY ElementsOf
<1> HIDE DEF D
<1>2. PICK m \in D : \A i \in D : m <= i
  BY <1>1, Least
<1>3. m \in 1 .. Len(s) /\ s[m] = x /\ \A j \in 1 .. m - 1 : s[j] # x
  <2>1. m \in 1 .. Len(s) /\ s[m] = x
    BY <1>2 DEF D
  <2>2. \A j \in 1 .. m - 1 : j \in 1 .. Len(s) /\ ~ (m <= j)
    BY <2>1
  <2> QED BY <1>2, <2>1, <2>2 DEF D
<1>4. m \in DOMAIN s /\ DOMAIN s = 1 .. Len(s)
  BY <1>3, ElementsOf
<1>5. First(s, x) \in DOMAIN s /\ s[First(s, x)] = x
  BY <1>3, <1>4 DEF First
<1> QED BY <1>4, <1>5

\* RemoveFirst leaves all others.
LEMMA RemoveFirstKeeps ==
  ASSUME NEW T, NEW s \in Seq(T), NEW e
  PROVE  /\ RemoveFirst(s, e) \in Seq(T)
         /\ \A x \in Elements(s) : x # e => x \in Elements(RemoveFirst(s, e))
<1>1. CASE \A i \in 1 .. Len(s) : s[i] # e
  BY <1>1 DEF RemoveFirst
<1>2. CASE \E i \in 1 .. Len(s) : s[i] = e
  <2> DEFINE I == { i \in 1 .. Len(s) : s[i] = e }
             m == Min(I)
             h == SubSeq(s, 1, m - 1)
             r == SubSeq(s, m + 1, Len(s))
             n == Len(s)
  <2>1. RemoveFirst(s, e) = h \o r
    BY <1>2 DEF RemoveFirst, RemoveAt, SelectInSeq
  <2>2. m \in 1 .. n /\ s[m] = e
    <3>1. I # {} /\ I \subseteq Nat
      BY <1>2
    <3> HIDE DEF I
    <3>2. \E i \in I : \A j \in I : i <= j
      BY <3>1, Least
    <3>3. m \in I
      BY <3>2 DEF Min
    <3> QED BY <3>3 DEF I
  <2> HIDE DEF m
  <2>3. n \in Nat
    OBVIOUS
  <2>4. h \in Seq(T) /\ Len(h) = m - 1 /\ \A i \in 1 .. m - 1 : h[i] = s[i]
    BY <2>2
  <2>5. r \in Seq(T) /\ Len(r) = n - m /\ \A i \in m + 1 .. n : r[i - m] = s[i]
    BY <2>2
  <2> HIDE DEF h, r, n
  <2>6. /\ h \o r \in Seq(T) /\ Len(h \o r) = (m - 1) + (n - m)
        /\ \A i \in 1 .. m - 1 : (h \o r)[i] = h[i]
        /\ \A i \in m + 1 .. n : (h \o r)[i - 1] = r[i - m]
    BY <2>2, <2>3, <2>4, <2>5
  <2>7. Elements(h \o r) = { (h \o r)[i] : i \in 1 .. n - 1 }
    <3>1. Elements(h \o r) = { (h \o r)[i] : i \in 1 .. Len(h \o r) }
      BY <2>6, ElementsOf
    <3>2. Len(h \o r) = n - 1
      BY <2>2, <2>3, <2>6
    <3> QED BY <3>1, <3>2
  <2>8. ASSUME NEW i \in 1 .. n, s[i] # e PROVE s[i] \in Elements(h \o r)
    <3>1. CASE i \in 1 .. m - 1
      <4>1. i \in 1 .. n - 1 /\ (h \o r)[i] = s[i]
        BY <2>2, <2>3, <2>4, <2>6, <3>1
      <4> QED BY <2>7, <4>1
    <3>2. CASE i \in m + 1 .. n
      <4>1. i - 1 \in 1 .. n - 1 /\ (h \o r)[i - 1] = s[i]
        BY <2>2, <2>3, <2>5, <2>6, <3>2
      <4> QED BY <2>7, <4>1
    <3> QED BY <2>2, <2>3, <2>8, <3>1, <3>2
  <2>9. \A x \in Elements(s) : \E i \in 1 .. n : x = s[i]
    BY ElementsOf DEF n
  <2> QED BY <2>1, <2>6, <2>8, <2>9
<1> QED BY <1>1, <1>2

-----------------------------------------------------------------------------
(***************************************************************************)
(* The order of insertion names every pair, whatever the steps are.        *)
(***************************************************************************)

\* x is in the step after B up to E
InStep(x, B, E, k) ==
  /\ E \in Pal(k) /\ x <= E /\ \A cur \in Pal(k) : x <= cur => E <= cur
  /\ B \in Pal(k) \cup {0} /\ B < x /\ \A prev \in Pal(k) \cup {0} : prev < x => prev <= B

\* StepEnd and StepBefore are the ends of the only step a number is in.
LEMMA StepIs ==
  ASSUME NEW k \in Nat \ {0}, NEW x \in 1 .. k
  PROVE  /\ InStep(x, StepBefore(x, k), StepEnd(x, k), k)
         /\ \A B, E \in 0 .. k :
              InStep(x, B, E, k) => StepBefore(x, k) = B /\ StepEnd(x, k) = E
<1> DEFINE P == Pal(k)
           U == { cur \in P : cur >= x }
           L == { prev \in P \cup {0} : prev < x }
<1>1. P \subseteq 1 .. k /\ k \in P
  BY DEF Pal
<1> HIDE DEF P
<1>2. U \subseteq 1 .. k /\ U \subseteq Nat /\ k \in U /\ L \subseteq 0 .. k /\ 0 \in L
  <2>1. k \in U /\ 0 \in L
    BY <1>1
  <2>2. U \subseteq P /\ L \subseteq P \cup {0}
    OBVIOUS
  <2>3. 1 .. k \subseteq Nat /\ 1 .. k \subseteq 0 .. k /\ 0 \in 0 .. k
    OBVIOUS
  <2> HIDE DEF U, L
  <2> QED BY <1>1, <2>1, <2>2, <2>3
<1> HIDE DEF U, L
<1>3. StepEnd(x, k) = Min(U) /\ StepBefore(x, k) = Max(L)
  BY DEF StepEnd, StepBefore, U, L, P
<1>4. Min(U) \in U /\ \A cur \in U : Min(U) <= cur
  <2>1. \E m \in U : \A cur \in U : m <= cur
    BY <1>2, Least
  <2> QED BY <2>1 DEF Min
<1>5. Max(L) \in L /\ \A prev \in L : prev <= Max(L)
  <2>1. \E m \in L : \A prev \in L : prev <= m
    BY <1>2, Greatest
  <2>2. \E m \in L : \A prev \in L : m >= prev
    BY <1>2, <2>1
  <2>3. Max(L) \in L /\ \A prev \in L : Max(L) >= prev
    BY <2>2 DEF Max
  <2> QED BY <1>2, <2>3
<1>6. InStep(x, Max(L), Min(U), k)
  <2>1. Min(U) \in P /\ x <= Min(U) /\ \A cur \in P : x <= cur => Min(U) <= cur
    BY <1>1, <1>4 DEF U
  <2>2. Max(L) \in P \cup {0} /\ Max(L) < x /\ \A prev \in P \cup {0} : prev < x => prev <= Max(L)
    BY <1>1, <1>5 DEF L
  <2> QED BY <2>1, <2>2 DEF InStep, P
<1>7. ASSUME NEW B \in 0 .. k, NEW E \in 0 .. k, InStep(x, B, E, k)
      PROVE  Max(L) = B /\ Min(U) = E
  <2>1. E \in U /\ B \in L
    BY <1>1, <1>7 DEF InStep, U, L, P
  <2>2. E <= Min(U) /\ Max(L) <= B
    BY <1>4, <1>5, <1>7 DEF InStep, U, L, P
  <2>3. Min(U) <= E /\ B <= Max(L)
    BY <1>4, <1>5, <2>1
  <2>4. Min(U) \in 1 .. k /\ Max(L) \in 0 .. k
    BY <1>2, <1>4, <1>5
  <2> QED BY <2>2, <2>3, <2>4
<1> QED BY <1>3, <1>6, <1>7

\* Every pair comes up: the place of x in the order is where x itself would stand.
LEMMA OrderIs ==
  ASSUME NEW k \in Nat \ {0}
  PROVE  /\ JacobsthalOrder(k) \in Seq(1 .. k) /\ Len(JacobsthalOrder(k)) = k
         /\ 1 .. k \subseteq Elements(JacobsthalOrder(k))
<1> DEFINE s == JacobsthalOrder(k)
           E(x) == StepEnd(x, k)
           B(x) == StepBefore(x, k)
           y(x) == E(x) + B(x) + 1 - x
<1>1. s = [x \in 1 .. k |-> y(x)]
  BY DEF JacobsthalOrder
<1>2. Pal(k) \subseteq 1 .. k
  BY DEF Pal
<1>3. \A x \in 1 .. k : InStep(x, B(x), E(x), k)
  BY StepIs
<1> HIDE DEF s, E, B
<1>4. \A x \in 1 .. k : /\ E(x) \in 1 .. k /\ B(x) \in 0 .. k /\ B(x) < x /\ x <= E(x)
                        /\ y(x) \in 1 .. k /\ B(x) < y(x) /\ y(x) <= E(x)
  <2> SUFFICES ASSUME NEW x \in 1 .. k
               PROVE  /\ E(x) \in 1 .. k /\ B(x) \in 0 .. k /\ B(x) < x /\ x <= E(x)
                      /\ y(x) \in 1 .. k /\ B(x) < y(x) /\ y(x) <= E(x)
    OBVIOUS
  <2>1. E(x) \in 1 .. k /\ B(x) \in 0 .. k /\ B(x) < x /\ x <= E(x)
    BY <1>2, <1>3 DEF InStep
  <2> QED BY <2>1
<1>5. ASSUME NEW x \in 1 .. k PROVE y(y(x)) = x
  <2> DEFINE z == y(x)
  <2>1. z \in 1 .. k /\ B(x) < z /\ z <= E(x) /\ E(x) \in 1 .. k /\ B(x) \in 0 .. k
    BY <1>4
  <2>2. InStep(x, B(x), E(x), k)
    BY <1>3
  <2>3. x \in Int /\ z + x = E(x) + B(x) + 1
    BY <2>1
  <2> HIDE DEF z
  <2>4. \A cur \in Pal(k) : z <= cur => E(x) <= cur
    <3> SUFFICES ASSUME NEW cur \in Pal(k), z <= cur PROVE E(x) <= cur
      OBVIOUS
    <3>1. cur \in 1 .. k /\ B(x) < cur
      BY <1>2, <2>1
    <3>2. CASE x <= cur
      BY <2>2, <3>2 DEF InStep
    <3>3. CASE cur < x
      <4>1. cur <= B(x)
        BY <2>2, <3>3 DEF InStep
      <4> QED BY <2>1, <3>1, <4>1
    <3> QED BY <2>3, <3>1, <3>2, <3>3
  <2>5. \A prev \in Pal(k) \cup {0} : prev < z => prev <= B(x)
    <3> SUFFICES ASSUME NEW prev \in Pal(k) \cup {0}, prev < z PROVE prev <= B(x)
      OBVIOUS
    <3>1. prev \in 0 .. k /\ prev < E(x)
      BY <1>2, <2>1
    <3>2. CASE prev < x
      BY <2>2, <3>2 DEF InStep
    <3>3. CASE x <= prev
      <4>1. prev \in Pal(k)
        BY <3>3
      <4>2. E(x) <= prev
        BY <2>2, <3>3, <4>1 DEF InStep
      <4> QED BY <2>1, <3>1, <4>2
    <3> QED BY <2>3, <3>1, <3>2, <3>3
  <2>6. InStep(z, B(x), E(x), k)
    BY <2>1, <2>2, <2>4, <2>5 DEF InStep
  <2>7. B(z) = B(x) /\ E(z) = E(x)
    <3>1. E(x) \in 0 .. k
      BY <2>1
    <3> QED BY <2>1, <2>6, <3>1, StepIs DEF B, E
  <2>8. y(z) = E(x) + B(x) + 1 - z
    BY <2>7
  <2>9. y(z) = x
    BY <2>1, <2>3, <2>8
  <2> QED BY <2>9 DEF z
<1> HIDE DEF y
<1>6. s \in Seq(1 .. k) /\ Len(s) = k
  <2>1. s = [x \in 1 .. k |-> s[x]] /\ \A x \in 1 .. k : s[x] \in 1 .. k
    BY <1>1, <1>4
  <2> QED BY <2>1, SequenceFrom
<1>7. Elements(s) = { s[x] : x \in 1 .. k }
  BY <1>6, ElementsOf
<1>8. \A x \in 1 .. k : s[y(x)] = x /\ y(x) \in 1 .. k
  BY <1>1, <1>4, <1>5
<1> QED BY <1>6, <1>7, <1>8 DEF s

-----------------------------------------------------------------------------
(***************************************************************************)
(* The pairs of a list.                                                    *)
(***************************************************************************)
HalfOf(s) == Len(s) \div 2
MainOf(s) == [i \in DOMAIN Pairs(s) |-> Larger(Pairs(s)[i])]
PendOf(s) == [i \in DOMAIN Pairs(s) |-> Smaller(Pairs(s)[i])]
RestOf(s) == SubSeq(s, 2 * Len(Pairs(s)) + 1, Len(s))

\* The larger and the smaller number of each pair, and what is left over.
LEMMA PairIs ==
  ASSUME NEW T, T \subseteq Int, NEW s \in Seq(T), Len(s) > 1
  PROVE  /\ HalfOf(s) \in 1 .. Len(s) /\ (2 * HalfOf(s) = Len(s) \/ 2 * HalfOf(s) + 1 = Len(s))
         /\ MainOf(s) \in Seq(T) /\ Len(MainOf(s)) = HalfOf(s)
         /\ PendOf(s) \in Seq(T) /\ Len(PendOf(s)) = HalfOf(s)
         /\ RestOf(s) \in Seq(T) /\ RestOf(s) = SubSeq(s, 2 * HalfOf(s) + 1, Len(s))
         /\ \A i \in 1 .. HalfOf(s) :
              /\ 2 * i - 1 \in 1 .. Len(s) /\ 2 * i \in 1 .. Len(s)
              /\ MainOf(s)[i] = IF s[2 * i - 1] > s[2 * i] THEN s[2 * i - 1] ELSE s[2 * i]
              /\ PendOf(s)[i] = IF s[2 * i - 1] > s[2 * i] THEN s[2 * i] ELSE s[2 * i - 1]
              /\ PendOf(s)[i] <= MainOf(s)[i]
              /\ {MainOf(s)[i], PendOf(s)[i]} = {s[2 * i - 1], s[2 * i]}
<1> DEFINE n == Len(s)
           p == n \div 2
           pairs == Pairs(s)
           main == MainOf(s)
           pend == PendOf(s)
<1>1. /\ n \in Nat /\ n > 1 /\ p \in 1 .. n /\ (2 * p = n \/ 2 * p + 1 = n)
  <2>1. \A m \in Nat : m > 1 => /\ m \div 2 \in 1 .. m
                                 /\ (2 * (m \div 2) = m \/ 2 * (m \div 2) + 1 = m)
    OBVIOUS
  <2>2. n \in Nat
    OBVIOUS
  <2> QED BY <2>1, <2>2
<1>2. \A i \in 1 .. n : s[i] \in T /\ s[i] \in Int
  <2>1. \A i \in 1 .. n : s[i] \in T
    BY ElementIs
  <2> QED BY <2>1
<1>3. pairs = [i \in 1 .. p |-> <<s[2 * i - 1], s[2 * i]>>]
  BY DEF Pairs
<1> HIDE DEF p, pairs
<1>4. \A i \in 1 .. p : 2 * i - 1 \in 1 .. n /\ 2 * i \in 1 .. n
  BY <1>1
<1>5. DOMAIN pairs = 1 .. p /\ Len(pairs) = p
  <2> DEFINE TT == T \X T
  <2>1. pairs = [i \in 1 .. p |-> pairs[i]] /\ \A i \in 1 .. p : pairs[i] \in TT
    BY <1>2, <1>3, <1>4
  <2>2. p \in Nat
    BY <1>1
  <2> HIDE DEF n, TT
  <2>3. pairs \in Seq(TT) /\ Len(pairs) = p
    BY <2>1, <2>2, SequenceFrom
  <2> QED BY <1>3, <2>3
<1>6. \A i \in 1 .. p :
        /\ main[i] = IF s[2 * i - 1] > s[2 * i] THEN s[2 * i - 1] ELSE s[2 * i]
        /\ pend[i] = IF s[2 * i - 1] > s[2 * i] THEN s[2 * i] ELSE s[2 * i - 1]
  BY <1>3, <1>5 DEF Larger, Smaller, MainOf, PendOf, pairs
<1>7. \A i \in 1 .. p : /\ main[i] \in T /\ pend[i] \in T /\ pend[i] <= main[i]
                        /\ {main[i], pend[i]} = {s[2 * i - 1], s[2 * i]}
  <2> SUFFICES ASSUME NEW i \in 1 .. p
               PROVE  /\ main[i] \in T /\ pend[i] \in T /\ pend[i] <= main[i]
                      /\ {main[i], pend[i]} = {s[2 * i - 1], s[2 * i]}
    OBVIOUS
  <2> DEFINE u == s[2 * i - 1]
             w == s[2 * i]
  <2>1. u \in T /\ w \in T /\ u \in Int /\ w \in Int
    BY <1>2, <1>4
  <2>2. main[i] = (IF u > w THEN u ELSE w) /\ pend[i] = (IF u > w THEN w ELSE u)
    BY <1>6
  <2> HIDE DEF u, w
  <2>3. main[i] \in T /\ pend[i] \in T /\ pend[i] <= main[i] /\ {main[i], pend[i]} = {u, w}
    BY <2>1, <2>2
  <2> QED BY <2>3 DEF u, w
<1>8. main \in Seq(T) /\ Len(main) = p
  <2>1. main = [i \in 1 .. p |-> main[i]] /\ \A i \in 1 .. p : main[i] \in T
    BY <1>5, <1>7 DEF MainOf, pairs
  <2>2. p \in Nat
    BY <1>1
  <2> HIDE DEF main, n
  <2> QED BY <2>1, <2>2, SequenceFrom
<1>9. pend \in Seq(T) /\ Len(pend) = p
  <2>1. pend = [i \in 1 .. p |-> pend[i]] /\ \A i \in 1 .. p : pend[i] \in T
    BY <1>5, <1>7 DEF PendOf, pairs
  <2>2. p \in Nat
    BY <1>1
  <2> HIDE DEF pend, n
  <2> QED BY <2>1, <2>2, SequenceFrom
<1>10. RestOf(s) = SubSeq(s, 2 * p + 1, n) /\ RestOf(s) \in Seq(T)
  <2> DEFINE l == 2 * p + 1
  <2>1. RestOf(s) = SubSeq(s, l, n)
    BY <1>5 DEF RestOf, pairs
  <2>2. l \in 1 .. n + 1
    BY <1>1
  <2> HIDE DEF l
  <2>3. SubSeq(s, l, n) \in Seq(T)
    BY <2>2
  <2> QED BY <2>1, <2>3 DEF l
<1>11. p = HalfOf(s)
  BY DEF p, HalfOf
<1> HIDE DEF n, main, pend
<1> QED BY <1>1, <1>4, <1>6, <1>7, <1>8, <1>9, <1>10, <1>11 DEF n, main, pend

\* The larger and the smaller of each pair and the straggler are the whole list.
LEMMA PairsAre ==
  ASSUME NEW T, T \subseteq Int, NEW s \in Seq(T), Len(s) > 1
  PROVE  /\ MainOf(s) \in Seq(T) /\ PendOf(s) \in Seq(T) /\ RestOf(s) \in Seq(T)
         /\ Len(MainOf(s)) = Len(PendOf(s)) /\ Len(MainOf(s)) \in 1 .. Len(s)
         /\ Len(RestOf(s)) <= 1
         /\ \A i \in 1 .. Len(PendOf(s)) : PendOf(s)[i] <= MainOf(s)[i]
         /\ Elements(s) = Elements(MainOf(s)) \cup Elements(PendOf(s)) \cup Elements(RestOf(s))
<1> DEFINE n == Len(s)
           p == HalfOf(s)
           main == MainOf(s)
           pend == PendOf(s)
           rest == RestOf(s)
<1>1. n \in Nat /\ n > 1
  OBVIOUS
<1>2. /\ p \in 1 .. n /\ (2 * p = n \/ 2 * p + 1 = n)
      /\ main \in Seq(T) /\ Len(main) = p /\ pend \in Seq(T) /\ Len(pend) = p
      /\ rest \in Seq(T) /\ rest = SubSeq(s, 2 * p + 1, n)
      /\ \A i \in 1 .. p :
           /\ 2 * i - 1 \in 1 .. n /\ 2 * i \in 1 .. n /\ pend[i] <= main[i]
           /\ {main[i], pend[i]} = {s[2 * i - 1], s[2 * i]}
  BY PairIs
<1> HIDE DEF p
<1>3. rest \in Seq(T) /\ Len(rest) = n - 2 * p /\ (2 * p + 1 = n => rest[1] = s[n])
  <2> DEFINE l == 2 * p + 1
  <2>1. rest = SubSeq(s, l, n)
    BY <1>2
  <2>2. l \in 1 .. n + 1 /\ n - l + 1 = n - 2 * p
    BY <1>1, <1>2
  <2>3. rest \in Seq(T)
    BY <1>2
  <2> HIDE DEF rest, l
  <2>4. Len(SubSeq(s, l, n)) = n - l + 1
    BY <1>1, <2>2
  <2>5. l = n => SubSeq(s, l, n)[1] = s[l]
    BY <1>1, <2>2
  <2> QED BY <2>1, <2>2, <2>3, <2>4, <2>5 DEF l
<1> HIDE DEF main, pend, rest
<1>4. /\ Elements(s) = { s[i] : i \in 1 .. n } /\ Elements(main) = { main[i] : i \in 1 .. p }
      /\ Elements(pend) = { pend[i] : i \in 1 .. p }
      /\ Elements(rest) = { rest[i] : i \in 1 .. n - 2 * p }
  <2>1. Elements(s) = { s[i] : i \in 1 .. n }
    BY ElementsOf
  <2>2. Elements(main) = { main[i] : i \in 1 .. Len(main) }
    BY <1>2, ElementsOf
  <2>3. Elements(pend) = { pend[i] : i \in 1 .. Len(pend) }
    BY <1>2, ElementsOf
  <2>4. Elements(rest) = { rest[i] : i \in 1 .. Len(rest) }
    BY <1>3, ElementsOf
  <2> QED BY <1>2, <1>3, <2>1, <2>2, <2>3, <2>4
<1>5. \A j \in 1 .. n : \/ \E i \in 1 .. p : j = 2 * i - 1 \/ j = 2 * i
                        \/ 2 * p + 1 = n /\ j = n
  <2> SUFFICES ASSUME NEW j \in 1 .. n, ~ (2 * p + 1 = n /\ j = n)
               PROVE  \E i \in 1 .. p : j = 2 * i - 1 \/ j = 2 * i
    OBVIOUS
  <2>1. \E i \in Int : j = 2 * i - 1 \/ j = 2 * i
    <3>1. \A m \in Int : m = 2 * ((m + 1) \div 2) - 1 \/ m = 2 * ((m + 1) \div 2)
      OBVIOUS
    <3>2. j \in Int /\ (j + 1) \div 2 \in Int
      OBVIOUS
    <3>3. j = 2 * ((j + 1) \div 2) - 1 \/ j = 2 * ((j + 1) \div 2)
      BY <3>1, <3>2
    <3> QED BY <3>2, <3>3
  <2>2. PICK i \in Int : j = 2 * i - 1 \/ j = 2 * i
    BY <2>1
  <2>3. i \in 1 .. p
    BY <1>1, <1>2, <2>2
  <2> QED BY <2>2, <2>3
<1>6. ASSUME NEW j \in 1 .. n
      PROVE  s[j] \in Elements(main) \cup Elements(pend) \cup Elements(rest)
  <2>1. CASE 2 * p + 1 = n /\ j = n
    <3>1. 1 \in 1 .. n - 2 * p
      BY <1>1, <1>2, <2>1
    <3> QED BY <1>3, <1>4, <2>1, <3>1
  <2>2. CASE \E i \in 1 .. p : j = 2 * i - 1 \/ j = 2 * i
    <3>1. PICK i \in 1 .. p : j = 2 * i - 1 \/ j = 2 * i
      BY <2>2
    <3>2. s[j] \in {s[2 * i - 1], s[2 * i]}
      BY <3>1
    <3>3. s[j] \in {main[i], pend[i]}
      BY <1>2, <3>2
    <3> QED BY <1>4, <3>3
  <2> QED BY <1>5, <2>1, <2>2
<1>7. ASSUME NEW i \in 1 .. p PROVE main[i] \in Elements(s) /\ pend[i] \in Elements(s)
  <2>1. s[2 * i - 1] \in Elements(s) /\ s[2 * i] \in Elements(s)
    BY <1>2, <1>4
  <2>2. main[i] \in {s[2 * i - 1], s[2 * i]} /\ pend[i] \in {s[2 * i - 1], s[2 * i]}
    BY <1>2
  <2> QED BY <2>1, <2>2
<1>8. Elements(rest) \subseteq Elements(s)
  <2>1. \A i \in 1 .. n - 2 * p : i = 1 /\ 2 * p + 1 = n /\ n \in 1 .. n
    BY <1>1, <1>2
  <2> QED BY <1>3, <1>4, <2>1
<1>9. Elements(s) = Elements(main) \cup Elements(pend) \cup Elements(rest)
  <2>1. Elements(s) \subseteq Elements(main) \cup Elements(pend) \cup Elements(rest)
    BY <1>4, <1>6
  <2>2. Elements(main) \subseteq Elements(s) /\ Elements(pend) \subseteq Elements(s)
    BY <1>4, <1>7
  <2> QED BY <1>8, <2>1, <2>2
<1>10. n - 2 * p <= 1
  BY <1>1, <1>2
<1> QED BY <1>1, <1>2, <1>3, <1>9, <1>10 DEF main, pend, rest

-----------------------------------------------------------------------------
(***************************************************************************)
(* The inductive invariant of PmergeMe.                                    *)
(***************************************************************************)
Numbers == 1 .. IntMax
Calls == [ogMain : Seq(Numbers), pend : Seq(Numbers), straggler : Seq(Numbers)]
All(f) == Elements(f.ogMain) \cup Elements(f.pend) \cup Elements(f.straggler)

Containers ==
  /\ args \in Seq(Int)
  /\ c \in Seq(Numbers) /\ order \in Seq(1 .. Len(args)) /\ frames \in Seq(Calls)

Paired(f) ==
  /\ Len(f.ogMain) = Len(f.pend) /\ Len(f.ogMain) \in 1 .. Len(args)
  /\ Len(f.straggler) <= 1
  /\ \A j \in 1 .. Len(f.pend) : f.pend[j] <= f.ogMain[j]

\* Each call was given the larger numbers of the call before
Nested ==
  \A i \in 1 .. Len(frames) :
    /\ Paired(frames[i])
    /\ i > 1 => Elements(frames[i - 1].ogMain) = All(frames[i])

\* A call gets the larger numbers and returns them sorted; main has them all the while the
\* smaller ones go in, and every smaller one is in main or in the order
Passed ==
  /\ pc = "check" => frames = <<>>
  /\ pc = "sort" => Len(c) <= Len(args) /\ (frames # <<>> => c = Call.ogMain)
  /\ pc = "return" => Ascending(c) /\ (frames # <<>> => Elements(c) = Elements(Call.ogMain))
  /\ pc = "insert" =>
       /\ frames # <<>> /\ Ascending(c)
       /\ Elements(Call.ogMain) \subseteq Elements(c) /\ Elements(c) \subseteq All(Call)
       /\ order \in Seq(1 .. Len(Call.pend))
       /\ \A j \in 1 .. Len(Call.pend) :
            Call.pend[j] \in Elements(c) \/ j \in Elements(order)

MInv == Containers /\ Nested /\ Passed

\* Nothing of the invariant is about what else changes.
LEMMA MInvOf ==
  ASSUME MInv, UNCHANGED <<args, pmergeMe>>, pc' \notin {"check", "sort", "return", "insert"}
  PROVE  MInv'
<1>1. UNCHANGED <<args, c, frames, order>>
  BY DEF pmergeMe
<1>2. Containers'
  BY <1>1 DEF MInv, Containers
<1>3. Nested'
  BY <1>1 DEF MInv, Nested, Paired
<1>4. Passed'
  BY DEF Passed
<1> QED BY <1>2, <1>3, <1>4 DEF MInv

\* What a call keeps while the calls within it run.
LEMMA CallIs ==
  ASSUME MInv, frames # <<>>
  PROVE  /\ Len(frames) \in Nat \ {0} /\ Call = frames[Len(frames)] /\ Call \in Calls
         /\ Call.ogMain \in Seq(Numbers) /\ Call.pend \in Seq(Numbers)
         /\ Call.straggler \in Seq(Numbers) /\ Paired(Call)
         /\ Len(frames) > 1 => Elements(frames[Len(frames) - 1].ogMain) = All(Call)
<1>1. frames \in Seq(Calls) /\ Len(frames) \in Nat \ {0}
  BY DEF MInv, Containers
<1>2. Len(frames) \in 1 .. Len(frames)
  BY <1>1
<1>3. frames[Len(frames)] \in Calls
  BY <1>1, <1>2, ElementIs
<1>4. /\ Paired(frames[Len(frames)])
      /\ Len(frames) > 1 => Elements(frames[Len(frames) - 1].ogMain) = All(frames[Len(frames)])
  BY <1>2 DEF MInv, Nested
<1> QED BY <1>1, <1>3, <1>4 DEF Call, Calls

\* The numbers are taken as they are.
LEMMA ReadInputKeeps ==
  ASSUME MInv, ReadInput
  PROVE  MInv'
<1> USE DEF MInv
<1>1. pc = "check" /\ frames = <<>> /\ UNCHANGED <<args, frames, order>>
  BY DEF ReadInput, Passed
<1>2. CASE pc' = "refused" /\ UNCHANGED c
  BY <1>1, <1>2, MInvOf DEF pmergeMe
<1>3. CASE /\ \A i \in DOMAIN args : args[i] \in Numbers
           /\ c' = args /\ pc' \in {"sorted", "sort"}
  <2>1. args \in Seq(Int)
    BY DEF Containers
  <2>2. args = [i \in 1 .. Len(args) |-> args[i]] /\ \A i \in 1 .. Len(args) : args[i] \in Numbers
    BY <1>3, <2>1
  <2>3. Len(args) \in Nat
    BY <2>1
  <2>4. args \in Seq(Numbers)
    BY <2>2, <2>3, SequenceFrom
  <2>5. Containers'
    BY <1>1, <1>3, <2>4 DEF Containers
  <2>6. Nested'
    BY <1>1 DEF Nested, Paired
  <2>7. Passed'
    BY <1>1, <1>3, <2>3 DEF Passed
  <2> QED BY <2>5, <2>6, <2>7
<1> QED BY <1>2, <1>3 DEF ReadInput, Numbers

\* A call waits with its pairs for its larger numbers.
LEMMA SortPairsKeeps ==
  ASSUME MInv, SortPairsAndPush
  PROVE  MInv'
<1> DEFINE f == [ogMain |-> MainOf(c), pend |-> PendOf(c), straggler |-> RestOf(c)]
           n == Len(frames)
<1>1. /\ pc = "sort" /\ pc' = "sort" /\ Len(c) > 1 /\ c' = MainOf(c) /\ frames' = Append(frames, f)
      /\ UNCHANGED <<args, order>>
  BY DEF SortPairsAndPush, MainOf, PendOf, RestOf
<1>2. /\ c \in Seq(Numbers) /\ frames \in Seq(Calls) /\ n \in Nat /\ Len(args) \in Nat
      /\ Len(c) <= Len(args) /\ Len(c) \in Nat /\ (frames # <<>> => c = Call.ogMain)
  BY <1>1 DEF MInv, Containers, Passed
<1>3. /\ MainOf(c) \in Seq(Numbers) /\ PendOf(c) \in Seq(Numbers) /\ RestOf(c) \in Seq(Numbers)
      /\ Len(MainOf(c)) = Len(PendOf(c)) /\ Len(MainOf(c)) \in 1 .. Len(c)
      /\ Len(RestOf(c)) <= 1
      /\ \A i \in 1 .. Len(PendOf(c)) : PendOf(c)[i] <= MainOf(c)[i]
      /\ Elements(c) = Elements(MainOf(c)) \cup Elements(PendOf(c)) \cup Elements(RestOf(c))
  <2>1. Numbers \subseteq Int
    BY DEF Numbers
  <2> QED BY <1>1, <1>2, <2>1, PairsAre
<1>4. Len(MainOf(c)) \in 1 .. Len(args)
  BY <1>2, <1>3
<1>5. /\ f \in Calls /\ f.ogMain = MainOf(c) /\ f.pend = PendOf(c) /\ f.straggler = RestOf(c)
  BY <1>3 DEF Calls
<1> HIDE DEF f
<1>6. Paired(f) /\ All(f) = Elements(c)
  BY <1>3, <1>4, <1>5 DEF Paired, All
<1>7. /\ frames' \in Seq(Calls) /\ Len(frames') = n + 1 /\ frames'[n + 1] = f
      /\ \A i \in 1 .. n : frames'[i] = frames[i]
  BY <1>1, <1>2, <1>5
<1>8. Call' = f /\ frames' # <<>>
  BY <1>7 DEF Call
<1>9. Containers'
  BY <1>1, <1>3, <1>7 DEF MInv, Containers
<1>10. Nested'
  <2> SUFFICES ASSUME NEW i \in 1 .. n + 1
               PROVE  /\ Paired(frames'[i])
                      /\ i > 1 => Elements(frames'[i - 1].ogMain) = All(frames'[i])
    BY <1>1, <1>7 DEF Nested, Paired
  <2>1. CASE i \in 1 .. n
    <3>1. i > 1 => i - 1 \in 1 .. n
      BY <1>2, <2>1
    <3>2. Paired(frames[i]) /\ (i > 1 => Elements(frames[i - 1].ogMain) = All(frames[i]))
      BY <2>1 DEF MInv, Nested
    <3> QED BY <1>7, <2>1, <3>1, <3>2
  <2>2. CASE i = n + 1
    <3>1. i > 1 => i - 1 \in 1 .. n /\ i - 1 = n
      BY <1>2, <2>2
    <3>2. i > 1 => frames # <<>>
      BY <1>2, <3>1
    <3>3. i > 1 => frames'[i - 1].ogMain = c
      BY <1>2, <1>7, <3>1, <3>2 DEF Call
    <3> QED BY <1>6, <1>7, <2>2, <3>3
  <2> QED BY <1>2, <2>1, <2>2
<1>11. Passed'
  <2>1. Len(c') <= Len(args)
    BY <1>1, <1>2, <1>4
  <2>2. c' = Call'.ogMain
    BY <1>1, <1>5, <1>8
  <2> QED BY <1>1, <2>1, <2>2 DEF Passed
<1> QED BY <1>9, <1>10, <1>11 DEF MInv

\* One number, or none, is sorted; the end changes nothing.
LEMMA InnermostKeeps ==
  ASSUME MInv, Innermost \/ Returned
  PROVE  MInv'
<1>1. CASE Innermost
  <2>1. pc = "sort" /\ pc' = "return" /\ Len(c) <= 1 /\ UNCHANGED <<args, c, frames, order>>
    BY <1>1 DEF Innermost, pmergeMe
  <2>2. Ascending(c)
    <3>1. Len(c) \in Nat
      BY DEF MInv, Containers
    <3>2. \A i \in 1 .. Len(c) - 1 : FALSE
      BY <2>1, <3>1
    <3> QED BY <3>2 DEF Ascending
  <2>3. frames # <<>> => c = Call.ogMain
    BY <2>1 DEF MInv, Passed
  <2>4. Containers'
    BY <2>1 DEF MInv, Containers
  <2>5. Nested'
    BY <2>1 DEF MInv, Nested, Paired
  <2>6. Passed'
    BY <2>1, <2>2, <2>3 DEF Passed, Call
  <2> QED BY <2>4, <2>5, <2>6 DEF MInv
<1>2. CASE Returned
  <2>1. pc' = "sorted" /\ UNCHANGED <<args, pmergeMe>>
    BY <1>2 DEF Returned
  <2> QED BY <2>1, MInvOf
<1> QED BY <1>1, <1>2


\* A number in front of a list that begins no smaller.
LEMMA PuttingFirstKeeps ==
  ASSUME NEW T, T \subseteq Int, NEW s \in Seq(T), Ascending(s), s # <<>>,
         NEW e \in T, e <= s[1]
  PROVE  SortedWith(<<e>> \o s, s, e, T)
<1>1. InsertAt(s, 1, e) = <<e>> \o s
  <2> DEFINE h == SubSeq(s, 1, 0)
             r == SubSeq(s, 1, Len(s))
  <2>1. InsertAt(s, 1, e) = h \o <<e>> \o r
    BY DEF InsertAt
  <2>2. h = <<>> /\ r = s
    OBVIOUS
  <2> HIDE DEF h, r
  <2>3. <<>> \o <<e>> = <<e>>
    OBVIOUS
  <2> QED BY <2>1, <2>2, <2>3
<1>2. Fits(s, 1, e)
  BY DEF Fits
<1>3. SortedWith(InsertAt(s, 1, e), s, e, T)
  BY <1>2, InsertingKeeps
<1> QED BY <1>1, <1>3

\* The smaller of the first pair is no larger than the whole of main.
LEMMA PutFirstKeeps ==
  ASSUME MInv, PutFirst
  PROVE  MInv'
<1> DEFINE k == Len(Call.pend)
           first == First(Call.ogMain, c[1])
           small == Call.pend[first]
<1>1. /\ pc = "return" /\ pc' = "insert" /\ frames # <<>> /\ UNCHANGED <<args, frames>>
      /\ c' = <<small>> \o c /\ order' = RemoveFirst(JacobsthalOrder(k), first)
  BY DEF PutFirst
<1>2. /\ Call.ogMain \in Seq(Numbers) /\ Call.pend \in Seq(Numbers) /\ Paired(Call)
  BY <1>1, CallIs
<1>3. /\ c \in Seq(Numbers) /\ Ascending(c) /\ Elements(c) = Elements(Call.ogMain)
  BY <1>1 DEF MInv, Containers, Passed
<1>4. k \in Nat \ {0} /\ Len(Call.ogMain) = k /\ 1 .. k \subseteq 1 .. Len(args)
  <2>1. k \in 1 .. Len(args) /\ Len(Call.ogMain) = k
    BY <1>2 DEF Paired
  <2>2. Len(args) \in Nat
    BY DEF MInv, Containers
  <2> QED BY <2>1, <2>2
<1>5. c # <<>> /\ c[1] \in Elements(Call.ogMain)
  <2>1. 1 \in 1 .. Len(Call.ogMain)
    BY <1>4
  <2>2. Elements(Call.ogMain) # {}
    <3>1. Elements(Call.ogMain) = { Call.ogMain[i] : i \in 1 .. Len(Call.ogMain) }
      BY <1>2, ElementsOf
    <3> QED BY <2>1, <3>1
  <2>3. Len(c) \in Nat /\ Elements(c) = { c[i] : i \in 1 .. Len(c) }
    BY <1>3, ElementsOf
  <2>4. 1 \in 1 .. Len(c) /\ c # <<>>
    BY <1>3, <2>2, <2>3
  <2> QED BY <1>3, <2>3, <2>4
<1>6. first \in 1 .. k /\ Call.ogMain[first] = c[1]
  BY <1>2, <1>4, <1>5, FirstIs
<1> HIDE DEF first
<1>7. small \in Numbers /\ small <= c[1]
  <2>1. Call.pend[first] \in Numbers
    BY <1>2, <1>6, ElementIs
  <2>2. Call.pend[first] <= Call.ogMain[first]
    BY <1>2, <1>6 DEF Paired
  <2> QED BY <1>6, <2>1, <2>2
<1>8. /\ JacobsthalOrder(k) \in Seq(1 .. k) /\ 1 .. k \subseteq Elements(JacobsthalOrder(k))
  BY <1>4, OrderIs
<1>9. /\ order' \in Seq(1 .. k)
      /\ \A x \in Elements(JacobsthalOrder(k)) : x # first => x \in Elements(order')
  BY <1>1, <1>8, RemoveFirstKeeps
<1>10. /\ c' \in Seq(Numbers) /\ Ascending(c') /\ Elements(c') = Elements(c) \cup {small}
  <2>1. Numbers \subseteq Int
    BY DEF Numbers
  <2> DEFINE t == <<small>> \o c
  <2>2. SortedWith(t, c, small, Numbers)
    <3> HIDE DEF small
    <3> QED BY <1>3, <1>5, <1>7, <2>1, PuttingFirstKeeps
  <2>3. c' = t
    BY <1>1
  <2> HIDE DEF t
  <2> QED BY <2>2, <2>3 DEF SortedWith
<1>11. small \in Elements(Call.pend)
  <2>1. Elements(Call.pend) = { Call.pend[i] : i \in 1 .. k }
    BY <1>2, ElementsOf
  <2> QED BY <1>6, <2>1
<1>12. Call' = Call
  BY <1>1 DEF Call
<1>13. Containers'
  <2>1. \A S, R : S \subseteq R => Seq(S) \subseteq Seq(R)
    OBVIOUS
  <2>2. order' \in Seq(1 .. Len(args))
    BY <1>4, <1>9, <2>1
  <2>3. args \in Seq(Int) /\ frames \in Seq(Calls)
    BY DEF MInv, Containers
  <2> HIDE DEF small, k
  <2> QED BY <1>1, <1>10, <2>2, <2>3 DEF Containers
<1>14. Nested'
  BY <1>1 DEF MInv, Nested, Paired
<1>15. Passed'
  <2>1. Elements(Call.ogMain) \subseteq Elements(c') /\ Elements(c') \subseteq All(Call)
    BY <1>3, <1>10, <1>11 DEF All
  <2>2. \A j \in 1 .. k : Call.pend[j] \in Elements(c') \/ j \in Elements(order')
    BY <1>8, <1>9, <1>10
  <2> QED BY <1>1, <1>9, <1>10, <1>12, <2>1, <2>2 DEF Passed
<1> QED BY <1>13, <1>14, <1>15 DEF MInv

\* The smaller of a pair goes before the larger, which is found.
LEMMA InsertSmallKeeps ==
  ASSUME MInv, InsertSmallBeforeBig
  PROVE  MInv'
<1> DEFINE o == order[1]
           small == Call.pend[o]
           big == Call.ogMain[o]
           at == LowerBound(c, First(c, big) - 1, small)
<1>1. /\ pc = "insert" /\ pc' = "insert" /\ order # <<>> /\ UNCHANGED <<args, frames>>
      /\ c' = (IF big \in Elements(c) THEN InsertAt(c, at, small) ELSE c)
      /\ order' = Tail(order)
  BY DEF InsertSmallBeforeBig
<1>2. /\ frames # <<>> /\ c \in Seq(Numbers) /\ Ascending(c)
      /\ Elements(Call.ogMain) \subseteq Elements(c) /\ Elements(c) \subseteq All(Call)
      /\ order \in Seq(1 .. Len(Call.pend)) /\ order \in Seq(1 .. Len(args))
      /\ \A j \in 1 .. Len(Call.pend) : Call.pend[j] \in Elements(c) \/ j \in Elements(order)
  BY <1>1 DEF MInv, Containers, Passed
<1>3. Call.ogMain \in Seq(Numbers) /\ Call.pend \in Seq(Numbers) /\ Paired(Call)
  BY <1>2, CallIs
<1>4. o \in 1 .. Len(Call.pend) /\ o \in 1 .. Len(Call.ogMain)
  <2>1. o \in 1 .. Len(Call.pend)
    BY <1>1, <1>2, TailIs
  <2> QED BY <1>3, <2>1 DEF Paired
<1>5. /\ Tail(order) \in Seq(1 .. Len(Call.pend)) /\ Tail(order) \in Seq(1 .. Len(args))
      /\ \A j \in Elements(order) : j = o \/ j \in Elements(Tail(order))
  <2>1. Tail(order) \in Seq(1 .. Len(Call.pend)) /\ Tail(order) \in Seq(1 .. Len(args))
    BY <1>1, <1>2, TailIs
  <2>2. /\ Len(Tail(order)) = Len(order) - 1 /\ Len(order) \in Nat
        /\ \A i \in 1 .. Len(order) - 1 : Tail(order)[i] = order[i + 1]
    BY <1>1, <1>2, TailIs
  <2>3. /\ Elements(order) = { order[i] : i \in 1 .. Len(order) }
        /\ Elements(Tail(order)) = { Tail(order)[i] : i \in 1 .. Len(order) - 1 }
    <3>1. Elements(order) = { order[i] : i \in 1 .. Len(order) }
      BY <1>2, ElementsOf
    <3>2. Elements(Tail(order)) = { Tail(order)[i] : i \in 1 .. Len(Tail(order)) }
      BY <2>1, ElementsOf
    <3> QED BY <2>2, <3>1, <3>2
  <2>4. ASSUME NEW i \in 1 .. Len(order), i # 1
        PROVE  order[i] \in Elements(Tail(order))
    <3>1. i - 1 \in 1 .. Len(order) - 1 /\ (i - 1) + 1 = i
      BY <2>2, <2>4
    <3>2. Tail(order)[i - 1] = order[i]
      BY <2>2, <3>1
    <3> QED BY <2>3, <3>1, <3>2
  <2> QED BY <2>1, <2>3, <2>4
<1> HIDE DEF o
<1>6. small \in Numbers /\ big \in Numbers /\ small <= big /\ big \in Elements(c)
  <2>1. small \in Numbers
    BY <1>3, <1>4, ElementIs
  <2>2. big \in Numbers
    BY <1>3, <1>4, ElementIs
  <2>3. small <= big
    BY <1>3, <1>4 DEF Paired
  <2>4. Elements(Call.ogMain) = { Call.ogMain[i] : i \in 1 .. Len(Call.ogMain) }
    BY <1>3, ElementsOf
  <2>5. big \in Elements(c)
    BY <1>2, <1>4, <2>4
  <2> QED BY <2>1, <2>2, <2>3, <2>5
<1>7. small \in Elements(Call.pend)
  <2>1. Elements(Call.pend) = { Call.pend[i] : i \in 1 .. Len(Call.pend) }
    BY <1>3, ElementsOf
  <2> QED BY <1>4, <2>1
<1>8. Call.pend[o] = small
  OBVIOUS
<1> HIDE DEF small, big
<1>9. /\ c' \in Seq(Numbers) /\ Ascending(c') /\ Elements(c') = Elements(c) \cup {small}
  <2> DEFINE p == First(c, big)
  <2>1. p \in 1 .. Len(c) /\ c[p] = big
    BY <1>2, <1>6, FirstIs
  <2>2. Numbers \subseteq Int /\ Len(c) \in Nat /\ p - 1 \in 0 .. Len(c)
    BY <1>2, <2>1 DEF Numbers
  <2>3. Fits(c, at, small)
    <3>1. (p - 1) + 1 = p
      BY <2>1
    <3> HIDE DEF p, at
    <3>2. p - 1 < Len(c) => small <= c[(p - 1) + 1]
      BY <1>6, <2>1, <3>1
    <3> QED BY <1>2, <1>6, <2>2, <3>2, LowerBoundFits DEF at, p
  <2> HIDE DEF at, p
  <2>4. SortedWith(InsertAt(c, at, small), c, small, Numbers)
    BY <1>2, <1>6, <2>2, <2>3, InsertingKeeps
  <2>5. c' = InsertAt(c, at, small)
    BY <1>1, <1>6
  <2> QED BY <2>4, <2>5 DEF SortedWith
<1>10. Call' = Call
  BY <1>1 DEF Call
<1>11. Containers'
  BY <1>1, <1>5, <1>9 DEF MInv, Containers
<1>12. Nested'
  BY <1>1 DEF MInv, Nested, Paired
<1>13. Passed'
  <2>1. Elements(Call.ogMain) \subseteq Elements(c') /\ Elements(c') \subseteq All(Call)
    BY <1>2, <1>7, <1>9 DEF All
  <2>2. \A j \in 1 .. Len(Call.pend) : Call.pend[j] \in Elements(c') \/ j \in Elements(order')
    BY <1>1, <1>2, <1>5, <1>8, <1>9
  <2> QED BY <1>1, <1>2, <1>5, <1>9, <1>10, <2>1, <2>2 DEF Passed
<1> QED BY <1>11, <1>12, <1>13 DEF MInv

\* With the straggler the call has all its numbers again, and gives them back.
LEMMA InsertStragglerKeeps ==
  ASSUME MInv, InsertStraggler
  PROVE  MInv'
<1> DEFINE n == Len(frames)
           rest == Call.straggler
           at == LowerBound(c, Len(c), rest[1])
<1>1. /\ pc = "insert" /\ pc' = "return" /\ order = <<>> /\ UNCHANGED <<args, order>>
      /\ c' = (IF rest = <<>> THEN c ELSE InsertAt(c, at, rest[1]))
      /\ frames' = SubSeq(frames, 1, n - 1)
  BY DEF InsertStraggler
<1>2. /\ frames # <<>> /\ c \in Seq(Numbers) /\ Ascending(c) /\ frames \in Seq(Calls)
      /\ Elements(Call.ogMain) \subseteq Elements(c) /\ Elements(c) \subseteq All(Call)
      /\ \A j \in 1 .. Len(Call.pend) : Call.pend[j] \in Elements(c) \/ j \in Elements(order)
  BY <1>1 DEF MInv, Containers, Passed
<1>3. /\ n \in Nat \ {0} /\ Call.pend \in Seq(Numbers) /\ rest \in Seq(Numbers) /\ Paired(Call)
      /\ n > 1 => Elements(frames[n - 1].ogMain) = All(Call)
  BY <1>2, CallIs
<1>4. Elements(Call.pend) \subseteq Elements(c)
  <2>1. Elements(Call.pend) = { Call.pend[i] : i \in 1 .. Len(Call.pend) }
    BY <1>3, ElementsOf
  <2>2. Elements(order) = {}
    BY <1>1 DEF Elements
  <2> QED BY <1>2, <2>1, <2>2
<1>5. Elements(rest) = { rest[i] : i \in 1 .. Len(rest) } /\ Len(rest) \in Nat /\ Len(rest) <= 1
  BY <1>3, ElementsOf DEF Paired
<1>6. Numbers \subseteq Int /\ Len(c) \in Nat
  BY <1>2 DEF Numbers
<1>7. c' \in Seq(Numbers) /\ Ascending(c') /\ Elements(c') = All(Call)
  <2>1. CASE rest = <<>>
    <3>1. Elements(rest) = {}
      BY <2>1 DEF Elements
    <3> QED BY <1>1, <1>2, <1>4, <2>1, <3>1 DEF All
  <2>2. CASE rest # <<>>
    <3> DEFINE x == rest[1]
    <3>1. x \in Numbers /\ Elements(rest) = {x}
      <4>1. Len(rest) = 1
        <5>1. Len(rest) # 0
          BY <1>3, <2>2
        <5>2. \A m \in Nat : m <= 1 /\ m # 0 => m = 1
          OBVIOUS
        <5> QED BY <1>5, <5>1, <5>2
      <4>2. x \in Numbers
        BY <1>3, <2>2, TailIs
      <4>3. 1 \in 1 .. 1 /\ \A i \in 1 .. 1 : i = 1
        OBVIOUS
      <4> QED BY <1>5, <4>1, <4>2, <4>3
    <3>2. c' = InsertAt(c, at, x)
      BY <1>1, <2>2
    <3> HIDE DEF x
    <3>3. at = LowerBound(c, Len(c), x)
      BY DEF x
    <3> HIDE DEF at, rest
    <3>4. Fits(c, at, x)
      <4>1. Len(c) \in 0 .. Len(c) /\ ~ (Len(c) < Len(c))
        BY <1>6
      <4> QED BY <1>2, <1>6, <3>1, <3>3, <4>1, LowerBoundFits
    <3>5. SortedWith(InsertAt(c, at, x), c, x, Numbers)
      BY <1>2, <1>6, <3>1, <3>4, InsertingKeeps
    <3>6. Elements(c) \cup {x} = All(Call)
      BY <1>2, <1>4, <3>1 DEF All, rest
    <3> QED BY <3>2, <3>5, <3>6 DEF SortedWith
  <2> QED BY <2>1, <2>2
<1>8. /\ frames' \in Seq(Calls) /\ Len(frames') = n - 1
      /\ \A i \in 1 .. n - 1 : frames'[i] = frames[i]
  <2>1. /\ SubSeq(frames, 1, n - 1) \in Seq(Calls) /\ Len(SubSeq(frames, 1, n - 1)) = n - 1
        /\ \A i \in 1 .. n - 1 : SubSeq(frames, 1, n - 1)[i] = frames[i]
    BY <1>2, FrontIs
  <2> QED BY <1>1, <2>1
<1> HIDE DEF n
<1>9. Containers'
  BY <1>1, <1>7, <1>8 DEF MInv, Containers
<1>10. Nested'
  <2>1. ASSUME NEW i \in 1 .. n - 1
        PROVE  /\ Paired(frames'[i])
               /\ i > 1 => Elements(frames'[i - 1].ogMain) = All(frames'[i])
    <3>1. i \in 1 .. Len(frames) /\ (i > 1 => i - 1 \in 1 .. n - 1)
      BY <1>3 DEF n
    <3>2. /\ Paired(frames[i])
          /\ i > 1 => Elements(frames[i - 1].ogMain) = All(frames[i])
      BY <3>1 DEF MInv, Nested
    <3> QED BY <1>8, <3>1, <3>2
  <2> QED BY <1>1, <1>8, <2>1 DEF Nested, Paired
<1>11. Passed'
  <2>1. frames' # <<>> => Elements(c') = Elements(Call'.ogMain)
    <3> SUFFICES ASSUME frames' # <<>> PROVE Elements(c') = Elements(Call'.ogMain)
      OBVIOUS
    <3>1. n > 1 /\ n - 1 \in 1 .. n - 1
      <4>1. n - 1 # 0
        BY <1>8
      <4> QED BY <1>3, <4>1
    <3>2. Call' = frames[n - 1]
      BY <1>8, <3>1 DEF Call
    <3> QED BY <1>3, <1>7, <3>1, <3>2
  <2> QED BY <1>1, <1>7, <2>1 DEF Passed
<1> QED BY <1>9, <1>10, <1>11 DEF MInv

\* Every step of PmergeMe.
LEMMA PmergeMeKeeps ==
  ASSUME MInv, PmergeMeNext
  PROVE  MInv'
BY ReadInputKeeps, SortPairsKeeps, InnermostKeeps, PutFirstKeeps, InsertSmallKeeps,
   InsertStragglerKeeps DEF PmergeMeNext

-----------------------------------------------------------------------------
(***************************************************************************)
(* The two programs together.                                              *)
(***************************************************************************)
Programs == {"push_swap", "PmergeMe"}
OfPushSwap == {"read", "push", "highest", "swap", "turn", "both", "finish", "last"}
OfPmergeMe == {"check", "sort", "return", "insert"}
Ended == {"sorted", "refused", "killed"}

IInv ==
  /\ program \in Programs /\ pc \in OfPushSwap \cup OfPmergeMe \cup Ended
  /\ SInv /\ MInv

\* The invariant holds at the start.
LEMMA InitKeeps == Init => IInv
<1> SUFFICES ASSUME Init PROVE IInv
  OBVIOUS
<1>1. /\ args \in Seq(Int) /\ a = <<>> /\ b = <<>> /\ above = [v \in Values |-> FALSE]
      /\ node = IntMin /\ target = IntMin /\ price = 0 /\ moves = 0
      /\ c = <<>> /\ frames = <<>> /\ order = <<>>
      /\ program \in Programs /\ pc \in {"read", "check"}
  BY InputsAssumption DEF Init, PushSwapInit, PmergeMeInit, Programs
<1>2. Distinct(<<>>) /\ Elements(<<>>) = {}
  BY DEF Distinct, Elements
<1>3. Stacks
  BY <1>1, <1>2 DEF Stacks
<1>4. Stages /\ Payable
  BY <1>1 DEF Stages, Payable
<1>5. Containers
  BY <1>1 DEF Containers
<1>6. Nested
  <2>1. \A i \in 1 .. Len(<<>>) : FALSE
    OBVIOUS
  <2> QED BY <1>1, <2>1 DEF Nested
<1>7. Passed
  BY <1>1 DEF Passed
<1> QED BY <1>1, <1>3, <1>4, <1>5, <1>6, <1>7 DEF IInv, SInv, MInv, OfPushSwap, OfPmergeMe

\* Every step of either program keeps it.
LEMMA NextKeeps == IInv /\ [Next]_vars => IInv'
<1> SUFFICES ASSUME IInv, [Next]_vars PROVE IInv'
  OBVIOUS
<1> USE DEF IInv
<1>1. CASE PushSwapNext /\ UNCHANGED <<program, pmergeMe>>
  <2>1. pc' \in OfPushSwap \cup Ended /\ UNCHANGED args
    BY <1>1 DEF PushSwapNext, StackInit, NoArguments, Main, PushB, TinyRotate, TinySwap,
       InitNodes, RotateBoth, BothRotated, FinishA, FinishB, PushA, FindSmallest,
       LastRotation, OfPushSwap, Ended
  <2>2. SInv'
    BY <1>1, PushSwapKeeps
  <2>3. MInv'
    BY <1>1, <2>1, MInvOf DEF OfPushSwap, Ended
  <2> QED BY <1>1, <2>1, <2>2, <2>3
<1>2. CASE PmergeMeNext /\ UNCHANGED <<program, pushSwap>>
  <2>1. pc' \in OfPmergeMe \cup Ended
    BY <1>2 DEF PmergeMeNext, ReadInput, SortPairsAndPush, Innermost, PutFirst,
       InsertSmallBeforeBig, InsertStraggler, Returned, OfPmergeMe, Ended
  <2>2. MInv'
    BY <1>2, PmergeMeKeeps
  <2>3. SInv'
    BY <1>2, <2>1, SInvOf DEF OfPmergeMe, Ended
  <2> QED BY <1>2, <2>1, <2>2, <2>3
<1>3. CASE UNCHANGED vars
  <2>1. UNCHANGED <<program, pc, args>> /\ UNCHANGED pushSwap /\ UNCHANGED pmergeMe
    BY <1>3 DEF vars
  <2>2. Stacks' /\ Stages' /\ Payable'
    BY <2>1 DEF SInv, Stacks, Stages, Payable, pushSwap
  <2>3. Containers' /\ Nested' /\ Passed'
    BY <2>1 DEF MInv, Containers, Nested, Passed, Paired, pmergeMe, Call
  <2> QED BY <2>1, <2>2, <2>3 DEF SInv, MInv
<1> QED BY <1>1, <1>2, <1>3 DEF Next

\* A sequence without repetition has as many elements as it is long.
LEMMA CountIs ==
  ASSUME NEW T, NEW s \in Seq(T), Distinct(s)
  PROVE  IsFiniteSet(Elements(s)) /\ Cardinality(Elements(s)) = Len(s)
<1> DEFINE n == Len(s)
<1>1. n \in Nat /\ s \in [1 .. n -> Elements(s)] /\ Elements(s) = { s[i] : i \in 1 .. n }
  <2>1. Elements(s) = { s[i] : i \in 1 .. n }
    BY ElementsOf
  <2> QED BY <2>1
<1>2. s \in Bijection(1 .. n, Elements(s))
  <2>1. \A i, j \in 1 .. n : s[i] = s[j] => i = j
    BY DEF Distinct
  <2>2. \A e \in Elements(s) : \E i \in 1 .. n : s[i] = e
    BY <1>1
  <2> HIDE DEF n
  <2> QED BY <1>1, <2>1, <2>2 DEF Bijection, Injection, Surjection, IsInjective
<1>3. IsFiniteSet(1 .. n) /\ Cardinality(1 .. n) = n
  <2> HIDE DEF n
  <2>1. n \in Int /\ 1 \in Int
    BY <1>1
  <2>2. IsFiniteSet(1 .. n) /\ Cardinality(1 .. n) = IF 1 > n THEN 0 ELSE n - 1 + 1
    BY <2>1, FS_Interval
  <2> QED BY <1>1, <2>2
<1>4. ExistsBijection(1 .. n, Elements(s))
  BY <1>2 DEF ExistsBijection
<1> QED BY <1>3, <1>4, FS_Bijection

\* What the invariant says of each state.
LEMMA IInvTypes == IInv => TypeOK
<1> SUFFICES ASSUME IInv PROVE TypeOK
  OBVIOUS
<1>1. Stacks /\ Containers /\ Nested
  BY DEF IInv, SInv, MInv
<1>2. Len(a) + Len(b) = Cardinality(Elements(a) \cup Elements(b))
  <2>1. /\ IsFiniteSet(Elements(a)) /\ Cardinality(Elements(a)) = Len(a)
        /\ IsFiniteSet(Elements(b)) /\ Cardinality(Elements(b)) = Len(b)
    BY <1>1, CountIs DEF Stacks
  <2>2. Cardinality(Elements(a) \cap Elements(b)) = 0
    BY <1>1, FS_EmptySet DEF Stacks
  <2>3. Cardinality(Elements(a) \cup Elements(b))
          = Cardinality(Elements(a)) + Cardinality(Elements(b))
              - Cardinality(Elements(a) \cap Elements(b))
    BY <2>1, FS_Union
  <2>4. Len(a) \in Nat /\ Len(b) \in Nat
    BY <1>1 DEF Stacks
  <2> QED BY <2>1, <2>2, <2>3, <2>4
<1>3. \A i \in DOMAIN frames : Len(frames[i].ogMain) = Len(frames[i].pend)
  <2>1. DOMAIN frames = 1 .. Len(frames)
    BY <1>1 DEF Containers
  <2> QED BY <1>1, <2>1 DEF Nested, Paired
<1>4. /\ program \in {"push_swap", "PmergeMe"}
      /\ pc \in {"read", "push", "highest", "swap", "turn", "both", "finish", "last",
                 "check", "sort", "return", "insert", "sorted", "refused", "killed"}
  BY DEF IInv, Programs, OfPushSwap, OfPmergeMe, Ended
<1> QED BY <1>1, <1>2, <1>3, <1>4 DEF TypeOK, Stacks, Containers, Numbers

\* The work in progress is in order.
LEMMA IInvOrder == IInv => WorkStaysInOrder
<1> SUFFICES ASSUME IInv PROVE WorkStaysInOrder
  OBVIOUS
<1> USE DEF IInv
<1>1. ASSUME pc \in {"turn", "both", "finish", "last"} PROVE Cardinality(Descents(a)) <= 1
  <2>1. OneDescent(a)
    BY <1>1 DEF SInv, Stages
  <2>2. CASE Descents(a) = {}
    BY <2>2, FS_EmptySet
  <2>3. CASE Descents(a) # {}
    <3>1. PICK i \in Descents(a) : TRUE
      BY <2>3
    <3>2. Descents(a) = {i}
      BY <2>1, <3>1 DEF OneDescent
    <3>3. Cardinality({i}) = 1
      BY FS_Singleton
    <3> QED BY <3>2, <3>3
  <2> QED BY <2>2, <2>3
<1>2. ASSUME pc = "insert"
      PROVE  Ascending(c) /\ \A i \in DOMAIN order : Call.ogMain[order[i]] \in Elements(c)
  <2>1. /\ frames # <<>> /\ Ascending(c) /\ Elements(Call.ogMain) \subseteq Elements(c)
        /\ order \in Seq(1 .. Len(Call.pend))
    BY <1>2 DEF MInv, Passed
  <2>2. Call.ogMain \in Seq(Numbers) /\ Len(Call.ogMain) = Len(Call.pend)
    BY <2>1, CallIs DEF Paired
  <2>3. Elements(Call.ogMain) = { Call.ogMain[i] : i \in 1 .. Len(Call.pend) }
    BY <2>2, ElementsOf
  <2>4. \A i \in DOMAIN order : order[i] \in 1 .. Len(Call.pend)
    BY <2>1
  <2> QED BY <2>1, <2>3, <2>4
<1> QED BY <1>1, <1>2 DEF WorkStaysInOrder

\* The rotations are within the price.
LEMMA IInvPrice == IInv => PriceIsPaid
<1> SUFFICES ASSUME IInv, pc \in {"both", "finish"}
             PROVE  moves <= price /\ moves + Way(target, a) + Way(node, b) <= price
  BY DEF PriceIsPaid
<1>1. /\ a \in Seq(Values) /\ b \in Seq(Values) /\ Distinct(a) /\ Distinct(b)
      /\ Values \subseteq Int /\ node \in Elements(b) /\ target \in Elements(a)
      /\ above[node] \in BOOLEAN /\ above[target] \in BOOLEAN
      /\ moves \in Nat /\ price \in Nat
      /\ Turns(target, a, above[target]) \in Nat /\ Turns(node, b, above[node]) \in Nat
      /\ moves + Turns(target, a, above[target]) + Turns(node, b, above[node]) <= price
  BY Moving DEF IInv
<1>2. Way(target, a) \in Nat /\ Way(target, a) <= Turns(target, a, above[target])
  BY <1>1, WayIs
<1>3. Way(node, b) \in Nat /\ Way(node, b) <= Turns(node, b, above[node])
  BY <1>1, WayIs
<1> QED BY <1>1, <1>2, <1>3

-----------------------------------------------------------------------------
(***************************************************************************)
(* How often numbers are in a list.                                        *)
(***************************************************************************)
Places(s, P) == { i \in 1 .. Len(s) : s[i] \in P }
Hits(s, P) == Cardinality(Places(s, P))

\* Two sets matched one to one have the same size.
LEMMA Matched ==
  ASSUME NEW A, NEW B, IsFiniteSet(A), NEW f \in [A -> B],
         \A i, j \in A : f[i] = f[j] => i = j,
         \A y \in B : \E i \in A : f[i] = y
  PROVE  IsFiniteSet(B) /\ Cardinality(B) = Cardinality(A)
<1>1. f \in Bijection(A, B)
  BY DEF Bijection, Injection, Surjection, IsInjective
<1>2. ExistsBijection(A, B)
  BY <1>1 DEF ExistsBijection
<1> QED BY <1>2, FS_Bijection

\* Sizes of sets without a common element add up.
LEMMA Apart ==
  ASSUME NEW A, NEW B, IsFiniteSet(A), IsFiniteSet(B), A \cap B = {}
  PROVE  /\ IsFiniteSet(A \cup B)
         /\ Cardinality(A \cup B) = Cardinality(A) + Cardinality(B)
<1>1. /\ IsFiniteSet(A \cup B)
      /\ Cardinality(A \cup B) = Cardinality(A) + Cardinality(B) - Cardinality(A \cap B)
  BY FS_Union
<1>2. Cardinality(A \cap B) = 0
  BY FS_EmptySet
<1>3. Cardinality(A) \in Nat /\ Cardinality(B) \in Nat
  BY FS_CardinalityType
<1> QED BY <1>1, <1>2, <1>3

\* A count is a number.
LEMMA HitsAre ==
  ASSUME NEW T, NEW s \in Seq(T), NEW P
  PROVE  IsFiniteSet(Places(s, P)) /\ Hits(s, P) \in Nat
<1>1. Len(s) \in Int /\ 1 \in Int
  OBVIOUS
<1>2. IsFiniteSet(1 .. Len(s))
  BY <1>1, FS_Interval
<1>3. Places(s, P) \in SUBSET (1 .. Len(s))
  BY DEF Places
<1>4. IsFiniteSet(Places(s, P))
  BY <1>2, <1>3, FS_Subset
<1> QED BY <1>4, FS_CardinalityType DEF Hits

\* Two lists in a row.
LEMMA ConcatIs ==
  ASSUME NEW T, NEW s \in Seq(T), NEW t \in Seq(T)
  PROVE  /\ s \o t \in Seq(T) /\ Len(s \o t) = Len(s) + Len(t)
         /\ Len(s) \in Nat /\ Len(t) \in Nat
         /\ \A i \in 1 .. Len(s) : (s \o t)[i] = s[i]
         /\ \A i \in 1 .. Len(t) : (s \o t)[i + Len(s)] = t[i]
OBVIOUS

\* What one list has and another has is what both have in a row.
LEMMA ConcatHits ==
  ASSUME NEW T, NEW s \in Seq(T), NEW t \in Seq(T), NEW P
  PROVE  Hits(s \o t, P) = Hits(s, P) + Hits(t, P)
<1> DEFINE u == s \o t
           n == Len(s)
           m == Len(t)
           B == Places(t, P)
           D == { i + n : i \in B }
           f == [i \in B |-> i + n]
<1>1. n \in Nat /\ m \in Nat
  OBVIOUS
<1>2. /\ u \in Seq(T) /\ Len(u) = n + m
      /\ \A i \in 1 .. n : u[i] = s[i]
      /\ \A i \in 1 .. m : u[i + n] = t[i]
  OBVIOUS
<1> HIDE DEF u
<1>3. Places(s, P) = { i \in 1 .. n : s[i] \in P } /\ B = { i \in 1 .. m : t[i] \in P }
  BY DEF Places
<1>4. Places(u, P) = { i \in 1 .. n + m : u[i] \in P }
  BY <1>2 DEF Places
<1> HIDE DEF n, m, B
<1>5. \A i \in B : i \in 1 .. m
  BY <1>3
<1>6. Places(u, P) = Places(s, P) \cup D
  <2>1. ASSUME NEW i \in Places(u, P) PROVE i \in Places(s, P) \cup D
    <3>1. i \in 1 .. n + m /\ u[i] \in P
      BY <1>4
    <3>2. CASE i <= n
      <4>1. i \in 1 .. n
        BY <1>1, <3>1, <3>2
      <4> QED BY <1>2, <1>3, <3>1, <4>1
    <3>3. CASE n < i
      <4>1. i - n \in 1 .. m /\ (i - n) + n = i
        BY <1>1, <3>1, <3>3
      <4>2. i - n \in B
        BY <1>2, <1>3, <3>1, <4>1
      <4> QED BY <4>1, <4>2
    <3> QED BY <1>1, <3>1, <3>2, <3>3
  <2>2. ASSUME NEW i \in Places(s, P) PROVE i \in Places(u, P)
    <3>1. i \in 1 .. n /\ s[i] \in P
      BY <1>3
    <3>2. i \in 1 .. n + m
      BY <1>1, <3>1
    <3> QED BY <1>2, <1>4, <3>1, <3>2
  <2>3. ASSUME NEW i \in B PROVE i + n \in Places(u, P)
    <3>1. i \in 1 .. m /\ t[i] \in P
      BY <1>3
    <3>2. i + n \in 1 .. n + m
      BY <1>1, <3>1
    <3> QED BY <1>2, <1>4, <3>1, <3>2
  <2> QED BY <2>1, <2>2, <2>3
<1>7. Places(s, P) \cap D = {}
  <2>1. \A i \in B : ~ (i + n <= n)
    BY <1>1, <1>5
  <2> QED BY <1>1, <1>3, <2>1
<1>8. IsFiniteSet(Places(s, P)) /\ IsFiniteSet(B)
  BY HitsAre DEF B
<1>9. IsFiniteSet(D) /\ Cardinality(D) = Cardinality(B)
  <2>1. f \in [B -> D]
    OBVIOUS
  <2>2. \A i, j \in B : f[i] = f[j] => i = j
    BY <1>1, <1>5
  <2>3. \A y \in D : \E i \in B : f[i] = y
    OBVIOUS
  <2> HIDE DEF f, D
  <2> QED BY <1>8, <2>1, <2>2, <2>3, Matched
<1> HIDE DEF D
<1>10. Cardinality(Places(s, P) \cup D) = Cardinality(Places(s, P)) + Cardinality(D)
  BY <1>7, <1>8, <1>9, Apart
<1> QED BY <1>6, <1>9, <1>10 DEF Hits, u, B

\* The lists of nothing and of one.
LEMMA FewHits ==
  ASSUME NEW x, NEW P
  PROVE  Hits(<<>>, P) = 0 /\ Hits(<<x>>, P) = IF x \in P THEN 1 ELSE 0
<1>1. Places(<<>>, P) = {}
  BY DEF Places
<1>2. Places(<<x>>, P) = IF x \in P THEN {1} ELSE {}
  <2>1. Len(<<x>>) = 1 /\ <<x>>[1] = x
    OBVIOUS
  <2>2. \A i : i \in 1 .. 1 <=> i = 1
    OBVIOUS
  <2> QED BY <2>1, <2>2 DEF Places
<1> QED BY <1>1, <1>2, FS_EmptySet, FS_Singleton DEF Hits

\* A list of some is a list of more.
LEMMA WiderSeq ==
  ASSUME NEW S, NEW T, S \subseteq T, NEW s \in Seq(S)
  PROVE  s \in Seq(T)
OBVIOUS

\* Lists with the same elements at the same places are the same.
LEMMA SameList ==
  ASSUME NEW T, NEW s \in Seq(T), NEW t \in Seq(T), Len(s) = Len(t),
         \A i \in 1 .. Len(s) : s[i] = t[i]
  PROVE  s = t
<1>1. s = [i \in 1 .. Len(s) |-> s[i]] /\ t = [i \in 1 .. Len(s) |-> t[i]]
  OBVIOUS
<1> QED BY <1>1

\* A list is its first p - 1 and the rest.
LEMMA SplitHits ==
  ASSUME NEW T, NEW s \in Seq(T), NEW p \in 1 .. Len(s) + 1, NEW P
  PROVE  /\ SubSeq(s, 1, p - 1) \in Seq(T) /\ SubSeq(s, p, Len(s)) \in Seq(T)
         /\ Hits(s, P) = Hits(SubSeq(s, 1, p - 1), P) + Hits(SubSeq(s, p, Len(s)), P)
<1> DEFINE h == SubSeq(s, 1, p - 1)
           r == SubSeq(s, p, Len(s))
           n == Len(s)
<1>1. h \in Seq(T) /\ Len(h) = p - 1 /\ \A j \in 1 .. p - 1 : h[j] = s[j]
  OBVIOUS
<1>2. r \in Seq(T) /\ Len(r) = n - p + 1 /\ \A j \in p .. n : r[j - p + 1] = s[j]
  OBVIOUS
<1>3. n \in Nat /\ p \in 1 .. n + 1
  OBVIOUS
<1> HIDE DEF h, r, n
<1>4. /\ h \o r \in Seq(T) /\ Len(h \o r) = Len(h) + Len(r)
      /\ \A j \in 1 .. Len(h) : (h \o r)[j] = h[j]
      /\ \A j \in 1 .. Len(r) : (h \o r)[j + Len(h)] = r[j]
  BY <1>1, <1>2, ConcatIs
<1>5. Len(h \o r) = n
  BY <1>1, <1>2, <1>3, <1>4
<1>6. ASSUME NEW j \in 1 .. n PROVE (h \o r)[j] = s[j]
  <2>1. CASE j \in 1 .. p - 1
    BY <1>1, <1>4, <2>1
  <2>2. CASE j \in p .. n
    <3>1. j - p + 1 \in 1 .. Len(r) /\ (j - p + 1) + Len(h) = j
      BY <1>1, <1>2, <1>3, <2>2
    <3> QED BY <1>2, <1>4, <2>2, <3>1
  <2>3. j \in 1 .. p - 1 \/ j \in p .. n
    BY <1>3
  <2> QED BY <2>1, <2>2, <2>3
<1>7. h \o r = s
  BY <1>4, <1>5, <1>6, SameList DEF n
<1>8. Hits(h \o r, P) = Hits(h, P) + Hits(r, P)
  BY <1>1, <1>2, ConcatHits
<1> QED BY <1>1, <1>2, <1>7, <1>8 DEF h, r, n

\* InsertAt adds one.
LEMMA InsertHits ==
  ASSUME NEW T, NEW s \in Seq(T), NEW p \in 1 .. Len(s) + 1, NEW e \in T, NEW P
  PROVE  Hits(InsertAt(s, p, e), P) = Hits(s, P) + Hits(<<e>>, P)
<1> DEFINE h == SubSeq(s, 1, p - 1)
           r == SubSeq(s, p, Len(s))
<1>1. h \in Seq(T) /\ r \in Seq(T) /\ Hits(s, P) = Hits(h, P) + Hits(r, P)
  BY SplitHits
<1>2. InsertAt(s, p, e) = (h \o <<e>>) \o r
  BY DEF InsertAt
<1> HIDE DEF h, r
<1>3. <<e>> \in Seq(T) /\ h \o <<e>> \in Seq(T)
  BY <1>1
<1>4. /\ Hits(h \o <<e>>, P) = Hits(h, P) + Hits(<<e>>, P)
      /\ Hits((h \o <<e>>) \o r, P) = Hits(h \o <<e>>, P) + Hits(r, P)
  <2>1. Hits(h \o <<e>>, P) = Hits(h, P) + Hits(<<e>>, P)
    BY <1>1, <1>3, ConcatHits
  <2>2. ASSUME NEW g \in Seq(T) PROVE Hits(g \o r, P) = Hits(g, P) + Hits(r, P)
    BY <1>1, ConcatHits
  <2> QED BY <1>3, <2>1, <2>2
<1>5. Hits(h, P) \in Nat /\ Hits(r, P) \in Nat /\ Hits(<<e>>, P) \in Nat
  BY <1>1, <1>3, HitsAre
<1> QED BY <1>1, <1>2, <1>4, <1>5

\* Tail takes the first away.
LEMMA TailHits ==
  ASSUME NEW T, NEW s \in Seq(T), s # <<>>, NEW P
  PROVE  Hits(s, P) = Hits(<<s[1]>>, P) + Hits(Tail(s), P)
<1> DEFINE h == <<s[1]>>
           r == Tail(s)
<1>1. /\ s[1] \in T /\ r \in Seq(T) /\ Len(r) = Len(s) - 1 /\ Len(s) >= 1 /\ Len(s) \in Nat
      /\ \A i \in 1 .. Len(s) - 1 : r[i] = s[i + 1]
  BY TailIs
<1>2. h \in Seq(T) /\ Len(h) = 1 /\ h[1] = s[1]
  BY <1>1
<1> HIDE DEF h, r
<1>3. /\ h \o r \in Seq(T) /\ Len(h \o r) = 1 + Len(r) /\ (h \o r)[1] = h[1]
      /\ \A j \in 1 .. Len(r) : (h \o r)[j + 1] = r[j]
  <2>1. /\ h \o r \in Seq(T) /\ Len(h \o r) = Len(h) + Len(r)
        /\ \A j \in 1 .. Len(h) : (h \o r)[j] = h[j]
        /\ \A j \in 1 .. Len(r) : (h \o r)[j + Len(h)] = r[j]
    <3>1. h \in Seq(T) /\ r \in Seq(T)
      BY <1>1, <1>2
    <3> QED BY <3>1, ConcatIs
  <2>2. 1 \in 1 .. Len(h)
    BY <1>2
  <2> QED BY <1>2, <2>1, <2>2
<1>4. ASSUME NEW j \in 1 .. Len(s) PROVE (h \o r)[j] = s[j]
  <2>1. CASE j = 1
    BY <1>2, <1>3, <2>1
  <2>2. CASE j # 1
    <3>1. j - 1 \in 1 .. Len(r) /\ (j - 1) + 1 = j /\ j - 1 \in 1 .. Len(s) - 1
      BY <1>1, <2>2
    <3> QED BY <1>1, <1>3, <3>1
  <2> QED BY <2>1, <2>2
<1>5. h \o r = s
  <2>1. Len(h \o r) = Len(s)
    BY <1>1, <1>3
  <2> QED BY <1>3, <1>4, <2>1, SameList
<1>6. Hits(h \o r, P) = Hits(h, P) + Hits(r, P)
  BY <1>1, <1>2, ConcatHits
<1> QED BY <1>5, <1>6 DEF h, r

\* RemoveFirst takes one away.
LEMMA RemoveHits ==
  ASSUME NEW T, NEW s \in Seq(T), NEW e \in Elements(s), NEW P
  PROVE  Hits(s, P) = Hits(<<e>>, P) + Hits(RemoveFirst(s, e), P)
<1> DEFINE I == { i \in 1 .. Len(s) : s[i] = e }
           m == Min(I)
           h == SubSeq(s, 1, m - 1)
           r == SubSeq(s, m + 1, Len(s))
           n == Len(s)
           t == SubSeq(s, m, n)
<1>1. \E i \in 1 .. Len(s) : s[i] = e
  BY ElementsOf
<1>2. RemoveFirst(s, e) = h \o r
  BY <1>1 DEF RemoveFirst, RemoveAt, SelectInSeq
<1>3. m \in 1 .. n /\ s[m] = e
  <2>1. I # {} /\ I \subseteq Nat
    BY <1>1
  <2> HIDE DEF I
  <2>2. \E i \in I : \A j \in I : i <= j
    BY <2>1, Least
  <2>3. m \in I
    BY <2>2 DEF Min
  <2> QED BY <2>3 DEF I
<1> HIDE DEF m
<1>4. n \in Nat /\ e \in T
  BY ElementsOf
<1>5. h \in Seq(T) /\ t \in Seq(T) /\ Hits(s, P) = Hits(h, P) + Hits(t, P)
  BY <1>3, <1>4, SplitHits
<1>6. t # <<>> /\ t[1] = e /\ Tail(t) = r /\ r \in Seq(T)
  <2>1. Len(t) = n - m + 1 /\ t[1] = e /\ \A j \in m .. n : t[j - m + 1] = s[j]
    BY <1>3, <1>4
  <2>2. r \in Seq(T) /\ Len(r) = n - m /\ \A j \in m + 1 .. n : r[j - m] = s[j]
    BY <1>3, <1>4
  <2> HIDE DEF t, r, n
  <2>3. t # <<>>
    BY <1>3, <1>4, <2>1
  <2>4. /\ Tail(t) \in Seq(T) /\ Len(Tail(t)) = n - m
        /\ \A j \in 1 .. n - m : Tail(t)[j] = t[j + 1]
    BY <1>3, <1>4, <1>5, <2>1, <2>3, TailIs
  <2>5. ASSUME NEW j \in 1 .. n - m PROVE Tail(t)[j] = r[j]
    <3>1. j + m \in m + 1 .. n /\ (j + m) - m = j /\ (j + m) - m + 1 = j + 1 /\ j + m \in m .. n
      BY <1>3, <1>4
    <3> QED BY <2>1, <2>2, <2>4, <3>1
  <2>6. Tail(t) = r
    BY <2>2, <2>4, <2>5, SameList
  <2> QED BY <2>1, <2>2, <2>3, <2>6
<1> HIDE DEF h, r, t
<1>7. Hits(t, P) = Hits(<<e>>, P) + Hits(r, P)
  BY <1>5, <1>6, TailHits
<1>8. Hits(h \o r, P) = Hits(h, P) + Hits(r, P)
  BY <1>5, <1>6, ConcatHits
<1>9. Hits(h, P) \in Nat /\ Hits(r, P) \in Nat /\ Hits(<<e>>, P) \in Nat
  <2>1. <<e>> \in Seq(T)
    BY <1>4
  <2> QED BY <1>5, <1>6, <2>1, HitsAre
<1> QED BY <1>2, <1>5, <1>7, <1>8, <1>9

\* A list of all numbers from 1 to its length has each of them once.
LEMMA PermutationHits ==
  ASSUME NEW k \in Nat, NEW s \in Seq(1 .. k), Len(s) = k, 1 .. k \subseteq Elements(s),
         NEW Q \in SUBSET (1 .. k)
  PROVE  Hits(s, Q) = Cardinality(Q)
<1> DEFINE f == [i \in Places(s, Q) |-> s[i]]
<1>1. /\ s \in [1 .. k -> 1 .. k] /\ Elements(s) = { s[i] : i \in 1 .. k }
  <2>1. s \in [1 .. k -> 1 .. k]
    OBVIOUS
  <2>2. Elements(s) = { s[i] : i \in 1 .. Len(s) }
    BY ElementsOf
  <2> QED BY <2>1, <2>2
<1>2. s \in Surjection(1 .. k, 1 .. k)
  BY <1>1 DEF Surjection
<1>3. IsFiniteSet(1 .. k)
  <2>1. k \in Int /\ 1 \in Int
    OBVIOUS
  <2> QED BY <2>1, FS_Interval
<1>4. s \in Injection(1 .. k, 1 .. k)
  BY <1>2, <1>3, FS_SurjSameCardinalityImpliesInj
<1>5. \A i, j \in 1 .. k : s[i] = s[j] => i = j
  BY <1>4 DEF Injection, IsInjective
<1>6. Places(s, Q) = { i \in 1 .. k : s[i] \in Q } /\ IsFiniteSet(Places(s, Q))
  BY HitsAre DEF Places
<1>7. f \in [Places(s, Q) -> Q]
  BY <1>6
<1>8. \A i, j \in Places(s, Q) : f[i] = f[j] => i = j
  BY <1>5, <1>6
<1>9. \A y \in Q : \E i \in Places(s, Q) : f[i] = y
  BY <1>1, <1>6
<1> HIDE DEF f
<1> QED BY <1>6, <1>7, <1>8, <1>9, Matched DEF Hits

\* A list, cut into pairs, has its numbers in main, pend and the straggler.
LEMMA PairHits ==
  ASSUME NEW T, T \subseteq Int, NEW s \in Seq(T), Len(s) > 1, NEW P
  PROVE  Hits(MainOf(s), P) + Hits(PendOf(s), P) + Hits(RestOf(s), P) = Hits(s, P)
<1> DEFINE n == Len(s)
           p == HalfOf(s)
           main == MainOf(s)
           pend == PendOf(s)
           l == [i \in 1 .. n |-> IF s[2 * i - 1] > s[2 * i] THEN 2 * i - 1 ELSE 2 * i]
           k == [i \in 1 .. n |-> IF s[2 * i - 1] > s[2 * i] THEN 2 * i ELSE 2 * i - 1]
           M == { l[i] : i \in Places(main, P) }
           N == { k[i] : i \in Places(pend, P) }
           fm == [i \in Places(main, P) |-> l[i]]
           fp == [i \in Places(pend, P) |-> k[i]]
<1>1. /\ n \in Nat /\ p \in 1 .. n /\ (2 * p = n \/ 2 * p + 1 = n)
      /\ main \in Seq(T) /\ Len(main) = p /\ pend \in Seq(T) /\ Len(pend) = p
      /\ RestOf(s) \in Seq(T) /\ RestOf(s) = SubSeq(s, 2 * p + 1, n)
      /\ \A i \in 1 .. p :
           /\ main[i] = IF s[2 * i - 1] > s[2 * i] THEN s[2 * i - 1] ELSE s[2 * i]
           /\ pend[i] = IF s[2 * i - 1] > s[2 * i] THEN s[2 * i] ELSE s[2 * i - 1]
  <2>1. n \in Nat
    OBVIOUS
  <2>2. /\ p \in 1 .. n /\ (2 * p = n \/ 2 * p + 1 = n)
        /\ main \in Seq(T) /\ Len(main) = p /\ pend \in Seq(T) /\ Len(pend) = p
        /\ RestOf(s) \in Seq(T) /\ RestOf(s) = SubSeq(s, 2 * p + 1, n)
    BY PairIs
  <2>3. ASSUME NEW i \in 1 .. p
        PROVE  /\ main[i] = IF s[2 * i - 1] > s[2 * i] THEN s[2 * i - 1] ELSE s[2 * i]
               /\ pend[i] = IF s[2 * i - 1] > s[2 * i] THEN s[2 * i] ELSE s[2 * i - 1]
    BY PairIs
  <2> QED BY <2>1, <2>2, <2>3
<1> HIDE DEF p
<1>2. 2 * p + 1 \in 1 .. n + 1
  BY <1>1
<1> DEFINE h == SubSeq(s, 1, 2 * p)
<1>3. h \in Seq(T) /\ Hits(s, P) = Hits(h, P) + Hits(RestOf(s), P)
  <2> DEFINE e == 2 * p + 1
  <2>1. e - 1 = 2 * p /\ e \in 1 .. n + 1
    BY <1>1, <1>2
  <2> HIDE DEF e
  <2>2. SubSeq(s, 1, e - 1) \in Seq(T) /\ Hits(s, P) = Hits(SubSeq(s, 1, e - 1), P) + Hits(SubSeq(s, e, n), P)
    BY <2>1, SplitHits
  <2> QED BY <1>1, <1>2, <2>1, <2>2 DEF e
<1>4. Places(h, P) = { j \in 1 .. 2 * p : s[j] \in P }
  <2> DEFINE e == 2 * p
  <2>1. e \in 1 .. n
    BY <1>1, <1>2
  <2> HIDE DEF e
  <2>2. Len(SubSeq(s, 1, e)) = e /\ \A j \in 1 .. e : SubSeq(s, 1, e)[j] = s[j]
    BY <1>1, <1>2, <2>1
  <2> QED BY <2>2 DEF e, Places
<1>5. /\ Places(main, P) = { i \in 1 .. p : main[i] \in P }
      /\ Places(pend, P) = { i \in 1 .. p : pend[i] \in P }
  BY <1>1, <1>2 DEF Places
<1>6. \A i \in 1 .. p : /\ l[i] \in 1 .. 2 * p /\ k[i] \in 1 .. 2 * p /\ l[i] # k[i]
                        /\ l[i] \in {2 * i - 1, 2 * i} /\ k[i] \in {2 * i - 1, 2 * i}
                        /\ main[i] = s[l[i]] /\ pend[i] = s[k[i]]
  <2> SUFFICES ASSUME NEW i \in 1 .. p
               PROVE  /\ l[i] \in 1 .. 2 * p /\ k[i] \in 1 .. 2 * p /\ l[i] # k[i]
                      /\ l[i] \in {2 * i - 1, 2 * i} /\ k[i] \in {2 * i - 1, 2 * i}
                      /\ main[i] = s[l[i]] /\ pend[i] = s[k[i]]
    OBVIOUS
  <2>1. i \in 1 .. n /\ 2 * i - 1 \in 1 .. 2 * p /\ 2 * i \in 1 .. 2 * p /\ 2 * i - 1 # 2 * i
    BY <1>1, <1>2
  <2>2. CASE s[2 * i - 1] > s[2 * i]
    <3>1. l[i] = 2 * i - 1 /\ k[i] = 2 * i
      BY <2>1, <2>2
    <3>2. main[i] = s[2 * i - 1] /\ pend[i] = s[2 * i]
      BY <1>1, <1>2, <2>2
    <3> QED BY <2>1, <3>1, <3>2
  <2>3. CASE ~ (s[2 * i - 1] > s[2 * i])
    <3>1. l[i] = 2 * i /\ k[i] = 2 * i - 1
      BY <2>1, <2>3
    <3>2. main[i] = s[2 * i] /\ pend[i] = s[2 * i - 1]
      BY <1>1, <1>2, <2>3
    <3> QED BY <2>1, <3>1, <3>2
  <2> QED BY <2>2, <2>3
<1> HIDE DEF l, k, main, pend, h, n
<1>7. \A i, j \in 1 .. p : \A x : x \in {2 * i - 1, 2 * i} /\ x \in {2 * j - 1, 2 * j} => i = j
  OBVIOUS
<1>8. Places(h, P) = M \cup N
  <2>1. ASSUME NEW j \in Places(h, P) PROVE j \in M \cup N
    <3>1. j \in 1 .. 2 * p /\ s[j] \in P
      BY <1>4
    <3>2. PICK i \in 1 .. p : j = 2 * i - 1 \/ j = 2 * i
      <4>1. \A m \in Int : m = 2 * ((m + 1) \div 2) - 1 \/ m = 2 * ((m + 1) \div 2)
        OBVIOUS
      <4>2. j \in Int /\ (j + 1) \div 2 \in Int
        BY <3>1
      <4>3. j = 2 * ((j + 1) \div 2) - 1 \/ j = 2 * ((j + 1) \div 2)
        BY <4>1, <4>2
      <4>4. (j + 1) \div 2 \in 1 .. p
        BY <1>1, <1>2, <3>1, <4>2, <4>3
      <4> QED BY <4>3, <4>4
    <3>3. j = l[i] \/ j = k[i]
      BY <1>6, <3>2
    <3>4. CASE j = l[i]
      BY <1>5, <1>6, <3>1, <3>4
    <3>5. CASE j = k[i]
      BY <1>5, <1>6, <3>1, <3>5
    <3> QED BY <3>3, <3>4, <3>5
  <2>2. \A i \in Places(main, P) : l[i] \in Places(h, P)
    BY <1>4, <1>5, <1>6
  <2>3. \A i \in Places(pend, P) : k[i] \in Places(h, P)
    BY <1>4, <1>5, <1>6
  <2> QED BY <2>1, <2>2, <2>3
<1>9. M \cap N = {}
  <2> SUFFICES ASSUME NEW i \in Places(main, P), NEW j \in Places(pend, P), l[i] = k[j]
               PROVE  FALSE
    OBVIOUS
  <2>1. i \in 1 .. p /\ j \in 1 .. p
    BY <1>5
  <2>2. i = j
    BY <1>6, <1>7, <2>1
  <2> QED BY <1>6, <2>1, <2>2
<1>10. IsFiniteSet(Places(main, P)) /\ IsFiniteSet(Places(pend, P))
  BY <1>1, <1>2, HitsAre
<1>11. IsFiniteSet(M) /\ Cardinality(M) = Cardinality(Places(main, P))
  <2>1. fm \in [Places(main, P) -> M]
    OBVIOUS
  <2>2. \A i, j \in Places(main, P) : fm[i] = fm[j] => i = j
    BY <1>5, <1>6, <1>7
  <2>3. \A y \in M : \E i \in Places(main, P) : fm[i] = y
    OBVIOUS
  <2> HIDE DEF fm, M
  <2> QED BY <1>10, <2>1, <2>2, <2>3, Matched
<1>12. IsFiniteSet(N) /\ Cardinality(N) = Cardinality(Places(pend, P))
  <2>1. fp \in [Places(pend, P) -> N]
    OBVIOUS
  <2>2. \A i, j \in Places(pend, P) : fp[i] = fp[j] => i = j
    BY <1>5, <1>6, <1>7
  <2>3. \A y \in N : \E i \in Places(pend, P) : fp[i] = y
    OBVIOUS
  <2> HIDE DEF fp, N
  <2> QED BY <1>10, <2>1, <2>2, <2>3, Matched
<1> HIDE DEF M, N
<1>13. Cardinality(Places(h, P)) = Cardinality(M) + Cardinality(N)
  BY <1>8, <1>9, <1>11, <1>12, Apart
<1>14. Hits(h, P) = Hits(main, P) + Hits(pend, P)
  BY <1>11, <1>12, <1>13 DEF Hits
<1> QED BY <1>3, <1>14 DEF main, pend

-----------------------------------------------------------------------------
(***************************************************************************)
(* Rearranging: of numbers counted, and of nodes that do not repeat.       *)
(***************************************************************************)
Same(s, t) == \A P \in SUBSET Numbers : Hits(s, P) = Hits(t, P)

\* Sorter counts as everybody does.
LEMMA SameCount == ASSUME NEW S PROVE Promise!Cardinality(S) = Cardinality(S)
BY DEF Promise!Cardinality, Cardinality

\* What is the same by every count is a rearrangement.
LEMMA SameRearranges ==
  ASSUME NEW s \in Seq(Numbers), NEW t \in Seq(Numbers), Same(s, t)
  PROVE  Promise!Rearranges(s, t)
<1>1. \A u \in Seq(Numbers) : Len(u) = Hits(u, Numbers)
  <2> SUFFICES ASSUME NEW u \in Seq(Numbers) PROVE Len(u) = Hits(u, Numbers)
    OBVIOUS
  <2>1. Len(u) \in Nat /\ \A i \in 1 .. Len(u) : u[i] \in Numbers
    <3>1. \A i \in 1 .. Len(u) : u[i] \in Numbers
      BY ElementIs
    <3> QED BY <3>1
  <2>2. Places(u, Numbers) = 1 .. Len(u)
    BY <2>1 DEF Places
  <2>3. Cardinality(1 .. Len(u)) = IF 1 > Len(u) THEN 0 ELSE Len(u) - 1 + 1
    <3>1. Len(u) \in Int /\ 1 \in Int
      BY <2>1
    <3> QED BY <3>1, FS_Interval
  <2> QED BY <2>1, <2>2, <2>3 DEF Hits
<1>2. \A u \in Seq(Numbers) : \A x : Promise!Occurrences(u, x) = Hits(u, {x})
  <2> SUFFICES ASSUME NEW u \in Seq(Numbers), NEW x
               PROVE  Promise!Occurrences(u, x) = Hits(u, {x})
    OBVIOUS
  <2>1. { i \in DOMAIN u : u[i] = x } = Places(u, {x})
    BY ElementsOf DEF Places
  <2> QED BY <2>1, SameCount DEF Promise!Occurrences, Hits
<1>3. Len(s) = Len(t)
  BY <1>1 DEF Same
<1>4. ASSUME NEW i \in DOMAIN s
      PROVE  Promise!Occurrences(s, s[i]) = Promise!Occurrences(t, s[i])
  <2>1. s[i] \in Numbers
    <3>1. i \in 1 .. Len(s)
      BY ElementsOf
    <3> QED BY <3>1, ElementIs
  <2>2. {s[i]} \in SUBSET Numbers
    BY <2>1
  <2> QED BY <1>2, <2>2 DEF Same
<1> QED BY <1>3, <1>4 DEF Promise!Rearranges

\* Lists without repetition that have the same elements are rearrangements.
LEMMA DistinctRearranges ==
  ASSUME NEW T, NEW s \in Seq(T), NEW t \in Seq(T), Distinct(s), Distinct(t),
         Elements(s) = Elements(t)
  PROVE  Promise!Rearranges(s, t)
<1>1. Len(s) = Len(t)
  BY CountIs
<1>2. ASSUME NEW u \in Seq(T), Distinct(u), NEW x \in Elements(u)
      PROVE  Promise!Occurrences(u, x) = 1
  <2>1. DOMAIN u = 1 .. Len(u) /\ Elements(u) = { u[i] : i \in 1 .. Len(u) }
    BY ElementsOf
  <2>2. PICK j \in 1 .. Len(u) : u[j] = x
    BY <2>1
  <2>3. { i \in DOMAIN u : u[i] = x } = {j}
    BY <1>2, <2>1, <2>2 DEF Distinct
  <2> QED BY <2>3, FS_Singleton, SameCount DEF Promise!Occurrences
<1>3. ASSUME NEW i \in DOMAIN s PROVE s[i] \in Elements(s)
  BY DEF Elements
<1>4. \A i \in DOMAIN s : Promise!Occurrences(s, s[i]) = Promise!Occurrences(t, s[i])
  BY <1>2, <1>3
<1> QED BY <1>1, <1>4 DEF Promise!Rearranges

-----------------------------------------------------------------------------
(***************************************************************************)
(* PmergeMe loses no number.                                               *)
(***************************************************************************)

\* What the i-th call was given
Given(i) == IF i = 1 THEN args ELSE frames[i - 1].ogMain

\* What a call has to arrange, and the pairs whose smaller number is in P
Total(f, P) == Hits(f.ogMain, P) + Hits(f.pend, P) + Hits(f.straggler, P)
Smalls(f, P) == { j \in 1 .. Len(f.pend) : f.pend[j] \in P }

PositiveArgs == args \in Seq(Numbers) /\ args # <<>>

\* Main, with the pairs still in the order and the straggler, is what the call was given
NumbersKept ==
  /\ pc \in {"sort", "return", "insert", "sorted"} => PositiveArgs
  /\ \A i \in 1 .. Len(frames) :
       \A P \in SUBSET Numbers : Total(frames[i], P) = Hits(Given(i), P)
  /\ pc \in {"sort", "return"} => Same(c, Given(Len(frames) + 1))
  /\ pc = "insert" => \A P \in SUBSET Numbers :
       Hits(c, P) + Hits(order, Smalls(Call, P)) + Hits(Call.straggler, P) = Total(Call, P)
  /\ pc = "sorted" => Ascending(c) /\ Same(c, args)
  /\ pc = "refused" => ~ PositiveArgs

\* The numbers are taken as they are, or refused.
LEMMA ReadInputCounts ==
  ASSUME MInv, ReadInput
  PROVE  NumbersKept'
<1>1. /\ pc = "check" /\ frames = <<>> /\ frames' = <<>> /\ args' = args
      /\ args \in Seq(Int)
  BY DEF ReadInput, MInv, Passed, Containers
<1>2. Len(args) \in Nat /\ DOMAIN args = 1 .. Len(args)
  BY <1>1, ElementsOf
<1>3. /\ Len(frames') = 0
      /\ \A i \in 1 .. 0 : FALSE
  BY <1>1
<1>4. \A i \in 1 .. Len(frames') : \A P \in SUBSET Numbers : Total(frames'[i], P) = Hits(Given(i)', P)
  BY <1>3
<1>5. CASE args = <<>> \/ \E i \in DOMAIN args : args[i] \notin Numbers
  <2>1. pc' = "refused"
    BY <1>5 DEF ReadInput, Numbers
  <2>2. ~ PositiveArgs
    <3>1. args \in Seq(Numbers) => \A i \in 1 .. Len(args) : args[i] \in Numbers
      BY ElementIs
    <3> QED BY <1>2, <1>5, <3>1 DEF PositiveArgs
  <2> QED BY <1>1, <1>4, <2>1, <2>2 DEF NumbersKept, PositiveArgs
<1>6. CASE args # <<>> /\ \A i \in DOMAIN args : args[i] \in Numbers
  <2>1. args \in Seq(Numbers)
    <3>1. args = [i \in 1 .. Len(args) |-> args[i]] /\ \A i \in 1 .. Len(args) : args[i] \in Numbers
      BY <1>1, <1>2, <1>6
    <3> QED BY <1>2, <3>1, SequenceFrom
  <2>2. c' = args /\ pc' = IF Ascending(args) THEN "sorted" ELSE "sort"
    BY <1>6 DEF ReadInput, Numbers
  <2>3. Given(Len(frames) + 1)' = args
    BY <1>1, <1>3 DEF Given
  <2>4. Same(c', args)
    BY <2>2 DEF Same
  <2>5. PositiveArgs'
    BY <1>1, <1>6, <2>1 DEF PositiveArgs
  <2>6. pc' = "sorted" => Ascending(c')
    BY <2>2
  <2>7. pc' \in {"sort", "sorted"}
    BY <2>2
  <2> QED BY <1>1, <1>4, <2>3, <2>4, <2>5, <2>6, <2>7 DEF NumbersKept
<1> QED BY <1>5, <1>6

\* The pairs and the straggler are all a call was given.
LEMMA SortPairsCounts ==
  ASSUME MInv, NumbersKept, SortPairsAndPush
  PROVE  NumbersKept'
<1> DEFINE f == [ogMain |-> MainOf(c), pend |-> PendOf(c), straggler |-> RestOf(c)]
           n == Len(frames)
<1>1. /\ pc = "sort" /\ pc' = "sort" /\ Len(c) > 1 /\ c' = MainOf(c) /\ frames' = Append(frames, f)
      /\ args' = args
  BY DEF SortPairsAndPush, MainOf, PendOf, RestOf
<1>2. c \in Seq(Numbers) /\ frames \in Seq(Calls) /\ n \in Nat
  BY DEF MInv, Containers
<1>3. PositiveArgs /\ Same(c, Given(n + 1))
  BY <1>1 DEF NumbersKept
<1>4. f.ogMain = MainOf(c) /\ f.pend = PendOf(c) /\ f.straggler = RestOf(c)
  OBVIOUS
<1> HIDE DEF f
<1>5. \A P \in SUBSET Numbers : Total(f, P) = Hits(c, P)
  <2>1. Numbers \subseteq Int
    BY DEF Numbers
  <2> QED BY <1>1, <1>2, <1>4, <2>1, PairHits DEF Total
<1>6. /\ Len(frames') = n + 1 /\ frames'[n + 1] = f
      /\ \A i \in 1 .. n : frames'[i] = frames[i]
  BY <1>1, <1>2
<1> HIDE DEF n
<1>7. \A i \in 1 .. n + 1 : Given(i)' = Given(i)
  <2> SUFFICES ASSUME NEW i \in 1 .. n + 1 PROVE Given(i)' = Given(i)
    OBVIOUS
  <2>1. i # 1 => i - 1 \in 1 .. n
    BY <1>2
  <2> QED BY <1>1, <1>6, <2>1 DEF Given
<1>8. ASSUME NEW i \in 1 .. n + 1, NEW P \in SUBSET Numbers
      PROVE  Total(frames'[i], P) = Hits(Given(i)', P)
  <2>1. CASE i \in 1 .. n
    BY <1>6, <1>7, <2>1 DEF NumbersKept, n
  <2>2. CASE i = n + 1
    BY <1>3, <1>5, <1>6, <1>7, <2>2 DEF Same
  <2> QED BY <1>2, <2>1, <2>2
<1>9. Given(Len(frames) + 1)' = c'
  <2>1. Len(frames') + 1 # 1 /\ (Len(frames') + 1) - 1 = n + 1
    BY <1>2, <1>6
  <2>2. Given(Len(frames) + 1)' = frames'[n + 1].ogMain
    BY <2>1 DEF Given
  <2> QED BY <1>1, <1>4, <1>6, <2>2
<1>10. Same(c', Given(Len(frames) + 1)')
  BY <1>9 DEF Same
<1> QED BY <1>1, <1>3, <1>6, <1>8, <1>10 DEF NumbersKept, PositiveArgs

\* One number, or none, is arranged; the end is reached when no call waits.
LEMMA InnermostCounts ==
  ASSUME MInv, NumbersKept, Innermost \/ Returned
  PROVE  NumbersKept'
<1>1. CASE Innermost
  <2>1. pc = "sort" /\ pc' = "return" /\ UNCHANGED <<args, c, frames, order>>
    BY <1>1 DEF Innermost, pmergeMe
  <2> QED BY <2>1 DEF NumbersKept, PositiveArgs, Given
<1>2. CASE Returned
  <2>1. /\ pc = "return" /\ pc' = "sorted" /\ frames = <<>>
        /\ UNCHANGED <<args, c, frames, order>>
    BY <1>2 DEF Returned, pmergeMe
  <2>2. Given(Len(frames) + 1) = args
    BY <2>1 DEF Given
  <2>3. Ascending(c)
    BY <2>1 DEF MInv, Passed
  <2>4. PositiveArgs /\ Same(c, args)
    BY <2>1, <2>2 DEF NumbersKept
  <2> QED BY <2>1, <2>3, <2>4 DEF NumbersKept, PositiveArgs, Given
<1> QED BY <1>1, <1>2

\* The first number put in front is taken from the order.
LEMMA PutFirstCounts ==
  ASSUME MInv, NumbersKept, PutFirst
  PROVE  NumbersKept'
<1> DEFINE k == Len(Call.pend)
           first == First(Call.ogMain, c[1])
           small == Call.pend[first]
           all == JacobsthalOrder(k)
<1>1. /\ pc = "return" /\ pc' = "insert" /\ frames # <<>> /\ UNCHANGED <<args, frames>>
      /\ c' = <<small>> \o c /\ order' = RemoveFirst(all, first)
  BY DEF PutFirst
<1>2. /\ Call.ogMain \in Seq(Numbers) /\ Call.pend \in Seq(Numbers) /\ Paired(Call)
      /\ Call.straggler \in Seq(Numbers) /\ Len(frames) \in Nat \ {0}
      /\ Call = frames[Len(frames)]
  BY <1>1, CallIs
<1>3. c \in Seq(Numbers) /\ Elements(c) = Elements(Call.ogMain)
  BY <1>1 DEF MInv, Containers, Passed
<1>4. k \in Nat \ {0} /\ Len(Call.ogMain) = k
  <2>1. k \in 1 .. Len(args) /\ Len(Call.ogMain) = k
    BY <1>2 DEF Paired
  <2>2. Len(args) \in Nat
    BY DEF MInv, Containers
  <2> QED BY <2>1, <2>2
<1>5. c[1] \in Elements(Call.ogMain)
  <2>1. 1 \in 1 .. Len(Call.ogMain)
    BY <1>4
  <2>2. Elements(Call.ogMain) = { Call.ogMain[i] : i \in 1 .. Len(Call.ogMain) }
    BY <1>2, ElementsOf
  <2>3. Elements(c) # {}
    BY <1>3, <2>1, <2>2
  <2>4. Len(c) \in Nat /\ Elements(c) = { c[i] : i \in 1 .. Len(c) }
    BY <1>3, ElementsOf
  <2>5. 1 \in 1 .. Len(c)
    BY <2>3, <2>4
  <2> QED BY <1>3, <2>4, <2>5
<1>6. first \in 1 .. k
  BY <1>2, <1>4, <1>5, FirstIs
<1> HIDE DEF first
<1>7. small \in Numbers
  BY <1>2, <1>6, ElementIs
<1>8. all \in Seq(1 .. k) /\ Len(all) = k /\ 1 .. k \subseteq Elements(all)
  BY <1>4, OrderIs
<1> HIDE DEF all
<1>9. order' \in Seq(1 .. k)
  BY <1>1, <1>8, RemoveFirstKeeps
<1>10. Call' = Call
  BY <1>1 DEF Call
<1>11. ASSUME NEW P \in SUBSET Numbers
       PROVE  Hits(c', P) + Hits(order', Smalls(Call, P)) + Hits(Call.straggler, P) = Total(Call, P)
  <2> DEFINE Q == Smalls(Call, P)
  <2>1. Q \in SUBSET (1 .. k) /\ (first \in Q <=> small \in P) /\ Q = Places(Call.pend, P)
    BY <1>6 DEF Smalls, Places
  <2> HIDE DEF Q, small, k
  <2>2. Hits(all, Q) = Hits(Call.pend, P)
    <3>1. k \in Nat
      BY <1>4
    <3>2. Hits(all, Q) = Cardinality(Q)
      BY <1>8, <2>1, <3>1, PermutationHits
    <3> QED BY <2>1, <3>2 DEF Hits
  <2>3. Hits(all, Q) = Hits(<<first>>, Q) + Hits(order', Q)
    <3>1. first \in Elements(all)
      BY <1>6, <1>8
    <3> QED BY <1>1, <1>8, <3>1, RemoveHits
  <2>4. Hits(c', P) = Hits(<<small>>, P) + Hits(c, P)
    <3>1. <<small>> \in Seq(Numbers)
      BY <1>7
    <3> QED BY <1>1, <1>3, <3>1, ConcatHits
  <2>5. Hits(<<first>>, Q) = Hits(<<small>>, P) /\ Hits(<<small>>, P) \in Nat
    BY <2>1, FewHits
  <2>6. Hits(c, P) = Hits(Call.ogMain, P)
    <3>1. Same(c, Given(Len(frames) + 1))
      BY <1>1 DEF NumbersKept
    <3>2. Given(Len(frames) + 1) = Call.ogMain
      <4>1. Len(frames) + 1 # 1 /\ (Len(frames) + 1) - 1 = Len(frames)
        BY <1>2
      <4> QED BY <1>2, <4>1 DEF Given
    <3> QED BY <3>1, <3>2 DEF Same
  <2>7. /\ Hits(c, P) \in Nat /\ Hits(order', Q) \in Nat /\ Hits(Call.straggler, P) \in Nat
        /\ Hits(Call.pend, P) \in Nat
    BY <1>2, <1>3, <1>9, HitsAre
  <2>8. Hits(c', P) + Hits(order', Q) + Hits(Call.straggler, P) = Total(Call, P)
    BY <2>2, <2>3, <2>4, <2>5, <2>6, <2>7 DEF Total
  <2> QED BY <2>8 DEF Q
<1>12. \A i \in 1 .. Len(frames') :
         \A P \in SUBSET Numbers : Total(frames'[i], P) = Hits(Given(i)', P)
  BY <1>1 DEF NumbersKept, Given
<1>13. PositiveArgs'
  BY <1>1 DEF NumbersKept, PositiveArgs
<1> HIDE DEF small, k
<1> QED BY <1>1, <1>10, <1>11, <1>12, <1>13 DEF NumbersKept

\* A pair taken from the order has its smaller number in main.
LEMMA InsertSmallCounts ==
  ASSUME MInv, NumbersKept, InsertSmallBeforeBig
  PROVE  NumbersKept'
<1> DEFINE o == order[1]
           small == Call.pend[o]
           big == Call.ogMain[o]
           at == LowerBound(c, First(c, big) - 1, small)
<1>1. /\ pc = "insert" /\ pc' = "insert" /\ order # <<>> /\ UNCHANGED <<args, frames>>
      /\ c' = (IF big \in Elements(c) THEN InsertAt(c, at, small) ELSE c)
      /\ order' = Tail(order)
  BY DEF InsertSmallBeforeBig
<1>2. /\ frames # <<>> /\ c \in Seq(Numbers) /\ Ascending(c)
      /\ Elements(Call.ogMain) \subseteq Elements(c)
      /\ order \in Seq(1 .. Len(Call.pend))
  BY <1>1 DEF MInv, Containers, Passed
<1>3. /\ Call.ogMain \in Seq(Numbers) /\ Call.pend \in Seq(Numbers) /\ Paired(Call)
      /\ Call.straggler \in Seq(Numbers)
  BY <1>2, CallIs
<1>4. o \in 1 .. Len(Call.pend) /\ o \in 1 .. Len(Call.ogMain)
  <2>1. o \in 1 .. Len(Call.pend)
    BY <1>1, <1>2, TailIs
  <2> QED BY <1>3, <2>1 DEF Paired
<1> HIDE DEF o
<1>5. small \in Numbers /\ big \in Numbers /\ big \in Elements(c)
  <2>1. small \in Numbers /\ big \in Numbers
    BY <1>3, <1>4, ElementIs
  <2>2. Elements(Call.ogMain) = { Call.ogMain[i] : i \in 1 .. Len(Call.ogMain) }
    BY <1>3, ElementsOf
  <2> QED BY <1>2, <1>4, <2>1, <2>2
<1>6. at \in 1 .. Len(c) + 1
  <2> DEFINE p == First(c, big)
  <2>1. p \in 1 .. Len(c)
    BY <1>2, <1>5, FirstIs
  <2>2. Numbers \subseteq Int /\ Len(c) \in Nat
    BY <1>2 DEF Numbers
  <2>3. p - 1 \in 0 .. Len(c) /\ (p - 1) + 1 <= Len(c) + 1
    BY <2>1, <2>2
  <2> HIDE DEF p, small
  <2>4. LowerBound(c, p - 1, small) \in 1 .. (p - 1) + 1
    BY <1>2, <1>5, <2>2, <2>3, LowerBoundIs
  <2> QED BY <2>2, <2>3, <2>4 DEF p
<1>7. Call' = Call
  BY <1>1 DEF Call
<1>8. ASSUME NEW P \in SUBSET Numbers
      PROVE  Hits(c', P) + Hits(order', Smalls(Call, P)) + Hits(Call.straggler, P) = Total(Call, P)
  <2> DEFINE Q == Smalls(Call, P)
  <2>1. o \in Q <=> small \in P
    BY <1>4 DEF Smalls
  <2> HIDE DEF Q, small, big, at
  <2>2. Hits(c, P) + Hits(order, Q) + Hits(Call.straggler, P) = Total(Call, P)
    BY <1>1 DEF NumbersKept, Q
  <2>3. Hits(c', P) = Hits(c, P) + Hits(<<small>>, P)
    BY <1>1, <1>2, <1>5, <1>6, InsertHits
  <2>4. Hits(order, Q) = Hits(<<o>>, Q) + Hits(order', Q)
    BY <1>1, <1>2, TailHits DEF o
  <2>5. Hits(<<o>>, Q) = Hits(<<small>>, P) /\ Hits(<<small>>, P) \in Nat
    BY <2>1, FewHits
  <2>6. order' \in Seq(1 .. Len(Call.pend))
    BY <1>1, <1>2, TailIs
  <2>7. /\ Hits(c, P) \in Nat /\ Hits(order', Q) \in Nat /\ Hits(Call.straggler, P) \in Nat
    BY <1>2, <1>3, <2>6, HitsAre
  <2>8. Hits(c', P) + Hits(order', Q) + Hits(Call.straggler, P) = Total(Call, P)
    BY <2>2, <2>3, <2>4, <2>5, <2>7
  <2> QED BY <2>8 DEF Q
<1>9. \A i \in 1 .. Len(frames') :
         \A P \in SUBSET Numbers : Total(frames'[i], P) = Hits(Given(i)', P)
  BY <1>1 DEF NumbersKept, Given
<1>10. PositiveArgs'
  BY <1>1 DEF NumbersKept, PositiveArgs
<1> HIDE DEF small, big, at
<1> QED BY <1>1, <1>7, <1>8, <1>9, <1>10 DEF NumbersKept

\* A call returns what it was given.
LEMMA InsertStragglerCounts ==
  ASSUME MInv, NumbersKept, InsertStraggler
  PROVE  NumbersKept'
<1> DEFINE n == Len(frames)
           rest == Call.straggler
           at == LowerBound(c, Len(c), rest[1])
<1>1. /\ pc = "insert" /\ pc' = "return" /\ order = <<>> /\ args' = args
      /\ c' = (IF rest = <<>> THEN c ELSE InsertAt(c, at, rest[1]))
      /\ frames' = SubSeq(frames, 1, n - 1)
  BY DEF InsertStraggler
<1>2. frames # <<>> /\ c \in Seq(Numbers) /\ Ascending(c) /\ frames \in Seq(Calls)
  BY <1>1 DEF MInv, Containers, Passed
<1>3. n \in Nat \ {0} /\ rest \in Seq(Numbers) /\ Paired(Call) /\ Call = frames[n]
  BY <1>2, CallIs
<1>4. Len(rest) \in Nat /\ Len(rest) <= 1
  BY <1>3 DEF Paired
<1>5. ASSUME NEW P \in SUBSET Numbers
      PROVE  Hits(c', P) = Hits(c, P) + Hits(rest, P)
  <2>1. CASE rest = <<>>
    <3>1. Hits(rest, P) = 0 /\ Hits(c, P) \in Nat
      BY <1>2, <2>1, FewHits, HitsAre
    <3>2. c' = c
      BY <1>1, <2>1
    <3> QED BY <3>1, <3>2
  <2>2. CASE rest # <<>>
    <3> DEFINE x == rest[1]
    <3>1. x \in Numbers /\ Len(rest) = 1 /\ rest = <<x>>
      <4>1. x \in Numbers /\ Len(rest) >= 1
        BY <1>3, <2>2, TailIs
      <4>2. Len(rest) = 1
        <5> DEFINE l == Len(rest)
        <5>1. l \in Nat /\ l <= 1 /\ l >= 1
          BY <1>4, <4>1
        <5> HIDE DEF l
        <5>2. l = 1
          BY <5>1
        <5> QED BY <5>2 DEF l
      <4>3. <<x>> \in Seq(Numbers) /\ Len(<<x>>) = 1 /\ <<x>>[1] = x
        BY <4>1
      <4>4. \A i \in 1 .. Len(rest) : rest[i] = <<x>>[i]
        BY <4>2, <4>3
      <4>5. rest = <<x>>
        <5> DEFINE y == <<x>>
        <5> HIDE DEF y, rest
        <5> QED BY <1>3, <4>2, <4>3, <4>4, SameList DEF y
      <4> QED BY <4>1, <4>2, <4>5
    <3>2. c' = InsertAt(c, at, x) /\ at = LowerBound(c, Len(c), x)
      BY <1>1, <2>2
    <3> HIDE DEF x, at
    <3>3. at \in 1 .. Len(c) + 1
      <4>1. Numbers \subseteq Int /\ Len(c) \in Nat
        BY <1>2 DEF Numbers
      <4>2. Len(c) \in 0 .. Len(c) /\ x \in Int
        BY <3>1, <4>1
      <4> QED BY <1>2, <3>1, <3>2, <4>1, <4>2, LowerBoundIs
    <3>4. Hits(c', P) = Hits(c, P) + Hits(<<x>>, P)
      BY <1>2, <3>1, <3>2, <3>3, InsertHits
    <3> QED BY <3>1, <3>4
  <2> QED BY <2>1, <2>2
<1>6. /\ Len(frames') = n - 1 /\ \A i \in 1 .. n - 1 : frames'[i] = frames[i]
  <2>1. /\ Len(SubSeq(frames, 1, n - 1)) = n - 1
        /\ \A i \in 1 .. n - 1 : SubSeq(frames, 1, n - 1)[i] = frames[i]
    BY <1>2, FrontIs
  <2> QED BY <1>1, <2>1
<1> HIDE DEF rest, at
<1>7. \A P \in SUBSET Numbers : Hits(c', P) = Hits(Given(n), P)
  <2> SUFFICES ASSUME NEW P \in SUBSET Numbers PROVE Hits(c', P) = Hits(Given(n), P)
    OBVIOUS
  <2>1. Hits(c, P) + Hits(order, Smalls(Call, P)) + Hits(rest, P) = Total(Call, P)
    BY <1>1 DEF NumbersKept, rest
  <2>2. Hits(order, Smalls(Call, P)) = 0
    BY <1>1, FewHits
  <2>3. Hits(c, P) \in Nat /\ Hits(rest, P) \in Nat
    BY <1>2, <1>3, HitsAre
  <2>4. Total(Call, P) = Hits(Given(n), P)
    <3>1. n \in 1 .. Len(frames)
      BY <1>3
    <3> QED BY <1>3, <3>1 DEF NumbersKept
  <2> QED BY <1>5, <2>1, <2>2, <2>3, <2>4
<1> HIDE DEF n
<1>8. \A i \in 1 .. n : Given(i)' = Given(i)
  <2> SUFFICES ASSUME NEW i \in 1 .. n PROVE Given(i)' = Given(i)
    OBVIOUS
  <2>1. i # 1 => i - 1 \in 1 .. n - 1
    BY <1>3
  <2> QED BY <1>1, <1>6, <2>1 DEF Given
<1>9. ASSUME NEW i \in 1 .. Len(frames'), NEW P \in SUBSET Numbers
      PROVE  Total(frames'[i], P) = Hits(Given(i)', P)
  <2>1. i \in 1 .. n - 1 /\ i \in 1 .. n
    BY <1>3, <1>6
  <2>2. Total(frames[i], P) = Hits(Given(i), P)
    BY <2>1 DEF NumbersKept, n
  <2> QED BY <1>6, <1>8, <2>1, <2>2
<1>10. Same(c', Given(Len(frames) + 1)')
  <2>1. Len(frames') + 1 = n /\ n \in 1 .. n
    BY <1>3, <1>6
  <2>2. Given(Len(frames) + 1)' = Given(n)
    BY <1>8, <2>1 DEF Given
  <2> QED BY <1>7, <2>2 DEF Same
<1>11. PositiveArgs'
  BY <1>1 DEF NumbersKept, PositiveArgs
<1> QED BY <1>1, <1>9, <1>10, <1>11 DEF NumbersKept

\* Every step of PmergeMe.
LEMMA PmergeMeCounts ==
  ASSUME MInv, NumbersKept, PmergeMeNext
  PROVE  NumbersKept'
BY ReadInputCounts, SortPairsCounts, InnermostCounts, PutFirstCounts, InsertSmallCounts,
   InsertStragglerCounts DEF PmergeMeNext

-----------------------------------------------------------------------------
(***************************************************************************)
(* push_swap loses no node, and ends sorted.                               *)
(***************************************************************************)
Working == {"push", "highest", "swap", "turn", "both", "finish", "last"}
NodeArgs == (\A i \in 1 .. Len(args) : args[i] \in Values) /\ Distinct(args)

\* While it reads, a is what it has read; then the stacks have the nodes between them
NodesKept ==
  /\ pc = "read" => Len(a) <= Len(args) /\ \A i \in 1 .. Len(a) : a[i] = args[i]
  /\ pc \in Working => NodeArgs /\ Elements(a) \cup Elements(b) = Elements(args)
  /\ pc = "last" => b = <<>> /\ target \in Elements(a) /\ \A v \in Elements(a) : target <= v
  /\ pc = "sorted" =>
       NodeArgs /\ args # <<>> /\ Ascending(a) /\ Promise!Rearranges(args, a)
  /\ pc = "refused" => args = <<>> \/ ~ NodeArgs

\* What moves nodes between and within the stacks keeps them.
LEMMA MovingNodes ==
  ASSUME NodesKept, pc \in Working, pc' \in Working \ {"last"}, args' = args,
         Elements(a') \cup Elements(b') = Elements(a) \cup Elements(b)
  PROVE  NodesKept'
BY DEF NodesKept, NodeArgs, Working

\* Two stacks have the same nodes after a push.
LEMMA PushedElements ==
  ASSUME NEW T, NEW s \in Seq(T), NEW u \in Seq(T), u # <<>>
  PROVE  Elements(Push(u, s)) \cup Elements(Tail(u)) = Elements(s) \cup Elements(u)
<1> DEFINE t == Push(u, s)
           r == Tail(u)
           n == Len(s)
           m == Len(u)
<1>1. /\ t \in Seq(T) /\ Len(t) = n + 1 /\ t[1] = u[1] /\ (\A i \in 1 .. n : t[i + 1] = s[i])
      /\ n \in Nat
  <2>1. n \in Nat
    OBVIOUS
  <2>2. /\ t \in Seq(T) /\ Len(t) = n + 1
        /\ t[1] = u[1]
        /\ \A i \in 1 .. n : t[i + 1] = s[i]
    BY PushIs
  <2> QED BY <2>1, <2>2
<1>2. r \in Seq(T) /\ Len(r) = m - 1 /\ m \in Nat /\ m >= 1 /\ \A i \in 1 .. m - 1 : r[i] = u[i + 1]
  BY TailIs
<1>3. /\ Elements(s) = { s[i] : i \in 1 .. n } /\ Elements(u) = { u[i] : i \in 1 .. m }
      /\ Elements(t) = { t[i] : i \in 1 .. n + 1 } /\ Elements(r) = { r[i] : i \in 1 .. m - 1 }
  <2>1. Elements(s) = { s[i] : i \in 1 .. n } /\ Elements(u) = { u[i] : i \in 1 .. m }
    BY ElementsOf
  <2>2. Elements(t) = { t[i] : i \in 1 .. Len(t) } /\ Elements(r) = { r[i] : i \in 1 .. Len(r) }
    BY <1>1, <1>2, ElementsOf
  <2> QED BY <1>1, <1>2, <2>1, <2>2
<1> HIDE DEF t, r, n, m
<1>4. ASSUME NEW i \in 1 .. n + 1 PROVE t[i] \in Elements(s) \cup Elements(u)
  <2>1. CASE i = 1
    <3>1. 1 \in 1 .. m
      BY <1>2
    <3> QED BY <1>1, <1>3, <2>1, <3>1
  <2>2. CASE i # 1
    <3>1. i - 1 \in 1 .. n /\ (i - 1) + 1 = i
      BY <1>1, <2>2
    <3> QED BY <1>1, <1>3, <3>1
  <2> QED BY <2>1, <2>2
<1>5. ASSUME NEW i \in 1 .. m - 1 PROVE r[i] \in Elements(u)
  <2>1. i + 1 \in 1 .. m
    BY <1>2
  <2> QED BY <1>2, <1>3, <2>1
<1>6. ASSUME NEW i \in 1 .. n PROVE s[i] \in Elements(t)
  <2>1. i + 1 \in 1 .. n + 1
    BY <1>1
  <2> QED BY <1>1, <1>3, <2>1
<1>7. ASSUME NEW i \in 1 .. m PROVE u[i] \in Elements(t) \cup Elements(r)
  <2>1. CASE i = 1
    <3>1. 1 \in 1 .. n + 1
      BY <1>1
    <3> QED BY <1>1, <1>3, <2>1, <3>1
  <2>2. CASE i # 1
    <3>1. i - 1 \in 1 .. m - 1 /\ (i - 1) + 1 = i
      BY <1>2, <2>2
    <3> QED BY <1>2, <1>3, <3>1
  <2> QED BY <2>1, <2>2
<1> QED BY <1>3, <1>4, <1>5, <1>6, <1>7 DEF t, r

\* Nodes read are those of the arguments, as long as none is refused.
LEMMA ReadingNodes ==
  ASSUME SInv, args \in Seq(Int), NodesKept, StackInit \/ NoArguments \/ Main
  PROVE  NodesKept'
<1> DEFINE n == Len(a)
<1>1. a \in Seq(Values) /\ Distinct(a) /\ n \in Nat /\ Len(args) \in Nat /\ Values \subseteq Int
  BY DEF SInv, Stacks, Values
<1>2. /\ pc = "read" /\ args' = args /\ b' = b /\ b = <<>> /\ n <= Len(args)
      /\ \A i \in 1 .. n : a[i] = args[i]
  BY DEF StackInit, NoArguments, Main, pushSwap, SInv, Stages, NodesKept
<1>3. CASE StackInit
  <2> DEFINE nb == args[n + 1]
  <2>1. n + 1 \in 1 .. Len(args)
    BY <1>1, <1>3 DEF StackInit
  <2>2. CASE nb \notin Values \/ nb \in Elements(a)
    <3>1. pc' = "refused"
      BY <1>3, <2>2 DEF StackInit
    <3>2. ~ NodeArgs
      <4>1. CASE nb \notin Values
        BY <2>1, <4>1 DEF NodeArgs
      <4>2. CASE nb \in Elements(a)
        <5>1. PICK i \in 1 .. n : nb = a[i]
          BY <1>1, <4>2, ElementsOf
        <5>2. i \in 1 .. Len(args) /\ i # n + 1 /\ args[i] = args[n + 1]
          BY <1>1, <1>2, <5>1
        <5> QED BY <2>1, <5>2 DEF NodeArgs, Distinct
      <4> QED BY <2>2, <4>1, <4>2
    <3> QED BY <1>2, <3>1, <3>2 DEF NodesKept, NodeArgs, Working
  <2>3. CASE nb \in Values /\ nb \notin Elements(a)
    <3>1. a' = Append(a, nb) /\ pc' = "read"
      BY <1>2, <1>3, <2>3 DEF StackInit
    <3>2. Len(a') = n + 1 /\ a'[n + 1] = nb /\ \A i \in 1 .. n : a'[i] = a[i]
      BY <1>1, <2>3, <3>1
    <3> HIDE DEF n
    <3>3. \A i \in 1 .. n + 1 : i \in 1 .. n \/ i = n + 1
      BY <1>1
    <3>4. Len(a') <= Len(args) /\ \A i \in 1 .. Len(a') : a'[i] = args[i]
      BY <1>1, <1>2, <2>1, <3>2, <3>3
    <3> QED BY <1>2, <3>1, <3>4 DEF NodesKept, NodeArgs, Working
  <2> QED BY <2>2, <2>3
<1>4. CASE NoArguments
  <2>1. args = <<>> /\ pc' = "refused"
    BY <1>4 DEF NoArguments
  <2> QED BY <1>2, <2>1 DEF NodesKept, NodeArgs, Working
<1>5. CASE Main
  <2>1. a = args
    <3>1. a \in Seq(Int) /\ Len(a) = Len(args)
      BY <1>1, <1>5, WiderSeq DEF Main
    <3> QED BY <1>2, <3>1, SameList
  <2>2. NodeArgs
    <3>1. \A i \in 1 .. Len(a) : a[i] \in Values
      BY <1>1, ElementIs
    <3> QED BY <1>1, <2>1, <3>1 DEF NodeArgs
  <2>3. CASE a # <<>> /\ Ascending(a) /\ pc' = "sorted" /\ a' = a
    <3>1. Promise!Rearranges(args, a)
      BY <1>1, <2>1, DistinctRearranges
    <3> QED BY <1>2, <2>1, <2>2, <2>3, <3>1 DEF NodesKept, NodeArgs, Working
  <2>4. CASE ~ (a # <<>> /\ Ascending(a)) /\ Len(a) = 2 /\ pc' = "sorted" /\ a' = Swap(a)
    <3>1. /\ a' \in Seq(Values) /\ Len(a') = 2 /\ a'[1] = a[2] /\ a'[2] = a[1]
          /\ Elements(a') = Elements(a) /\ Distinct(a')
      BY <1>1, <2>4, SwapIs
    <3>2. a[1] \in Int /\ a[2] \in Int /\ a # <<>>
      <4>1. \A i \in 1 .. 2 : a[i] \in Values
        BY <1>1, <2>4, ElementIs
      <4>2. 1 \in 1 .. 2 /\ 2 \in 1 .. 2
        OBVIOUS
      <4>3. a[1] \in Int /\ a[2] \in Int
        BY <1>1, <4>1, <4>2
      <4>4. a # <<>>
        BY <2>4
      <4> QED BY <4>3, <4>4
    <3>3. ~ (a[1] <= a[2])
      <4>1. \A i \in 1 .. Len(a) - 1 : i = 1
        BY <2>4
      <4> QED BY <2>4, <3>2, <4>1 DEF Ascending
    <3>4. Ascending(a')
      <4>1. \A i \in 1 .. Len(a') - 1 : i = 1
        BY <3>1
      <4>2. a'[1] <= a'[1 + 1]
        BY <3>1, <3>2, <3>3
      <4> QED BY <4>1, <4>2 DEF Ascending
    <3>5. Promise!Rearranges(args, a')
      BY <1>1, <2>1, <3>1, DistinctRearranges
    <3> QED BY <1>2, <2>1, <2>2, <2>4, <3>2, <3>4, <3>5 DEF NodesKept, NodeArgs, Working
  <2>5. CASE pc' = "push" /\ a' = a
    <3>1. Elements(b) = {}
      BY <1>2 DEF Elements
    <3>2. Elements(a') \cup Elements(b') = Elements(args)
      BY <1>2, <2>1, <2>5, <3>1
    <3> QED BY <1>2, <2>2, <2>5, <3>2 DEF NodesKept, NodeArgs, Working
  <2> QED BY <1>5, <2>3, <2>4, <2>5 DEF Main
<1> QED BY <1>3, <1>4, <1>5

\* Pushing and turning.
LEMMA TurningNodes ==
  ASSUME SInv, NodesKept,
         PushB \/ TinyRotate \/ InitNodes \/ RotateBoth \/ BothRotated \/ FinishA \/ FinishB \/ PushA
  PROVE  NodesKept'
<1>1. a \in Seq(Values) /\ b \in Seq(Values) /\ Values \subseteq Int /\ Len(a) \in Nat
  BY DEF SInv, Stacks, Values
<1>2. pc \in Working /\ pc' \in Working \ {"last"} /\ args' = args
  BY DEF PushB, TinyRotate, InitNodes, RotateBoth, BothRotated, FinishA, FinishB, PushA, Working
<1>3. ASSUME a' \in {a, Rotate(a), ReverseRotate(a)} PROVE Elements(a') = Elements(a)
  <2>1. CASE a = <<>>
    BY <1>3, <2>1 DEF Rotate, ReverseRotate
  <2>2. CASE a # <<>>
    BY <1>1, <1>3, <2>2, RotationKeeps
  <2> QED BY <2>1, <2>2
<1>4. ASSUME b' \in {b, Rotate(b), ReverseRotate(b)} PROVE Elements(b') = Elements(b)
  <2>1. CASE b = <<>>
    BY <1>4, <2>1 DEF Rotate, ReverseRotate
  <2>2. CASE b # <<>>
    BY <1>1, <1>4, <2>2, RotationKeeps
  <2> QED BY <2>1, <2>2
<1>5. Elements(a') \cup Elements(b') = Elements(a) \cup Elements(b)
  <2>1. CASE PushB
    <3>1. CASE Len(a) > 3 /\ b' = Push(a, b) /\ a' = Tail(a)
      <4>1. a # <<>>
        BY <3>1
      <4>2. Elements(Push(a, b)) \cup Elements(Tail(a)) = Elements(b) \cup Elements(a)
        BY <1>1, <4>1, PushedElements
      <4> QED BY <3>1, <4>2
    <3> QED BY <2>1, <3>1 DEF PushB
  <2>2. CASE PushA
    <3>1. a' = Push(b, a) /\ b' = Tail(b) /\ pc = "finish"
      BY <2>2 DEF PushA
    <3>2. b # <<>>
      BY <3>1, Moving
    <3>3. Elements(Push(b, a)) \cup Elements(Tail(b)) = Elements(a) \cup Elements(b)
      BY <1>1, <3>2, PushedElements
    <3> QED BY <3>1, <3>3
  <2>3. CASE TinyRotate
    <3>1. a' \in {a, Rotate(a), ReverseRotate(a)} /\ b' = b
      <4>1. CASE a = <<>>
        BY <2>3, <4>1 DEF TinyRotate
      <4>2. CASE a # <<>>
        BY <2>3, <4>2 DEF TinyRotate
      <4> QED BY <4>1, <4>2
    <3> QED BY <1>3, <3>1
  <2>4. CASE RotateBoth \/ FinishA \/ FinishB \/ InitNodes \/ BothRotated
    <3>1. a' \in {a, Rotate(a), ReverseRotate(a)} /\ b' \in {b, Rotate(b), ReverseRotate(b)}
      BY <2>4 DEF RotateBoth, FinishA, FinishB, InitNodes, BothRotated, Toward
    <3> QED BY <1>3, <1>4, <3>1
  <2> QED BY <2>1, <2>2, <2>3, <2>4
<1> QED BY <1>2, <1>5, MovingNodes

\* Three nodes are sorted, or are the first to which the others go back.
LEMMA TinySwapNodes ==
  ASSUME SInv, args \in Seq(Int), NodesKept, TinySwap
  PROVE  NodesKept'
<1>1. /\ a \in Seq(Values) /\ Distinct(a) /\ b \in Seq(Values) /\ Distinct(b)
      /\ Elements(a) \cap Elements(b) = {} /\ Values \subseteq Int
  BY DEF SInv, Stacks, Values
<1>2. pc = "swap" /\ args' = args /\ b' = b
  BY DEF TinySwap
<1>3. NodeArgs /\ Elements(a) \cup Elements(b) = Elements(args)
  BY <1>2 DEF NodesKept, Working
<1>4. CASE a = <<>>
  <2>1. pc' = "killed"
    BY <1>4 DEF TinySwap
  <2> QED BY <2>1 DEF NodesKept, Working
<1>5. CASE a # <<>>
  <2>1. Len(a) = 3 /\ a[1] <= a[3] /\ a[2] <= a[3]
    <3>1. Len(a) \in {0, 3} /\ a[1] <= a[3] /\ a[2] <= a[3]
      BY <1>2, <1>5 DEF SInv, Stages
    <3> QED BY <1>1, <1>5, <3>1
  <2>2. /\ a' = (IF a[1] > a[2] THEN Swap(a) ELSE a)
        /\ pc' = (IF Len(args) = 3 THEN "sorted" ELSE "turn")
    BY <1>5 DEF TinySwap
  <2>3. /\ Swap(a) \in Seq(Values) /\ Len(Swap(a)) = 3
        /\ Swap(a)[1] = a[2] /\ Swap(a)[2] = a[1] /\ Swap(a)[3] = a[3]
        /\ Elements(Swap(a)) = Elements(a) /\ Distinct(Swap(a))
    BY <1>1, <2>1, SwapIs
  <2>4. /\ a' \in Seq(Values) /\ Len(a') = 3 /\ Elements(a') = Elements(a) /\ Distinct(a')
    BY <1>1, <2>1, <2>2, <2>3
  <2>5. Ascending(a')
    <3>1. a[1] \in Int /\ a[2] \in Int /\ a[3] \in Int
      <4>1. \A i \in 1 .. 3 : a[i] \in Values
        BY <1>1, <2>1, ElementIs
      <4>2. 1 \in 1 .. 3 /\ 2 \in 1 .. 3 /\ 3 \in 1 .. 3
        OBVIOUS
      <4> QED BY <1>1, <4>1, <4>2
    <3>2. a'[1] <= a'[2] /\ a'[2] <= a'[3]
      BY <2>1, <2>2, <2>3, <3>1
    <3>3. \A i \in 1 .. 2 : i = 1 \/ i = 2
      OBVIOUS
    <3>4. a'[1] <= a'[1 + 1] /\ a'[2] <= a'[2 + 1] /\ Len(a') - 1 = 2
      BY <2>4, <3>2
    <3> QED BY <3>3, <3>4 DEF Ascending
  <2>6. CASE Len(args) = 3
    <3>1. Distinct(args)
      BY <1>3 DEF NodeArgs
    <3>2. /\ IsFiniteSet(Elements(a)) /\ Cardinality(Elements(a)) = 3
          /\ IsFiniteSet(Elements(args)) /\ Cardinality(Elements(args)) = 3
      BY <1>1, <2>1, <2>6, <3>1, CountIs
    <3>3. Elements(a) = Elements(args)
      <4>1. Elements(a) \in SUBSET Elements(args)
        BY <1>3
      <4> QED BY <3>2, <4>1, FS_Subset
    <3>4. a' \in Seq(Int)
      BY <1>1, <2>4, WiderSeq
    <3>5. Promise!Rearranges(args, a')
      BY <2>4, <3>1, <3>3, <3>4, DistinctRearranges
    <3>6. args # <<>>
      BY <2>6
    <3> QED BY <1>2, <1>3, <2>2, <2>5, <2>6, <3>5, <3>6 DEF NodesKept, NodeArgs, Working
  <2>7. CASE Len(args) # 3
    <3>1. pc' = "turn" /\ Elements(a') \cup Elements(b') = Elements(a) \cup Elements(b)
      BY <1>2, <2>2, <2>4, <2>7
    <3> QED BY <1>2, <3>1, MovingNodes DEF Working
  <2> QED BY <2>6, <2>7
<1> QED BY <1>4, <1>5

\* With the smallest on top, a stack of one descent is sorted.
LEMMA TopIsSmallest ==
  ASSUME NEW T, T \subseteq Int, NEW s \in Seq(T), OneDescent(s), Distinct(s),
         \A v \in Elements(s) : s[1] <= v
  PROVE  Ascending(s)
<1> DEFINE n == Len(s)
<1>1. /\ n \in Nat /\ DOMAIN s = 1 .. n /\ Elements(s) = { s[i] : i \in 1 .. n }
  BY ElementsOf
<1>2. \A i \in 1 .. n : s[i] \in Int
  <2>1. \A i \in 1 .. n : s[i] \in T
    BY ElementIs
  <2> QED BY <2>1
<1> SUFFICES ASSUME NEW i \in 1 .. n - 1, ~ (s[i] <= s[i + 1])
             PROVE  FALSE
  BY DEF Ascending
<1>3. i \in 1 .. n /\ i + 1 \in 1 .. n /\ i # n /\ n # 1 /\ n \in 1 .. n /\ 1 \in 1 .. n
  <2>1. i \in 1 .. n - 1 /\ n \in Nat
    BY <1>1
  <2> HIDE DEF n
  <2> QED BY <2>1
<1>4. s[i] \in Int /\ s[i + 1] \in Int /\ s[n] \in Int /\ s[1] \in Int
  BY <1>2, <1>3
<1>5. Descents(s) = { j \in 1 .. n : s[j] > s[IF j = n THEN 1 ELSE j + 1] }
  BY <1>1 DEF Descents
<1> HIDE DEF n
<1>6. i \in Descents(s)
  BY <1>3, <1>4, <1>5
<1>7. n \in Descents(s)
  <2>1. s[1] <= s[n] /\ s[1] # s[n]
    <3>1. s[n] \in Elements(s)
      BY <1>1, <1>3
    <3>2. s[1] # s[n]
      BY <1>3 DEF Distinct, n
    <3> QED BY <3>1, <3>2
  <2> QED BY <1>3, <1>4, <1>5, <2>1
<1> QED BY <1>3, <1>6, <1>7 DEF OneDescent

\* At the end all nodes are on stack a, and the smallest comes to the top.
LEMMA EndingNodes ==
  ASSUME SInv, args \in Seq(Int), NodesKept, FindSmallest \/ LastRotation
  PROVE  NodesKept'
<1>1. /\ pc \in {"turn", "last"} /\ args' = args /\ b' = b
  BY DEF FindSmallest, LastRotation
<1>2. /\ a \in Seq(Values) /\ Distinct(a) /\ Values \subseteq Int /\ a # <<>> /\ OneDescent(a)
  BY <1>1 DEF SInv, Stacks, Stages, Values
<1>3. NodeArgs /\ Elements(a) \cup Elements(b) = Elements(args)
  BY <1>1 DEF NodesKept, Working
<1>4. Elements(a) \subseteq Values /\ a[1] \in Elements(a)
  BY <1>2, ElementsOf
<1>5. CASE FindSmallest
  <2>1. b = <<>> /\ a' = a /\ pc' = "last" /\ target' = Smallest(Elements(a))
    BY <1>5 DEF FindSmallest
  <2>2. target' \in Elements(a) /\ \A v \in Elements(a) : target' <= v
    <3>1. Elements(a) # {}
      BY <1>4
    <3> QED BY <1>4, <2>1, <3>1, SmallestIs
  <2> QED BY <1>1, <1>3, <2>1, <2>2 DEF NodesKept, NodeArgs, Working
<1>6. CASE LastRotation
  <2>1. b = <<>> /\ target \in Elements(a) /\ (\A v \in Elements(a) : target <= v) /\ target' = target
    BY <1>6 DEF LastRotation, NodesKept
  <2>2. CASE a[1] # target
    <3>1. a' \in {Rotate(a), ReverseRotate(a)} /\ pc' = "last"
      BY <1>6, <2>2 DEF LastRotation, Toward
    <3>2. Elements(a') = Elements(a)
      BY <1>2, <3>1, RotationKeeps
    <3> QED BY <1>1, <1>3, <2>1, <3>1, <3>2 DEF NodesKept, NodeArgs, Working
  <2>3. CASE a[1] = target
    <3>1. a' = a /\ pc' = "sorted"
      BY <1>6, <2>3 DEF LastRotation
    <3>2. Ascending(a)
      BY <1>2, <2>1, <2>3, TopIsSmallest
    <3>3. Elements(b) = {}
      BY <2>1 DEF Elements
    <3>4. Elements(a) = Elements(args) /\ Distinct(args)
      BY <1>3, <3>3 DEF NodeArgs
    <3>5. a \in Seq(Int)
      BY <1>2, WiderSeq
    <3>6. Promise!Rearranges(args, a)
      BY <1>2, <3>4, <3>5, DistinctRearranges
    <3>7. args # <<>>
      <4>1. Elements(args) # {}
        BY <1>4, <3>4
      <4> QED BY <4>1 DEF Elements
    <3> QED BY <1>1, <1>3, <3>1, <3>2, <3>6, <3>7 DEF NodesKept, NodeArgs, Working
  <2> QED BY <2>2, <2>3
<1> QED BY <1>5, <1>6

\* Every step of push_swap.
LEMMA PushSwapNodes ==
  ASSUME SInv, args \in Seq(Int), NodesKept, PushSwapNext
  PROVE  NodesKept'
BY ReadingNodes, TurningNodes, TinySwapNodes, EndingNodes DEF PushSwapNext

-----------------------------------------------------------------------------
(***************************************************************************)
(* Either program keeps the promise of Sorter.                             *)
(***************************************************************************)
KInv ==
  /\ IInv
  /\ program = "push_swap" => pc \in OfPushSwap \cup Ended /\ NodesKept
  /\ program = "PmergeMe" => pc \in OfPmergeMe \cup {"sorted", "refused"} /\ NumbersKept

\* It holds at the start.
LEMMA InitKept == Init => KInv
<1> SUFFICES ASSUME Init PROVE KInv
  OBVIOUS
<1>1. IInv
  BY InitKeeps
<1>2. CASE program = "push_swap" /\ pc = "read"
  <2>1. a = <<>> /\ Len(args) \in Nat
    BY InputsAssumption DEF Init, PushSwapInit
  <2>2. Len(a) <= Len(args) /\ \A i \in 1 .. Len(a) : a[i] = args[i]
    BY <2>1
  <2>3. NodesKept
    BY <1>2, <2>2 DEF NodesKept, Working
  <2> QED BY <1>1, <1>2, <2>3 DEF KInv, OfPushSwap
<1>3. CASE program = "PmergeMe" /\ pc = "check"
  <2>1. frames = <<>>
    BY DEF Init, PmergeMeInit
  <2>2. \A i \in 1 .. Len(frames) : FALSE
    BY <2>1
  <2>3. NumbersKept
    BY <1>3, <2>2 DEF NumbersKept
  <2> QED BY <1>1, <1>3, <2>3 DEF KInv, OfPmergeMe
<1> QED BY <1>2, <1>3 DEF Init

\* Every step keeps it.
LEMMA NextKept == KInv /\ [Next]_vars => KInv'
<1> SUFFICES ASSUME KInv, [Next]_vars PROVE KInv'
  OBVIOUS
<1>1. IInv'
  BY NextKeeps DEF KInv
<1>2. SInv /\ MInv /\ args \in Seq(Int) /\ program \in Programs
  BY DEF KInv, IInv, MInv, Containers
<1>3. CASE PushSwapNext /\ UNCHANGED <<program, pmergeMe>>
  <2>1. program = "push_swap"
    <3>1. pc \in OfPushSwap
      BY <1>3 DEF PushSwapNext, StackInit, NoArguments, Main, PushB, TinyRotate, TinySwap,
         InitNodes, RotateBoth, BothRotated, FinishA, FinishB, PushA, FindSmallest,
         LastRotation, OfPushSwap
    <3> QED BY <1>2, <3>1 DEF KInv, OfPushSwap, OfPmergeMe, Programs
  <2>2. pc' \in OfPushSwap \cup Ended
    BY <1>3 DEF PushSwapNext, StackInit, NoArguments, Main, PushB, TinyRotate, TinySwap,
       InitNodes, RotateBoth, BothRotated, FinishA, FinishB, PushA, FindSmallest,
       LastRotation, OfPushSwap, Ended
  <2>3. NodesKept'
    BY <1>2, <1>3, <2>1, PushSwapNodes DEF KInv
  <2> QED BY <1>1, <1>3, <2>1, <2>2, <2>3 DEF KInv
<1>4. CASE PmergeMeNext /\ UNCHANGED <<program, pushSwap>>
  <2>1. program = "PmergeMe"
    <3>1. pc \in OfPmergeMe
      BY <1>4 DEF PmergeMeNext, ReadInput, SortPairsAndPush, Innermost, PutFirst,
         InsertSmallBeforeBig, InsertStraggler, Returned, OfPmergeMe
    <3> QED BY <1>2, <3>1 DEF KInv, OfPushSwap, OfPmergeMe, Programs, Ended
  <2>2. pc' \in OfPmergeMe \cup {"sorted", "refused"}
    BY <1>4 DEF PmergeMeNext, ReadInput, SortPairsAndPush, Innermost, PutFirst,
       InsertSmallBeforeBig, InsertStraggler, Returned, OfPmergeMe
  <2>3. NumbersKept'
    BY <1>2, <1>4, <2>1, PmergeMeCounts DEF KInv
  <2> QED BY <1>1, <1>4, <2>1, <2>2, <2>3 DEF KInv
<1>5. CASE UNCHANGED vars
  <2>1. UNCHANGED <<program, pc, args>> /\ UNCHANGED pushSwap /\ UNCHANGED pmergeMe
    BY <1>5 DEF vars
  <2>2. NodesKept => NodesKept'
    BY <2>1 DEF NodesKept, NodeArgs, pushSwap
  <2>3. NumbersKept => NumbersKept'
    BY <2>1 DEF NumbersKept, PositiveArgs, Given, Call, pmergeMe
  <2> QED BY <1>1, <2>1, <2>2, <2>3 DEF KInv
<1> QED BY <1>3, <1>4, <1>5 DEF Next

\* What the programs take, in their own words.
LEMMA TakenIs ==
  ASSUME args \in Seq(Int)
  PROVE  /\ program = "push_swap" => (Taken <=> args # <<>> /\ NodeArgs)
         /\ program = "PmergeMe" => (Taken <=> PositiveArgs)
<1>1. DOMAIN args = 1 .. Len(args) /\ Len(args) \in Nat
  BY ElementsOf
<1>2. program = "push_swap" => (Taken <=> args # <<>> /\ NodeArgs)
  BY <1>1 DEF Taken, NodeArgs, Distinct
<1>3. program = "PmergeMe" => (Taken <=> PositiveArgs)
  <2>1. args \in Seq(Numbers) <=> \A i \in 1 .. Len(args) : args[i] \in Numbers
    <3>1. args \in Seq(Numbers) => \A i \in 1 .. Len(args) : args[i] \in Numbers
      BY ElementIs
    <3>2. args = [i \in 1 .. Len(args) |-> args[i]]
      BY <1>1
    <3>3. (\A i \in 1 .. Len(args) : args[i] \in Numbers) => args \in Seq(Numbers)
      BY <1>1, <3>2, SequenceFrom
    <3> QED BY <3>1, <3>3
  <2> QED BY <1>1, <2>1 DEF Taken, PositiveArgs, Numbers
<1> QED BY <1>2, <1>3

\* An answer of the program, and what its list is.
Said == IF pc \in {"sorted", "refused"} THEN pc ELSE "none"
List == IF program = "push_swap" THEN a ELSE c

RightAnswers ==
  /\ pc = "sorted" => Taken /\ Promise!InOrder(List) /\ Promise!Rearranges(args, List)
  /\ pc = "refused" => ~ Taken

\* A list that a program has sorted is the arguments in order; what it refuses is refused.
LEMMA AnswersAreRight == KInv => RightAnswers
<1> SUFFICES ASSUME KInv
             PROVE  /\ pc = "sorted" =>
                         Taken /\ Promise!InOrder(List) /\ Promise!Rearranges(args, List)
                    /\ pc = "refused" => ~ Taken
  BY DEF RightAnswers
<1>1. args \in Seq(Int) /\ program \in Programs
  BY DEF KInv, IInv, MInv, Containers
<1>2. CASE program = "push_swap"
  <2>1. List = a /\ NodesKept
    BY <1>2 DEF List, KInv
  <2>2. pc = "sorted" => Promise!InOrder(a)
    BY <2>1 DEF NodesKept, Ascending, Promise!InOrder
  <2> QED BY <1>1, <1>2, <2>1, <2>2, TakenIs DEF NodesKept
<1>3. CASE program = "PmergeMe"
  <2>1. List = c /\ NumbersKept /\ c \in Seq(Numbers)
    BY <1>3 DEF List, KInv, IInv, MInv, Containers
  <2>2. ASSUME pc = "sorted"
        PROVE  PositiveArgs /\ Promise!InOrder(c) /\ Promise!Rearranges(args, c)
    <3>1. PositiveArgs /\ Ascending(c) /\ Same(c, args)
      BY <2>1, <2>2 DEF NumbersKept
    <3>2. args \in Seq(Numbers) /\ Same(args, c)
      BY <3>1 DEF PositiveArgs, Same
    <3>3. Promise!Rearranges(args, c)
      BY <2>1, <3>2, SameRearranges
    <3> QED BY <3>1, <3>3 DEF Ascending, Promise!InOrder
  <2> QED BY <1>1, <1>3, <2>1, <2>2, TakenIs DEF NumbersKept
<1> QED BY <1>1, <1>2, <1>3 DEF Programs

\* Each step is an answer, arranges, or changes nothing that Sorter sees.
LEMMA SorterStep ==
  ASSUME RightAnswers', [Next]_vars
  PROVE  \/ Promise!Next
         \/ UNCHANGED <<Taken, program = "PmergeMe" \/ args # <<>>, args, Said, List>>
<1>1. CASE UNCHANGED vars
  <2>1. UNCHANGED <<program, pc, args, a, c>>
    BY <1>1 DEF vars, pushSwap, pmergeMe
  <2> QED BY <2>1 DEF Taken, Said, List
<1>2. CASE Next
  <2>1. pc \notin Ended /\ UNCHANGED <<program, args>>
    BY <1>2 DEF Next, PushSwapNext, StackInit, NoArguments, Main, PushB, TinyRotate, TinySwap,
       InitNodes, RotateBoth, BothRotated, FinishA, FinishB, PushA, FindSmallest,
       LastRotation, PmergeMeNext, ReadInput, SortPairsAndPush, Innermost, PutFirst,
       InsertSmallBeforeBig, InsertStraggler, Returned, Ended
  <2>2. Said = "none" /\ UNCHANGED <<Taken, program = "PmergeMe" \/ args # <<>>, args>>
    BY <2>1 DEF Said, Ended, Taken
  <2>3. /\ pc' = "sorted" => Taken' /\ Promise!InOrder(List') /\ Promise!Rearranges(args', List')
        /\ pc' = "refused" => ~ Taken'
    BY DEF RightAnswers
  <2>4. CASE pc' \in {"sorted", "refused"}
    <3>1. Promise!Answer
      BY <2>1, <2>2, <2>3, <2>4 DEF Promise!Answer, Said, List
    <3> QED BY <3>1 DEF Promise!Next
  <2>5. CASE pc' \notin {"sorted", "refused"}
    <3>1. Promise!Arrange
      BY <2>2, <2>5 DEF Promise!Arrange, Said
    <3> QED BY <3>1 DEF Promise!Next
  <2> QED BY <2>4, <2>5
<1> QED BY <1>1, <1>2

-----------------------------------------------------------------------------
\* The invariant, of every state of either program.
THEOREM SortingInvariant == Spec => []IInv
<1>1. Init => IInv
  BY InitKeeps
<1>2. IInv /\ [Next]_vars => IInv'
  BY NextKeeps
<1> QED BY <1>1, <1>2, PTL DEF Spec

\* The variables have their types: no node is lost or doubled between the stacks, and each
\* call of fordJohnson waits with pairs.
THEOREM SortingTypes == Spec => []TypeOK
BY SortingInvariant, IInvTypes, PTL

\* push_swap is one rotation from sorted while it turns; PmergeMe inserts only into a sorted
\* main, and finds the larger of the pair in it.
THEOREM OrderIsKept == Spec => []WorkStaysInOrder
BY SortingInvariant, IInvOrder, PTL

\* No node takes more rotations than the price it was chosen for.
THEOREM NoNodeCostsMore == Spec => []PriceIsPaid
BY SortingInvariant, IInvPrice, PTL

\* Both programs refuse or sort, and lose and invent no number, whatever the arguments.
THEOREM SortsOrRefuses == Spec => ImplementsSorter
<1>1. Init => KInv /\ Promise!Init
  <2>1. Init => Promise!Init
    BY DEF Init, Promise!Init
  <2> QED BY <2>1, InitKept
<1>2. KInv /\ [Next]_vars => KInv'
  BY NextKept
<1>3. KInv => RightAnswers
  BY AnswersAreRight
<1>4. RightAnswers' /\ [Next]_vars =>
        [Promise!Next]_<<Taken, program = "PmergeMe" \/ args # <<>>, args, Said, List>>
  BY SorterStep
<1> QED BY <1>1, <1>2, <1>3, <1>4, PTL DEF Spec, ImplementsSorter, Promise!Spec, Said, List
=============================================================================
