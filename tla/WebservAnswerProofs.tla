------------------------ MODULE WebservAnswerProofs ------------------------
(***************************************************************************)
(* For any requests, configuration and file system: what the server has    *)
(* received of a request when it answers, what it keeps on the disk, and   *)
(* when it can wait for a CGI program that waits for it.                   *)
(***************************************************************************)
EXTENDS WebservProofs, FiniteSetTheorems, ExtremeNumbers

-----------------------------------------------------------------------------
(***************************************************************************)
(* The first and the last of a set of places.                              *)
(***************************************************************************)

\* First is the least element.
LEMMA FirstIs ==
  ASSUME NEW S, S \subseteq Nat, S # {}
  PROVE  First(S) \in S /\ \A j \in S : First(S) <= j
<1> QED BY Least DEF First

\* There is only one least element.
LEMMA FirstUnique ==
  ASSUME NEW S, S \subseteq Nat, NEW i \in S, \A j \in S : i <= j
  PROVE  First(S) = i
<1>1. First(S) \in S /\ First(S) <= i /\ i <= First(S)
  BY FirstIs
<1>2. First(S) \in Nat /\ i \in Nat
  BY <1>1
<1> QED BY <1>1, <1>2

\* Last is the greatest element.
LEMMA LastIs ==
  ASSUME NEW k \in Nat, NEW S, S \subseteq 0 .. k, S # {}
  PROVE  Last(S) \in S /\ \A j \in S : j <= Last(S)
<1> QED BY Greatest DEF Last

\* Of a list of cases, FirstOf gives the status of one that holds, or 0 if none does.
LEMMA FirstOfIs ==
  ASSUME NEW cases, Len(cases) \in Nat
  PROVE  \/ FirstOf(cases) = 0 /\ \A i \in 1 .. Len(cases) : ~cases[i].holds
         \/ \E i \in 1 .. Len(cases) : cases[i].holds /\ FirstOf(cases) = cases[i].status
<1> DEFINE holding == { i \in 1 .. Len(cases) : cases[i].holds }
<1>1. CASE holding = {}
  BY <1>1 DEF FirstOf
<1>2. CASE holding # {}
  <2>1. First(holding) \in holding
    <3>1. holding \subseteq Nat
      OBVIOUS
    <3> HIDE DEF holding
    <3> QED BY <1>2, <3>1, FirstIs
  <2>2. FirstOf(cases) = cases[First(holding)].status
    BY <1>2 DEF FirstOf
  <2> QED BY <2>1, <2>2
<1> QED BY <1>1, <1>2

\* The location of a path is one of the configuration's.
LEMMA LocationIs ==
  ASSUME NEW path
  PROVE  \E l \in 1 .. Len(Locations) : Location(path) = Locations[l]
<1> USE DiskAssumption
<1>1. CASE Best(path) = {}
  BY <1>1 DEF Location
<1>2. CASE Best(path) # {}
  <2>1. Best(path) \subseteq 1 .. Len(Locations)
    BY DEF Best
  <2>2. First(Best(path)) \in Best(path)
    BY <1>2, <2>1, FirstIs
  <2> QED BY <1>2, <2>1, <2>2 DEF Location
<1> QED BY <1>1, <1>2

-----------------------------------------------------------------------------
(***************************************************************************)
(* Parts of texts.                                                         *)
(***************************************************************************)

\* A part of a text, with its length and its elements.
LEMMA PartOf ==
  ASSUME NEW T, NEW s \in Seq(T), NEW m \in Nat \ {0}, NEW n \in Nat,
         m <= n + 1, n <= Len(s)
  PROVE  /\ SubSeq(s, m, n) \in Seq(T)
         /\ Len(SubSeq(s, m, n)) = n - m + 1
         /\ \A i \in 1 .. n - m + 1 : SubSeq(s, m, n)[i] = s[m + i - 1]
<1>1. Len(s) \in Nat
  OBVIOUS
<1>2. m \in 1 .. Len(s) + 1 /\ n \in m - 1 .. Len(s)
  BY <1>1
<1>3. \A i \in m .. n : s[i] \in T
  BY <1>1
<1> QED BY <1>1, <1>2, <1>3, SubSeqProperties

\* Two sequences with the same elements are the same.
LEMMA SameSequence ==
  ASSUME NEW T, NEW U, NEW s \in Seq(T), NEW t \in Seq(U), Len(s) = Len(t),
         \A i \in 1 .. Len(s) : s[i] = t[i]
  PROVE  s = t
<1>1. Len(s) \in Nat /\ s = [i \in 1 .. Len(s) |-> s[i]] /\ t = [i \in 1 .. Len(t) |-> t[i]]
  OBVIOUS
<1> QED BY <1>1

\* u has the elements of s, then those of t
IsJoin(u, s, t) ==
  /\ Len(u) = Len(s) + Len(t)
  /\ \A i \in 1 .. Len(s) : u[i] = s[i]
  /\ \A i \in 1 .. Len(t) : u[Len(s) + i] = t[i]

\* Two texts one after the other.
LEMMA ConcatIs ==
  ASSUME NEW T, NEW s \in Seq(T), NEW t \in Seq(T), NEW u, u = s \o t
  PROVE  u \in Seq(T) /\ IsJoin(u, s, t)
<1>1. /\ u \in Seq(T) /\ Len(u) = Len(s) + Len(t)
      /\ \A i \in 1 .. Len(s) + Len(t) : u[i] = IF i <= Len(s) THEN s[i] ELSE t[i - Len(s)]
  BY ConcatProperties
<1>2. Len(s) \in Nat /\ Len(t) \in Nat
  OBVIOUS
<1>3. \A i \in 1 .. Len(s) : u[i] = s[i]
  BY <1>1, <1>2
<1>4. \A i \in 1 .. Len(t) : /\ Len(s) + i \in 1 .. Len(s) + Len(t) /\ ~(Len(s) + i <= Len(s))
                             /\ (Len(s) + i) - Len(s) = i
  BY <1>2
<1>5. \A i \in 1 .. Len(t) : u[Len(s) + i] = t[i]
  BY <1>1, <1>4
<1> QED BY <1>1, <1>3, <1>5 DEF IsJoin

\* Slice never reads behind the end, and is no longer than what it is asked for.
LEMMA SliceIs ==
  ASSUME NEW T, NEW raw \in Seq(T), NEW p \in 1 .. Len(raw), NEW n \in Nat \ {0}
  PROVE  /\ Slice(raw, p + 1, p + n) \in Seq(T)
         /\ Len(Slice(raw, p + 1, p + n)) <= n
         /\ Len(Slice(raw, p + 1, p + n)) <= Len(raw) - p
<1> DEFINE e == IF p + n < Len(raw) THEN p + n ELSE Len(raw)
<1>1. /\ e \in Nat /\ p + 1 <= e + 1 /\ e <= Len(raw) /\ e <= p + n
      /\ p + 1 \in Nat \ {0} /\ Len(raw) \in Nat
  OBVIOUS
<1>2. Slice(raw, p + 1, p + n) = SubSeq(raw, p + 1, e)
  BY DEF Slice
<1> HIDE DEF e
<1>3. SubSeq(raw, p + 1, e) \in Seq(T) /\ Len(SubSeq(raw, p + 1, e)) = e - (p + 1) + 1
  BY <1>1, PartOf
<1>4. e - (p + 1) + 1 <= n /\ e - (p + 1) + 1 <= Len(raw) - p
  BY <1>1
<1> QED BY <1>2, <1>3, <1>4

-----------------------------------------------------------------------------
(***************************************************************************)
(* Dechunk: from[p] is made from the later from[q] only, so that there is  *)
(* such a function, and it takes no more than what is in the text.         *)
(***************************************************************************)
IsChunk(raw, p) == p \in 1 .. Len(raw) /\ raw[p].k = "size" /\ raw[p].n > 0
Joined(raw, f, p) ==
  IF p \in 1 .. Len(raw) /\ raw[p].k = "size" /\ raw[p].n > 0
  THEN Slice(raw, p + 1, p + raw[p].n) \o f[p + raw[p].n + 2]
  ELSE <<>>

\* The recursive function of Dechunk exists.
LEMMA JoinedExists ==
  ASSUME NEW raw \in Seq(Tokens)
  PROVE  \E f : f = [p \in Nat |-> Joined(raw, f, p)]
<1> DEFINE Good == { k \in Nat : \E f : /\ f = [p \in Nat |-> f[p]]
                                       /\ \A p \in Nat : p >= k => f[p] = Joined(raw, f, p) }
<1>0. Len(raw) \in Nat /\ \A p \in 1 .. Len(raw) : raw[p].n \in Int
  <2>1. \A p \in 1 .. Len(raw) : raw[p] \in Tokens
    OBVIOUS
  <2> QED BY <2>1 DEF Tokens
<1>1. Len(raw) + 1 \in Good
  <2> DEFINE f == [p \in Nat |-> <<>>]
  <2>1. \A p \in Nat : p >= Len(raw) + 1 => f[p] = Joined(raw, f, p)
    <3>1. \A p \in Nat : p >= Len(raw) + 1 => p \notin 1 .. Len(raw)
      BY <1>0
    <3> QED BY <3>1 DEF Joined
  <2>2. f = [p \in Nat |-> f[p]]
    OBVIOUS
  <2> HIDE DEF f
  <2> QED BY <1>0, <2>1, <2>2
<1>2. ASSUME NEW k \in Good, k # 0 PROVE k - 1 \in Good
  <2>1. PICK f : f = [p \in Nat |-> f[p]] /\ \A p \in Nat : p >= k => f[p] = Joined(raw, f, p)
    OBVIOUS
  <2> DEFINE g == [p \in Nat |-> IF p = k - 1 THEN Joined(raw, f, p) ELSE f[p]]
  <2>2. k \in Nat /\ k - 1 \in Nat
    BY <1>2
  <2>3. ASSUME NEW p \in Nat, p >= k - 1
        PROVE  Joined(raw, g, p) = Joined(raw, f, p)
    <3>1. CASE IsChunk(raw, p)
      <4>1. p + raw[p].n + 2 \in Nat /\ p + raw[p].n + 2 # k - 1
        BY <1>0, <2>2, <2>3, <3>1 DEF IsChunk
      <4>2. g[p + raw[p].n + 2] = f[p + raw[p].n + 2]
        BY <4>1
      <4> QED BY <4>2 DEF Joined
    <3>2. CASE ~IsChunk(raw, p)
      BY <3>2 DEF IsChunk, Joined
    <3> QED BY <3>1, <3>2
  <2>4. \A p \in Nat : p >= k - 1 => g[p] = Joined(raw, f, p)
    BY <2>1, <2>2
  <2>5. g = [p \in Nat |-> g[p]]
    OBVIOUS
  <2> HIDE DEF g
  <2> QED BY <2>2, <2>3, <2>4, <2>5
<1> DEFINE m == First(Good)
<1>3. m \in Good /\ \A k \in Good : m <= k
  <2>1. Good \subseteq Nat /\ Good # {}
    BY <1>1
  <2> HIDE DEF Good
  <2> QED BY <2>1, FirstIs
<1>4. m = 0
  <2>1. m \in Nat
    BY <1>3
  <2> HIDE DEF Good, m
  <2> QED BY <1>2, <1>3, <2>1
<1>5. PICK f : f = [p \in Nat |-> f[p]] /\ \A p \in Nat : p >= 0 => f[p] = Joined(raw, f, p)
  BY <1>3, <1>4
<1>6. \A p \in Nat : f[p] = Joined(raw, f, p)
  BY <1>5
<1>7. f = [p \in Nat |-> Joined(raw, f, p)]
  BY <1>5, <1>6
<1> QED BY <1>7

\* The joined chunks are of the text they came in, and no longer.
LEMMA DechunkIs ==
  ASSUME NEW T, T \subseteq Tokens, NEW raw \in Seq(T)
  PROVE  Dechunk(raw) \in Seq(T) /\ Len(Dechunk(raw)) <= Len(raw)
<1> DEFINE f == CHOOSE f : f = [p \in Nat |-> Joined(raw, f, p)]
<1>0. Len(raw) \in Nat /\ raw \in Seq(Tokens) /\ \A p \in 1 .. Len(raw) : raw[p].n \in Int
  <2>1. raw \in Seq(Tokens)
    BY SeqMonotonic
  <2>2. \A p \in 1 .. Len(raw) : raw[p] \in Tokens
    BY <2>1
  <2> QED BY <2>1, <2>2 DEF Tokens
<1>1. f = [p \in Nat |-> Joined(raw, f, p)]
  BY <1>0, JoinedExists
<1>2. Dechunk(raw) = f[1]
  BY DEF Dechunk, Joined
<1> HIDE DEF f
<1>3. \A p \in Nat : f[p] = Joined(raw, f, p)
  BY <1>1
<1> DEFINE Fine(p) == /\ f[p] \in Seq(T)
                      /\ p > Len(raw) => Len(f[p]) = 0
                      /\ p <= Len(raw) => Len(f[p]) <= Len(raw) - p + 1
           Bad == { p \in 1 .. Len(raw) : ~Fine(p) }
<1>4. ASSUME NEW p \in Nat, p > Len(raw) PROVE Fine(p)
  <2>1. p \notin 1 .. Len(raw)
    BY <1>0, <1>4
  <2>2. f[p] = Joined(raw, f, p)
    BY <1>3
  <2>3. f[p] = <<>>
    BY <2>1, <2>2 DEF Joined
  <2> QED BY <1>0, <1>4, <2>3
<1>5. ASSUME NEW p \in 1 .. Len(raw), \A q \in Nat : q > p => Fine(q) PROVE Fine(p)
  <2>1. CASE IsChunk(raw, p)
    <3> DEFINE n == raw[p].n
               s == Slice(raw, p + 1, p + n)
               r == f[p + n + 2]
    <3>1. n \in Nat \ {0} /\ p + n + 2 \in Nat /\ p + n + 2 > p
      BY <1>0, <2>1 DEF IsChunk
    <3>2. s \in Seq(T) /\ Len(s) <= n /\ Len(s) <= Len(raw) - p
      BY <3>1, SliceIs
    <3>3. f[p] = s \o r
      <4>1. f[p] = Joined(raw, f, p)
        BY <1>3
      <4> QED BY <4>1, <2>1 DEF Joined, IsChunk
    <3>4. Fine(p + n + 2)
      BY <1>5, <3>1
    <3> HIDE DEF s
    <3>5. r \in Seq(T) /\ Len(r) \in Nat /\ Len(s) \in Nat
      <4>1. r \in Seq(T)
        BY <3>4
      <4> HIDE DEF r
      <4> QED BY <3>2, <4>1
    <3>6. f[p] \in Seq(T) /\ Len(f[p]) = Len(s) + Len(r)
      <4> HIDE DEF s, r
      <4> QED BY <3>2, <3>3, <3>5, ConcatProperties
    <3>7. Len(r) <= IF p + n + 2 > Len(raw) THEN 0 ELSE Len(raw) - (p + n + 2) + 1
      <4>1. CASE p + n + 2 > Len(raw)
        BY <3>4, <4>1
      <4>2. CASE p + n + 2 <= Len(raw)
        BY <3>4, <4>2
      <4> HIDE DEF r, n, Fine
      <4> QED BY <1>0, <3>1, <4>1, <4>2
    <3> HIDE DEF r, n
    <3> QED BY <1>0, <3>1, <3>2, <3>5, <3>6, <3>7
  <2>2. CASE ~IsChunk(raw, p)
    <3>1. f[p] = Joined(raw, f, p)
      BY <1>3
    <3>2. f[p] = <<>>
      BY <2>2, <3>1 DEF Joined, IsChunk
    <3> QED BY <1>0, <3>2
  <2> QED BY <2>1, <2>2
<1>6. Bad = {}
  <2> SUFFICES ASSUME Bad # {} PROVE FALSE
    OBVIOUS
  <2>1. Bad \subseteq 0 .. Len(raw)
    OBVIOUS
  <2>2. Last(Bad) \in Bad /\ \A j \in Bad : j <= Last(Bad)
    <3> HIDE DEF Bad
    <3> QED BY <1>0, <2>1, LastIs
  <2> DEFINE p == Last(Bad)
  <2>3. p \in 1 .. Len(raw) /\ ~Fine(p)
    BY <2>2
  <2>4. ASSUME NEW q \in Nat, q > p PROVE Fine(q)
    <3>1. CASE q > Len(raw)
      BY <1>4, <3>1
    <3>2. CASE q <= Len(raw)
      <4>1. q \in 1 .. Len(raw) /\ ~(q <= p)
        BY <1>0, <2>3, <2>4, <3>2
      <4> QED BY <2>2, <4>1
    <3> QED BY <1>0, <3>1, <3>2
  <2> HIDE DEF p, Bad, Fine
  <2> QED BY <1>5, <2>3, <2>4
<1>7. Fine(1)
  <2>1. CASE Len(raw) = 0
    BY <1>4, <2>1
  <2>2. CASE Len(raw) # 0
    <3>1. 1 \in 1 .. Len(raw)
      BY <1>0, <2>2
    <3> HIDE DEF Fine
    <3> QED BY <1>6, <3>1
  <2> QED BY <2>1, <2>2
<1> QED BY <1>0, <1>2, <1>7

-----------------------------------------------------------------------------
(***************************************************************************)
(* The text of a request: a line, headers, the empty line and the body.    *)
(***************************************************************************)
Sendable == { t \in Tokens : t.k = "file" => t.n \in Names \cup {NoName} }

\* The place of the empty line in a request; r has all before it
Start(a) == Len(Asks[a].headers) + 2
Begins(a, r) == Start(a) <= Len(r) /\ \A i \in 1 .. Start(a) : r[i] = TextOf[a][i]

\* What a text is made of, element by element.
LEMMA TextIs ==
  ASSUME NEW a \in 1 .. Len(Asks)
  PROVE  /\ Len(Asks[a].headers) \in Nat /\ Len(Asks[a].body) \in Nat
         /\ Asks[a].headers \in Seq({ t \in Tokens : t.k \in {"te", "cl", "port"} })
         /\ Asks[a].body \in Seq(Sendable)
         /\ TextOf[a] \in Seq(Sendable)
         /\ Len(TextOf[a]) = Start(a) + Len(Asks[a].body)
         /\ TextOf[a][1] = Tok("line", a) /\ TextOf[a][Start(a)] = Tok("blank", 0)
         /\ \A i \in 1 .. Len(Asks[a].headers) : TextOf[a][i + 1] = Asks[a].headers[i]
         /\ \A i \in 1 .. Len(Asks[a].body) : TextOf[a][Start(a) + i] = Asks[a].body[i]
<1> DEFINE Heads == { t \in Tokens : t.k \in {"te", "cl", "port"} }
           h == Asks[a].headers
           b == Asks[a].body
           first == <<Tok("line", a)>>
           blank == <<Tok("blank", 0)>>
           fh == first \o h
           fhb == fh \o blank
<1>1. h \in Seq(Heads) /\ b \in Seq(Sendable)
  BY ClientsAssumption DEF Sendable
<1>2. /\ first \in Seq(Sendable) /\ Len(first) = 1 /\ first[1] = Tok("line", a)
      /\ blank \in Seq(Sendable) /\ Len(blank) = 1 /\ blank[1] = Tok("blank", 0)
  BY ClientsAssumption DEF Tok, Tokens, Kinds, Sendable
<1>3. Heads \subseteq Sendable
  BY DEF Sendable
<1>4. TextOf[a] = fhb \o b
  BY DEF TextOf
<1>h. Start(a) = Len(h) + 2
  BY DEF Start
<1> HIDE DEF Heads, h, b, first, blank
<1>5. h \in Seq(Sendable) /\ Len(h) \in Nat /\ Len(b) \in Nat
  BY <1>1, <1>3, SeqMonotonic
<1>6. /\ fh \in Seq(Sendable) /\ Len(fh) = 1 + Len(h)
      /\ \A i \in 1 .. 1 : fh[i] = first[i]
      /\ \A i \in 1 .. Len(h) : fh[1 + i] = h[i]
  <2>0. fh = first \o h
    OBVIOUS
  <2> HIDE DEF fh
  <2>1. fh \in Seq(Sendable) /\ IsJoin(fh, first, h)
    BY <2>0, <1>2, <1>5, ConcatIs
  <2> QED BY <1>2, <2>1 DEF IsJoin
<1> HIDE DEF fh
<1>7. /\ fhb \in Seq(Sendable) /\ Len(fhb) = Len(fh) + 1
      /\ \A i \in 1 .. Len(fh) : fhb[i] = fh[i]
      /\ \A i \in 1 .. 1 : fhb[Len(fh) + i] = blank[i]
  <2>0. fhb = fh \o blank
    OBVIOUS
  <2> HIDE DEF fhb
  <2>1. fhb \in Seq(Sendable) /\ IsJoin(fhb, fh, blank)
    BY <2>0, <1>2, <1>6, ConcatIs
  <2> QED BY <1>2, <2>1 DEF IsJoin
<1> HIDE DEF fhb
<1>8. /\ TextOf[a] \in Seq(Sendable) /\ Len(TextOf[a]) = Len(fhb) + Len(b)
      /\ \A i \in 1 .. Len(fhb) : TextOf[a][i] = fhb[i]
      /\ \A i \in 1 .. Len(b) : TextOf[a][Len(fhb) + i] = b[i]
  <2>1. TextOf[a] \in Seq(Sendable) /\ IsJoin(TextOf[a], fhb, b)
    BY <1>1, <1>4, <1>7, ConcatIs
  <2> QED BY <2>1 DEF IsJoin
<1>9. Len(fhb) = Start(a) /\ Len(fh) = Len(h) + 1
  BY <1>5, <1>6, <1>7, <1>h
<1>10. \A i \in 1 .. Len(h) : TextOf[a][i + 1] = h[i]
  <2> SUFFICES ASSUME NEW i \in 1 .. Len(h) PROVE TextOf[a][i + 1] = h[i]
    OBVIOUS
  <2>1. /\ i + 1 \in 1 .. Len(fh) /\ i + 1 \in 1 .. Len(fhb) /\ 1 + i = i + 1
    BY <1>5, <1>9, <1>h
  <2> QED BY <1>6, <1>7, <1>8, <2>1
<1>11. TextOf[a][1] = Tok("line", a) /\ TextOf[a][Start(a)] = Tok("blank", 0)
  <2>1. /\ 1 \in 1 .. 1 /\ 1 \in 1 .. Len(fh) /\ 1 \in 1 .. Len(fhb)
        /\ Len(fh) + 1 = Start(a) /\ Start(a) \in 1 .. Len(fhb)
    BY <1>5, <1>9, <1>h
  <2> QED BY <1>2, <1>6, <1>7, <1>8, <2>1
<1> QED
  BY <1>1, <1>5, <1>8, <1>9, <1>10, <1>11 DEF Heads, h, b

\* The lengths alone.
LEMMA Lengths ==
  ASSUME NEW a \in 1 .. Len(Asks)
  PROVE  /\ Len(Asks[a].headers) \in Nat /\ Len(Asks[a].body) \in Nat
         /\ Start(a) = Len(Asks[a].headers) + 2 /\ Start(a) \in Nat /\ Start(a) >= 2
         /\ Len(TextOf[a]) = Start(a) + Len(Asks[a].body) /\ Len(TextOf[a]) \in Nat
<1>1. Len(Asks[a].headers) \in Nat /\ Len(Asks[a].body) \in Nat
  BY TextIs
<1>2. Len(TextOf[a]) = Start(a) + Len(Asks[a].body)
  BY TextIs
<1>3. Start(a) = Len(Asks[a].headers) + 2
  BY DEF Start
<1>4. \A h, b \in Nat : h + 2 \in Nat /\ h + 2 >= 2 /\ h + 2 + b \in Nat
  OBVIOUS
<1> QED BY <1>1, <1>2, <1>3, <1>4

\* p agrees with the request a as far as the empty line
Agrees(a, p) == \A i \in 1 .. Len(p) : i <= Start(a) => p[i] = TextOf[a][i]

\* No token before the empty line is one.
LEMMA NoBlankBefore ==
  ASSUME NEW a \in 1 .. Len(Asks), NEW i \in 1 .. Start(a), TextOf[a][i].k = "blank"
  PROVE  i = Start(a)
<1> DEFINE h == Asks[a].headers
<1>1. Len(h) \in Nat /\ h \in Seq({ t \in Tokens : t.k \in {"te", "cl", "port"} })
  BY TextIs
<1>2. CASE i = 1
  <2>1. TextOf[a][1] = Tok("line", a)
    BY TextIs
  <2> QED BY <1>2, <2>1 DEF Tok
<1>3. CASE i \in 2 .. Len(h) + 1
  <2>1. i - 1 \in 1 .. Len(h) /\ (i - 1) + 1 = i
    BY <1>1, <1>3
  <2>2. h[i - 1].k \in {"te", "cl", "port"}
    <3>1. h[i - 1] \in { t \in Tokens : t.k \in {"te", "cl", "port"} }
      BY <1>1, <2>1
    <3> QED BY <3>1
  <2>3. TextOf[a][i] = h[i - 1]
    BY <2>1, TextIs
  <2> QED BY <2>2, <2>3
<1> HIDE DEF h
<1>4. Start(a) = Len(h) + 2
  BY DEF Start, h
<1> QED BY <1>1, <1>2, <1>3, <1>4

\* A text that agrees with a request and has an empty line has all of its headers.
LEMMA BlankIs ==
  ASSUME NEW a \in 1 .. Len(Asks), NEW p \in Seq(Tokens), Agrees(a, p), Has(p, "blank")
  PROVE  Begins(a, p)
<1>1. Len(p) \in Nat /\ Start(a) \in Nat /\ Start(a) >= 2
  BY TextIs DEF Start
<1>2. PICK i \in 1 .. Len(p) : p[i].k = "blank"
  BY DEF Has, At
<1>3. Start(a) <= Len(p)
  <2> SUFFICES ASSUME Len(p) < Start(a) PROVE FALSE
    BY <1>1
  <2>1. i \in 1 .. Start(a) /\ p[i] = TextOf[a][i] /\ i # Start(a)
    BY <1>1, <1>2 DEF Agrees
  <2> QED BY <1>2, <2>1, NoBlankBefore
<1> QED BY <1>1, <1>3 DEF Agrees, Begins

\* The first empty line is where the headers end, in a text that has the headers.
LEMMA FirstBlank ==
  ASSUME NEW a \in 1 .. Len(Asks), NEW p \in Seq(Tokens), Begins(a, p)
  PROVE  First(At(p, "blank")) = Start(a) /\ Has(p, "blank")
<1>1. Len(p) \in Nat /\ Start(a) \in Nat /\ Start(a) >= 2
  BY TextIs DEF Start
<1>2. Start(a) \in At(p, "blank")
  <2>1. Start(a) \in 1 .. Start(a) /\ Start(a) \in 1 .. Len(p)
    BY <1>1 DEF Begins
  <2>2. p[Start(a)] = TextOf[a][Start(a)]
    BY <2>1 DEF Begins
  <2>3. p[Start(a)] = Tok("blank", 0)
    BY <2>2, TextIs
  <2> QED BY <2>1, <2>3 DEF At, Tok
<1>3. \A j \in At(p, "blank") : Start(a) <= j
  <2> SUFFICES ASSUME NEW j \in At(p, "blank"), j < Start(a) PROVE FALSE
    BY <1>1 DEF At
  <2>1. j \in 1 .. Start(a) /\ TextOf[a][j].k = "blank" /\ j # Start(a)
    BY <1>1 DEF At, Begins
  <2> QED BY <2>1, NoBlankBefore
<1>4. At(p, "blank") \subseteq Nat
  BY DEF At
<1> QED BY <1>2, <1>3, <1>4, FirstUnique DEF Has

\* What is before the body of a request, and the body.
LEMMA BodyIs ==
  ASSUME NEW a \in 1 .. Len(Asks), NEW T, T \subseteq Tokens, NEW p \in Seq(T), Begins(a, p)
  PROVE  /\ HeaderOf(p) \in Seq(T) /\ Len(HeaderOf(p)) = Start(a)
         /\ \A i \in 1 .. Start(a) : HeaderOf(p)[i] = p[i]
         /\ Body(p) \in Seq(T) /\ Len(Body(p)) = Len(p) - Start(a)
         /\ \A i \in 1 .. Len(p) - Start(a) : Body(p)[i] = p[Start(a) + i]
<1>1. Len(p) \in Nat /\ Start(a) \in Nat /\ Start(a) >= 2 /\ Start(a) <= Len(p)
  BY TextIs DEF Start, Begins
<1>2. First(At(p, "blank")) = Start(a)
  BY SeqMonotonic, FirstBlank
<1>3. HeaderOf(p) = SubSeq(p, 1, Start(a)) /\ Body(p) = SubSeq(p, Start(a) + 1, Len(p))
  BY <1>2 DEF HeaderOf, Body
<1>4. /\ SubSeq(p, 1, Start(a)) \in Seq(T)
      /\ Len(SubSeq(p, 1, Start(a))) = Start(a) - 1 + 1
      /\ \A i \in 1 .. Start(a) - 1 + 1 : SubSeq(p, 1, Start(a))[i] = p[1 + i - 1]
  <2>1. 1 \in Nat \ {0} /\ 1 <= Start(a) + 1
    BY <1>1
  <2> QED BY <1>1, <2>1, PartOf
<1>5. /\ SubSeq(p, Start(a) + 1, Len(p)) \in Seq(T)
      /\ Len(SubSeq(p, Start(a) + 1, Len(p))) = Len(p) - (Start(a) + 1) + 1
      /\ \A i \in 1 .. Len(p) - (Start(a) + 1) + 1 :
           SubSeq(p, Start(a) + 1, Len(p))[i] = p[(Start(a) + 1) + i - 1]
  <2>1. Start(a) + 1 \in Nat \ {0} /\ Start(a) + 1 <= Len(p) + 1 /\ Len(p) <= Len(p)
    BY <1>1
  <2> QED BY <1>1, <2>1, PartOf
<1> DEFINE head == HeaderOf(p)
           body == Body(p)
<1>6. /\ head \in Seq(T) /\ Len(head) = Start(a) - 1 + 1
      /\ \A i \in 1 .. Start(a) - 1 + 1 : head[i] = p[1 + i - 1]
  BY <1>3, <1>4
<1>7. /\ body \in Seq(T) /\ Len(body) = Len(p) - (Start(a) + 1) + 1
      /\ \A i \in 1 .. Len(p) - (Start(a) + 1) + 1 : body[i] = p[(Start(a) + 1) + i - 1]
  BY <1>3, <1>5
<1> HIDE DEF head, body
<1>8. \A i \in 1 .. Start(a) : i \in 1 .. Start(a) - 1 + 1 /\ 1 + i - 1 = i
  BY <1>1
<1>9. \A i \in 1 .. Len(p) - Start(a) :
        i \in 1 .. Len(p) - (Start(a) + 1) + 1 /\ (Start(a) + 1) + i - 1 = Start(a) + i
  BY <1>1
<1>10. /\ Len(head) = Start(a) /\ \A i \in 1 .. Start(a) : head[i] = p[i]
       /\ Len(body) = Len(p) - Start(a)
       /\ \A i \in 1 .. Len(p) - Start(a) : body[i] = p[Start(a) + i]
  BY <1>1, <1>6, <1>7, <1>8, <1>9
<1> QED BY <1>6, <1>7, <1>10 DEF head, body

\* Joining the chunks keeps what is before the body.
LEMMA CleanIs ==
  ASSUME NEW a \in 1 .. Len(Asks), NEW T, T \subseteq Tokens, NEW p \in Seq(T), Begins(a, p)
  PROVE  /\ Clean(p) \in Seq(T) /\ Len(Clean(p)) <= Len(p) /\ Begins(a, Clean(p))
         /\ Body(Clean(p)) = IF Chunked(p) THEN Dechunk(Body(p)) ELSE Body(p)
         /\ ~Chunked(p) => Clean(p) = p
<1>0. Len(p) \in Nat /\ Start(a) \in Nat
  BY TextIs DEF Start
<1>1. CASE ~Chunked(p)
  BY <1>0, <1>1 DEF Clean
<1>2. CASE Chunked(p)
  <2> DEFINE q == Clean(p)
             head == HeaderOf(p)
             body == Dechunk(Body(p))
  <2>1. /\ head \in Seq(T) /\ Len(head) = Start(a)
        /\ \A i \in 1 .. Start(a) : head[i] = p[i]
        /\ Body(p) \in Seq(T) /\ Len(Body(p)) = Len(p) - Start(a)
    BY <1>0, BodyIs
  <2>2. body \in Seq(T) /\ Len(body) <= Len(Body(p)) /\ Len(body) \in Nat
    <3>1. body \in Seq(T) /\ Len(body) <= Len(Body(p))
      BY <1>0, <2>1, DechunkIs
    <3> HIDE DEF body
    <3> QED BY <3>1
  <2>3. q = head \o body
    BY <1>2 DEF Clean
  <2> HIDE DEF q, head, body
  <2>4. q \in Seq(T) /\ IsJoin(q, head, body)
    BY <2>1, <2>2, <2>3, ConcatIs
  <2>5. Len(q) <= Len(p) /\ Begins(a, q) /\ Len(q) = Start(a) + Len(body)
    BY <1>0, <2>1, <2>2, <2>4 DEF IsJoin, Begins
  <2>6. Body(q) = body
    <3>1. /\ Body(q) \in Seq(T) /\ Len(Body(q)) = Len(q) - Start(a)
          /\ \A i \in 1 .. Len(q) - Start(a) : Body(q)[i] = q[Start(a) + i]
      <4>1. q \in Seq(T) /\ Begins(a, q) 
        BY <1>0, <2>4, <2>5
      <4> QED BY <4>1, BodyIs
    <3>2. Len(q) - Start(a) = Len(body)
      BY <1>0, <2>2, <2>5
    <3>3. \A i \in 1 .. Len(body) : q[Start(a) + i] = body[i]
      BY <2>1, <2>4 DEF IsJoin
    <3>4. Len(Body(q)) = Len(body) /\ \A i \in 1 .. Len(Body(q)) : Body(q)[i] = body[i]
      BY <3>1, <3>2, <3>3
    <3> QED BY <2>2, <3>1, <3>4, SameSequence
  <2> QED BY <1>2, <2>4, <2>5, <2>6 DEF q, body
<1> QED BY <1>1, <1>2

\* A place of a text is that of its line, of a header, of the empty line or in its body.
LEMMA Places ==
  ASSUME NEW a \in 1 .. Len(Asks), NEW i \in 1 .. Len(TextOf[a])
  PROVE  \/ i = 1 /\ TextOf[a][i] = Tok("line", a)
         \/ /\ i - 1 \in 1 .. Len(Asks[a].headers) /\ TextOf[a][i] = Asks[a].headers[i - 1]
            /\ TextOf[a][i] \in Tokens /\ TextOf[a][i].k \in {"te", "cl", "port"}
         \/ i = Start(a) /\ TextOf[a][i] = Tok("blank", 0)
         \/ i - Start(a) \in 1 .. Len(Asks[a].body) /\ TextOf[a][i] = Asks[a].body[i - Start(a)]
<1> DEFINE h == Asks[a].headers
           b == Asks[a].body
<1>1. /\ Len(h) \in Nat /\ Len(b) \in Nat /\ Start(a) = Len(h) + 2
      /\ h \in Seq({ t \in Tokens : t.k \in {"te", "cl", "port"} })
      /\ Len(TextOf[a]) = Start(a) + Len(b)
  BY TextIs DEF Start
<1>0. Len(h) \in Nat /\ Len(b) \in Nat /\ Start(a) = Len(h) + 2
  BY <1>1
<1>2. CASE i = 1
  BY <1>2, TextIs
<1>3. CASE i \in 2 .. Len(h) + 1
  <2>1. i - 1 \in 1 .. Len(h) /\ (i - 1) + 1 = i
    BY <1>1, <1>3
  <2>2. h[i - 1] \in Tokens /\ h[i - 1].k \in {"te", "cl", "port"}
    <3>1. h[i - 1] \in { t \in Tokens : t.k \in {"te", "cl", "port"} }
      BY <1>1, <2>1
    <3> QED BY <3>1
  <2>3. TextOf[a][i] = h[i - 1]
    BY <2>1, TextIs
  <2> QED BY <2>1, <2>2, <2>3
<1>4. CASE i = Start(a)
  BY <1>4, TextIs
<1>5. CASE i \in Start(a) + 1 .. Start(a) + Len(b)
  <2>1. i - Start(a) \in 1 .. Len(b) /\ Start(a) + (i - Start(a)) = i
    <3> HIDE DEF h, b
    <3> QED BY <1>0, <1>5
  <2>2. TextOf[a][i] = b[i - Start(a)]
    BY <2>1, TextIs
  <2> QED BY <2>1, <2>2
<1> HIDE DEF h, b
<1> QED BY <1>1, <1>2, <1>3, <1>4, <1>5

\* What is behind the line of a request is its text without the first token.
LEMMA BehindLine ==
  ASSUME NEW a \in 1 .. Len(Asks)
  PROVE  /\ Len(Behind(Asks[a])) = Len(TextOf[a]) - 1 /\ Behind(Asks[a]) \in Seq(Tokens)
         /\ \A i \in 1 .. Len(Behind(Asks[a])) : Behind(Asks[a])[i] = TextOf[a][i + 1]
<1> DEFINE t == Behind(Asks[a])
           h == Asks[a].headers
           b == Asks[a].body
           blank == <<Tok("blank", 0)>>
           hb == h \o blank
           Heads == { x \in Tokens : x.k \in {"te", "cl", "port"} }
<1>1. /\ Len(h) \in Nat /\ Len(b) \in Nat /\ Start(a) = Len(h) + 2
      /\ h \in Seq(Heads) /\ b \in Seq(Sendable)
      /\ Len(TextOf[a]) = Start(a) + Len(b)
  BY TextIs DEF Start
<1>2. blank \in Seq(Tokens) /\ Len(blank) = 1 /\ blank[1] = Tok("blank", 0)
  BY DEF Tok, Tokens, Kinds
<1>3. h \in Seq(Tokens) /\ b \in Seq(Tokens)
  <2>1. Heads \subseteq Tokens /\ Sendable \subseteq Tokens
    BY DEF Sendable
  <2> HIDE DEF Heads, h, b
  <2> QED BY <1>1, <2>1, SeqMonotonic
<1>4. hb = h \o blank /\ t = hb \o b
  BY DEF Behind
<1>5. /\ \A i \in 1 .. Len(h) : TextOf[a][i + 1] = h[i]
      /\ TextOf[a][Len(h) + 2] = Tok("blank", 0)
      /\ \A i \in 1 .. Len(b) : TextOf[a][Len(h) + 2 + i] = b[i]
  BY <1>1, TextIs
<1> HIDE DEF t, h, b, blank, hb
<1>6. hb \in Seq(Tokens) /\ IsJoin(hb, h, blank)
  BY <1>2, <1>3, <1>4, ConcatIs
<1>7. t \in Seq(Tokens) /\ IsJoin(t, hb, b)
  BY <1>3, <1>4, <1>6, ConcatIs
<1>8. Len(hb) = Len(h) + 1 /\ Len(t) = Len(h) + 1 + Len(b)
  BY <1>1, <1>2, <1>6, <1>7 DEF IsJoin
<1>0. /\ Len(h) \in Nat /\ Len(b) \in Nat
      /\ Len(hb) = Len(h) + 1 /\ Len(t) = Len(h) + 1 + Len(b)
  BY <1>1, <1>8
<1>9. ASSUME NEW i \in 1 .. Len(t) PROVE t[i] = TextOf[a][i + 1]
  <2>1. CASE i \in 1 .. Len(h)
    <3>1. i \in 1 .. Len(hb)
      BY <1>1, <1>8, <2>1
    <3> QED BY <1>5, <1>6, <1>7, <2>1, <3>1 DEF IsJoin
  <2>2. CASE i = Len(h) + 1
    <3>1. i \in 1 .. Len(hb) /\ 1 \in 1 .. Len(blank) /\ i + 1 = Len(h) + 2
      BY <1>1, <1>2, <1>8, <2>2
    <3> QED BY <1>2, <1>5, <1>6, <1>7, <2>2, <3>1 DEF IsJoin
  <2>3. CASE i \in Len(h) + 2 .. Len(t)
    <3> DEFINE j == i - (Len(h) + 1)
    <3>1. j \in 1 .. Len(b) /\ i = Len(h) + 1 + j /\ i + 1 = Len(h) + 2 + j
      BY <1>0, <2>3
    <3> HIDE DEF j
    <3>2. t[Len(h) + 1 + j] = b[j]
      <4>1. t[Len(hb) + j] = b[j]
        BY <1>7, <3>1 DEF IsJoin
      <4> QED BY <4>1, <1>8
    <3> QED BY <1>5, <3>1, <3>2
  <2> QED BY <1>0, <2>1, <2>2, <2>3
<1> QED BY <1>1, <1>7, <1>8, <1>9 DEF t

-----------------------------------------------------------------------------
(***************************************************************************)
(* What handleClientData finds in a Plain request: its end, and nothing    *)
(* before it that looks like its end.                                      *)
(***************************************************************************)

\* Where the tokens the searches look for are in a Plain request.
LEMMA PlainPlaces ==
  ASSUME NEW a \in 1 .. Len(Asks), Plain(Asks[a]), NEW i \in 1 .. Len(TextOf[a])
  PROVE  /\ TextOf[a][i].k \in {"te", "cl"} =>
              i - 1 \in 1 .. Len(Asks[a].headers) /\ TextOf[a][i] = Asks[a].headers[i - 1]
         /\ TextOf[a][i].k # "zero"
         /\ Has(Asks[a].headers, "te") => TextOf[a][i].k \notin {"cl", "port"}
         /\ Has(Asks[a].headers, "te") /\ TextOf[a][i] = Tok("size", 0) =>
              i >= Len(TextOf[a]) - 1
<1> DEFINE h == Asks[a].headers
           b == Asks[a].body
           txt == TextOf[a]
<1>1. \/ i = 1 /\ txt[i] = Tok("line", a)
      \/ /\ i - 1 \in 1 .. Len(h) /\ txt[i] = h[i - 1]
         /\ txt[i] \in Tokens /\ txt[i].k \in {"te", "cl", "port"}
      \/ i = Start(a) /\ txt[i] = Tok("blank", 0)
      \/ i - Start(a) \in 1 .. Len(b) /\ txt[i] = b[i - Start(a)]
  BY Places
<1>2. /\ \A j \in 1 .. Len(b) : b[j].k \notin {"te", "cl", "zero", "blank"}
      /\ Has(h, "te") => /\ ~Has(Behind(Asks[a]), "cl") /\ ~Has(Behind(Asks[a]), "port")
                         /\ \A j \in 1 .. Len(b) - 2 : b[j] # Tok("size", 0)
  BY DEF Plain
<1>3. /\ Len(txt) = Start(a) + Len(b) /\ Start(a) \in Nat /\ Len(b) \in Nat
      /\ Start(a) >= 2
  BY Lengths
<1>4. /\ Len(Behind(Asks[a])) = Len(txt) - 1
      /\ \A j \in 1 .. Len(Behind(Asks[a])) : Behind(Asks[a])[j] = txt[j + 1]
  BY BehindLine
<1> HIDE DEF h, b, txt
<1>5. Tok("line", a).k = "line" /\ Tok("blank", 0).k = "blank" /\ Tok("size", 0).k = "size"
  BY DEF Tok
<1>6. txt[i].k \in {"te", "cl"} => i - 1 \in 1 .. Len(h) /\ txt[i] = h[i - 1]
  BY <1>1, <1>2, <1>5
<1>7. txt[i].k # "zero"
  BY <1>1, <1>2, <1>5
<1>8. Has(h, "te") => txt[i].k \notin {"cl", "port"}
  <2> SUFFICES ASSUME Has(h, "te"), txt[i].k \in {"cl", "port"} PROVE FALSE
    OBVIOUS
  <2>1. i # 1
    BY <1>1, <1>3, <1>5
  <2>2. i \in 1 .. Len(txt)
    BY DEF txt
  <2>3. i - 1 \in 1 .. Len(Behind(Asks[a])) /\ (i - 1) + 1 = i
    BY <1>3, <1>4, <2>1, <2>2
  <2>4. Behind(Asks[a])[i - 1] = txt[i]
    BY <1>4, <2>3
  <2>5. i - 1 \in At(Behind(Asks[a]), txt[i].k)
    BY <2>3, <2>4 DEF At
  <2> QED BY <1>2, <2>5 DEF Has
<1>9. Has(h, "te") /\ txt[i] = Tok("size", 0) => i >= Len(txt) - 1
  <2> SUFFICES ASSUME Has(h, "te"), txt[i] = Tok("size", 0) PROVE i >= Len(txt) - 1
    OBVIOUS
  <2>1. i - Start(a) \in 1 .. Len(b) /\ b[i - Start(a)] = Tok("size", 0)
    BY <1>1, <1>5
  <2>2. ~(i - Start(a) \in 1 .. Len(b) - 2)
    BY <1>2, <2>1
  <2> QED BY <1>3, <2>1, <2>2
<1> QED BY <1>6, <1>7, <1>8, <1>9 DEF h, b, txt

\* A request in chunks ends where its last chunk does.
LEMMA PlainTerminated ==
  ASSUME NEW a \in 1 .. Len(Asks), Plain(Asks[a]), Has(Asks[a].headers, "te"),
         NEW p \in Seq(Tokens), Len(p) <= Len(TextOf[a]),
         \A i \in 1 .. Len(p) : p[i] = TextOf[a][i],
         Terminated(p)
  PROVE  Len(p) = Len(TextOf[a])
<1>1. Len(p) \in Nat /\ Len(TextOf[a]) \in Nat
  BY TextIs
<1>2. \A i \in 1 .. Len(p) : i \in 1 .. Len(TextOf[a])
  BY <1>1
<1>3. ~Has(p, "zero")
  BY <1>2, PlainPlaces DEF Has, At
<1>4. PICK i \in 1 .. Len(p) - 1 : EndsInZero(p[i])
  BY <1>3 DEF Terminated
<1>5. i \in 1 .. Len(p) /\ i \in 1 .. Len(TextOf[a])
  BY <1>1, <1>4
<1>6. p[i].k # "port" /\ p[i].k # "cl"
  BY <1>5, PlainPlaces
<1>7. p[i] = Tok("size", 0)
  BY <1>4, <1>6 DEF EndsInZero
<1>8. i >= Len(TextOf[a]) - 1
  BY <1>5, <1>7, PlainPlaces
<1> QED BY <1>1, <1>4, <1>8

\* A request with a length is found whole when it is, one without has no body.
LEMMA PlainDeclared ==
  ASSUME NEW a \in 1 .. Len(Asks), Plain(Asks[a]), ~Has(Asks[a].headers, "te"),
         NEW p \in Seq(Tokens), Begins(a, p), Len(p) <= Len(TextOf[a]),
         \A i \in 1 .. Len(p) : p[i] = TextOf[a][i],
         ~Short(p), ~TooLarge(p)
  PROVE  Len(p) = Len(TextOf[a])
<1> DEFINE h == Asks[a].headers
           b == Asks[a].body
           txt == TextOf[a]
           t == Behind(Asks[a])
<1>1. /\ Len(p) \in Nat /\ Len(txt) \in Nat /\ Len(h) \in Nat /\ Len(b) \in Nat
      /\ Start(a) = Len(h) + 2 /\ Len(txt) = Start(a) + Len(b)
      /\ Start(a) <= Len(p) /\ Len(p) <= Len(txt)
  BY Lengths DEF Begins
<1>2. IF Has(t, "cl") THEN Declared(t) = Len(b) ELSE Len(b) = 0
  BY DEF Plain
<1>3. Len(t) = Len(txt) - 1 /\ \A j \in 1 .. Len(t) : t[j] = txt[j + 1]
  BY BehindLine
<1>4. \A i \in 1 .. Len(p) : p[i] = txt[i]
  OBVIOUS
<1>5. \A i \in 1 .. Len(txt) : txt[i].k = "cl" => i - 1 \in 1 .. Len(h)
  BY PlainPlaces
<1>6. Len(Body(p)) = Len(p) - Start(a)
  BY BodyIs
<1> SUFFICES Len(p) = Len(txt)
  OBVIOUS
<1> HIDE DEF h, b, txt, t
<1>7. CASE ~Has(t, "cl")
  BY <1>1, <1>2, <1>7
<1>8. CASE Has(t, "cl")
  <2> DEFINE m == First(At(t, "cl"))
  <2>1. m \in At(t, "cl") /\ \A j \in At(t, "cl") : m <= j
    <3>1. At(t, "cl") # {} /\ At(t, "cl") \subseteq Nat
      BY <1>8 DEF Has, At
    <3> QED BY <3>1, FirstIs
  <2> HIDE DEF m
  <2>2. m \in 1 .. Len(t) /\ t[m].k = "cl" /\ m + 1 \in 1 .. Len(txt) /\ t[m] = txt[m + 1]
    BY <1>1, <1>3, <2>1 DEF At
  <2>3. m + 1 \in 1 .. Len(p) /\ p[m + 1] = t[m]
    <3>1. (m + 1) - 1 \in 1 .. Len(h)
      BY <1>5, <2>2
    <3>2. m + 1 \in 1 .. Len(p)
      BY <1>1, <2>2, <3>1
    <3> QED BY <1>4, <2>2, <3>2
  <2>4. m + 1 \in At(p, "cl")
    BY <2>2, <2>3 DEF At
  <2>5. ASSUME NEW j \in At(p, "cl") PROVE m + 1 <= j
    <3>1. j \in 1 .. Len(p) /\ j \in 1 .. Len(txt) /\ txt[j].k = "cl"
      BY <1>1, <1>4 DEF At
    <3>2. j - 1 \in 1 .. Len(h)
      BY <1>5, <3>1
    <3>3. j - 1 \in 1 .. Len(t) /\ (j - 1) + 1 = j
      BY <1>1, <1>3, <3>1, <3>2
    <3>4. j - 1 \in At(t, "cl")
      BY <1>3, <3>1, <3>3 DEF At
    <3>5. m <= j - 1
      BY <2>1, <3>4
    <3> QED BY <2>2, <3>1, <3>5
  <2>6. First(At(p, "cl")) = m + 1
    <3>1. At(p, "cl") \subseteq Nat
      BY DEF At
    <3> QED BY <2>4, <2>5, <3>1, FirstUnique
  <2>7. Declared(p) = Len(b)
    BY <1>2, <1>8, <2>3, <2>6 DEF Declared, m
  <2>8. ~(Len(Body(p)) < Len(b))
    BY <2>4, <2>7 DEF Short, Has
  <2>9. Len(p) - Start(a) >= Len(b)
    BY <1>1, <1>6, <2>8
  <2> QED BY <1>1, <2>9
<1> QED BY <1>7, <1>8

\* The header of chunks is found where it is, and only there.
LEMMA PlainChunked ==
  ASSUME NEW a \in 1 .. Len(Asks), Plain(Asks[a]), NEW p \in Seq(Tokens), Begins(a, p),
         Len(p) <= Len(TextOf[a]), \A i \in 1 .. Len(p) : p[i] = TextOf[a][i]
  PROVE  Chunked(p) <=> Has(Asks[a].headers, "te")
<1> DEFINE h == Asks[a].headers
<1>1. /\ Len(h) \in Nat /\ Start(a) = Len(h) + 2 /\ Len(TextOf[a]) \in Nat
      /\ Len(p) \in Nat /\ Start(a) <= Len(p)
  BY Lengths DEF Begins
<1>2. ASSUME NEW i \in 1 .. Len(p), p[i].k = "te" PROVE Has(h, "te")
  <2>1. i \in 1 .. Len(TextOf[a])
    BY <1>1
  <2>2. i - 1 \in 1 .. Len(h) /\ p[i] = h[i - 1]
    BY <1>2, <2>1, PlainPlaces
  <2>3. i - 1 \in At(h, "te")
    BY <1>2, <2>2 DEF At
  <2> QED BY <2>3 DEF Has
<1>3. ASSUME NEW i \in 1 .. Len(h), h[i].k = "te" PROVE Has(p, "te")
  <2>1. i + 1 \in 1 .. Len(p)
    <3> HIDE DEF h
    <3> QED BY <1>1
  <2>2. p[i + 1] = h[i]
    <3>1. TextOf[a][i + 1] = h[i]
      BY TextIs
    <3> QED BY <2>1, <3>1
  <2>3. i + 1 \in At(p, "te")
    BY <1>3, <2>1, <2>2 DEF At
  <2> QED BY <2>3 DEF Has
<1>4. Has(p, "te") => Has(h, "te")
  BY <1>2 DEF Has, At
<1>5. Has(h, "te") => Has(p, "te")
  BY <1>3 DEF Has, At
<1> QED BY <1>4, <1>5 DEF Chunked

\* A Plain request that is taken is whole, and its body what the client meant; one
\* that has to wait or is refused for its length is left as it is.
LEMMA PlainRequest ==
  ASSUME NEW a \in 1 .. Len(Asks), Plain(Asks[a]), NEW p \in Seq(Sendable),
         Len(p) <= Len(TextOf[a]), \A i \in 1 .. Len(p) : p[i] = TextOf[a][i], Framed(p)
  PROVE  /\ Short(Clean(p)) \/ TooLarge(Clean(p)) => Clean(p) = p
         /\ ~Short(Clean(p)) /\ ~TooLarge(Clean(p)) =>
              Len(p) = Len(TextOf[a]) /\ Body(Clean(p)) = Asks[a].content
<1> DEFINE h == Asks[a].headers
           b == Asks[a].body
           q == Clean(p)
<1>1. Sendable \subseteq Tokens /\ p \in Seq(Tokens)
  BY SeqMonotonic DEF Sendable
<1>2. Begins(a, p)
  BY <1>1, BlankIs DEF Framed, Agrees
<1>3. /\ Len(p) \in Nat /\ Len(b) \in Nat /\ Start(a) \in Nat
      /\ Len(TextOf[a]) = Start(a) + Len(b)
  BY Lengths
<1>4. Chunked(p) <=> Has(h, "te")
  BY <1>1, <1>2, PlainChunked
<1>5. Asks[a].content = IF Has(h, "te") THEN Dechunk(b) ELSE b
  BY RequestsAssumption
<1>6. Len(p) = Len(TextOf[a]) => Body(p) = b
  <2> SUFFICES ASSUME Len(p) = Len(TextOf[a]) PROVE Body(p) = b
    OBVIOUS
  <2>1. /\ Body(p) \in Seq(Sendable) /\ Len(Body(p)) = Len(p) - Start(a)
        /\ \A i \in 1 .. Len(p) - Start(a) : Body(p)[i] = p[Start(a) + i]
    <3>1. Sendable \subseteq Tokens
      BY <1>1
    <3> QED BY <1>2, <3>1, BodyIs
  <2>2. b \in Seq(Sendable) /\ \A i \in 1 .. Len(b) : TextOf[a][Start(a) + i] = b[i]
    BY TextIs
  <2> HIDE DEF b
  <2>3. Len(p) - Start(a) = Len(b)
    BY <1>3
  <2>4. \A i \in 1 .. Len(b) : Start(a) + i \in 1 .. Len(p)
    BY <1>3
  <2>5. \A i \in 1 .. Len(b) : Body(p)[i] = b[i]
    BY <2>1, <2>2, <2>3, <2>4
  <2>6. Len(Body(p)) = Len(b)
    BY <2>1, <2>3
  <2> HIDE DEF q
  <2> QED BY <2>1, <2>2, <2>5, <2>6, SameSequence
<1>7. CASE Has(h, "te")
  <2> DEFINE Rest == { t \in Tokens : t.k # "cl" }
  <2>1. \A i \in 1 .. Len(p) : p[i] \in Rest
    <3> SUFFICES ASSUME NEW i \in 1 .. Len(p) PROVE p[i] \in Rest
      OBVIOUS
    <3>1. i \in 1 .. Len(TextOf[a]) /\ p[i] \in Tokens
      BY <1>1, <1>3
    <3> QED BY <1>7, <3>1, PlainPlaces
  <2>2. p \in Seq(Rest)
    <3>1. p = [i \in 1 .. Len(p) |-> p[i]]
      OBVIOUS
    <3>2. p \in [1 .. Len(p) -> Rest]
      BY <2>1, <3>1
    <3> QED BY <1>3, <3>2
  <2>3. q \in Seq(Rest)
    <3>1. Rest \subseteq Tokens
      OBVIOUS
    <3> HIDE DEF Rest
    <3> QED BY <1>2, <2>2, <3>1, CleanIs
  <2>4. ~Has(q, "cl")
    <3>1. \A i \in 1 .. Len(q) : q[i] \in Rest
      <4> HIDE DEF Rest, q
      <4> QED BY <2>3
    <3> HIDE DEF q
    <3> QED BY <3>1 DEF Has, At
  <2>5. Len(p) = Len(TextOf[a])
    BY <1>1, <1>4, <1>7, PlainTerminated DEF Framed
  <2>6. Body(q) = Dechunk(Body(p))
    BY <1>1, <1>2, <1>4, <1>7, CleanIs
  <2> QED BY <1>5, <1>6, <1>7, <2>4, <2>5, <2>6 DEF Short, TooLarge
<1>8. CASE ~Has(h, "te")
  <2>1. q = p
    BY <1>4, <1>8 DEF Clean
  <2>2. ~Short(p) /\ ~TooLarge(p) => Len(p) = Len(TextOf[a])
    BY <1>1, <1>2, <1>8, PlainDeclared
  <2> QED BY <1>5, <1>6, <1>8, <2>1, <2>2
<1> QED BY <1>7, <1>8

-----------------------------------------------------------------------------
(***************************************************************************)
(* The statuses of RequestManager.                                         *)
(***************************************************************************)

\* FirstOf gives a status of the list, or 0.
LEMMA FirstOfNat ==
  ASSUME NEW cases, Len(cases) \in Nat, \A i \in 1 .. Len(cases) : cases[i].status \in Nat
  PROVE  FirstOf(cases) \in Nat
<1> QED BY FirstOfIs

\* The redirection of a location is a status.
LEMMA RedirectIs == \A path : Location(path).redirect \in Nat
<1> QED BY LocationIs, DiskAssumption

\* The choice of a method answers with a status, or 0.
LEMMA VerdictNat ==
  ASSUME NEW a, NEW length
  PROVE  Verdict(a, length) \in Nat
<1> DEFINE l == Location(a.path)
           cases == << When(~a.words, 400),
             When(a.version \notin {"HTTP/1.0", "HTTP/1.1"}, 505),
             When(a.long, 414),
             When(a.version = "HTTP/1.1" /\ ~a.host, 400),
             When(a.large, 431),
             When(length > MaxBody, 413),
             When(a.method \notin l.methods, 405),
             When(l.redirect # 0, l.redirect),
             When(a.method \notin {"GET", "POST", "DELETE"}, 501) >>
<1>1. l.redirect \in Nat
  BY RedirectIs
<1>2. \A holds, status : When(holds, status).status = status
  BY DEF When
<1> HIDE DEF l
<1>3. Len(cases) = 9
  OBVIOUS
<1>4. \A i \in 1 .. 9 : cases[i].status \in Nat
  BY <1>1, <1>2
<1>6. \A i \in 1 .. Len(cases) : cases[i].status \in Nat
  BY <1>3, <1>4
<1>5. Verdict(a, length) = FirstOf(cases)
  BY DEF Verdict, l
<1>7. Len(cases) \in Nat
  BY <1>3
<1> HIDE DEF cases
<1> QED BY <1>5, <1>6, <1>7, FirstOfNat

\* What is not refused goes to a location with a store, and a form has its parts.
LEMMA NotUploadedIs ==
  ASSUME NEW a, NEW body
  PROVE  /\ NotUploaded(a, body) \in Nat
         /\ NotUploaded(a, body) = 0 => /\ Location(a.path).upload
                                        /\ a.media = "form" => ~Malformed(body)
<1> DEFINE l == Location(a.path)
           e == disk[a.name]
           cases == << When(IsCgi(a) /\ e.kind = "none", 404),
             When(IsCgi(a), 403),
             When(a.media = "form" /\ ~a.boundary, 400),
             When(~l.upload, 403),
             When(l.store = "missing", 404),
             When(l.store = "locked", 403),
             When(a.media = "form" /\ Malformed(body), 400) >>
<1>1. \A holds, status : When(holds, status).status = status
  BY DEF When
<1>2. Len(cases) = 7
  OBVIOUS
<1>9. \A i \in 1 .. 7 : cases[i].status \in Nat /\ cases[i].status # 0
  BY <1>1
<1>3. /\ Len(cases) \in Nat /\ 4 \in 1 .. Len(cases) /\ 7 \in 1 .. Len(cases)
      /\ \A i \in 1 .. Len(cases) : cases[i].status \in Nat /\ cases[i].status # 0
  BY <1>2, <1>9
<1>4. cases[4] = When(~l.upload, 403) /\ cases[7] = When(a.media = "form" /\ Malformed(body), 400)
  OBVIOUS
<1>5. NotUploaded(a, body) = FirstOf(cases)
  BY DEF NotUploaded
<1> HIDE DEF cases
<1>6. FirstOf(cases) \in Nat
  BY <1>3, FirstOfNat
<1>7. FirstOf(cases) = 0 => ~cases[4].holds /\ ~cases[7].holds
  BY <1>3, FirstOfIs
<1>8. (~cases[4].holds => l.upload) /\ (~cases[7].holds => ~(a.media = "form" /\ Malformed(body)))
  <2>1. When(~l.upload, 403).holds <=> ~l.upload
    BY DEF When
  <2>2. When(a.media = "form" /\ Malformed(body), 400).holds <=> a.media = "form" /\ Malformed(body)
    BY DEF When
  <2> QED BY <1>4, <2>1, <2>2
<1> QED BY <1>5, <1>6, <1>7, <1>8

\* So does a directory.
LEMMA DirStatusNat ==
  ASSUME NEW a
  PROVE  DirStatus(a) \in Nat
<1> DEFINE l == Location(a.path)
           e == disk[a.index]
           cases == << When(~Ends(WithoutQuery(a.path), "/") /\ ~Ends(l.path, "/"), 301),
             When(e.kind = "file", FileStatus(e)),
             When(l.autoindex, 200),
             When(TRUE, 404) >>
<1>1. \A holds, status : When(holds, status).status = status
  BY DEF When
<1>2. FileStatus(e) \in Nat
  BY DEF FileStatus
<1>3. DirStatus(a) = FirstOf(cases)
  BY DEF DirStatus
<1> HIDE DEF e, l
<1>4. Len(cases) = 4
  OBVIOUS
<1>5. \A i \in 1 .. 4 : cases[i].status \in Nat
  BY <1>2 DEF When
<1>6. Len(cases) \in Nat /\ \A i \in 1 .. Len(cases) : cases[i].status \in Nat
  BY <1>4, <1>5
<1> HIDE DEF cases
<1> QED BY <1>3, <1>6, FirstOfNat

\* GET answers with a status.
LEMMA GetNat ==
  ASSUME NEW a, Get(a)
  PROVE  response' \in Nat
<1> DEFINE e == disk[a.name]
           cases == << When(e.kind = "none", 404),
             When("r" \notin e.mode, 403),
             When(e.kind = "file", FileStatus(e)),
             When(TRUE, DirStatus(a)) >>
<1>1. \A holds, status : When(holds, status).status = status
  BY DEF When
<1>2. FileStatus(e) \in Nat /\ DirStatus(a) \in Nat
  BY DirStatusNat DEF FileStatus
<1>3. response' = FirstOf(cases)
  BY DEF Get, Respond
<1> HIDE DEF e
<1>4. Len(cases) = 4
  OBVIOUS
<1>5. \A i \in 1 .. 4 : cases[i].status \in Nat
  BY <1>2 DEF When
<1>6. Len(cases) \in Nat /\ \A i \in 1 .. Len(cases) : cases[i].status \in Nat
  BY <1>4, <1>5
<1> HIDE DEF cases
<1> QED BY <1>3, <1>6, FirstOfNat

-----------------------------------------------------------------------------
(***************************************************************************)
(* What an answer leaves on the disk.                                      *)
(***************************************************************************)

\* The first file of a form that is not Malformed has a name and a text: each is
\* in the part behind its boundary.
LEMMA FilesAre ==
  ASSUME NEW b \in Seq(Sendable), ~Malformed(b), NEW i \in DOMAIN Files(b)
  PROVE  /\ i \in 1 .. Len(b)
         /\ Files(b)[i].name \in Names /\ Files(b)[i].text \in Seq(Tokens)
<1> DEFINE part == Part(b, i)
           next == First(Later(b, i))
           end == IF next = i + 1 THEN Len(b) ELSE next - 1
           first == First(PartHeaders(part))
<1>0. Len(b) \in Nat
  OBVIOUS
<1>1. i \in Opening(b) /\ PartHeader(part).k = "file"
  BY DEF Files
<1>2. i \in 1 .. Len(b)
  BY <1>1 DEF Opening, At
<1>3. /\ Later(b, i) # {} /\ PartHeaders(part) # {} /\ PartHeader(part) # Tok("file", NoName)
  BY <1>1 DEF Malformed
<1>4. next \in i + 1 .. Len(b)
  <2>1. Later(b, i) \subseteq Nat
    BY DEF Later, Bounds, At
  <2>2. next \in Later(b, i)
    BY <1>3, <2>1, FirstIs
  <2> QED BY <1>2, <2>2 DEF Later, Bounds, At
<1>5. part = SubSeq(b, i + 1, end)
  BY DEF Part
<1>6. end \in Nat /\ i + 1 \in Nat \ {0} /\ i + 1 <= end + 1 /\ end <= Len(b)
  BY <1>0, <1>2, <1>4
<1> HIDE DEF end, next
<1>7. part \in Seq(Sendable)
  BY <1>0, <1>5, <1>6, PartOf
<1> HIDE DEF part
<1>8. first \in PartHeaders(part) /\ PartHeaders(part) \subseteq 1 .. Len(part)
  <2>1. PartHeaders(part) \subseteq 1 .. Len(part)
    BY DEF PartHeaders, At
  <2>2. Len(part) \in Nat
    BY <1>7
  <2>3. PartHeaders(part) \subseteq Nat
    BY <2>1, <2>2
  <2> QED BY <1>3, <2>1, <2>3, FirstIs
<1>9. PartHeader(part) = part[first] /\ first \in 1 .. Len(part)
  BY <1>8 DEF PartHeader
<1> HIDE DEF first
<1>10. PartHeader(part) \in Sendable
  BY <1>7, <1>9
<1>11. PartHeader(part).n \in Names
  BY <1>1, <1>3, <1>10 DEF Sendable, Tokens, Tok, part
<1>12. SubSeq(part, first + 1, Len(part)) \in Seq(Tokens)
  <2>1. Len(part) \in Nat
    BY <1>7
  <2>2. /\ first + 1 \in Nat \ {0} /\ first + 1 <= Len(part) + 1 /\ Len(part) <= Len(part)
    BY <1>9, <2>1
  <2>3. part \in Seq(Tokens)
    <3>1. Sendable \subseteq Tokens
      BY DEF Sendable
    <3> QED BY <1>7, <3>1, SeqMonotonic
  <2> QED BY <2>1, <2>2, <2>3, PartOf
<1>13. Files(b)[i] = [name |-> PartHeader(part).n, text |-> SubSeq(part, first + 1, Len(part))]
  BY DEF Files, part, first
<1> QED BY <1>2, <1>11, <1>12, <1>13

\* A file kept of a raw body has the n-th name of a store, for an n already counted
RawName(f, n) ==
  \E l \in 1 .. Len(Locations) :
    /\ Locations[l].upload
    /\ \E i \in DOMAIN Locations[l].uploads : i <= n /\ f.name = Locations[l].uploads[i]

Stored == [name : Names, media : {"raw", "form"}]
DiskInv ==
  /\ disk \in [Names -> Entries] /\ counter \in Nat
  /\ stored \in [Clients -> SUBSET Stored]
  /\ \A c \in Clients : \A f \in stored[c] : f.media = "raw" => RawName(f, counter)
  /\ StoredAsSent

\* A text of the file system is one.
LEMMA FileIs == \A text \in Seq(Tokens) : File(text) \in Entries
<1> QED BY DEF File, Entries, Kind

\* A step that touches neither the disk nor what is known of it.
LEMMA DiskFrame ==
  ASSUME DiskInv, UNCHANGED <<disk, counter, stored, ask>>
  PROVE  DiskInv'
<1> QED BY DEF DiskInv, StoredAsSent

\* A body goes to a name that no body had before.
LEMMA UploadBodyStores ==
  ASSUME DiskInv, NEW c \in Clients, NEW a, NEW body \in Seq(Tokens), a = Asks[ask[c]],
         Plain(a) => body = a.content, counter < Cardinality(Clients), ask' = ask,
         UploadBody(c, a, body)
  PROVE  DiskInv' /\ counter' = counter + 1
<1> DEFINE name == Location(a.path).uploads[counter + 1]
           new == [name |-> name, media |-> "raw"]
<1>1. counter \in Nat /\ counter' = counter + 1 /\ a.media = "raw" /\ NotUploaded(a, body) = 0
  BY DEF DiskInv, UploadBody
<1>2. PICK l \in 1 .. Len(Locations) :
        /\ Location(a.path) = Locations[l] /\ Locations[l].upload
        /\ counter + 1 \in DOMAIN Locations[l].uploads
        /\ name = Locations[l].uploads[counter + 1] /\ name \in Names
  <2>1. PICK l \in 1 .. Len(Locations) : Location(a.path) = Locations[l]
    BY LocationIs
  <2>2. Locations[l].upload
    BY <1>1, <2>1, NotUploadedIs
  <2>3. /\ Locations[l].uploads \in Seq(Names) /\ Cardinality(Clients) \in Nat
        /\ Len(Locations[l].uploads) >= Cardinality(Clients)
    BY <2>2, DiskAssumption, FS_CardinalityType
  <2>4. counter + 1 \in 1 .. Len(Locations[l].uploads)
    BY <1>1, <2>3
  <2> QED BY <2>1, <2>2, <2>3, <2>4
<1> HIDE DEF name
<1>3. \A e \in Clients : \A f \in stored[e] : f.media = "raw" => RawName(f, counter')
  <2>1. \A f : RawName(f, counter) => RawName(f, counter + 1)
    <3>1. \A m \in 1 .. Len(Locations) : Locations[m].upload =>
            \A i \in DOMAIN Locations[m].uploads : i \in Nat
      BY DiskAssumption
    <3> QED BY <1>1, <3>1 DEF RawName
  <2> QED BY <1>1, <2>1 DEF DiskInv
<1>4. CASE CanWrite(disk[name])
  <2>1. /\ disk' = [disk EXCEPT ![name] = File(body)]
        /\ stored' = [Forgotten(name, {"form"}) EXCEPT ![c] = {new}]
    BY <1>4 DEF UploadBody, name
  <2>2. /\ new \in Stored /\ RawName(new, counter')
        /\ disk' \in [Names -> Entries] /\ disk'[name] = File(body)
        /\ \A n \in Names : n # name => disk'[n] = disk[n]
    <3>1. new \in Stored
      BY <1>2 DEF Stored
    <3>2. RawName(new, counter')
      BY <1>1, <1>2 DEF RawName
    <3> QED BY <1>2, <2>1, <3>1, <3>2, FileIs DEF DiskInv
  <2>3. /\ stored'[c] = {new}
        /\ \A e \in Clients : e # c =>
             stored'[e] = { f \in stored[e] : ~(f.name = name /\ f.media = "form") }
    BY <2>1 DEF Forgotten
  <2>4. stored' \in [Clients -> SUBSET Stored]
    <3>1. \A e \in Clients : stored'[e] \in SUBSET Stored
      BY <2>2, <2>3 DEF DiskInv
    <3>2. stored' = [e \in Clients |-> stored'[e]]
      BY <2>1 DEF Forgotten
    <3> QED BY <3>1, <3>2
  <2>5. \A e \in Clients : \A f \in stored'[e] : f.media = "raw" => RawName(f, counter')
    BY <1>3, <2>2, <2>3
  <2>6. ASSUME NEW e \in Clients, NEW f \in stored'[e], Plain(Asks[ask[e]])
        PROVE  disk'[f.name] = File(Meant(Asks[ask[e]], f))
    <3>1. CASE e = c
      <4>1. f = new
        BY <2>3, <3>1
      <4> QED BY <2>2, <2>6, <3>1, <4>1 DEF Meant
    <3>2. CASE e # c
      <4>1. f \in stored[e] /\ f \in Stored /\ ~(f.name = name /\ f.media = "form")
        BY <2>3, <3>2 DEF DiskInv
      <4>2. f.name # name
        <5> SUFFICES ASSUME f.name = name PROVE FALSE
          OBVIOUS
        <5>1. RawName(f, counter)
          BY <4>1 DEF DiskInv, Stored
        <5>2. PICK m \in 1 .. Len(Locations) :
                /\ Locations[m].upload
                /\ \E i \in DOMAIN Locations[m].uploads :
                     i <= counter /\ f.name = Locations[m].uploads[i]
          BY <5>1 DEF RawName
        <5>3. PICK i \in DOMAIN Locations[m].uploads :
                i <= counter /\ name = Locations[m].uploads[i]
          BY <5>2
        <5>4. i = counter + 1
          BY <1>2, <5>2, <5>3, DiskAssumption
        <5> QED BY <1>1, <5>3, <5>4
      <4>3. disk'[f.name] = disk[f.name]
        BY <2>2, <4>1, <4>2 DEF Stored
      <4> QED BY <2>6, <4>1, <4>3 DEF DiskInv, StoredAsSent
    <3> QED BY <3>1, <3>2
  <2>7. StoredAsSent'
    BY <2>6 DEF StoredAsSent
  <2> QED BY <1>1, <2>2, <2>4, <2>5, <2>7 DEF DiskInv
<1>5. CASE ~CanWrite(disk[name])
  <2>1. UNCHANGED <<disk, stored>>
    BY <1>5 DEF UploadBody, name
  <2>2. StoredAsSent'
    BY <2>1 DEF DiskInv, StoredAsSent
  <2> QED BY <1>1, <1>3, <2>1, <2>2 DEF DiskInv
<1> QED BY <1>1, <1>4, <1>5

\* A form leaves under a name its last text of that name, if it came to that.
LEMMA UploadFormStores ==
  ASSUME DiskInv, NEW c \in Clients, NEW a, NEW body \in Seq(Sendable), a = Asks[ask[c]],
         ask[c] \in 1 .. Len(Asks), Plain(a) => body = a.content, ask' = ask,
         UploadForm(c, a, body)
  PROVE  DiskInv' /\ counter' = counter
<1> DEFINE files == Files(body)
           stop == FirstRefused(files, Len(body) + 1)
           names == { files[i].name : i \in { i \in DOMAIN files : i < stop } }
           whole == { name \in names : \A i \in Named(files, name) : i < stop }
           those(name) == { i \in Named(files, name) : i < stop }
<1>1. /\ WriteFiles(c, files, stop) /\ counter' = counter /\ counter \in Nat
      /\ a.media = "form" /\ ~Malformed(body)
  BY NotUploadedIs DEF UploadForm, DiskInv
<1>2. \A i \in DOMAIN files :
        i \in 1 .. Len(body) /\ files[i].name \in Names /\ files[i].text \in Seq(Tokens)
  BY <1>1, FilesAre
<1> HIDE DEF files, stop
<1>3. /\ disk' = [name \in Names |->
                    IF those(name) = {} THEN disk[name] ELSE File(files[Last(those(name))].text)]
      /\ stored' = [e \in Clients |->
           IF e = c THEN { [name |-> name, media |-> "form"] : name \in whole }
           ELSE { f \in stored[e] : f.name \notin names }]
  BY <1>1 DEF WriteFiles, Written
<1>4. ASSUME NEW name \in Names, those(name) # {}
      PROVE  Last(those(name)) \in those(name) /\ Last(those(name)) \in DOMAIN files
  <2>1. those(name) \subseteq 0 .. Len(body) /\ Len(body) \in Nat
    BY <1>2 DEF Named
  <2>2. Last(those(name)) \in those(name)
    <3> HIDE DEF those
    <3> QED BY <1>4, <2>1, LastIs
  <2> QED BY <2>2 DEF Named
<1>5. disk' \in [Names -> Entries]
  <2>1. ASSUME NEW name \in Names PROVE disk'[name] \in Entries
    <3>1. CASE those(name) = {}
      BY <1>3, <3>1 DEF DiskInv
    <3>2. CASE those(name) # {}
      <4>1. files[Last(those(name))].text \in Seq(Tokens)
        BY <1>2, <1>4, <3>2
      <4> QED BY <1>3, <3>2, <4>1, FileIs
    <3> QED BY <3>1, <3>2
  <2> QED BY <1>3, <2>1
<1>6. names \subseteq Names
  BY <1>2
<1>7. ASSUME NEW e \in Clients
      PROVE  IF e = c THEN stored'[e] = { [name |-> name, media |-> "form"] : name \in whole }
             ELSE stored'[e] = { f \in stored[e] : f.name \notin names }
  BY <1>3
<1> HIDE DEF names
<1>8. stored' \in [Clients -> SUBSET Stored]
  <2>1. ASSUME NEW e \in Clients PROVE stored'[e] \in SUBSET Stored
    <3>1. CASE e = c
      BY <1>6, <1>7, <3>1 DEF Stored
    <3>2. CASE e # c
      BY <1>7, <3>2 DEF DiskInv
    <3> QED BY <3>1, <3>2
  <2>2. stored' = [e \in Clients |-> stored'[e]]
    BY <1>3
  <2> QED BY <2>1, <2>2
<1>9. \A e \in Clients : \A f \in stored'[e] : f.media = "raw" => RawName(f, counter')
  <2> SUFFICES ASSUME NEW e \in Clients, NEW f \in stored'[e], f.media = "raw"
               PROVE  RawName(f, counter)
    BY <1>1
  <2>1. e # c
    BY <1>7
  <2>2. f \in stored[e]
    BY <1>7, <2>1
  <2> QED BY <2>2 DEF DiskInv
<1>10. ASSUME NEW e \in Clients, NEW f \in stored'[e], Plain(Asks[ask[e]])
       PROVE  disk'[f.name] = File(Meant(Asks[ask[e]], f))
  <2>1. CASE e = c
    <3>1. PICK name \in whole : f = [name |-> name, media |-> "form"]
      BY <1>7, <2>1
    <3>2. name \in Names /\ name \in names /\ f.name = name /\ f.media = "form"
      BY <1>6, <3>1
    <3>3. those(name) = Named(files, name)
      BY <3>1
    <3>4. Named(files, name) # {}
      BY <3>2 DEF names, Named
    <3> DEFINE m == Last(Named(files, name))
    <3>5. m \in DOMAIN files /\ files[m].name = name
      BY <1>4, <3>2, <3>3, <3>4 DEF Named
    <3>6. disk'[name] = File(files[m].text)
      BY <1>3, <3>2, <3>3, <3>4
    <3>7. files[m].text = a.files[name]
      <4>1. Plain(a) /\ body = a.content
        BY <1>10, <2>1
      <4>2. \A i \in DOMAIN files : i = Last(Named(files, files[i].name)) =>
              files[i].text = a.files[files[i].name]
        BY <1>1, <4>1, RequestsAssumption DEF files
      <4> QED BY <3>5, <4>2
    <3> QED BY <2>1, <3>2, <3>6, <3>7 DEF Meant
  <2>2. CASE e # c
    <3>1. f \in stored[e] /\ f.name \notin names /\ f.name \in Names
      BY <1>7, <2>2 DEF DiskInv, Stored
    <3>2. those(f.name) = {}
      BY <3>1 DEF names, Named
    <3>3. disk'[f.name] = disk[f.name]
      BY <1>3, <3>1, <3>2
    <3> QED BY <1>10, <3>1, <3>3 DEF DiskInv, StoredAsSent
  <2> QED BY <2>1, <2>2
<1>11. StoredAsSent'
  BY <1>10 DEF StoredAsSent
<1> QED BY <1>1, <1>5, <1>8, <1>9, <1>11 DEF DiskInv

\* DELETE takes away what it takes away from the disk from what is kept, too.
LEMMA DeleteStores ==
  ASSUME DiskInv, NEW a, a.name \in Names, ask' = ask, Delete(a)
  PROVE  DiskInv' /\ counter' = counter
<1>1. counter' = counter
  BY DEF Delete
<1>2. CASE UNCHANGED <<disk, stored>>
  BY <1>1, <1>2, DiskFrame
<1>3. CASE Removed(a)
  <2>1. disk' = [disk EXCEPT ![a.name] = Gone]
    BY <1>3 DEF Removed
  <2>2. \A e \in Clients : stored'[e] =
          { f \in stored[e] : ~(f.name = a.name /\ f.media \in {"raw", "form"}) }
    BY <1>3 DEF Removed, Forgotten
  <2>3. disk' \in [Names -> Entries]
    <3>1. Gone \in Entries
      BY DEF Gone, Entries, Kind
    <3> QED BY <2>1, <3>1 DEF DiskInv
  <2>4. stored' \in [Clients -> SUBSET Stored]
    <3>1. stored' = [e \in Clients |-> stored'[e]]
      BY <1>3 DEF Removed, Forgotten
    <3>2. \A e \in Clients : stored'[e] \in SUBSET Stored
      BY <2>2 DEF DiskInv
    <3> QED BY <3>1, <3>2
  <2>5. \A e \in Clients : \A f \in stored'[e] : f \in stored[e] /\ f.name # a.name /\ f.name \in Names
    BY <2>2 DEF DiskInv, Stored
  <2>6. \A e \in Clients : \A f \in stored'[e] : disk'[f.name] = disk[f.name]
    BY <2>1, <2>5 DEF DiskInv
  <2>7. StoredAsSent'
    BY <2>5, <2>6 DEF DiskInv, StoredAsSent
  <2> QED BY <1>1, <2>3, <2>4, <2>5, <2>7 DEF DiskInv
<1>4. Removed(a) \/ UNCHANGED <<disk, stored>>
  BY DEF Delete
<1> QED BY <1>2, <1>3, <1>4

\* RequestManager: what it does to the disk, and the status it answers.
LEMMA ManageStores ==
  ASSUME DiskInv, response \in Nat, NEW c \in Clients, NEW t, ask[c] \in 1 .. Len(Asks),
         t[1].n = ask[c], Body(t) \in Seq(Sendable),
         Plain(Asks[ask[c]]) => Body(t) = Asks[ask[c]].content,
         counter < Cardinality(Clients), ask' = ask, Manage(c, t)
  PROVE  /\ DiskInv' /\ counter' \in {counter, counter + 1} /\ response' \in Nat
         /\ \/ cgi' = cgi /\ pc' # "cgi"
            \/ pc' = "cgi" /\ ExecuteCgi(t, Asks[ask[c]])
<1> DEFINE a == Asks[ask[c]]
           v == Verdict(a, BodyLength(t))
<1>0. Body(t) \in Seq(Tokens) /\ a.name \in Names
  <2>1. Sendable \subseteq Tokens
    BY DEF Sendable
  <2> QED BY <2>1, SeqMonotonic, ClientsAssumption
<1>1. CASE Respond(v) /\ UNCHANGED <<disk, counter, cgi, stored>>
  <2>1. v \in Nat
    BY VerdictNat
  <2> QED BY <1>1, <2>1, DiskFrame DEF Respond
<1>2. CASE pc' = "killed" /\ UNCHANGED <<response, disk, counter, cgi, stored>>
  BY <1>2, DiskFrame
<1>3. CASE Get(a)
  BY <1>3, GetNat, DiskFrame DEF Get, Respond
<1>4. CASE Refuse(a, Body(t))
  BY <1>4, NotUploadedIs, DiskFrame DEF Refuse, Respond
<1>5. CASE UploadBody(c, a, Body(t))
  <2>1. DiskInv' /\ counter' = counter + 1
    BY <1>0, <1>5, UploadBodyStores
  <2> QED BY <1>5, <2>1 DEF UploadBody, Respond
<1>6. CASE UploadForm(c, a, Body(t))
  <2>1. DiskInv' /\ counter' = counter
    BY <1>6, UploadFormStores
  <2> QED BY <1>6, <2>1 DEF UploadForm, Respond
<1>7. CASE Delete(a)
  <2>1. DiskInv' /\ counter' = counter
    BY <1>0, <1>7, DeleteStores
  <2> QED BY <1>7, <2>1 DEF Delete, Removed, Respond
<1>8. CASE ExecuteCgi(t, a)
  BY <1>8, DiskFrame DEF ExecuteCgi, Respond
<1> QED BY <1>1, <1>2, <1>3, <1>4, <1>5, <1>6, <1>7, <1>8 DEF Manage

-----------------------------------------------------------------------------
(***************************************************************************)
(* The inductive invariant, on top of IInv.                                *)
(***************************************************************************)

\* The server is at the request of c
Handled(c) == pc \in {"cgi", "write"} /\ Accepted(c) /\ desc[c] = client_fd

\* Nobody sends what is not in its text
SentInv ==
  /\ pc \in {"poll", "late", "expire", "scan", "cgi", "write", "off", "killed"}
  /\ client_fd \in Int
  /\ request_parts \in Seq(Seq(Sendable)) /\ inbox \in [Clients -> Seq(Sendable)]
  /\ \A c \in Clients : /\ link[c] = "none" => sent[c] = 0 /\ inbox[c] = <<>>
                        /\ link[c] # "none" => ask[c] # 0 /\ sent[c] <= Len(Text(c))

\* r is what the server has kept of what c sent: all of it or, of a request whose
\* chunks were joined too early, something that still begins as it did
Received(c, r) ==
  /\ Len(r) + Len(inbox[c]) <= sent[c]
  /\ \/ r \o inbox[c] = SubSeq(Text(c), 1, sent[c])
     \/ ~Plain(Asks[ask[c]]) /\ Begins(ask[c], r)
ReceivedInv ==
  pc # "killed" => \A c \in Clients :
    /\ Live(c) /\ ~Accepted(c) => Received(c, <<>>)
    /\ \A i \in 1 .. Len(fds) : Accepted(c) /\ fds[i].fd = desc[c] /\ ~Handled(c) =>
         Received(c, request_parts[i])

\* Who is answered has sent all, or too much
AnswerInv ==
  /\ response \in Nat /\ got \in [Clients -> Seq(Nat)]
  /\ \A c \in Clients : link[c] # "none" /\ Plain(Asks[ask[c]]) =>
       /\ Handled(c) => sent[c] = Len(Text(c)) \/ (pc = "write" /\ response = 413)
       /\ got[c] # <<>> => sent[c] = Len(Text(c)) \/ got[c] = <<413>>

\* What is in the pipes comes from the body and from the output of the program,
\* which is at its first point as long as it has written less than it has to
Exchanges == [ask : Nat, todo : Nat, in : Nat, out : Nat, left : Nat,
              plan : Seq({"read", "write"})]
AddsUp(x) ==
  LET a == Asks[x.ask] IN
  /\ x.ask \in 1 .. Len(Asks)
  /\ x.todo + x.in <= Len(a.body)
  /\ x.todo > 0 => x.out + x.left = a.output /\ (x.plan = a.plan \/ a.plan[1] = "write")
ExchangeInv == cgi \in Exchanges /\ (pc = "cgi" => AddsUp(cgi))

\* A name of a store is taken for one client only, so that there are enough
Done == { c \in Clients : link[c] = "over" \/ Handled(c) }
CountInv == pc # "killed" => counter <= Cardinality(Done)

AInv ==
  /\ IInv /\ SentInv /\ ReceivedInv /\ AnswerInv
  /\ ExchangeInv /\ DiskInv /\ CountInv

\* The initial states.
LEMMA InitAnswers == Init => AInv
<1> SUFFICES ASSUME Init PROVE AInv
  OBVIOUS
<1> USE SocketsAssumption
<1>1. /\ pc = "poll" /\ client_fd = NoFd /\ response = 0 /\ counter = 0 /\ cgi = NoCgi
      /\ request_parts = [l \in 1 .. Listens |-> <<>>]
      /\ disk = Tree /\ link = [c \in Clients |-> "none"] /\ sent = [c \in Clients |-> 0]
      /\ desc = [c \in Clients |-> NoFd]
      /\ inbox = [c \in Clients |-> <<>>] /\ got = [c \in Clients |-> <<>>]
      /\ stored = [c \in Clients |-> {}]
  BY DEF Init, Started, Servers
<1>2. SentInv
  <2>1. request_parts \in Seq(Seq(Sendable))
    BY <1>1
  <2>2. inbox \in [Clients -> Seq(Sendable)]
    BY <1>1
  <2> QED BY <1>1, <2>1, <2>2 DEF SentInv, NoFd
<1>3. ReceivedInv
  BY <1>1 DEF ReceivedInv, Live, Accepted
<1>4. AnswerInv
  BY <1>1 DEF AnswerInv
<1>5. ExchangeInv
  BY <1>1 DEF ExchangeInv, Exchanges, NoCgi
<1>6. DiskInv
  BY <1>1, DiskAssumption DEF DiskInv, StoredAsSent
<1>7. CountInv
  <2>1. Done = {}
    BY <1>1 DEF Done, Handled
  <2> QED BY <1>1, <2>1, FS_EmptySet DEF CountInv
<1> QED BY InitInv, <1>2, <1>3, <1>4, <1>5, <1>6, <1>7 DEF AInv

-----------------------------------------------------------------------------
(***************************************************************************)
(* Steps that leave a part of the invariant alone.                         *)
(***************************************************************************)

\* What is kept for a client is what was kept for it before, or nothing for one
\* that is just accepted.
LEMMA ReceivedFrame ==
  ASSUME ReceivedInv, pc # "killed", UNCHANGED <<ask, sent, inbox>>,
         \A c \in Clients : Live(c)' /\ ~Accepted(c)' => Live(c) /\ ~Accepted(c),
         \A c \in Clients : \A j \in 1 .. Len(fds') :
           Accepted(c)' /\ fds'[j].fd = desc'[c] /\ ~Handled(c)' =>
             \/ \E i \in 1 .. Len(fds) : /\ Accepted(c) /\ fds[i].fd = desc[c] /\ ~Handled(c)
                                         /\ request_parts'[j] = request_parts[i]
             \/ Live(c) /\ ~Accepted(c) /\ request_parts'[j] = <<>>
  PROVE  ReceivedInv'
<1> SUFFICES ASSUME NEW c \in Clients
             PROVE  /\ Live(c)' /\ ~Accepted(c)' => Received(c, <<>>)'
                    /\ \A j \in 1 .. Len(fds') :
                         Accepted(c)' /\ fds'[j].fd = desc'[c] /\ ~Handled(c)' =>
                           Received(c, request_parts[j])'
  BY DEF ReceivedInv
<1>1. \A r : Received(c, r) =>
        /\ Len(r) + Len(inbox'[c]) <= sent'[c]
        /\ \/ r \o inbox'[c] = SubSeq(Text(c)', 1, sent'[c])
           \/ ~Plain(Asks[ask'[c]]) /\ Begins(ask'[c], r)
  BY DEF Received, Text
<1>2. Live(c)' /\ ~Accepted(c)' => Received(c, <<>>)'
  <2> SUFFICES ASSUME Live(c)', ~Accepted(c)' PROVE Received(c, <<>>)'
    OBVIOUS
  <2>1. Received(c, <<>>)
    BY DEF ReceivedInv
  <2> QED BY <1>1, <2>1 DEF Received
<1>3. ASSUME NEW j \in 1 .. Len(fds'), Accepted(c)', fds'[j].fd = desc'[c], ~Handled(c)'
      PROVE  Received(c, request_parts[j])'
  <2>1. Received(c, request_parts'[j])
    BY <1>3 DEF ReceivedInv
  <2> QED BY <1>1, <2>1 DEF Received
<1> QED BY <1>2, <1>3

\* Who is done with stays so.
LEMMA CountFrame ==
  ASSUME CountInv, DiskInv, pc # "killed", counter' = counter,
         pc' # "killed" => Done \subseteq Done'
  PROVE  CountInv'
<1> SUFFICES ASSUME pc' # "killed" PROVE counter <= Cardinality(Done')
  BY DEF CountInv
<1>1. Done' \subseteq Clients /\ IsFiniteSet(Clients)
  BY DiskAssumption DEF Done
<1>2. IsFiniteSet(Done')
  BY <1>1, FS_Subset
<1>3. IsFiniteSet(Done) /\ Cardinality(Done) <= Cardinality(Done')
  BY <1>2, FS_Subset
<1>4. Cardinality(Done) \in Nat /\ Cardinality(Done') \in Nat /\ counter \in Nat
  BY <1>2, <1>3, FS_CardinalityType DEF DiskInv
<1>5. counter <= Cardinality(Done)
  BY DEF CountInv
<1> QED BY <1>3, <1>4, <1>5

\* Steps of the loops of run, and of the clock.
LEMMA LoopAnswers ==
  ASSUME AInv, UNCHANGED <<response, disk, counter, cgi, stored, ask, link, sent, inbox, got,
                           desc, client_fd, request_parts>>,
         Len(fds') = Len(fds), \A i \in 1 .. Len(fds) : fds'[i].fd = fds[i].fd,
         pc' = pc \/ (pc \notin {"cgi", "write", "killed"}
                        /\ pc' \in {"poll", "late", "expire", "scan", "off"})
  PROVE  SentInv' /\ ReceivedInv' /\ AnswerInv' /\ ExchangeInv' /\ DiskInv' /\ CountInv'
<1>0. \A c \in Clients : /\ Handled(c)' <=> Handled(c)
                         /\ Accepted(c)' <=> Accepted(c)
                         /\ Live(c)' <=> Live(c)
  BY DEF Handled, Accepted, Live
<1>1. SentInv'
  BY DEF AInv, SentInv, Text
<1>2. ReceivedInv'
  <2>1. CASE pc = "killed"
    BY <2>1 DEF ReceivedInv
  <2>2. CASE pc # "killed"
    BY <1>0, <2>2, ReceivedFrame DEF AInv
  <2> QED BY <2>1, <2>2
<1>3. AnswerInv'
  <2>1. \A c \in Clients : Handled(c)' => pc' = pc /\ Handled(c)
    BY <1>0 DEF Handled
  <2> QED BY <2>1 DEF AInv, AnswerInv, Text
<1>4. ExchangeInv'
  BY DEF AInv, ExchangeInv
<1>5. DiskInv'
  BY DiskFrame DEF AInv
<1>6. CountInv'
  <2>1. CASE pc = "killed"
    BY <2>1 DEF CountInv
  <2>2. CASE pc # "killed"
    <3>1. Done \subseteq Done'
      BY <1>0 DEF Done
    <3> QED BY <2>2, <3>1, CountFrame DEF AInv
  <2> QED BY <2>1, <2>2
<1> QED BY <1>1, <1>2, <1>3, <1>4, <1>5, <1>6

\* poll, the ends of the loops, a signal, a second, and no step.
LEMMA IdleAnswers ==
  ASSUME AInv, [Next]_vars,
         Poll \/ ExpireDone \/ ScanDone \/ Stop \/ Second \/ UNCHANGED vars
  PROVE  AInv'
<1>1. IInv'
  BY NextInv DEF AInv
<1>2. UNCHANGED <<response, disk, counter, cgi, stored, ask, link, sent, inbox, got,
                  desc, client_fd, request_parts>>
  <2>1. CASE Poll
    BY <2>1 DEF Poll, os, clients
  <2>2. CASE ExpireDone
    BY <2>2 DEF ExpireDone, os, clients, vectors
  <2>3. CASE ScanDone
    BY <2>3 DEF ScanDone, os, clients, vectors
  <2>4. CASE Stop
    BY <2>4 DEF Stop, os, clients, vectors, loop
  <2>5. CASE Second
    BY <2>5 DEF Second, os, loop
  <2>6. CASE UNCHANGED vars
    BY <2>6 DEF vars, os, clients, vectors, loop, manager
  <2> QED BY <2>1, <2>2, <2>3, <2>4, <2>5, <2>6
<1>3. Len(fds') = Len(fds) /\ \A i \in 1 .. Len(fds) : fds'[i].fd = fds[i].fd
  <2>1. CASE Poll
    <3>1. fds \in Seq(Entry)
      BY DEF AInv, IInv, VectorsInv
    <3>2. fds' = [i \in 1 .. Len(fds) |-> [fds[i] EXCEPT !.ready = Reported(fds[i].fd)]]
      BY <2>1, <3>1 DEF Poll
    <3>3. \A i \in 1 .. Len(fds) : fds[i] \in Entry
      BY <3>1
    <3>4. \A i \in 1 .. Len(fds) : fds'[i].fd = fds[i].fd
      BY <3>2, <3>3 DEF Entry
    <3> QED BY <3>1, <3>2, <3>4
  <2>2. CASE ExpireDone \/ ScanDone \/ Stop
    BY <2>2 DEF ExpireDone, ScanDone, Stop, vectors
  <2>3. CASE Second
    BY <2>3 DEF Second
  <2>4. CASE UNCHANGED vars
    BY <2>4 DEF vars, vectors
  <2> QED BY <2>1, <2>2, <2>3, <2>4
<1>4. pc' = pc \/ (pc \notin {"cgi", "write", "killed"}
                     /\ pc' \in {"poll", "late", "expire", "scan", "off"})
  BY DEF Poll, ExpireDone, ScanDone, Stop, Second, vars, manager
<1> QED BY <1>1, <1>2, <1>3, <1>4, LoopAnswers DEF AInv

\* The exchange with a CGI program: what is in the pipes and still to come adds up.
LEMMA CgiAnswers ==
  ASSUME AInv, [Next]_vars, Cgi \/ Program
  PROVE  AInv'
<1>0. /\ UNCHANGED <<vectors, loop, os, clients, inbox, got, quiet>>
      /\ Exchange \/ Script
  BY DEF Cgi, Program
<1>1. IInv'
  BY NextInv DEF AInv
<1>2. /\ UNCHANGED <<fds, request_parts, client_fd, desc, ask, link, sent, inbox, got>>
      /\ UNCHANGED <<disk, counter, stored>>
      /\ pc = "cgi" /\ pc' \in {"cgi", "write", "killed"}
  <2>1. UNCHANGED <<fds, request_parts, client_fd, desc, ask, link, sent, inbox, got>>
    BY <1>0 DEF vectors, loop, os, clients
  <2>2. CASE Exchange
    BY <2>1, <2>2 DEF Exchange, CgiFeed, CgiBrokenPipe, CgiCollect, CgiWaited, Respond
  <2>3. CASE Script
    BY <2>1, <2>3 DEF Script, ScriptReads, ScriptWrites
  <2> QED BY <1>0, <2>2, <2>3
<1>3. \A c \in Clients : /\ pc' # "killed" => (Handled(c)' <=> Handled(c))
                         /\ Handled(c)' => Handled(c)
                         /\ Accepted(c)' <=> Accepted(c)
                         /\ Live(c)' <=> Live(c)
  BY <1>2 DEF Handled, Accepted, Live
<1>4. SentInv'
  BY <1>2 DEF AInv, SentInv, Text
<1>5. ReceivedInv'
  <2>1. CASE pc' = "killed"
    BY <2>1 DEF ReceivedInv
  <2>2. CASE pc' # "killed"
    BY <1>2, <1>3, <2>2, ReceivedFrame DEF AInv
  <2> QED BY <2>1, <2>2
<1>6. response' \in Nat /\ (pc' = "cgi" => response' = response)
  <2>1. CASE CgiWaited
    BY <2>1 DEF CgiWaited, Respond
  <2>2. CASE CgiFeed \/ CgiBrokenPipe \/ CgiCollect \/ Script
    BY <2>2 DEF AInv, AnswerInv, CgiFeed, CgiBrokenPipe, CgiCollect, Script, ScriptReads,
                ScriptWrites
  <2> QED BY <1>0, <2>1, <2>2 DEF Exchange
<1>7. AnswerInv'
  BY <1>2, <1>3, <1>6 DEF AInv, AnswerInv, Text
<1>8. ExchangeInv'
  <2> DEFINE a == Asks[cgi.ask]
  <2>1. cgi \in Exchanges /\ AddsUp(cgi)
    BY <1>2 DEF AInv, ExchangeInv
  <2>2. /\ cgi.ask \in 1 .. Len(Asks) /\ Len(a.body) \in Nat /\ a.output \in Nat
        /\ cgi.todo \in Nat /\ cgi.in \in Nat /\ cgi.out \in Nat /\ cgi.left \in Nat
        /\ cgi.plan \in Seq({"read", "write"})
    <3>1. cgi.ask \in 1 .. Len(Asks)
      BY <2>1 DEF AddsUp
    <3> QED BY <2>1, <3>1, TextIs, ClientsAssumption DEF Exchanges
  <2>3. CASE CgiFeed
    <3>1. cgi' = [cgi EXCEPT !.todo = @ - 1, !.in = @ + 1] /\ cgi.todo > 0
      BY <2>3 DEF CgiFeed
    <3>2. cgi.todo - 1 \in Nat /\ cgi.in + 1 \in Nat
      BY <2>2, <3>1
    <3> DEFINE x == [cgi EXCEPT !.todo = cgi.todo - 1]
    <3>a. /\ x \in Exchanges /\ x.todo = cgi.todo - 1 /\ x.in = cgi.in /\ x.ask = cgi.ask
          /\ x.out = cgi.out /\ x.left = cgi.left /\ x.plan = cgi.plan
      BY <2>1, <3>2 DEF Exchanges
    <3>b. cgi' = [x EXCEPT !.in = cgi.in + 1]
      BY <3>1
    <3> HIDE DEF x
    <3>3. /\ cgi' \in Exchanges /\ cgi'.todo = cgi.todo - 1 /\ cgi'.in = cgi.in + 1
          /\ cgi'.ask = cgi.ask /\ cgi'.out = cgi.out /\ cgi'.left = cgi.left
          /\ cgi'.plan = cgi.plan
      BY <3>2, <3>a, <3>b DEF Exchanges
    <3>4. (cgi.todo - 1) + (cgi.in + 1) = cgi.todo + cgi.in
      <4>1. \A m, n \in Nat : (m - 1) + (n + 1) = m + n
        OBVIOUS
      <4> QED BY <2>2, <4>1
    <3> QED BY <2>1, <3>1, <3>3, <3>4 DEF ExchangeInv, AddsUp
  <2>4. CASE CgiBrokenPipe
    BY <2>1, <2>4 DEF CgiBrokenPipe, ExchangeInv
  <2>5. CASE CgiCollect
    <3>1. cgi' = [cgi EXCEPT !.out = @ - 1] /\ cgi.todo = 0 /\ cgi.out > 0
      BY <2>5 DEF CgiCollect
    <3>2. cgi.out - 1 \in Nat
      BY <2>2, <3>1
    <3>3. /\ cgi' \in Exchanges /\ cgi'.todo = cgi.todo /\ cgi'.in = cgi.in
          /\ cgi'.ask = cgi.ask
      BY <2>1, <3>1, <3>2 DEF Exchanges
    <3> QED BY <2>1, <3>1, <3>3 DEF ExchangeInv, AddsUp
  <2>6. CASE CgiWaited
    BY <2>6 DEF CgiWaited, Respond, ExchangeInv, Exchanges, NoCgi
  <2>7. CASE ScriptReads
    <3>1. CASE cgi.in > 0
      <4>1. cgi' = [cgi EXCEPT !.in = @ - 1]
        BY <2>7, <3>1 DEF ScriptReads
      <4>2. cgi.in - 1 \in Nat /\ cgi.todo + (cgi.in - 1) <= cgi.todo + cgi.in
        BY <2>2, <3>1
      <4>3. /\ cgi' \in Exchanges /\ cgi'.todo = cgi.todo /\ cgi'.in = cgi.in - 1
            /\ cgi'.ask = cgi.ask /\ cgi'.out = cgi.out /\ cgi'.left = cgi.left
            /\ cgi'.plan = cgi.plan
        BY <2>1, <4>1, <4>2 DEF Exchanges
      <4>4. cgi.todo + (cgi.in - 1) <= Len(a.body)
        <5>1. \A m, n, k \in Nat : m + n <= k => m + (n - 1) <= k
          OBVIOUS
        <5> QED BY <2>1, <2>2, <5>1 DEF AddsUp
      <4> QED BY <2>1, <4>3, <4>4 DEF ExchangeInv, AddsUp
    <3>2. CASE ~(cgi.in > 0)
      <4>1. cgi' = [cgi EXCEPT !.plan = Tail(@)] /\ cgi.todo = 0 /\ cgi.plan # <<>>
        BY <2>7, <3>2 DEF ScriptReads, Doing, Ended
      <4>2. Tail(cgi.plan) \in Seq({"read", "write"})
        BY <2>2, <4>1, HeadTailProperties
      <4>3. /\ cgi' \in Exchanges /\ cgi'.todo = cgi.todo /\ cgi'.in = cgi.in
            /\ cgi'.ask = cgi.ask
        BY <2>1, <4>1, <4>2 DEF Exchanges
      <4> QED BY <2>1, <4>1, <4>3 DEF ExchangeInv, AddsUp
    <3> QED BY <3>1, <3>2
  <2>8. CASE ScriptWrites
    <3>1. CASE cgi.left > 0
      <4>1. cgi' = [cgi EXCEPT !.left = @ - 1, !.out = @ + 1]
        BY <2>8, <3>1 DEF ScriptWrites
      <4>2. /\ cgi.left - 1 \in Nat /\ cgi.out + 1 \in Nat
            /\ (cgi.out + 1) + (cgi.left - 1) = cgi.out + cgi.left
        BY <2>2, <3>1
      <4> DEFINE x == [cgi EXCEPT !.left = cgi.left - 1]
      <4>a. /\ x \in Exchanges /\ x.left = cgi.left - 1 /\ x.in = cgi.in /\ x.ask = cgi.ask
            /\ x.out = cgi.out /\ x.todo = cgi.todo /\ x.plan = cgi.plan
        BY <2>1, <4>2 DEF Exchanges
      <4>b. cgi' = [x EXCEPT !.out = cgi.out + 1]
        BY <4>1
      <4> HIDE DEF x
      <4>3. /\ cgi' \in Exchanges /\ cgi'.todo = cgi.todo /\ cgi'.in = cgi.in
            /\ cgi'.ask = cgi.ask /\ cgi'.out = cgi.out + 1 /\ cgi'.left = cgi.left - 1
            /\ cgi'.plan = cgi.plan
        BY <4>2, <4>a, <4>b DEF Exchanges
      <4> QED BY <2>1, <4>2, <4>3 DEF ExchangeInv, AddsUp
    <3>2. CASE ~(cgi.left > 0)
      <4>1. /\ cgi' = [cgi EXCEPT !.plan = Tail(@)] /\ cgi.plan # <<>>
            /\ cgi.plan[1] = "write"
        BY <2>8, <3>2 DEF ScriptWrites, Doing, Ended
      <4>2. Tail(cgi.plan) \in Seq({"read", "write"})
        BY <2>2, <4>1, HeadTailProperties
      <4>3. /\ cgi' \in Exchanges /\ cgi'.todo = cgi.todo /\ cgi'.in = cgi.in
            /\ cgi'.ask = cgi.ask /\ cgi'.out = cgi.out /\ cgi'.left = cgi.left
        BY <2>1, <4>1, <4>2 DEF Exchanges
      <4> QED BY <2>1, <4>1, <4>3 DEF ExchangeInv, AddsUp
    <3> QED BY <3>1, <3>2
  <2> QED BY <1>0, <2>3, <2>4, <2>5, <2>6, <2>7, <2>8 DEF Exchange, Script
<1>9. DiskInv'
  BY <1>2, DiskFrame DEF AInv
<1>10. CountInv'
  <2>1. pc' # "killed" => Done \subseteq Done'
    BY <1>2, <1>3 DEF Done
  <2> QED BY <1>2, <2>1, CountFrame DEF AInv
<1> QED BY <1>1, <1>4, <1>5, <1>7, <1>8, <1>9, <1>10 DEF AInv

-----------------------------------------------------------------------------
(***************************************************************************)
(* Steps that open and close connections.                                  *)
(***************************************************************************)

\* There is a part for every place.
LEMMA PartsLen ==
  ASSUME IInv
  PROVE  Len(request_parts) = Len(fds) /\ Len(fds) \in Nat
<1>1. Len(fds) \in Nat /\ request_parts = [i \in 1 .. Len(fds) |-> request_parts[i]]
  BY DEF IInv, VectorsInv
<1> QED BY <1>1, FunctionIsSequence

\* removeClient takes what was kept for a client away with it.
LEMMA CloseAnswers ==
  ASSUME AInv, NEW i \in Listens + 1 .. Len(fds), RemoveClient(i),
         UNCHANGED <<ask, sent, inbox, counter>>, client_fd' \in Int,
         pc \in {"expire", "write"}, pc' \in {"expire", "scan"},
         \A c \in Clients : Handled(c) => desc[c] = fds[i].fd
  PROVE  /\ SentInv' /\ ReceivedInv' /\ CountInv'
         /\ \A c \in Clients : ~Handled(c)'
         /\ \A c \in Clients : link'[c] # link[c] =>
              Accepted(c) /\ desc[c] = fds[i].fd /\ link'[c] = "over" /\ link[c] # "none"
<1> USE SocketsAssumption
<1>0. /\ Len(request_parts) = Len(fds) /\ Len(fds) \in Nat /\ i \in 1 .. Len(fds)
      /\ request_parts \in Seq(Seq(Sendable)) /\ fds \in Seq(Entry)
  BY PartsLen DEF AInv, SentInv, IInv, VectorsInv
<1>1. /\ request_parts' \in Seq(Seq(Sendable))
      /\ \A j \in 1 .. Len(fds) - 1 :
           request_parts'[j] = IF j < i THEN request_parts[j] ELSE request_parts[j + 1]
  <2>1. i \in 1 .. Len(request_parts) /\ request_parts' = RemoveAt(request_parts, i)
    BY <1>0 DEF RemoveClient
  <2> QED BY <1>0, <2>1, Removed_
<1>2. /\ Len(fds') = Len(fds) - 1
      /\ \A j \in 1 .. Len(fds) - 1 : fds'[j] = IF j < i THEN fds[j] ELSE fds[j + 1]
  BY <1>0, Removed_ DEF RemoveClient
<1>3. \A c \in Clients :
        /\ desc'[c] = IF desc[c] = fds[i].fd THEN NoFd ELSE desc[c]
        /\ link'[c] = IF Accepted(c) /\ desc[c] = fds[i].fd THEN "over" ELSE link[c]
        /\ Accepted(c) => Live(c)
  BY DEF RemoveClient, AInv, IInv, ClientsInv, BacklogInv
<1>4. \A c \in Clients : link'[c] # link[c] =>
        Accepted(c) /\ desc[c] = fds[i].fd /\ link'[c] = "over" /\ link[c] # "none"
  BY <1>3 DEF Live
<1>5. \A c \in Clients : ~Handled(c)'
  BY DEF Handled
<1>6. SentInv'
  BY <1>1, <1>4 DEF AInv, SentInv, Text
<1>7. ReceivedInv'
  <2>1. \A c \in Clients : Live(c)' /\ ~Accepted(c)' => Live(c) /\ ~Accepted(c)
    BY <1>3 DEF Live, Accepted
  <2>2. ASSUME NEW c \in Clients, NEW j \in 1 .. Len(fds'), Accepted(c)', fds'[j].fd = desc'[c]
        PROVE  \E k \in 1 .. Len(fds) : /\ Accepted(c) /\ fds[k].fd = desc[c] /\ ~Handled(c)
                                        /\ request_parts'[j] = request_parts[k]
    <3>1. Accepted(c) /\ desc'[c] = desc[c] /\ desc[c] # fds[i].fd /\ ~Handled(c)
      BY <1>3, <2>2 DEF Accepted
    <3> DEFINE k == IF j < i THEN j ELSE j + 1
    <3>2. j \in 1 .. Len(fds) - 1 /\ k \in 1 .. Len(fds)
      BY <1>0, <1>2
    <3>3. fds'[j] = fds[k] /\ request_parts'[j] = request_parts[k]
      BY <1>1, <1>2, <3>2
    <3> QED BY <2>2, <3>1, <3>2, <3>3
  <2>3. UNCHANGED <<ask, sent, inbox>> /\ ReceivedInv /\ pc # "killed"
    BY DEF AInv
  <2> QED BY <2>1, <2>2, <2>3, ReceivedFrame
<1>8. CountInv'
  <2>1. Done \subseteq Done'
    <3>1. \A c \in Clients : Handled(c) => Accepted(c) /\ desc[c] = fds[i].fd
      BY DEF Handled
    <3> QED BY <1>3, <3>1 DEF Done
  <2> QED BY <2>1, CountFrame DEF AInv
<1> QED BY <1>4, <1>5, <1>6, <1>7, <1>8

\* The loop over the silent.
LEMMA ExpireAnswers ==
  ASSUME AInv, [Next]_vars, NEW i \in 1 .. Len(fds), Expire(i)
  PROVE  AInv'
<1>1. IInv'
  BY NextInv DEF AInv
<1>2. /\ pc = "expire" /\ RemoveClient(i) /\ i \in Listens + 1 .. Len(fds)
      /\ UNCHANGED <<pc, response, disk, counter, cgi, stored, client_fd, ask, sent, inbox, got>>
  BY SocketsAssumption DEF Expire, Comes, manager, AInv, IInv, VectorsInv, LoopInv
<1>3. /\ SentInv' /\ ReceivedInv' /\ CountInv'
      /\ \A c \in Clients : ~Handled(c)'
      /\ \A c \in Clients : link'[c] # link[c] =>
           Accepted(c) /\ desc[c] = fds[i].fd /\ link'[c] = "over" /\ link[c] # "none"
  <2>1. \A c \in Clients : ~Handled(c)
    BY <1>2 DEF Handled
  <2>2. client_fd' \in Int
    BY <1>2 DEF AInv, SentInv
  <2> QED BY <1>2, <2>1, <2>2, CloseAnswers
<1>4. AnswerInv'
  BY <1>2, <1>3 DEF AInv, AnswerInv, Text
<1>5. ExchangeInv' /\ DiskInv'
  <2>1. DiskInv'
    BY <1>2, DiskFrame DEF AInv
  <2> QED BY <1>2, <2>1 DEF AInv, ExchangeInv
<1> QED BY <1>1, <1>3, <1>4, <1>5 DEF AInv

\* The answer is that of the client whose connection is closed.
LEMMA WriteAnswers ==
  ASSUME AInv, [Next]_vars, NEW c \in Clients, WriteResponse(c)
  PROVE  AInv'
<1>1. IInv'
  BY NextInv DEF AInv
<1>2. /\ pc = "write" /\ Accepted(c) /\ desc[c] = client_fd
      /\ UNCHANGED <<disk, counter, cgi, stored, ask, sent, inbox>>
  BY DEF WriteResponse
<1>3. ExchangeInv' /\ DiskInv'
  <2>1. DiskInv'
    BY <1>2, DiskFrame DEF AInv
  <2>2. pc' # "cgi"
    BY <1>2 DEF WriteResponse
  <2> QED BY <1>2, <2>1, <2>2 DEF AInv, ExchangeInv
<1>4. CASE pc' = "killed"
  <2>1. /\ pc' = "killed"
        /\ UNCHANGED <<response, request_parts, client_fd, link, got>>
    BY <1>4 DEF WriteResponse, vectors
  <2>2. SentInv' /\ ReceivedInv' /\ CountInv'
    BY <1>2, <2>1 DEF AInv, SentInv, Text, ReceivedInv, CountInv
  <2>3. AnswerInv'
    BY <1>2, <2>1 DEF AInv, AnswerInv, Text, Handled
  <2> QED BY <1>1, <1>3, <2>2, <2>3 DEF AInv
<1>5. CASE pc' # "killed"
  <2>1. /\ at \in Listens + 1 .. Len(fds) /\ Place(client_fd) = at /\ desc[c] = fds[at].fd
        /\ \A e \in Clients : Accepted(e) /\ desc[e] = fds[at].fd => e = c
    BY <1>5, AnswerPlace DEF AInv
  <2>2. /\ got' = [got EXCEPT ![c] = Append(@, response)]
        /\ RemoveClient(at) /\ response' = 0 /\ client_fd' = NoFd /\ pc' = "scan"
    BY <1>5, <2>1 DEF WriteResponse
  <2>3. /\ SentInv' /\ ReceivedInv' /\ CountInv'
        /\ \A e \in Clients : ~Handled(e)'
        /\ \A e \in Clients : link'[e] # link[e] =>
             Accepted(e) /\ desc[e] = fds[at].fd /\ link'[e] = "over" /\ link[e] # "none"
    <3>1. \A e \in Clients : Handled(e) => desc[e] = fds[at].fd
      BY <1>2, <2>1 DEF Handled
    <3>2. client_fd' \in Int
      BY <2>2 DEF NoFd
    <3> QED BY <1>2, <2>1, <2>2, <3>1, <3>2, CloseAnswers
  <2>4. AnswerInv'
    <3>1. response \in Nat /\ got \in [Clients -> Seq(Nat)]
      BY DEF AInv, AnswerInv
    <3>2. got[c] = <<>> /\ Live(c)
      BY <1>2 DEF AInv, IInv, AnswersInv, BacklogInv, Live
    <3>3. got'[c] = <<response>> /\ \A e \in Clients : e # c => got'[e] = got[e]
      BY <2>2, <3>1, <3>2
    <3>4. got' \in [Clients -> Seq(Nat)]
      BY <2>2, <3>1, <3>3
    <3>5. Plain(Asks[ask[c]]) => sent[c] = Len(Text(c)) \/ response = 413
      BY <1>2, <3>2 DEF AInv, AnswerInv, Handled, Live
    <3>6. ASSUME NEW e \in Clients, link'[e] # "none", Plain(Asks[ask'[e]]), got'[e] # <<>>
          PROVE  sent'[e] = Len(Text(e)') \/ got'[e] = <<413>>
      <4>1. CASE e = c
        BY <1>2, <3>3, <3>5, <3>6, <4>1 DEF Text
      <4>2. CASE e # c
        BY <1>2, <2>3, <3>3, <3>6, <4>2 DEF Text, AInv, AnswerInv
      <4> QED BY <4>1, <4>2
    <3> QED BY <2>2, <2>3, <3>4, <3>6 DEF AnswerInv
  <2> QED BY <1>1, <1>3, <2>3, <2>4 DEF AInv
<1> QED BY <1>4, <1>5

\* A new place, with nothing kept for it.
LEMMA AcceptAnswers ==
  ASSUME AInv, [Next]_vars, NEW i \in 1 .. Len(fds), Accept(i) \/ AcceptFails(i)
  PROVE  AInv'
<1> USE SocketsAssumption
<1>1. IInv'
  BY NextInv DEF AInv
<1>2. /\ pc = "scan" /\ pc' = pc
      /\ UNCHANGED <<response, disk, counter, cgi, stored, client_fd, ask, link, sent, inbox, got>>
  BY DEF Accept, AcceptFails, manager, clients
<1>0. /\ Len(request_parts) = Len(fds) /\ Len(fds) \in Nat /\ fds \in Seq(Entry)
      /\ request_parts \in Seq(Seq(Sendable))
  BY PartsLen DEF AInv, SentInv, IInv, VectorsInv
<1>3. PICK d \in Int :
        /\ AddClient(d)
        /\ \/ /\ d # NoFd /\ desc' = [desc EXCEPT ![Head(backlog[fds[i].fd])] = d]
              /\ d \notin Open
           \/ d = NoFd /\ desc' = desc
  <2>1. CASE Accept(i)
    <3>1. PICK d \in Listens + 1 .. MaxFd :
            /\ AddClient(d) /\ d \notin Open
            /\ desc' = [desc EXCEPT ![Head(backlog[fds[i].fd])] = d]
      BY <2>1 DEF Accept
    <3>2. d \in Int /\ d # NoFd
      BY DEF NoFd
    <3> QED BY <3>1, <3>2
  <2>2. CASE AcceptFails(i)
    BY <2>2 DEF AcceptFails, os, NoFd
  <2> QED BY <2>1, <2>2
<1>4. /\ Len(fds') = Len(fds) + 1 /\ fds'[Len(fds) + 1] = [fd |-> d, ready |-> FALSE]
      /\ \A j \in 1 .. Len(fds) : fds'[j] = fds[j]
      /\ request_parts' \in Seq(Seq(Sendable))
      /\ request_parts'[Len(fds) + 1] = <<>>
      /\ \A j \in 1 .. Len(fds) : request_parts'[j] = request_parts[j]
  <2>1. [fd |-> d, ready |-> FALSE] \in Entry /\ <<>> \in Seq(Sendable)
    BY DEF Entry
  <2>2. /\ fds' = Append(fds, [fd |-> d, ready |-> FALSE])
        /\ request_parts' = Append(request_parts, <<>>)
    BY <1>3 DEF AddClient
  <2>3. /\ Len(fds') = Len(fds) + 1 /\ fds'[Len(fds) + 1] = [fd |-> d, ready |-> FALSE]
        /\ \A j \in 1 .. Len(fds) : fds'[j] = fds[j]
    BY <1>0, <2>1, <2>2, AppendProperties
  <2>4. /\ request_parts' \in Seq(Seq(Sendable))
        /\ request_parts'[Len(request_parts) + 1] = <<>>
        /\ \A j \in 1 .. Len(request_parts) : request_parts'[j] = request_parts[j]
    BY <1>0, <2>1, <2>2, AppendProperties
  <2> QED BY <1>0, <2>3, <2>4
<1>5. \A c \in Clients : /\ ~Handled(c)' /\ ~Handled(c) /\ (Live(c)' <=> Live(c))
                         /\ desc[c] \in Int
                         /\ desc'[c] = desc[c] \/ (desc'[c] = d /\ ~Accepted(c) /\ Live(c)
                                                    /\ d # NoFd /\ d \notin Open)
  <2>1. \A c \in Clients : ~Handled(c)' /\ ~Handled(c) /\ (Live(c)' <=> Live(c))
    BY <1>2 DEF Handled, Live
  <2>2. desc \in [Clients -> Int]
    BY DEF AInv, IInv, ClientsInv, NoFd
  <2>3. ASSUME NEW c \in Clients, desc'[c] # desc[c]
        PROVE  desc'[c] = d /\ ~Accepted(c) /\ Live(c) /\ d # NoFd /\ d \notin Open
    <3>1. /\ d # NoFd /\ d \notin Open /\ desc' = [desc EXCEPT ![Head(backlog[fds[i].fd])] = d]
          /\ c = Head(backlog[fds[i].fd]) /\ desc'[c] = d
      BY <1>3, <2>2, <2>3
    <3>2. Accept(i)
      <4>1. AcceptFails(i) => desc' = desc
        BY DEF AcceptFails, os
      <4> QED BY <2>3, <4>1
    <3>3. fds[i].fd \in Servers /\ i >= at /\ fds[i].ready
      BY <3>2 DEF Accept, Comes, Ready
    <3>4. fds[i].fd = i
      <4> DEFINE l == fds[i].fd
      <4>1. l \in Servers /\ l # NoFd
        BY <3>3 DEF Servers, NoFd
      <4>2. l <= Len(fds) /\ fds[l].fd = l
        BY <4>1 DEF AInv, IInv, PlacesInv
      <4>3. l \in 1 .. Len(fds)
        BY <1>0, <4>1, <4>2 DEF Servers
      <4> QED BY <4>1, <4>2, <4>3 DEF AInv, IInv, PlacesInv
    <3>5. backlog[i] # <<>> /\ backlog[i] \in Seq(Clients)
      BY <1>2, <3>3, <3>4 DEF AInv, IInv, LoopInv, BacklogInv
    <3>6. c = backlog[i][1] /\ 1 \in 1 .. Len(backlog[i])
      BY <3>1, <3>4, <3>5
    <3> QED BY <3>1, <3>3, <3>4, <3>6 DEF AInv, IInv, BacklogInv
  <2> QED BY <2>1, <2>2, <2>3
<1>6. SentInv'
  BY <1>2, <1>4 DEF AInv, SentInv, Text
<1>7. ReceivedInv'
  <2>1. \A c \in Clients : Live(c)' /\ ~Accepted(c)' => Live(c) /\ ~Accepted(c)
    BY <1>5 DEF Accepted
  <2>2. ASSUME NEW c \in Clients, NEW j \in 1 .. Len(fds'), Accepted(c)', fds'[j].fd = desc'[c]
        PROVE  \/ \E k \in 1 .. Len(fds) : /\ Accepted(c) /\ fds[k].fd = desc[c] /\ ~Handled(c)
                                           /\ request_parts'[j] = request_parts[k]
               \/ Live(c) /\ ~Accepted(c) /\ request_parts'[j] = <<>>
    <3>1. CASE j \in 1 .. Len(fds)
      <4>1. fds'[j].fd = fds[j].fd /\ fds[j].fd \in Open
        BY <1>4, <3>1 DEF Open
      <4>2. desc'[c] = desc[c]
        BY <1>5, <2>2, <4>1
      <4> QED BY <1>4, <1>5, <2>2, <3>1, <4>1, <4>2 DEF Accepted
    <3>2. CASE j = Len(fds) + 1
      <4>1. request_parts'[j] = <<>> /\ desc'[c] = d /\ d # NoFd
        BY <1>4, <2>2, <3>2 DEF Accepted
      <4>2. d \notin Open
        BY <1>3, <4>1
      <4>3. desc'[c] # desc[c]
        <5> SUFFICES ASSUME desc[c] = d PROVE FALSE
          BY <4>1
        <5>1. \E k \in 1 .. Len(fds) : fds[k].fd = d
          BY <4>1 DEF AInv, IInv, PlacesInv, Accepted
        <5> QED BY <4>2, <5>1 DEF Open
      <4> QED BY <1>5, <4>1, <4>3
    <3>3. j \in 1 .. Len(fds) \/ j = Len(fds) + 1
      <4>1. \A n \in Nat : \A m \in 1 .. n + 1 : m \in 1 .. n \/ m = n + 1
        OBVIOUS
      <4> QED BY <1>0, <1>4, <4>1
    <3> QED BY <3>1, <3>2, <3>3
  <2>3. UNCHANGED <<ask, sent, inbox>> /\ ReceivedInv /\ pc # "killed"
    BY <1>2 DEF AInv
  <2> QED BY <2>1, <2>2, <2>3, ReceivedFrame
<1>8. AnswerInv'
  BY <1>2, <1>5 DEF AInv, AnswerInv, Text
<1>9. ExchangeInv' /\ DiskInv'
  <2>1. DiskInv'
    BY <1>2, DiskFrame DEF AInv
  <2> QED BY <1>2, <2>1 DEF AInv, ExchangeInv
<1>10. CountInv'
  <2>1. Done \subseteq Done'
    BY <1>2, <1>5 DEF Done
  <2> QED BY <1>2, <2>1, CountFrame DEF AInv
<1> QED BY <1>1, <1>6, <1>7, <1>8, <1>9, <1>10 DEF AInv

-----------------------------------------------------------------------------
(***************************************************************************)
(* Steps of the clients.                                                   *)
(***************************************************************************)

\* A client that connects, or hangs up, sends nothing by that.
LEMMA LinkAnswers ==
  ASSUME AInv, [Next]_vars, NEW c \in Clients, Client(c), Connect(c) \/ HangUp(c)
  PROVE  AInv'
<1>1. IInv'
  BY NextInv DEF AInv
<1>2. /\ UNCHANGED <<pc, response, disk, counter, cgi, stored, fds, request_parts, client_fd,
                     desc, ask, sent, inbox, got>>
      /\ pc # "killed" /\ link[c] \in {"none", "open"} /\ link'[c] \in {"open", "closed", "reset"}
      /\ link[c] = "none" => ask[c] # 0
      /\ \A e \in Clients : e # c => link'[e] = link[e]
  <2>1. CASE Connect(c)
    BY <2>1 DEF Connect, Seen, manager, vectors, loop, AInv, IInv, ClientsInv
  <2>2. CASE HangUp(c)
    BY <2>2 DEF HangUp, Seen, manager, vectors, loop, os, AInv, IInv, ClientsInv
  <2> QED BY <2>1, <2>2
<1>3. ASSUME NEW e \in Clients
      PROVE  /\ Handled(e)' <=> Handled(e)
             /\ Accepted(e)' <=> Accepted(e)
             /\ Live(e) => Live(e)'
             /\ Live(e)' /\ ~Live(e) => e = c /\ link[c] = "none"
             /\ link'[e] = "over" <=> link[e] = "over"
             /\ link'[e] # "none" => link[e] # "none" \/ (e = c /\ ask[c] # 0)
             /\ link'[e] = "none" => link[e] = "none"
  BY <1>2 DEF Handled, Accepted, Live
<1>4. \A e \in Clients : link[e] = "none" => sent[e] = 0 /\ inbox[e] = <<>>
  BY DEF AInv, SentInv
<1>5. \A e \in Clients : ask[e] # 0 => Len(Text(e)) \in Nat
  <2>1. \A e \in Clients : ask[e] # 0 => ask[e] \in 1 .. Len(Asks)
    BY ClientsAssumption DEF AInv, IInv, ClientsInv
  <2> QED BY <2>1, Lengths DEF Text
<1>6. SentInv'
  <2>1. \A e \in Clients : link'[e] # "none" => ask[e] # 0 /\ sent[e] <= Len(Text(e))
    BY <1>3, <1>4, <1>5 DEF AInv, SentInv
  <2> QED BY <1>2, <1>3, <1>4, <2>1 DEF AInv, SentInv, Text
<1>7. ReceivedInv'
  <2>1. Received(c, <<>>) \/ link[c] # "none"
    <3> SUFFICES ASSUME link[c] = "none" PROVE Received(c, <<>>)
      OBVIOUS
    <3>1. sent[c] = 0 /\ inbox[c] = <<>>
      BY <1>4
    <3>2. SubSeq(Text(c), 1, 0) = <<>>
      BY SubSeqEmpty
    <3>3. <<>> \o <<>> = <<>>
      OBVIOUS
    <3>4. Len(<<>>) = 0
      OBVIOUS
    <3> QED BY <3>1, <3>2, <3>3, <3>4 DEF Received
  <2>2. \A e \in Clients : \A r : Received(e, r) =>
          /\ Len(r) + Len(inbox'[e]) <= sent'[e]
          /\ \/ r \o inbox'[e] = SubSeq(Text(e)', 1, sent'[e])
             \/ ~Plain(Asks[ask'[e]]) /\ Begins(ask'[e], r)
    BY <1>2 DEF Received, Text
  <2>3. ASSUME NEW e \in Clients, Live(e)', ~Accepted(e)'
        PROVE  Received(e, <<>>)'
    <3>1. Received(e, <<>>)
      BY <1>2, <1>3, <2>1, <2>3 DEF AInv, ReceivedInv, Live
    <3> QED BY <2>2, <3>1 DEF Received
  <2>4. ASSUME NEW e \in Clients, NEW j \in 1 .. Len(fds'), Accepted(e)', fds'[j].fd = desc'[e],
               ~Handled(e)'
        PROVE  Received(e, request_parts[j])'
    <3>1. Received(e, request_parts'[j])
      BY <1>2, <1>3, <2>4 DEF AInv, ReceivedInv
    <3> QED BY <2>2, <3>1 DEF Received
  <2> QED BY <2>3, <2>4 DEF ReceivedInv
<1>8. AnswerInv'
  <2>1. \A e \in Clients : link[e] = "none" => ~Handled(e) /\ got[e] = <<>>
    BY DEF AInv, IInv, BacklogInv, AnswersInv, Handled, Live
  <2>2. ASSUME NEW e \in Clients, link'[e] # "none", Plain(Asks[ask'[e]])
        PROVE  /\ Handled(e)' => sent'[e] = Len(Text(e)') \/ (pc' = "write" /\ response' = 413)
               /\ got'[e] # <<>> => sent'[e] = Len(Text(e)') \/ got'[e] = <<413>>
    BY <1>2, <1>3, <2>1, <2>2 DEF AInv, AnswerInv, Text
  <2> QED BY <1>2, <2>2 DEF AInv, AnswerInv
<1>9. ExchangeInv' /\ DiskInv'
  <2>1. DiskInv'
    BY <1>2, DiskFrame DEF AInv
  <2> QED BY <1>2, <2>1 DEF AInv, ExchangeInv
<1>10. CountInv'
  <2>1. Done \subseteq Done'
    BY <1>3 DEF Done
  <2> QED BY <1>2, <2>1, CountFrame DEF AInv
<1> QED BY <1>1, <1>6, <1>7, <1>8, <1>9, <1>10 DEF AInv

\* A text up to m and what follows up to n is the text up to n.
LEMMA NextPart ==
  ASSUME NEW T, NEW s \in Seq(T), NEW m \in Nat, NEW n \in Nat, m <= n, n <= Len(s)
  PROVE  SubSeq(s, 1, m) \o SubSeq(s, m + 1, n) = SubSeq(s, 1, n)
<1> DEFINE a == SubSeq(s, 1, m)
           b == SubSeq(s, m + 1, n)
           w == SubSeq(s, 1, n)
           u == a \o b
<1>1. Len(s) \in Nat
  OBVIOUS
<1>2. a \in Seq(T) /\ Len(a) = m - 1 + 1 /\ \A i \in 1 .. m - 1 + 1 : a[i] = s[1 + i - 1]
  <2>1. 1 \in Nat \ {0} /\ 1 <= m + 1 /\ m <= Len(s)
    BY <1>1
  <2> QED BY <2>1, PartOf
<1>3. /\ b \in Seq(T) /\ Len(b) = n - (m + 1) + 1
      /\ \A i \in 1 .. n - (m + 1) + 1 : b[i] = s[(m + 1) + i - 1]
  <2>1. m + 1 \in Nat \ {0} /\ m + 1 <= n + 1
    OBVIOUS
  <2> QED BY <2>1, PartOf
<1>4. w \in Seq(T) /\ Len(w) = n - 1 + 1 /\ \A i \in 1 .. n - 1 + 1 : w[i] = s[1 + i - 1]
  <2>1. 1 \in Nat \ {0} /\ 1 <= n + 1
    OBVIOUS
  <2> QED BY <2>1, PartOf
<1> HIDE DEF a, b, w
<1>5. u \in Seq(T) /\ IsJoin(u, a, b)
  <2>1. u = a \o b
    OBVIOUS
  <2> HIDE DEF u
  <2> QED BY <1>2, <1>3, <2>1, ConcatIs
<1> HIDE DEF u
<1>6. /\ Len(a) = m /\ Len(b) = n - m /\ Len(w) = n /\ Len(u) = n
  BY <1>2, <1>3, <1>4, <1>5 DEF IsJoin
<1>7. ASSUME NEW i \in 1 .. Len(u) PROVE u[i] = w[i]
  <2>0. w[i] = s[i]
    BY <1>4, <1>6
  <2>1. CASE i \in 1 .. m
    <3>1. u[i] = a[i] /\ a[i] = s[i]
      BY <1>2, <1>5, <1>6, <2>1 DEF IsJoin
    <3> QED BY <2>0, <3>1
  <2>2. CASE i \in m + 1 .. n
    <3> DEFINE j == i - m
    <3>1. j \in 1 .. n - m /\ m + j = i /\ (m + 1) + j - 1 = i
      BY <2>2
    <3> HIDE DEF j
    <3>2. b[j] = s[i]
      BY <1>3, <3>1
    <3>3. u[m + j] = b[j]
      BY <1>5, <1>6, <3>1 DEF IsJoin
    <3> QED BY <2>0, <3>1, <3>2, <3>3
  <2> QED BY <1>6, <2>1, <2>2
<1>8. u = w
  BY <1>4, <1>5, <1>6, <1>7, SameSequence
<1> QED BY <1>8 DEF u, a, b, w

\* What c sends follows what it sent before.
LEMMA SendAnswers ==
  ASSUME AInv, [Next]_vars, NEW c \in Clients, ask[c] # 0, NEW n \in Pauses(c), Send(c, n)
  PROVE  AInv'
<1> DEFINE more == SubSeq(Text(c), sent[c] + 1, n)
<1>1. IInv'
  BY NextInv DEF AInv
<1>2. /\ link[c] = "open" /\ sent[c] < n /\ pc # "killed"
      /\ UNCHANGED <<pc, response, disk, counter, cgi, stored, fds, request_parts, client_fd,
                     desc, ask, link, got>>
      /\ sent' = [sent EXCEPT ![c] = n] /\ inbox' = [inbox EXCEPT ![c] = @ \o more]
  BY DEF Send, Seen, manager, vectors, loop, os
<1>3. /\ ask[c] \in 1 .. Len(Asks) /\ Text(c) \in Seq(Sendable) /\ Len(Text(c)) \in Nat
      /\ n \in 1 .. Len(Text(c)) /\ sent[c] \in Nat /\ inbox[c] \in Seq(Sendable)
  <2>1. ask[c] \in 1 .. Len(Asks) /\ sent[c] \in Nat
    BY ClientsAssumption DEF AInv, IInv, ClientsInv
  <2>2. Text(c) \in Seq(Sendable) /\ Len(Text(c)) \in Nat
    BY <2>1, TextIs, Lengths DEF Text
  <2>3. n \in 1 .. Len(Text(c))
    BY <2>1, Texts DEF Text, Pauses
  <2> QED BY <2>1, <2>2, <2>3 DEF AInv, SentInv
<1>4. more \in Seq(Sendable) /\ Len(more) = n - sent[c] /\ Len(more) \in Nat
  <2> DEFINE t == Text(c)
             m == sent[c] + 1
  <2>1. t \in Seq(Sendable) /\ m \in Nat \ {0} /\ n \in Nat /\ m <= n + 1 /\ n <= Len(t)
    BY <1>2, <1>3
  <2> HIDE DEF t, m
  <2>2. SubSeq(t, m, n) \in Seq(Sendable) /\ Len(SubSeq(t, m, n)) = n - m + 1
    BY <2>1, PartOf
  <2>3. n - (sent[c] + 1) + 1 = n - sent[c] /\ n - sent[c] \in Nat
    BY <1>2, <1>3
  <2> QED BY <2>2, <2>3 DEF t, m
<1> HIDE DEF more
<1>5. /\ inbox[c] \o more \in Seq(Sendable) /\ Len(inbox[c]) \in Nat
      /\ Len(inbox[c] \o more) = Len(inbox[c]) + Len(more)
  <2>1. inbox[c] \in Seq(Sendable) /\ more \in Seq(Sendable)
    BY <1>3, <1>4
  <2> QED BY <2>1, ConcatProperties
<1>6. /\ inbox' \in [Clients -> Seq(Sendable)] /\ inbox'[c] = inbox[c] \o more
      /\ sent'[c] = n
      /\ \A e \in Clients : e # c => inbox'[e] = inbox[e] /\ sent'[e] = sent[e]
  <2>1. inbox \in [Clients -> Seq(Sendable)] /\ sent \in [Clients -> Nat]
    BY DEF AInv, SentInv, IInv, ClientsInv
  <2> QED BY <1>2, <1>5, <2>1
<1>7. SentInv'
  <2>1. \A e \in Clients : link[e] # "none" => ask[e] # 0 /\ sent'[e] <= Len(Text(e))
    <3>1. n <= Len(Text(c))
      BY <1>3
    <3> QED BY <1>6, <3>1 DEF AInv, SentInv
  <2> QED BY <1>2, <1>6, <2>1 DEF AInv, SentInv, Text
<1>8. ASSUME NEW e \in Clients, NEW r \in Seq(Sendable), Received(e, r)
      PROVE  /\ Len(r) + Len(inbox'[e]) <= sent'[e]
             /\ \/ r \o inbox'[e] = SubSeq(Text(e)', 1, sent'[e])
                \/ ~Plain(Asks[ask'[e]]) /\ Begins(ask'[e], r)
  <2>1. CASE e # c
    BY <1>2, <1>6, <1>8, <2>1 DEF Received, Text
  <2>2. CASE e = c
    <3>1. Len(r) + Len(inbox[c]) <= sent[c] /\ Len(r) \in Nat
      BY <1>8, <2>2 DEF Received
    <3>2. Len(r) + (Len(inbox[c]) + Len(more)) <= n
      BY <1>3, <1>4, <1>5, <3>1
    <3>3. r \o inbox'[c] = (r \o inbox[c]) \o more
      <4>1. inbox[c] \in Seq(Sendable) /\ more \in Seq(Sendable)
        BY <1>3, <1>4
      <4>2. (r \o inbox[c]) \o more = r \o (inbox[c] \o more)
        <5>1. \A x, y, z \in Seq(Sendable) : (x \o y) \o z = x \o (y \o z)
          OBVIOUS
        <5> QED BY <1>8, <4>1, <5>1
      <4> QED BY <1>6, <4>2
    <3>4. SubSeq(Text(c), 1, sent[c]) \o more = SubSeq(Text(c), 1, n)
      <4>1. sent[c] \in Nat /\ n \in Nat /\ sent[c] <= n /\ n <= Len(Text(c))
        BY <1>2, <1>3
      <4> QED BY <1>3, <4>1, NextPart DEF more
    <3>5. r \o inbox[c] = SubSeq(Text(c), 1, sent[c]) => r \o inbox'[c] = SubSeq(Text(c), 1, n)
      BY <3>3, <3>4
    <3>6. Len(inbox'[c]) = Len(inbox[c]) + Len(more)
      BY <1>5, <1>6
    <3>7. Text(c)' = Text(c) /\ ask'[c] = ask[c]
      BY <1>2 DEF Text
    <3>8. r \o inbox[c] = SubSeq(Text(c), 1, sent[c]) \/ (~Plain(Asks[ask[c]]) /\ Begins(ask[c], r))
      BY <1>8, <2>2 DEF Received
    <3> QED BY <1>6, <2>2, <3>2, <3>5, <3>6, <3>7, <3>8
  <2> QED BY <2>1, <2>2
<1>9. ASSUME NEW e \in Clients
      PROVE  /\ Handled(e)' <=> Handled(e)
             /\ Accepted(e)' <=> Accepted(e)
             /\ Live(e)' <=> Live(e)
  BY <1>2 DEF Handled, Accepted, Live
<1>10. ReceivedInv'
  <2>1. ASSUME NEW e \in Clients, Live(e), ~Accepted(e)
        PROVE  Received(e, <<>>)'
    <3>1. Received(e, <<>>) /\ <<>> \in Seq(Sendable)
      BY <1>2, <2>1 DEF AInv, ReceivedInv
    <3> QED BY <1>8, <3>1 DEF Received
  <2>2. ASSUME NEW e \in Clients, NEW j \in 1 .. Len(fds), Accepted(e), fds[j].fd = desc[e],
               ~Handled(e)
        PROVE  Received(e, request_parts[j])'
    <3>1. Received(e, request_parts[j])
      BY <1>2, <2>2 DEF AInv, ReceivedInv
    <3>2. request_parts[j] \in Seq(Sendable) /\ request_parts'[j] = request_parts[j]
      <4>1. request_parts \in Seq(Seq(Sendable)) /\ Len(request_parts) = Len(fds)
        BY PartsLen DEF AInv, SentInv
      <4> QED BY <1>2, <4>1, ElementOfSeq
    <3> QED BY <1>8, <3>1, <3>2 DEF Received
  <2>3. fds' = fds /\ desc' = desc
    BY <1>2
  <2> QED BY <1>9, <2>1, <2>2, <2>3 DEF ReceivedInv
<1>11. AnswerInv'
  <2>1. \A e \in Clients : link[e] # "none" /\ sent[e] = Len(Text(e)) => sent'[e] = Len(Text(e))
    BY <1>2, <1>3, <1>6
  <2> QED BY <1>2, <1>9, <2>1 DEF AInv, AnswerInv, Text
<1>12. ExchangeInv' /\ DiskInv'
  <2>1. DiskInv'
    BY <1>2, DiskFrame DEF AInv
  <2> QED BY <1>2, <2>1 DEF AInv, ExchangeInv
<1>13. CountInv'
  <2>1. Done \subseteq Done'
    BY <1>2, <1>9 DEF Done
  <2> QED BY <1>2, <2>1, CountFrame DEF AInv
<1> QED BY <1>1, <1>7, <1>10, <1>11, <1>12, <1>13 DEF AInv

-----------------------------------------------------------------------------
(***************************************************************************)
(* handleClientData.                                                       *)
(***************************************************************************)

\* A text p that was sent by c and not answered yet
IsReceived(c, p) ==
  /\ ask[c] \in 1 .. Len(Asks) /\ Live(c) /\ ~Handled(c)
  /\ p \in Seq(Sendable) /\ Len(p) \in Nat /\ Len(p) <= sent[c]
  /\ sent[c] \in Nat /\ sent[c] <= Len(TextOf[ask[c]]) /\ Agrees(ask[c], p)
  /\ \/ /\ p = SubSeq(Text(c), 1, sent[c])
        /\ \A j \in 1 .. Len(p) : p[j] = TextOf[ask[c]][j]
     \/ ~Plain(Asks[ask[c]]) /\ Begins(ask[c], p)

\* What handleClientData looks at: what was kept, and what has arrived since.
LEMMA HandledText ==
  ASSUME AInv, NEW c \in Clients, NEW i \in 1 .. Len(fds), HandleClientData(c, i),
         NEW p, p = request_parts[i] \o inbox[c]
  PROVE  IsReceived(c, p)
<1> DEFINE a == ask[c]
           r == request_parts[i]
<1>1. /\ pc = "scan" /\ Accepted(c) /\ desc[c] = fds[i].fd
  BY DEF HandleClientData
<1>2. Live(c) /\ ~Handled(c)
  BY <1>1 DEF AInv, IInv, BacklogInv, Handled
<1>3. a \in 1 .. Len(Asks) /\ sent[c] \in Nat /\ sent[c] <= Len(TextOf[a])
  BY <1>2, ClientsAssumption DEF AInv, SentInv, IInv, ClientsInv, Live, Text
<1>4. r \in Seq(Sendable) /\ inbox[c] \in Seq(Sendable)
  <2>1. request_parts \in Seq(Seq(Sendable)) /\ Len(request_parts) = Len(fds)
    BY PartsLen DEF AInv, SentInv
  <2>2. r \in Seq(Sendable)
    BY <2>1, ElementOfSeq
  <2> QED BY <2>2 DEF AInv, SentInv
<1>5. Received(c, r)
  BY <1>1, <1>2 DEF AInv, ReceivedInv
<1>6. p \in Seq(Sendable) /\ IsJoin(p, r, inbox[c])
  BY <1>4, ConcatIs
<1>7. Len(p) \in Nat /\ Len(p) <= sent[c] /\ Len(r) \in Nat /\ Len(r) <= Len(p)
  <2>1. Len(r) \in Nat /\ Len(inbox[c]) \in Nat
    BY <1>4
  <2>2. Len(p) = Len(r) + Len(inbox[c]) /\ Len(r) + Len(inbox[c]) <= sent[c]
    BY <1>5, <1>6 DEF IsJoin, Received
  <2> HIDE DEF r
  <2> QED BY <2>1, <2>2
<1>8. Start(a) \in Nat /\ Len(TextOf[a]) \in Nat
  BY <1>3, Lengths
<1>9. CASE p = SubSeq(Text(c), 1, sent[c])
  <2>1. \A j \in 1 .. Len(p) : p[j] = TextOf[a][j]
    <3>1. /\ Len(SubSeq(TextOf[a], 1, sent[c])) = sent[c] - 1 + 1
          /\ \A j \in 1 .. sent[c] - 1 + 1 : SubSeq(TextOf[a], 1, sent[c])[j] = TextOf[a][1 + j - 1]
      <4>1. TextOf[a] \in Seq(Sendable)
        BY <1>3, TextIs
      <4>2. 1 \in Nat \ {0} /\ 1 <= sent[c] + 1 /\ sent[c] \in Nat /\ sent[c] <= Len(TextOf[a])
        BY <1>3
      <4> QED BY <4>1, <4>2, PartOf
    <3>2. \A j \in 1 .. Len(p) : j \in 1 .. sent[c] - 1 + 1 /\ 1 + j - 1 = j
      <4>1. \A k, n \in Nat : k <= n => \A j \in 1 .. k : j \in 1 .. n - 1 + 1 /\ 1 + j - 1 = j
        OBVIOUS
      <4> QED BY <1>3, <1>7, <4>1
    <3> QED BY <1>9, <3>1, <3>2 DEF Text
  <2>2. Agrees(a, p)
    BY <2>1 DEF Agrees
  <2> QED BY <1>2, <1>3, <1>6, <1>7, <1>9, <2>1, <2>2 DEF IsReceived
<1>10. CASE ~Plain(Asks[a]) /\ Begins(a, r)
  <2>1. \A j \in 1 .. Start(a) : p[j] = TextOf[a][j]
    <3>1. \A j \in 1 .. Start(a) : j \in 1 .. Len(r)
      BY <1>7, <1>8, <1>10 DEF Begins
    <3>2. \A j \in 1 .. Len(r) : p[j] = r[j]
      BY <1>6 DEF IsJoin
    <3>3. \A j \in 1 .. Start(a) : r[j] = TextOf[a][j]
      BY <1>10 DEF Begins
    <3> QED BY <3>1, <3>2, <3>3
  <2>2. Begins(a, p)
    <3>1. Start(a) <= Len(r)
      BY <1>10 DEF Begins
    <3>2. Start(a) <= Len(p)
      <4>1. \A x, y, z \in Nat : x <= y /\ y <= z => x <= z
        OBVIOUS
      <4> QED BY <1>7, <1>8, <3>1, <4>1
    <3> QED BY <2>1, <3>2 DEF Begins
  <2>3. Agrees(a, p)
    <3>1. \A j \in 1 .. Len(p) : j <= Start(a) => j \in 1 .. Start(a)
      BY <1>7, <1>8
    <3> QED BY <2>1, <3>1 DEF Agrees
  <2> QED BY <1>2, <1>3, <1>6, <1>7, <1>10, <2>2, <2>3 DEF IsReceived
<1> QED BY <1>5, <1>9, <1>10 DEF Received

\* Reading for one client leaves what is kept for the others.
LEMMA KeptAnswers ==
  ASSUME AInv, NEW c \in Clients, NEW i \in 1 .. Len(fds), HandleClientData(c, i),
         NEW p \in Seq(Sendable), Kept(c, i, p),
         pc' \in {"scan", "write", "cgi", "killed"}, client_fd' \in Int,
         pc' = "scan" => Received(c, p)' /\ Len(p) \in Nat,
         pc' \in {"write", "cgi"} => client_fd' = fds[i].fd
  PROVE  /\ SentInv' /\ ReceivedInv'
         /\ \A e \in Clients : e # c => ~Handled(e)'
         /\ pc' \in {"write", "cgi"} => Handled(c)'
<1>0. /\ pc = "scan" /\ Accepted(c) /\ desc[c] = fds[i].fd
      /\ UNCHANGED <<fds, desc, ask, link, sent>>
  BY DEF HandleClientData, os, clients
<1>1. /\ request_parts' \in Seq(Seq(Sendable)) /\ Len(request_parts') = Len(fds)
      /\ request_parts'[i] = p
      /\ \A j \in 1 .. Len(fds) : j # i => request_parts'[j] = request_parts[j]
  <2>1. request_parts \in Seq(Seq(Sendable)) /\ Len(request_parts) = Len(fds)
    BY PartsLen DEF AInv, SentInv
  <2>2. request_parts' = [request_parts EXCEPT ![i] = p] /\ i \in 1 .. Len(request_parts)
    BY <2>1 DEF Kept
  <2> QED BY <2>1, <2>2, ExceptSeq
<1>2. /\ inbox' \in [Clients -> Seq(Sendable)] /\ inbox'[c] = <<>>
      /\ \A e \in Clients : e # c => inbox'[e] = inbox[e]
  BY DEF Kept, AInv, SentInv
<1>3. Live(c)
  BY <1>0 DEF AInv, IInv, BacklogInv
<1>4. \A e \in Clients : Accepted(e) /\ desc[e] = desc[c] => e = c
  BY <1>0 DEF AInv, IInv, PlacesInv
<1>5. \A e \in Clients : e # c => ~Handled(e)'
  BY <1>0, <1>4 DEF Handled, Accepted
<1>6. pc' \in {"write", "cgi"} => Handled(c)'
  BY <1>0 DEF Handled, Accepted
<1>7. SentInv'
  <2>1. link[c] # "none"
    BY <1>3 DEF Live
  <2> QED BY <1>0, <1>1, <1>2, <2>1 DEF AInv, SentInv, Text
<1>8. ReceivedInv'
  <2> SUFFICES ASSUME pc' # "killed", NEW e \in Clients
               PROVE  /\ Live(e)' /\ ~Accepted(e)' => Received(e, <<>>)'
                      /\ \A j \in 1 .. Len(fds) :
                           Accepted(e)' /\ fds[j].fd = desc[e] /\ ~Handled(e)' =>
                             Received(e, request_parts[j])'
    BY <1>0 DEF ReceivedInv
  <2>1. CASE e = c
    <3>1. \A j \in 1 .. Len(fds) : fds[j].fd = desc[c] => j = i
      BY <1>0 DEF AInv, IInv, PlacesInv, Accepted
    <3>2. Accepted(c)'
      BY <1>0 DEF Accepted
    <3>3. ~Handled(c)' => pc' = "scan"
      BY <1>6
    <3>4. ~Handled(c)' => Received(c, request_parts[i])'
      BY <1>1, <3>3 DEF Received
    <3> QED BY <2>1, <3>1, <3>2, <3>4
  <2>2. CASE e # c
    <3>1. \A r : Received(e, r) =>
            /\ Len(r) + Len(inbox'[e]) <= sent'[e]
            /\ \/ r \o inbox'[e] = SubSeq(Text(e)', 1, sent'[e])
               \/ ~Plain(Asks[ask'[e]]) /\ Begins(ask'[e], r)
      BY <1>0, <1>2, <2>2 DEF Received, Text
    <3>2. ~Handled(e) /\ (Accepted(e)' <=> Accepted(e)) /\ (Live(e)' <=> Live(e))
      BY <1>0 DEF Handled, Accepted, Live
    <3>3. Live(e)' /\ ~Accepted(e)' => Received(e, <<>>)'
      <4> SUFFICES ASSUME Live(e)', ~Accepted(e)' PROVE Received(e, <<>>)'
        OBVIOUS
      <4>1. Received(e, <<>>)
        BY <1>0, <3>2 DEF AInv, ReceivedInv
      <4> QED BY <3>1, <4>1 DEF Received
    <3>4. ASSUME NEW j \in 1 .. Len(fds), Accepted(e)', fds[j].fd = desc[e]
          PROVE  Received(e, request_parts[j])'
      <4>1. j # i
        BY <1>0, <1>4, <2>2, <3>2, <3>4
      <4>2. Received(e, request_parts[j])
        BY <1>0, <3>2, <3>4 DEF AInv, ReceivedInv
      <4>3. request_parts'[j] = request_parts[j]
        BY <1>1, <4>1
      <4> QED BY <3>1, <4>2, <4>3 DEF Received
    <3> QED BY <3>3, <3>4
  <2> QED BY <2>1, <2>2
<1> QED BY <1>5, <1>6, <1>7, <1>8


\* A framed request with its chunks joined: it begins as it was sent, its body is no
\* longer than what was sent, and a Plain one is only taken when it is whole.
LEMMA FramedText ==
  ASSUME AInv, NEW c \in Clients, NEW i \in 1 .. Len(fds), HandleClientData(c, i),
         NEW p, p = request_parts[i] \o inbox[c], Framed(p), NEW q, q = Clean(p)
  PROVE  /\ q \in Seq(Sendable) /\ Len(q) \in Nat /\ Len(q) <= sent[c]
         /\ Begins(ask[c], q) /\ q[1].n = ask[c]
         /\ Body(q) \in Seq(Sendable) /\ Len(Body(q)) \in Nat
         /\ Len(Body(q)) <= Len(Asks[ask[c]].body)
         /\ Short(q) \/ TooLarge(q) =>
              q = SubSeq(Text(c), 1, sent[c]) \/ ~Plain(Asks[ask[c]])
         /\ ~Short(q) /\ ~TooLarge(q) /\ Plain(Asks[ask[c]]) =>
              sent[c] = Len(Text(c)) /\ Body(q) = Asks[ask[c]].content
<1> DEFINE a == ask[c]
<1>1. /\ a \in 1 .. Len(Asks) /\ p \in Seq(Sendable) /\ Len(p) \in Nat /\ Len(p) <= sent[c]
      /\ sent[c] \in Nat /\ sent[c] <= Len(TextOf[a]) /\ Agrees(a, p)
      /\ \/ /\ p = SubSeq(Text(c), 1, sent[c])
            /\ \A j \in 1 .. Len(p) : p[j] = TextOf[a][j]
         \/ ~Plain(Asks[a]) /\ Begins(a, p)
  <2>1. IsReceived(c, p)
    BY HandledText
  <2> QED BY <2>1 DEF IsReceived
<1>2. /\ Len(Asks[a].body) \in Nat /\ Start(a) \in Nat /\ Start(a) >= 2
      /\ Len(TextOf[a]) = Start(a) + Len(Asks[a].body)
  BY <1>1, Lengths
<1>3. Sendable \subseteq Tokens
  BY DEF Sendable
<1> HIDE DEF a
<1>4. Begins(a, p)
  <2>1. p \in Seq(Tokens)
    BY <1>1, <1>3
  <2>2. Has(p, "blank")
    BY DEF Framed
  <2> QED BY <1>1, <2>1, <2>2, BlankIs
<1>5. q \in Seq(Sendable) /\ Len(q) <= Len(p) /\ Begins(a, q)
  BY <1>1, <1>3, <1>4, CleanIs
<1>6. Body(q) \in Seq(Sendable) /\ Len(Body(q)) = Len(q) - Start(a)
  BY <1>1, <1>3, <1>5, BodyIs
<1>7. Len(q) \in Nat /\ Len(Body(q)) \in Nat
  BY <1>5, <1>6
<1>8. Len(q) <= sent[c] /\ Len(Body(q)) <= Len(Asks[a].body)
  <2>1. \A x, y, z \in Nat : x <= y /\ y <= z => x <= z
    OBVIOUS
  <2>2. Len(TextOf[a]) \in Nat
    BY <1>2
  <2>3. Len(q) <= sent[c]
    BY <1>1, <1>5, <1>7, <2>1
  <2>4. Len(q) <= Len(TextOf[a])
    BY <1>1, <1>7, <2>1, <2>2, <2>3
  <2>5. \A x, s, b \in Nat : x <= s + b => x - s <= b
    OBVIOUS
  <2>6. Len(q) - Start(a) <= Len(Asks[a].body)
    BY <1>2, <1>7, <2>4, <2>5
  <2> QED BY <1>6, <2>3, <2>6
<1>9. q[1].n = a
  <2>1. 1 \in 1 .. Start(a)
    BY <1>2
  <2>2. q[1] = TextOf[a][1]
    BY <1>5, <2>1 DEF Begins
  <2>3. TextOf[a][1] = Tok("line", a)
    BY <1>1, TextIs
  <2> QED BY <2>2, <2>3 DEF Tok
<1>10. ASSUME Plain(Asks[a])
       PROVE  /\ Short(q) \/ TooLarge(q) => q = SubSeq(Text(c), 1, sent[c])
              /\ ~Short(q) /\ ~TooLarge(q) =>
                   sent[c] = Len(Text(c)) /\ Body(q) = Asks[a].content
  <2>1. p = SubSeq(Text(c), 1, sent[c]) /\ \A j \in 1 .. Len(p) : p[j] = TextOf[a][j]
    BY <1>1, <1>10
  <2>2. Len(p) <= Len(TextOf[a])
    <3>1. \A x, y, z \in Nat : x <= y /\ y <= z => x <= z
      OBVIOUS
    <3>2. Len(TextOf[a]) \in Nat
      BY <1>2
    <3> QED BY <1>1, <3>1, <3>2
  <2>3. /\ Short(q) \/ TooLarge(q) => q = p
        /\ ~Short(q) /\ ~TooLarge(q) => Len(p) = Len(TextOf[a]) /\ Body(q) = Asks[a].content
    BY <1>1, <1>10, <2>1, <2>2, PlainRequest
  <2>4. Len(p) = Len(TextOf[a]) => sent[c] = Len(TextOf[a])
    <3>1. \A x, y, z \in Nat : x <= y /\ y <= z /\ x = z => y = z
      OBVIOUS
    <3>2. Len(TextOf[a]) \in Nat
      BY <1>2
    <3> QED BY <1>1, <3>1, <3>2
  <2>5. Text(c) = TextOf[a]
    BY DEF Text, a
  <2> QED BY <2>1, <2>3, <2>4, <2>5
<1> QED BY <1>5, <1>6, <1>7, <1>8, <1>9, <1>10 DEF a

\* What is kept of a request that is not answered yet has been received.
LEMMA KeepsReceived ==
  ASSUME NEW c \in Clients, NEW r \in Seq(Sendable), Len(r) \in Nat, Len(r) <= sent[c],
         inbox'[c] = <<>>, UNCHANGED <<ask, sent>>,
         \/ r = SubSeq(Text(c), 1, sent[c])
         \/ ~Plain(Asks[ask[c]]) /\ Begins(ask[c], r)
  PROVE  Received(c, r)'
<1>1. r \o <<>> = r
  OBVIOUS
<1>2. Len(inbox'[c]) = 0 /\ Len(r) + 0 = Len(r)
  OBVIOUS
<1>3. Text(c)' = Text(c)
  BY DEF Text
<1> QED BY <1>1, <1>2, <1>3 DEF Received

\* A request that is read, and the invariant: what every way out of handleClientData
\* has in common.
LEMMA ReadAnswers ==
  ASSUME AInv, [Next]_vars, NEW c \in Clients, NEW i \in 1 .. Len(fds),
         HandleClientData(c, i), NEW r \in Seq(Sendable), Kept(c, i, r),
         pc' \in {"scan", "write", "cgi", "killed"}, client_fd' \in Int,
         pc' = "scan" => Received(c, r)' /\ Len(r) \in Nat /\ counter' = counter,
         pc' \in {"write", "cgi"} => client_fd' = fds[i].fd,
         pc' \in {"write", "cgi"} /\ Plain(Asks[ask[c]]) =>
           sent[c] = Len(Text(c)) \/ (pc' = "write" /\ response' = 413),
         response' \in Nat, counter' \in {counter, counter + 1},
         DiskInv', ExchangeInv'
  PROVE  AInv'
<1>1. IInv'
  BY NextInv DEF AInv
<1>2. SentInv' /\ ReceivedInv'
  BY KeptAnswers
<1>3. /\ \A e \in Clients : e # c => ~Handled(e)'
      /\ pc' \in {"write", "cgi"} => Handled(c)'
  BY KeptAnswers
<1>4. pc = "scan" /\ UNCHANGED <<ask, link, sent, got>>
  BY DEF HandleClientData, clients
<1>5. AnswerInv'
  <2>1. \A e \in Clients : Text(e)' = Text(e)
    BY <1>4 DEF Text
  <2>2. ASSUME NEW e \in Clients, link'[e] # "none", Plain(Asks[ask'[e]]), Handled(e)'
        PROVE  sent'[e] = Len(Text(e)') \/ (pc' = "write" /\ response' = 413)
    <3>1. e = c /\ pc' \in {"write", "cgi"}
      BY <1>3, <2>2 DEF Handled
    <3> QED BY <1>4, <2>1, <2>2, <3>1
  <2>3. ASSUME NEW e \in Clients, link'[e] # "none", Plain(Asks[ask'[e]]), got'[e] # <<>>
        PROVE  sent'[e] = Len(Text(e)') \/ got'[e] = <<413>>
    BY <1>4, <2>1, <2>3 DEF AInv, AnswerInv
  <2> QED BY <1>4, <2>2, <2>3 DEF AInv, AnswerInv
<1>6. CountInv'
  <2> SUFFICES ASSUME pc' # "killed" PROVE counter' <= Cardinality(Done')
    BY DEF CountInv
  <2>1. \A e \in Clients : ~Handled(e)
    BY <1>4 DEF Handled
  <2>2. Done \subseteq Done' /\ Done' \subseteq Clients
    BY <1>4, <2>1 DEF Done
  <2>3. IsFiniteSet(Done')
    BY <2>2, DiskAssumption, FS_Subset
  <2>4. IsFiniteSet(Done) /\ Cardinality(Done) <= Cardinality(Done')
    BY <2>2, <2>3, FS_Subset
  <2>5. Cardinality(Done) \in Nat /\ Cardinality(Done') \in Nat /\ counter \in Nat
    BY <2>3, <2>4, FS_CardinalityType DEF AInv, DiskInv
  <2>6. counter <= Cardinality(Done)
    BY <1>4 DEF AInv, CountInv
  <2>7. CASE pc' = "scan"
    BY <2>4, <2>5, <2>6, <2>7
  <2>8. CASE pc' \in {"write", "cgi"}
    <3>1. c \notin Done
      <4>1. Live(c)
        <5>1. IsReceived(c, request_parts[i] \o inbox[c])
          BY HandledText
        <5> QED BY <5>1 DEF IsReceived
      <4> QED BY <2>1, <4>1 DEF Done, Live
    <3>2. c \in Done'
      BY <1>3, <2>8 DEF Done
    <3>3. Cardinality(Done) # Cardinality(Done')
      BY <2>2, <2>3, <3>1, <3>2, FS_Subset
    <3> QED BY <2>4, <2>5, <2>6, <3>3
  <2> QED BY <2>7, <2>8
<1> QED BY <1>1, <1>2, <1>5, <1>6 DEF AInv


\* A name is left for the body of a client that is not done with.
LEMMA NameLeft ==
  ASSUME AInv, NEW c \in Clients, c \notin Done, pc # "killed"
  PROVE  counter < Cardinality(Clients)
<1>1. Done \subseteq Clients /\ IsFiniteSet(Clients)
  BY DiskAssumption DEF Done
<1>2. IsFiniteSet(Done) /\ Cardinality(Done) <= Cardinality(Clients)
  BY <1>1, FS_Subset
<1>3. Cardinality(Done) # Cardinality(Clients)
  BY <1>1, FS_Subset
<1>4. Cardinality(Done) \in Nat /\ Cardinality(Clients) \in Nat /\ counter \in Nat
  BY <1>1, <1>2, FS_CardinalityType DEF AInv, DiskInv
<1>5. counter <= Cardinality(Done)
  BY DEF AInv, CountInv
<1> QED BY <1>2, <1>3, <1>4, <1>5

\* A CGI program is started with no more to read than the body, and all to write.
LEMMA ExecuteExchange ==
  ASSUME NEW a \in 1 .. Len(Asks), NEW t, t[1].n = a, Len(Body(t)) \in Nat,
         Len(Body(t)) <= Len(Asks[a].body), ExecuteCgi(t, Asks[a]), pc' = "cgi"
  PROVE  ExchangeInv'
<1> DEFINE todo == IF Asks[a].method = "POST" /\ BodyLength(t) > 0 THEN Len(Body(t)) ELSE 0
<1>1. /\ Asks[a].output \in Nat /\ Asks[a].plan \in Seq({"read", "write"})
      /\ Len(Asks[a].body) \in Nat /\ a \in Nat
  <2>1. Asks[a].output \in Nat /\ Asks[a].plan \in Seq({"read", "write"})
    BY ClientsAssumption
  <2>2. Len(Asks[a].body) \in Nat
    BY Lengths
  <2> QED BY <2>1, <2>2
<1>2. cgi' = [ask |-> a, todo |-> todo, in |-> 0, out |-> 0, left |-> Asks[a].output,
              plan |-> Asks[a].plan]
  BY DEF ExecuteCgi, Respond
<1>3. todo \in Nat /\ todo <= Len(Asks[a].body)
  BY <1>1
<1> HIDE DEF todo
<1>4. cgi' \in Exchanges
  BY <1>1, <1>2, <1>3 DEF Exchanges
<1>5. /\ cgi'.ask = a /\ cgi'.todo = todo /\ cgi'.in = 0 /\ cgi'.out = 0
      /\ cgi'.left = Asks[a].output /\ cgi'.plan = Asks[a].plan
  BY <1>2
<1>6. cgi'.todo + cgi'.in <= Len(Asks[a].body) /\ cgi'.out + cgi'.left = Asks[a].output
  <2>1. \A m, n \in Nat : m <= n => m + 0 <= n
    OBVIOUS
  <2>2. \A n \in Nat : 0 + n = n
    OBVIOUS
  <2> QED BY <1>1, <1>3, <1>5, <2>1, <2>2
<1>7. AddsUp(cgi)'
  BY <1>5, <1>6 DEF AddsUp
<1> QED BY <1>4, <1>7 DEF ExchangeInv

\* The exchange is left alone by an answer that does not start one.
LEMMA SameExchange ==
  ASSUME ExchangeInv, cgi' = cgi, pc' # "cgi"
  PROVE  ExchangeInv'
BY DEF ExchangeInv

\* handleClientData: a request that has to wait, one that is refused for its length, and
\* one that is answered.
LEMMA HandleAnswers ==
  ASSUME AInv, [Next]_vars, NEW c \in Clients, NEW i \in 1 .. Len(fds), HandleClientData(c, i)
  PROVE  AInv'
<1> DEFINE a == ask[c]
<1>0. PICK p : /\ p = request_parts[i] \o inbox[c]
               /\ \/ /\ ~Framed(p)
                     /\ Kept(c, i, p)
                     /\ UNCHANGED <<manager, client_fd>>
                  \/ /\ Framed(p)
                     /\ \E q \in {Clean(p)} :
                          \/ Short(q) /\ Kept(c, i, q) /\ UNCHANGED <<manager, client_fd>>
                          \/ /\ TooLarge(q)
                             /\ Kept(c, i, q)
                             /\ client_fd' = fds[i].fd
                             /\ Respond(413)
                             /\ UNCHANGED <<disk, counter, cgi, stored>>
                          \/ /\ ~Short(q) /\ ~TooLarge(q)
                             /\ Kept(c, i, <<>>)
                             /\ client_fd' = fds[i].fd
                             /\ Manage(c, q)
  BY DEF HandleClientData
<1>1. IsReceived(c, p)
  BY <1>0, HandledText
<1>2. /\ a \in 1 .. Len(Asks) /\ p \in Seq(Sendable) /\ Len(p) \in Nat /\ Len(p) <= sent[c]
      /\ p = SubSeq(Text(c), 1, sent[c]) \/ (~Plain(Asks[a]) /\ Begins(a, p))
      /\ Live(c) /\ ~Handled(c)
  BY <1>1 DEF IsReceived
<1>3. /\ pc = "scan" /\ UNCHANGED <<ask, sent>> /\ client_fd \in Int /\ fds[i].fd \in Int
      /\ ExchangeInv /\ DiskInv /\ response \in Nat /\ counter \in Nat
  <2>1. fds \in Seq(Entry)
    BY DEF AInv, IInv, VectorsInv
  <2>2. fds[i] \in Entry
    BY <2>1, ElementOfSeq
  <2>3. fds[i].fd \in Int
    BY <2>2 DEF Entry
  <2> QED BY <2>3 DEF HandleClientData, clients, AInv, SentInv, AnswerInv, DiskInv
<1>4. \A r : Kept(c, i, r) => inbox'[c] = <<>>
  BY DEF Kept, AInv, SentInv
<1> HIDE DEF a
<1>5. ASSUME NEW r \in Seq(Sendable), Len(r) \in Nat, Len(r) <= sent[c],
             r = SubSeq(Text(c), 1, sent[c]) \/ (~Plain(Asks[a]) /\ Begins(a, r)),
             Kept(c, i, r), UNCHANGED <<manager, client_fd>>
      PROVE  AInv'
  <2>1. Received(c, r)'
    BY <1>3, <1>4, <1>5, KeepsReceived DEF a
  <2>2. DiskInv'
    BY <1>3, <1>5, DiskFrame DEF manager
  <2>3. ExchangeInv'
    BY <1>3, <1>5, SameExchange DEF manager
  <2>4. pc' = "scan" /\ counter' = counter /\ client_fd' = client_fd /\ response' = response
    BY <1>3, <1>5 DEF manager
  <2> QED BY <1>3, <1>5, <2>1, <2>2, <2>3, <2>4, ReadAnswers
<1>6. CASE ~Framed(p)
  <2>1. Kept(c, i, p) /\ UNCHANGED <<manager, client_fd>>
    BY <1>0, <1>6
  <2> QED BY <1>2, <1>5, <2>1
<1>7. CASE Framed(p)
  <2> DEFINE q == Clean(p)
  <2>0. \/ Short(q) /\ Kept(c, i, q) /\ UNCHANGED <<manager, client_fd>>
        \/ /\ TooLarge(q)
           /\ Kept(c, i, q)
           /\ client_fd' = fds[i].fd
           /\ Respond(413)
           /\ UNCHANGED <<disk, counter, cgi, stored>>
        \/ /\ ~Short(q) /\ ~TooLarge(q)
           /\ Kept(c, i, <<>>)
           /\ client_fd' = fds[i].fd
           /\ Manage(c, q)
    BY <1>0, <1>7
  <2>1. /\ q \in Seq(Sendable) /\ Len(q) \in Nat /\ Len(q) <= sent[c]
        /\ Begins(a, q) /\ q[1].n = a
        /\ Body(q) \in Seq(Sendable) /\ Len(Body(q)) \in Nat
        /\ Len(Body(q)) <= Len(Asks[a].body)
        /\ Short(q) \/ TooLarge(q) => q = SubSeq(Text(c), 1, sent[c]) \/ ~Plain(Asks[a])
        /\ ~Short(q) /\ ~TooLarge(q) /\ Plain(Asks[a]) =>
             sent[c] = Len(Text(c)) /\ Body(q) = Asks[a].content
    BY <1>0, <1>7, FramedText DEF a
  <2> HIDE DEF q
  <2>2. CASE Short(q) /\ Kept(c, i, q) /\ UNCHANGED <<manager, client_fd>>
    BY <1>5, <2>1, <2>2
  <2>3. CASE /\ TooLarge(q) /\ Kept(c, i, q) /\ client_fd' = fds[i].fd /\ Respond(413)
             /\ UNCHANGED <<disk, counter, cgi, stored>>
    <3>1. DiskInv'
      BY <1>3, <2>3, DiskFrame
    <3>2. ExchangeInv'
      BY <1>3, <2>3, SameExchange DEF Respond
    <3>3. pc' = "write" /\ response' = 413
      BY <2>3 DEF Respond
    <3> QED BY <1>3, <2>1, <2>3, <3>1, <3>2, <3>3, ReadAnswers
  <2>4. CASE /\ ~Short(q) /\ ~TooLarge(q) /\ Kept(c, i, <<>>) /\ client_fd' = fds[i].fd
             /\ Manage(c, q)
    <3>1. c \notin Done
      BY <1>2 DEF Done, Live
    <3>2. counter < Cardinality(Clients)
      BY <1>3, <3>1, NameLeft
    <3>3. /\ DiskInv' /\ counter' \in {counter, counter + 1} /\ response' \in Nat
          /\ \/ cgi' = cgi /\ pc' # "cgi"
             \/ pc' = "cgi" /\ ExecuteCgi(q, Asks[ask[c]])
      <4>1. Plain(Asks[ask[c]]) => Body(q) = Asks[ask[c]].content
        BY <2>1, <2>4 DEF a
      <4>2. ask[c] \in 1 .. Len(Asks) /\ q[1].n = ask[c] /\ ask' = ask
        BY <1>2, <1>3, <2>1 DEF a
      <4> QED BY <1>3, <2>1, <2>4, <3>2, <4>1, <4>2, ManageStores
    <3>4. ExchangeInv'
      <4>1. CASE cgi' = cgi /\ pc' # "cgi"
        BY <1>3, <4>1, SameExchange
      <4>2. CASE pc' = "cgi" /\ ExecuteCgi(q, Asks[ask[c]])
        BY <1>2, <2>1, <4>2, ExecuteExchange DEF a
      <4> QED BY <3>3, <4>1, <4>2
    <3>5. pc' \in {"write", "cgi", "killed"}
      BY <2>4, ManageEnds
    <3>6. <<>> \in Seq(Sendable)
      OBVIOUS
    <3>7. Plain(Asks[ask[c]]) => sent[c] = Len(Text(c))
      BY <2>1, <2>4 DEF a
    <3> QED BY <1>3, <2>4, <3>3, <3>4, <3>5, <3>6, <3>7, ReadAnswers
  <2> QED BY <2>0, <2>2, <2>3, <2>4
<1> QED BY <1>6, <1>7


-----------------------------------------------------------------------------
(***************************************************************************)
(* The theorems.                                                           *)
(***************************************************************************)

\* Every step preserves the invariant.
LEMMA NextAnswers == AInv /\ [Next]_vars => AInv'
<1> SUFFICES ASSUME AInv, [Next]_vars PROVE AInv'
  OBVIOUS
<1>1. CASE Poll \/ ExpireDone \/ ScanDone \/ Stop \/ Second \/ UNCHANGED vars
  BY <1>1, IdleAnswers
<1>2. CASE Cgi \/ Program
  BY <1>2, CgiAnswers
<1>3. ASSUME NEW i \in 1 .. Len(fds), Expire(i) PROVE AInv'
  BY <1>3, ExpireAnswers
<1>4. ASSUME NEW i \in 1 .. Len(fds), Accept(i) \/ AcceptFails(i) PROVE AInv'
  BY <1>4, AcceptAnswers
<1>5. ASSUME NEW c \in Clients, NEW i \in 1 .. Len(fds), HandleClientData(c, i) PROVE AInv'
  BY <1>5, HandleAnswers
<1>6. ASSUME NEW c \in Clients, WriteResponse(c) PROVE AInv'
  BY <1>6, WriteAnswers
<1>7. ASSUME NEW c \in Clients, Client(c) PROVE AInv'
  BY <1>7, LinkAnswers, SendAnswers DEF Client
<1> QED BY <1>1, <1>2, <1>3, <1>4, <1>5, <1>6, <1>7 DEF Next, Run

\* What the server has kept of a request is what was sent of it, or of one that is not
\* Plain something that begins like it; every answer, every file and every exchange
\* with a CGI program comes from it (run and all it calls).
THEOREM KeptIsReceived == Spec => []AInv
<1> QED BY InitAnswers, NextAnswers, PTL DEF Spec

\* Types of all of the server's and its clients' state (SocketManager, RequestManager).
THEOREM SocketTypes == Spec => []TypeOK
<1> USE SocketsAssumption
<1>1. AInv => TypeOK
  <2> SUFFICES ASSUME AInv PROVE TypeOK
    OBVIOUS
  <2>1. /\ fds \in Seq([fd : Int, ready : BOOLEAN]) /\ last_activity \in Seq(0 .. Limit + 1)
    BY DEF AInv, IInv, VectorsInv, Entry, Ages
  <2>2. request_parts \in Seq(Seq(Tokens)) /\ inbox \in [Clients -> Seq(Tokens)]
    <3>1. Sendable \subseteq Tokens
      BY DEF Sendable
    <3>2. \A s \in Seq(Sendable) : s \in Seq(Tokens)
      BY <3>1
    <3>3. \A s \in Seq(Seq(Sendable)) : s \in Seq(Seq(Tokens))
      BY <3>2
    <3>4. inbox \in [Clients -> Seq(Tokens)]
      BY DEF AInv, IInv, ClientsInv
    <3> QED BY <3>3, <3>4 DEF AInv, SentInv
  <2>3. at \in Nat /\ client_fd \in Int /\ backlog \in [Servers -> Seq(Clients)]
    BY DEF AInv, IInv, LoopInv, SentInv, BacklogInv
  <2>4. /\ desc \in [Clients -> Int]
        /\ ask \in [Clients -> 0 .. Len(Asks)] /\ door \in [Clients -> Servers]
        /\ link \in [Clients -> {"none", "open", "closed", "reset", "over"}]
        /\ sent \in [Clients -> Nat] /\ quiet \in [Clients -> 0 .. Limit + 1]
    <3>1. {NoFd} \cup (Listens + 1 .. MaxFd) \subseteq Int
      BY DEF NoFd
    <3> QED BY <3>1 DEF AInv, IInv, ClientsInv, Ages
  <2>5. response \in Nat /\ got \in [Clients -> Seq(Nat)]
    BY DEF AInv, AnswerInv
  <2>6. /\ counter \in Nat /\ disk \in [Names -> Entries]
        /\ stored \in [Clients -> SUBSET [name : Names, media : {"raw", "form"}]]
    BY DEF AInv, DiskInv, Stored
  <2>7. cgi \in [ask : Nat, todo : Nat, in : Nat, out : Nat, left : Nat,
                 plan : Seq({"read", "write"})]
    BY DEF AInv, ExchangeInv, Exchanges
  <2>8. pc \in {"poll", "late", "expire", "scan", "cgi", "write", "off", "killed"}
    BY DEF AInv, SentInv
  <2> QED BY <2>1, <2>2, <2>3, <2>4, <2>5, <2>6, <2>7, <2>8 DEF TypeOK
<1> QED BY <1>1, KeptIsReceived, PTL

\* However a request comes in pieces, and whatever comes from others in between, its
\* client is answered once and, if the searches can find its end, not before it is
\* there or the length it declares is refused (handleClientData).
THEOREM AnswersAreNotEarly == Spec => []NobodyIsAnsweredEarly
<1>1. AInv => NobodyIsAnsweredEarly
  <2> SUFFICES ASSUME AInv, NEW c \in Clients
               PROVE  /\ Len(got[c]) <= 1
                      /\ got[c] # <<>> /\ Plain(Asks[ask[c]]) =>
                           sent[c] = Len(Text(c)) \/ got[c] = <<413>>
    BY DEF NobodyIsAnsweredEarly
  <2>1. (got[c] \in Seq({got[c][1]}) /\ Len(got[c]) <= 1) \/ got[c] = <<>>
    BY DEF AInv, IInv, AnswersInv
  <2>2. Len(got[c]) <= 1
    BY <2>1
  <2>3. got[c] # <<>> => link[c] # "none"
    BY DEF AInv, IInv, AnswersInv
  <2> QED BY <2>2, <2>3 DEF AInv, AnswerInv
<1> QED BY <1>1, KeptIsReceived, PTL

\* The file kept for a request holds what its client meant, whatever the others have
\* uploaded or deleted since (handleClientData, buildPOSTResponse, DELETE).
THEOREM FilesAreAsSent == Spec => []StoredAsSent
<1>1. AInv => StoredAsSent
  BY DEF AInv, DiskInv
<1> QED BY <1>1, KeptIsReceived, PTL

\* The server and a CGI program only wait for each other when the program writes
\* first, and each has more to write than a pipe holds (executeCGI).
THEOREM PipesBlockOnlyFull == Spec => []OnlyFullPipesBlock
<1>1. AInv => OnlyFullPipesBlock
  <2> DEFINE a == Asks[cgi.ask]
  <2> SUFFICES ASSUME AInv, Stuck
               PROVE  a.plan[1] = "write" /\ a.output > PipeCap /\ Len(a.body) > PipeCap
    BY DEF OnlyFullPipesBlock
  <2>1. cgi \in Exchanges /\ AddsUp(cgi)
    BY DEF AInv, ExchangeInv, Stuck
  <2>2. cgi.ask \in 1 .. Len(Asks)
    BY <2>1 DEF AddsUp
  <2>3. /\ cgi.todo \in Nat /\ cgi.in \in Nat /\ cgi.out \in Nat /\ cgi.left \in Nat
        /\ PipeCap \in Nat \ {0} /\ Len(a.body) \in Nat /\ a.output \in Nat
    <3>1. /\ cgi.todo \in Nat /\ cgi.in \in Nat /\ cgi.out \in Nat /\ cgi.left \in Nat
      BY <2>1 DEF Exchanges
    <3>2. a.output \in Nat
      BY <2>2, ClientsAssumption
    <3>3. Len(a.body) \in Nat
      BY <2>2, Lengths
    <3> QED BY <3>1, <3>2, <3>3, DiskAssumption
  <2>4. /\ cgi.todo > 0 /\ cgi.in = PipeCap
        /\ Doing("write") /\ cgi.left > 0 /\ cgi.out = PipeCap
    BY <2>3 DEF Stuck, ServerWaits, ScriptWaits
  <2>5. /\ cgi.todo + cgi.in <= Len(a.body) /\ cgi.out + cgi.left = a.output
        /\ cgi.plan = a.plan \/ a.plan[1] = "write"
    BY <2>1, <2>4 DEF AddsUp
  <2>6. \A m, n, k \in Nat : m > 0 /\ m + n <= k => k > n
    OBVIOUS
  <2>7. Len(a.body) > PipeCap
    BY <2>3, <2>4, <2>5, <2>6
  <2>8. a.output > PipeCap
    <3>1. \A m, n, k \in Nat : m > 0 /\ n + m = k => k > n
      OBVIOUS
    <3> QED BY <2>3, <2>4, <2>5, <3>1
  <2>9. a.plan[1] = "write"
    BY <2>4, <2>5 DEF Doing
  <2> QED BY <2>7, <2>8, <2>9
<1> QED BY <1>1, KeptIsReceived, PTL
=============================================================================
