--------------------------- MODULE MiniServProofs ---------------------------
(***************************************************************************)
(* For any number of clients, descriptors and characters: the select loop  *)
(* of mini_serv implements ChatRoom, and what its invariants claim.        *)
(***************************************************************************)
EXTENDS MiniServ, SequenceTheorems, TLAPS

-----------------------------------------------------------------------------
(***************************************************************************)
(* The inductive invariant.                                                *)
(***************************************************************************)

\* A connected client has a descriptor of its own, in active, with its number
Connected(c) == desc[c] # NoFd

DescriptorsInv ==
  /\ active = {SockFd} \cup { desc[c] : c \in { d \in Clients : Connected(d) } }
  /\ \A c, d \in Clients : Connected(c) /\ desc[c] = desc[d] => c = d
  /\ \A c \in Clients : Connected(c) =>
       link[c] # "none" /\ number[c] = ids[desc[c]]

\* Who waits to be accepted has no number and no descriptor yet, and waits once
BacklogInv ==
  /\ \A i \in 1 .. Len(backlog) :
       /\ link[backlog[i]] # "none"
       /\ number[backlog[i]] = Room!NoNumber
       /\ ~Connected(backlog[i])
       /\ \A j \in 1 .. Len(backlog) : backlog[i] = backlog[j] => i = j
  /\ \A c \in Clients : link[c] = "none" =>
       number[c] = Room!NoNumber /\ ~Connected(c)

\* send_all has something to send only inside a handler, and the handlers of
\* recv work for a connected client
HandlerInv ==
  /\ pc \in {"select", "scan"} => out = <<>>
  /\ pc \in {"leave", "line"} => \E c \in Clients : Connected(c) /\ desc[c] = fd

\* A descriptor select reported and the scan has not come to is still good
ScanInv ==
  pc # "select" =>
    \A d \in readset \cap Fds :
      fd < d => \E c \in Clients : desc[c] = d /\ (inbox[c] # <<>> \/ AtEnd(c))

\* Only the handler that is extracting lines has a complete one in its stock
LinesInv ==
  \A c \in Clients \ short :
    Connected(c) /\ ~(pc = "line" /\ desc[c] = fd) => ~Room!HasLine(stock[desc[c]])

IInv ==
  TypeOK /\ DescriptorsInv /\ BacklogInv /\ HandlerInv /\ ScanInv /\ LinesInv

-----------------------------------------------------------------------------
(***************************************************************************)
(* Texts, their lines, and the strings that are sent.                      *)
(***************************************************************************)

\* What follows position n of a sequence.
LEMMA Suffix ==
  ASSUME NEW S, NEW s \in Seq(S), NEW n \in 0 .. Len(s)
  PROVE  /\ SubSeq(s, n + 1, Len(s)) \in Seq(S)
         /\ Len(SubSeq(s, n + 1, Len(s))) = Len(s) - n
         /\ \A i \in 1 .. Len(s) - n : SubSeq(s, n + 1, Len(s))[i] = s[n + i]
<1>1. Len(s) \in Nat /\ n + 1 \in Int /\ Len(s) \in Int /\ n \in Nat
  BY LenProperties
<1>2. \A i \in n + 1 .. Len(s) : s[i] \in S
  BY <1>1, ElementOfSeq
<1> DEFINE v == SubSeq(s, n + 1, Len(s))
<1>3. /\ v \in Seq(S)
      /\ Len(v) = IF n + 1 <= Len(s) THEN Len(s) - (n + 1) + 1 ELSE 0
      /\ \A i \in 1 .. Len(s) - (n + 1) + 1 : v[i] = s[(n + 1) + i - 1]
  BY <1>1, <1>2, SubSeqProperties
<1> HIDE DEF v
<1>4. Len(v) = Len(s) - n
  BY <1>1, <1>3
<1>5. \A i \in 1 .. Len(s) - n : v[i] = s[n + i]
  <2>1. ASSUME NEW i \in 1 .. Len(s) - n PROVE v[i] = s[n + i]
    <3>1. i \in 1 .. Len(s) - (n + 1) + 1 /\ (n + 1) + i - 1 = n + i
      BY <1>1, <2>1
    <3>. QED BY <1>3, <3>1
  <2>. QED BY <2>1
<1>. QED BY <1>3, <1>4, <1>5 DEF v

\* What follows position n of s \o t, for a position of s.
LEMMA SuffixOfConcat ==
  ASSUME NEW S, NEW s \in Seq(S), NEW t \in Seq(S), NEW n \in 0 .. Len(s)
  PROVE  SubSeq(s \o t, n + 1, Len(s \o t)) = SubSeq(s, n + 1, Len(s)) \o t
<1> DEFINE u == s \o t
           v == SubSeq(s, n + 1, Len(s))
           w == SubSeq(u, n + 1, Len(u))
<1>1. /\ u \in Seq(S) /\ Len(u) = Len(s) + Len(t)
      /\ \A i \in 1 .. Len(s) + Len(t) :
           u[i] = IF i <= Len(s) THEN s[i] ELSE t[i - Len(s)]
  BY ConcatProperties
<1>2. Len(s) \in Nat /\ Len(t) \in Nat /\ n \in Nat /\ n <= Len(s)
  BY LenProperties
<1>3. /\ v \in Seq(S) /\ Len(v) = Len(s) - n
      /\ \A i \in 1 .. Len(s) - n : v[i] = s[n + i]
  BY Suffix
<1> HIDE DEF u, v
<1>4. n \in 0 .. Len(u)
  BY <1>1, <1>2
<1>5. /\ w \in Seq(S) /\ Len(w) = Len(u) - n
      /\ \A i \in 1 .. Len(u) - n : w[i] = u[n + i]
  BY <1>1, <1>4, Suffix
<1> HIDE DEF w
<1>6. /\ v \o t \in Seq(S) /\ Len(v \o t) = Len(v) + Len(t)
      /\ \A i \in 1 .. Len(v) + Len(t) :
           (v \o t)[i] = IF i <= Len(v) THEN v[i] ELSE t[i - Len(v)]
  BY <1>3, ConcatProperties
<1>7. Len(w) = Len(v \o t)
  BY <1>1, <1>2, <1>3, <1>5, <1>6
<1>8. ASSUME NEW i \in 1 .. Len(w) PROVE w[i] = (v \o t)[i]
  <2>1. /\ i \in 1 .. Len(u) - n /\ n + i \in 1 .. Len(s) + Len(t)
        /\ i \in 1 .. Len(v) + Len(t)
    BY <1>1, <1>2, <1>3, <1>5
  <2>2. w[i] = IF n + i <= Len(s) THEN s[n + i] ELSE t[n + i - Len(s)]
    BY <1>1, <1>5, <2>1
  <2>3. (v \o t)[i] = IF i <= Len(s) - n THEN v[i] ELSE t[i - (Len(s) - n)]
    BY <1>3, <1>6, <2>1
  <2>4. n + i - Len(s) = i - (Len(s) - n) /\ (n + i <= Len(s) <=> i <= Len(s) - n)
    BY <1>2, <2>1
  <2>5. CASE n + i <= Len(s)
    BY <1>2, <1>3, <2>1, <2>2, <2>3, <2>4, <2>5
  <2>6. CASE ~(n + i <= Len(s))
    BY <2>2, <2>3, <2>4, <2>6
  <2>. QED BY <2>5, <2>6
<1>9. w = v \o t
  BY <1>5, <1>6, <1>7, <1>8, SeqEqual
<1>. QED BY <1>9 DEF u, v, w

\* Text that arrives later does not change the first line.
LEMMA LineOfPrefix ==
  ASSUME NEW s \in Seq(Chars), NEW t \in Seq(Chars), Room!HasLine(s)
  PROVE  /\ Room!HasLine(s \o t)
         /\ Room!FirstLine(s \o t) = Room!FirstLine(s)
         /\ Room!AfterLine(s \o t) = Room!AfterLine(s) \o t
         /\ Room!FirstLine(s) \in Seq(Chars)
         /\ Room!AfterLine(s) \in Seq(Chars)
<1> DEFINE n == Room!LineEnd(s)
           u == s \o t
<1>1. n \in 1 .. Len(s) /\ Room!EndsAt(s, n)
  BY DEF Room!HasLine, Room!LineEnd
<1>2. /\ u \in Seq(Chars) /\ Len(u) = Len(s) + Len(t)
      /\ \A i \in 1 .. Len(s) : u[i] = s[i]
      /\ Len(s) \in Nat /\ Len(t) \in Nat
  BY ConcatProperties, LenProperties
<1>3. n \in 1 .. Len(u) /\ Room!EndsAt(u, n)
  BY <1>1, <1>2 DEF Room!EndsAt
<1>4. \A i \in 1 .. Len(u) : Room!EndsAt(u, i) => i = n
  BY <1>2, <1>3 DEF Room!EndsAt
<1>5. Room!LineEnd(u) = n
  BY <1>3, <1>4 DEF Room!LineEnd
<1>6. Room!HasLine(u)
  BY <1>3 DEF Room!HasLine
<1>7. SubSeq(u, 1, n) = SubSeq(s, 1, n)
  BY <1>1, <1>2, SubSeqOfConcat1
<1>8. SubSeq(s, 1, n) \in Seq(Chars)
  <2>1. 1 \in Int /\ n \in Int /\ \A i \in 1 .. n : s[i] \in Chars
    BY <1>1, <1>2, ElementOfSeq
  <2>. QED BY <2>1, SubSeqProperties
<1>9. n \in 0 .. Len(s)
  BY <1>1
<1>10. SubSeq(s, n + 1, Len(s)) \in Seq(Chars)
  BY <1>9, Suffix
<1>11. SubSeq(u, n + 1, Len(u)) = SubSeq(s, n + 1, Len(s)) \o t
  BY <1>9, SuffixOfConcat
<1>. QED
  BY <1>5, <1>6, <1>7, <1>8, <1>10, <1>11 DEF Room!FirstLine, Room!AfterLine

\* A sequence whose first element has moved to the end of another.
LEMMA AppendHeadTail ==
  ASSUME NEW S, NEW s \in Seq(S), NEW t \in Seq(S), t # <<>>
  PROVE  Append(s, Head(t)) \o Tail(t) = s \o t
<1>1. Head(t) \in S /\ Tail(t) \in Seq(S) /\ <<Head(t)>> \in Seq(S)
  BY HeadTailProperties
<1>2. Append(s, Head(t)) = s \o <<Head(t)>>
  BY <1>1, AppendIsConcat
<1>3. (s \o <<Head(t)>>) \o Tail(t) = s \o (<<Head(t)>> \o Tail(t))
  BY <1>1, ConcatAssociative
<1>4. <<Head(t)>> \o Tail(t) = t
  <2> DEFINE w == <<Head(t)>> \o Tail(t)
  <2>1. /\ Len(Tail(t)) = Len(t) - 1 /\ Len(t) \in Nat \ {0} /\ Head(t) = t[1]
        /\ \A i \in 1 .. Len(t) - 1 : Tail(t)[i] = t[i + 1]
    BY HeadTailProperties, EmptySeq
  <2>2. /\ w \in Seq(S) /\ Len(w) = 1 + Len(Tail(t))
        /\ \A i \in 1 .. 1 + Len(Tail(t)) : w[i] = IF i <= 1 THEN Head(t) ELSE Tail(t)[i - 1]
    <3>1. Len(<<Head(t)>>) = 1 /\ <<Head(t)>>[1] = Head(t)
      OBVIOUS
    <3>. QED BY <1>1, <3>1, ConcatProperties
  <2> HIDE DEF w
  <2>3. Len(w) = Len(t)
    BY <2>1, <2>2
  <2>4. ASSUME NEW i \in 1 .. Len(w) PROVE w[i] = t[i]
    <3>1. CASE i = 1
      BY <2>1, <2>2, <2>3, <3>1
    <3>2. CASE i # 1
      <4>1. i - 1 \in 1 .. Len(t) - 1 /\ (i - 1) + 1 = i /\ ~(i <= 1)
        BY <2>1, <2>3, <3>2
      <4>. QED BY <2>1, <2>2, <2>3, <4>1
    <3>. QED BY <3>1, <3>2
  <2>5. w = t
    BY <2>2, <2>3, <2>4, SeqEqual
  <2>. QED BY <2>5 DEF w
<1>. QED BY <1>2, <1>3, <1>4

\* What recv returns and what it leaves are the text that was there.
LEMMA Parts ==
  ASSUME NEW c \in Clients, inbox[c] \in Seq(Chars)
  PROVE  LET a == SubSeq(inbox[c], 1, Received(c))
             b == SubSeq(inbox[c], Received(c) + 1, Len(inbox[c]))
         IN  a \in Seq(Chars) /\ b \in Seq(Chars) /\ a \o b = inbox[c]
<1> DEFINE s == inbox[c]
           n == Received(c)
<1>1. Len(s) \in Nat /\ n \in 0 .. Len(s) /\ n \in Int /\ 1 \in Int
  BY MiniServAssumption, LenProperties DEF Received
<1>2. SubSeq(s, n + 1, Len(s)) \in Seq(Chars)
  BY <1>1, Suffix
<1>3. \A i \in 1 .. n : s[i] \in Chars
  BY <1>1, ElementOfSeq
<1>4. SubSeq(s, 1, n) \in Seq(Chars)
  BY <1>1, <1>3, SubSeqProperties
<1>5. SubSeq(s, 1, n) \o SubSeq(s, n + 1, Len(s)) = SubSeq(s, 1, Len(s))
  <2>1. 1 \in 1 .. Len(s) + 1 /\ n \in 1 - 1 .. Len(s) /\ Len(s) \in n .. Len(s)
    BY <1>1
  <2>. QED BY <2>1, ConcatAdjacentSubSeq
<1>6. SubSeq(s, 1, Len(s)) = s
  BY SubSeqFull
<1>. QED BY <1>2, <1>4, <1>5, <1>6

\* The strings main sends are strings of the room.
LEMMA StringsAreStrings ==
  /\ \A n \in Nat : /\ Room!Arrived(n) \in Room!Strings
                    /\ Room!Left(n) \in Room!Strings
                    /\ Room!ClientIs(n) \in Room!Strings
  /\ \A l \in Seq(Chars) : Room!Line(l) \in Room!Strings
BY DEF Room!Arrived, Room!Left, Room!ClientIs, Room!Line, Room!Strings

-----------------------------------------------------------------------------
(***************************************************************************)
(* Every step keeps the types.                                             *)
(***************************************************************************)
\* The types hold when the server starts.
LEMMA TypeInit == Init => TypeOK
BY MiniServAssumption
DEF Init, TypeOK, SockFd, NoFd, Fds, Room!NoNumber

\* The descriptor of a client the scan comes to
LEMMA ComesToClient ==
  ASSUME TypeOK, NEW c \in Clients, Comes(desc[c])
  PROVE  /\ desc[c] \in Fds /\ Connected(c)
         /\ desc[c] \in SockFd - 1 .. LastFd
         /\ desc[c] # SockFd
<1>1. desc[c] \in Fds \cup {NoFd} /\ maxfd \in SockFd .. LastFd
  BY DEF TypeOK
<1>2. desc[c] \in SockFd .. maxfd
  BY DEF TypeOK, Comes
<1>. QED
  BY <1>1, <1>2, MiniServAssumption DEF Connected, Fds, SockFd, NoFd

\* Every step keeps the types.
LEMMA TypeStep == TypeOK /\ HandlerInv /\ [Next]_vars => TypeOK'
<1> SUFFICES ASSUME TypeOK, HandlerInv, [Next]_vars PROVE TypeOK'
  OBVIOUS
<1> USE MiniServAssumption
<1> USE DEF scanning, sending, clients, sockets, ends
<1>1. CASE Select
  <2>1. Ready \subseteq SockFd .. maxfd
    BY DEF Ready, SockFd
  <2>2. SockFd - 1 \in SockFd - 1 .. LastFd
    BY DEF SockFd
  <2>. QED BY <1>1, <2>1, <2>2 DEF TypeOK, Select
<1>2. CASE EndScan
  BY <1>2 DEF TypeOK, EndScan
<1>3. CASE AcceptFails
  BY <1>3 DEF TypeOK, AcceptFails, SockFd
<1>4. CASE Extract
  <2>1. fd \in Fds
    BY <1>4 DEF HandlerInv, Extract, TypeOK, Connected
  <2>2. /\ Room!FirstLine(stock[fd]) \in Seq(Chars)
        /\ Room!AfterLine(stock[fd]) \in Seq(Chars)
    BY <1>4, <2>1, LineOfPrefix DEF Extract, TypeOK
  <2>3. <<Room!ClientIs(ids[fd]), Room!Line(Room!FirstLine(stock[fd]))>>
          \in Seq(Room!Strings)
    BY <2>1, <2>2, StringsAreStrings DEF TypeOK
  <2>. QED BY <1>4, <2>1, <2>2, <2>3 DEF TypeOK, Extract, Fds
<1>5. CASE LinesDone
  BY <1>5 DEF TypeOK, LinesDone
<1>6. CASE SendAllReturns
  BY <1>6, HeadTailProperties DEF TypeOK, SendAllReturns
<1>7. ASSUME NEW c \in Clients, RecvEnd(c) PROVE TypeOK'
  <2>1. desc[c] \in Fds /\ desc[c] \in SockFd - 1 .. LastFd
    BY <1>7, ComesToClient DEF RecvEnd
  <2>2. Room!Left(ids[desc[c]]) \in Room!Strings
    BY <2>1, StringsAreStrings DEF TypeOK
  <2>3. /\ out' \in Seq(Room!Strings)
        /\ except' \in Fds \cup {NoFd} /\ to' \in 0 .. LastFd + 1
        /\ fd' \in SockFd - 1 .. LastFd
        /\ pc' \in {"select", "scan", "arrive", "leave", "line"}
    BY <1>7, <2>1, <2>2 DEF RecvEnd
  <2>. QED BY <1>7, <2>3 DEF TypeOK, RecvEnd
<1>8. ASSUME NEW c \in Clients, Close(c) PROVE TypeOK'
  BY <1>8 DEF TypeOK, Close
<1>9. ASSUME NEW c \in Clients, RecvText(c) PROVE TypeOK'
  <2>1. desc[c] \in Fds /\ desc[c] \in SockFd - 1 .. LastFd
    BY <1>9, ComesToClient DEF RecvText
  <2>2. /\ SubSeq(inbox[c], 1, Received(c)) \in Seq(Chars)
        /\ SubSeq(inbox[c], Received(c) + 1, Len(inbox[c])) \in Seq(Chars)
    BY Parts DEF TypeOK
  <2>3. stock[desc[c]] \o SubSeq(inbox[c], 1, Received(c)) \in Seq(Chars)
    BY <2>1, <2>2, ConcatProperties DEF TypeOK
  <2>. QED BY <1>9, <2>1, <2>2, <2>3 DEF TypeOK, RecvText
<1>10. ASSUME NEW c \in Clients, JoinFails(c) PROVE TypeOK'
  BY <1>10 DEF TypeOK, JoinFails
<1>11. ASSUME NEW c \in Clients, ExtractFails(c) PROVE TypeOK'
  BY <1>11 DEF TypeOK, ExtractFails
<1>12. ASSUME NEW c \in Clients, Send(c) PROVE TypeOK'
  <2>1. out # <<>> /\ desc[c] + 1 \in 0 .. LastFd + 1
    <3>1. desc[c] \in 0 .. maxfd /\ maxfd \in 0 .. LastFd /\ out # <<>>
      BY <1>12 DEF TypeOK, Send, Sends, Recipients, SockFd
    <3>. QED BY <3>1
  <2>2. Append(told[c], Head(out)) \in Seq(Room!Strings)
    BY <2>1, HeadTailProperties, AppendProperties DEF TypeOK
  <2>3. told' \in [Clients -> Seq(Room!Strings)] /\ to' \in 0 .. LastFd + 1
    BY <1>12, <2>1, <2>2 DEF TypeOK, Send
  <2>4. /\ link' \in [Clients -> {"none", "open", "closed", "reset"}]
        /\ unread' \in [Clients -> Nat]
    <3>1. /\ link \in [Clients -> {"none", "open", "closed", "reset"}]
          /\ unread \in [Clients -> Nat]
      BY DEF TypeOK
    <3>2. \/ unread' = [unread EXCEPT ![c] = @ + 1] /\ link' = link
          \/ \E l \in {"closed", "reset"} :
               link' = [link EXCEPT ![c] = l] /\ unread' = unread
      BY <1>12 DEF Send
    <3>. QED BY <3>1, <3>2
  <2>. QED BY <1>12, <2>3, <2>4 DEF TypeOK, Send
<1>13. ASSUME NEW c \in Clients, BrokenPipe(c) PROVE TypeOK'
  BY <1>13 DEF TypeOK, BrokenPipe
<1>14. ASSUME NEW c \in Clients, NEW d \in Fds, Accept(c, d) PROVE TypeOK'
  <2>1. Room!Arrived(next_id) \in Room!Strings
    BY StringsAreStrings DEF TypeOK
  <2>2. Tail(backlog) \in Seq(Clients)
    BY <1>14, HeadTailProperties DEF TypeOK, Accept
  <2>3. /\ active' \subseteq SockFd .. maxfd' /\ readset' \subseteq SockFd .. maxfd'
        /\ maxfd' \in SockFd .. LastFd
    <3>1. /\ maxfd' = IF d > maxfd THEN d ELSE maxfd
          /\ active' = active \cup {d} /\ readset' = readset
          /\ active \subseteq 0 .. maxfd /\ readset \subseteq 0 .. maxfd
          /\ maxfd \in 0 .. LastFd /\ d \in 1 .. LastFd
      <4>1. /\ maxfd' = IF d > maxfd THEN d ELSE maxfd
            /\ active' = active \cup {d} /\ readset' = readset
        BY <1>14 DEF Accept, Registered
      <4>2. /\ active \subseteq 0 .. maxfd /\ readset \subseteq 0 .. maxfd
            /\ maxfd \in 0 .. LastFd
        BY DEF TypeOK, SockFd
      <4>3. d \in 1 .. LastFd
        BY DEF Fds, SockFd
      <4>. QED BY <4>1, <4>2, <4>3
    <3>. QED BY <3>1 DEF SockFd
  <2>4. fd' \in SockFd - 1 .. LastFd
    BY <1>14 DEF TypeOK, Accept, SockFd
  <2>5. /\ out' \in Seq(Room!Strings)
        /\ except' \in Fds \cup {NoFd} /\ to' \in 0 .. LastFd + 1
    BY <1>14, <2>1 DEF Accept
  <2>6. /\ ids' \in [Fds -> Nat] /\ next_id' \in Nat
        /\ stock' \in [Fds -> Seq(Chars)]
    <3>1. /\ ids' = [ids EXCEPT ![d] = next_id] /\ next_id' = next_id + 1
          /\ stock' = [stock EXCEPT ![d] = <<>>]
      BY <1>14 DEF Accept, Registered
    <3>2. /\ ids \in [Fds -> Nat] /\ next_id \in Nat
          /\ stock \in [Fds -> Seq(Chars)] /\ <<>> \in Seq(Chars)
      BY EmptySeq DEF TypeOK
    <3>. QED BY <3>1, <3>2
  <2>7. /\ desc' \in [Clients -> Fds \cup {NoFd}]
        /\ number' \in [Clients -> Nat \cup {Room!NoNumber}]
    BY <1>14 DEF TypeOK, Accept
  <2>. QED BY <1>14, <2>2, <2>3, <2>4, <2>5, <2>6, <2>7 DEF TypeOK, Accept
<1>15. ASSUME NEW c \in Clients, Connect(c) PROVE TypeOK'
  BY <1>15, AppendProperties DEF TypeOK, Connect
<1>16. ASSUME NEW c \in Clients, NEW x \in Chars, Write(c, x) PROVE TypeOK'
  <2>1. Append(inbox[c], x) \in Seq(Chars)
    BY AppendProperties DEF TypeOK
  <2>2. /\ inbox' \in [Clients -> Seq(Chars)]
        /\ written' \in [Clients -> Nat]
    BY <1>16, <2>1 DEF TypeOK, Write
  <2>. QED BY <1>16, <2>2 DEF TypeOK, Write
<1>17. ASSUME NEW c \in Clients, Read(c) PROVE TypeOK'
  BY <1>17 DEF TypeOK, Read
<1>18. ASSUME NEW c \in Clients, Disconnect(c) PROVE TypeOK'
  BY <1>18 DEF TypeOK, Disconnect
<1>19. CASE UNCHANGED vars
  BY <1>19 DEF TypeOK, vars
<1>. QED
  BY <1>1, <1>2, <1>3, <1>4, <1>5, <1>6, <1>7, <1>8, <1>9, <1>10, <1>11, <1>12,
     <1>13, <1>14, <1>15, <1>16, <1>17, <1>18, <1>19 DEF Next, Server, Client

-----------------------------------------------------------------------------
(***************************************************************************)
(* Every step keeps the rest of the invariant.  The actions are grouped by *)
(* what they leave alone.                                                  *)
(***************************************************************************)

\* What is known of the client and the descriptor of an accept.
LEMMA AcceptFacts ==
  ASSUME TypeOK, DescriptorsInv, BacklogInv, NEW c \in Clients, NEW d \in Fds, Accept(c, d)
  PROVE  /\ c = backlog[1] /\ 1 \in 1 .. Len(backlog)
         /\ ~Connected(c) /\ number[c] = Room!NoNumber /\ link[c] # "none"
         /\ d \notin active /\ d # NoFd /\ d # SockFd
         /\ \A e \in Clients : desc[e] # d
         /\ active' = active \cup {d} /\ link' = link
         /\ desc'[c] = d /\ number'[c] = next_id /\ ids'[d] = next_id
         /\ \A e \in Clients : e # c => desc'[e] = desc[e] /\ number'[e] = number[e]
         /\ \A e \in Clients : Connected(e) => ids'[desc[e]] = ids[desc[e]]
<1>1. c = backlog[1] /\ 1 \in 1 .. Len(backlog)
  <2>1. backlog \in Seq(Clients) /\ backlog # <<>> /\ c = Head(backlog)
    BY DEF TypeOK, Accept
  <2>. QED BY <2>1, EmptySeq
<1>2. ~Connected(c) /\ number[c] = Room!NoNumber /\ link[c] # "none"
  BY <1>1 DEF BacklogInv
<1>3. \A e \in Clients : desc[e] # d
  BY DEF Accept, Open
<1>4. d # NoFd /\ d # SockFd
  BY MiniServAssumption DEF Fds, NoFd, SockFd
<1>5. d \notin active
  BY <1>3, <1>4 DEF DescriptorsInv
<1>6. /\ desc \in [Clients -> Fds \cup {NoFd}]
      /\ number \in [Clients -> Nat \cup {Room!NoNumber}]
      /\ ids \in [Fds -> Nat]
  BY DEF TypeOK
<1>7. /\ active' = active \cup {d} /\ link' = link
      /\ desc' = [desc EXCEPT ![c] = d] /\ number' = [number EXCEPT ![c] = next_id]
      /\ ids' = [ids EXCEPT ![d] = next_id]
  BY DEF Accept, Registered, ends
<1>8. \A e \in Clients : Connected(e) => desc[e] \in Fds /\ desc[e] # d
  BY <1>3, <1>6 DEF Connected
<1>9. /\ desc'[c] = d /\ number'[c] = next_id /\ ids'[d] = next_id
      /\ \A e \in Clients : e # c => desc'[e] = desc[e] /\ number'[e] = number[e]
      /\ \A e \in Clients : Connected(e) => ids'[desc[e]] = ids[desc[e]]
  BY <1>6, <1>7, <1>8
<1>. QED
  BY <1>1, <1>2, <1>3, <1>4, <1>5, <1>7, <1>9

\* accept gives a free descriptor, close frees that of the client that left.
LEMMA DescriptorsStep ==
  TypeOK /\ DescriptorsInv /\ BacklogInv /\ [Next]_vars => DescriptorsInv'
<1> SUFFICES ASSUME TypeOK, DescriptorsInv, BacklogInv, [Next]_vars PROVE DescriptorsInv'
  OBVIOUS
<1> USE DEF scanning, sending, clients, sockets, ends
<1>1. CASE UNCHANGED <<active, desc, link, number, ids>>
  BY <1>1 DEF DescriptorsInv, Connected
<1>2. ASSUME NEW c \in Clients, Close(c) PROVE DescriptorsInv'
  <2>1. /\ active' = active \ {desc[c]} /\ desc' = [desc EXCEPT ![c] = NoFd]
        /\ UNCHANGED <<link, number, ids>>
    BY <1>2 DEF Close
  <2>2. \A e \in Clients : e # c => desc'[e] = desc[e]
    BY <2>1 DEF TypeOK
  <2>3. desc'[c] = NoFd /\ desc[c] # SockFd
    <3>1. desc \in [Clients -> Fds \cup {NoFd}]
      BY DEF TypeOK
    <3>. QED BY <2>1, <3>1, MiniServAssumption DEF Fds, NoFd, SockFd
  <2>. QED BY <2>1, <2>2, <2>3 DEF DescriptorsInv, Connected
<1>3. ASSUME NEW c \in Clients, NEW d \in Fds, Accept(c, d) PROVE DescriptorsInv'
  <2>1. /\ ~Connected(c) /\ link[c] # "none" /\ d \notin active /\ d # NoFd
        /\ \A e \in Clients : desc[e] # d
        /\ active' = active \cup {d} /\ link' = link
    BY <1>3, AcceptFacts
  <2>2. /\ desc'[c] = d /\ number'[c] = next_id /\ ids'[d] = next_id
        /\ \A e \in Clients : e # c => desc'[e] = desc[e] /\ number'[e] = number[e]
        /\ \A e \in Clients : Connected(e) => ids'[desc[e]] = ids[desc[e]]
    BY <1>3, AcceptFacts
  <2>. QED BY <2>1, <2>2 DEF DescriptorsInv, Connected
<1>4. ASSUME NEW c \in Clients, Send(c) \/ Connect(c) \/ Disconnect(c)
      PROVE  DescriptorsInv'
  <2>1. UNCHANGED <<active, desc, number, ids>>
    BY <1>4 DEF Send, Connect, Disconnect
  <2>2. \A e \in Clients : link[e] # "none" => link'[e] # "none"
    BY <1>4 DEF Send, Connect, Disconnect, TypeOK
  <2>. QED BY <2>1, <2>2 DEF DescriptorsInv, Connected
<1>. QED
  BY <1>1, <1>2, <1>3, <1>4
  DEF Next, Server, Client, vars, Select, EndScan, AcceptFails, Extract, LinesDone,
      SendAllReturns, RecvEnd, RecvText, JoinFails, ExtractFails, BrokenPipe, Read, Write

\* A connection enters the backlog once and leaves it when accepted.
LEMMA BacklogStep ==
  TypeOK /\ DescriptorsInv /\ BacklogInv /\ [Next]_vars => BacklogInv'
<1> SUFFICES ASSUME TypeOK, DescriptorsInv, BacklogInv, [Next]_vars PROVE BacklogInv'
  OBVIOUS
<1> USE DEF scanning, sending, clients, sockets, ends
<1>0. \A i \in 1 .. Len(backlog) : backlog[i] \in Clients
  BY ElementOfSeq DEF TypeOK
<1>1. CASE UNCHANGED <<backlog, desc, link, number>>
  BY <1>1 DEF BacklogInv, Connected
<1>2. ASSUME NEW c \in Clients, Close(c) PROVE BacklogInv'
  <2>1. desc' = [desc EXCEPT ![c] = NoFd] /\ UNCHANGED <<backlog, link, number>>
    BY <1>2 DEF Close
  <2>2. \A e \in Clients : ~Connected(e) => ~Connected(e)'
    BY <2>1 DEF TypeOK, Connected
  <2>. QED BY <1>0, <2>1, <2>2 DEF BacklogInv
<1>3. ASSUME NEW c \in Clients, NEW d \in Fds, Accept(c, d) PROVE BacklogInv'
  <2>1. /\ c = backlog[1] /\ 1 \in 1 .. Len(backlog) /\ link[c] # "none"
        /\ link' = link
    BY <1>3, AcceptFacts
  <2>2. \A e \in Clients : e # c => desc'[e] = desc[e] /\ number'[e] = number[e]
    BY <1>3, AcceptFacts
  <2>3. /\ Len(backlog) \in Nat
        /\ Len(backlog') = Len(backlog) - 1
        /\ \A i \in 1 .. Len(backlog') : backlog'[i] = backlog[i + 1]
    BY <1>3, HeadTailProperties, LenProperties DEF TypeOK, Accept
  <2>4. \A i \in 1 .. Len(backlog') : i + 1 \in 1 .. Len(backlog) /\ i + 1 # 1
    BY <2>3
  <2>5. \A i \in 1 .. Len(backlog') : backlog'[i] # c
    BY <2>1, <2>3, <2>4 DEF BacklogInv
  <2>6. \A i \in 1 .. Len(backlog') :
          /\ link'[backlog'[i]] # "none"
          /\ number'[backlog'[i]] = Room!NoNumber
          /\ desc'[backlog'[i]] = NoFd
    <3>1. ASSUME NEW i \in 1 .. Len(backlog')
          PROVE  /\ backlog'[i] \in Clients /\ backlog'[i] # c
                 /\ backlog'[i] = backlog[i + 1] /\ i + 1 \in 1 .. Len(backlog)
      BY <1>0, <2>3, <2>4, <2>5
    <3>. QED BY <2>1, <2>2, <3>1 DEF BacklogInv, Connected
  <2>7. \A i, j \in 1 .. Len(backlog') : backlog'[i] = backlog'[j] => i = j
    BY <2>3, <2>4 DEF BacklogInv
  <2>8. \A e \in Clients : link'[e] = "none" =>
          number'[e] = Room!NoNumber /\ desc'[e] = NoFd
    BY <2>1, <2>2 DEF BacklogInv, Connected
  <2>. QED BY <2>6, <2>7, <2>8 DEF BacklogInv, Connected
<1>4. ASSUME NEW c \in Clients, Connect(c) PROVE BacklogInv'
  <2>1. /\ link[c] = "none" /\ link' = [link EXCEPT ![c] = "open"]
        /\ UNCHANGED <<desc, number>>
    BY <1>4 DEF Connect
  <2>2. \A i \in 1 .. Len(backlog) : backlog[i] # c
    BY <2>1 DEF BacklogInv
  <2>3. /\ Len(backlog') = Len(backlog) + 1 /\ backlog'[Len(backlog) + 1] = c
        /\ \A i \in 1 .. Len(backlog) : backlog'[i] = backlog[i]
        /\ Len(backlog) \in Nat
    BY <1>4, AppendProperties, LenProperties DEF TypeOK, Connect
  <2>4. \A i \in 1 .. Len(backlog') : i \in 1 .. Len(backlog) \/ i = Len(backlog) + 1
    BY <2>3
  <2>5. number[c] = Room!NoNumber /\ ~Connected(c)
    BY <2>1 DEF BacklogInv
  <2>6. \A e \in Clients : link'[e] = IF e = c THEN "open" ELSE link[e]
    BY <2>1 DEF TypeOK
  <2>7. \A i \in 1 .. Len(backlog') :
          /\ link'[backlog'[i]] # "none"
          /\ number'[backlog'[i]] = Room!NoNumber
          /\ desc'[backlog'[i]] = NoFd
    <3>1. ASSUME NEW i \in 1 .. Len(backlog')
          PROVE  \/ backlog'[i] = backlog[i] /\ backlog[i] \in Clients /\ i \in 1 .. Len(backlog)
                 \/ backlog'[i] = c
      BY <1>0, <2>3, <2>4
    <3>. QED BY <2>1, <2>5, <2>6, <3>1 DEF BacklogInv, Connected
  <2>8. \A i, j \in 1 .. Len(backlog') : backlog'[i] = backlog'[j] => i = j
    BY <2>2, <2>3, <2>4 DEF BacklogInv
  <2>9. \A e \in Clients : link'[e] = "none" =>
          number'[e] = Room!NoNumber /\ desc'[e] = NoFd
    BY <2>1, <2>6 DEF BacklogInv, Connected
  <2>. QED BY <2>7, <2>8, <2>9 DEF BacklogInv, Connected
<1>5. ASSUME NEW c \in Clients, Send(c) \/ Disconnect(c) PROVE BacklogInv'
  <2>1. UNCHANGED <<backlog, desc, number>>
    BY <1>5 DEF Send, Disconnect
  <2>2. \A e \in Clients : link[e] # "none" <=> link'[e] # "none"
    BY <1>5 DEF Send, Disconnect, TypeOK
  <2>. QED BY <1>0, <2>1, <2>2 DEF BacklogInv, Connected
<1>. QED
  BY <1>1, <1>2, <1>3, <1>4, <1>5
  DEF Next, Server, Client, vars, Select, EndScan, AcceptFails, Extract, LinesDone,
      SendAllReturns, RecvEnd, RecvText, JoinFails, ExtractFails, BrokenPipe, Read, Write

\* The client of a handler stays connected until the handler closes it.
LEMMA HandlerStep ==
  TypeOK /\ DescriptorsInv /\ BacklogInv /\ HandlerInv /\ [Next]_vars => HandlerInv'
<1> SUFFICES ASSUME TypeOK, DescriptorsInv, BacklogInv, HandlerInv, [Next]_vars
             PROVE  HandlerInv'
  OBVIOUS
<1> USE DEF scanning, sending, clients, sockets, ends
<1>1. CASE UNCHANGED <<pc, out, desc, fd>>
  BY <1>1 DEF HandlerInv, Connected
<1>2. CASE Select \/ EndScan \/ AcceptFails \/ LinesDone \/ Extract
  BY <1>2 DEF HandlerInv, Connected, Select, EndScan, AcceptFails, LinesDone, Extract
<1>3. CASE SendAllReturns
  <2>1. pc \in {"arrive", "leave", "line"}
    BY <1>3 DEF HandlerInv, SendAllReturns, TypeOK
  <2>2. CASE pc = "arrive" /\ Len(out) = 1
    <3>1. Tail(out) = <<>>
      <4>1. out \in Seq(Room!Strings) /\ out # <<>>
        BY <1>3 DEF TypeOK, SendAllReturns
      <4>2. Tail(out) \in Seq(Room!Strings) /\ Len(Tail(out)) = Len(out) - 1
        BY <4>1, HeadTailProperties
      <4>3. \A seq \in Seq(Room!Strings) : seq # <<>> => Len(seq) \in Nat \ {0}
        BY EmptySeq, Zenon
      <4>4. Len(Tail(out)) = 0
        BY <2>2, <4>2
      <4>5. Tail(out) # <<>> => 0 \in Nat \ {0}
        BY <4>2, <4>3, <4>4, Zenon
      <4>6. 0 \notin Nat \ {0}
        OBVIOUS
      <4>. QED BY <4>5, <4>6, Zenon
    <3>. QED BY <1>3, <2>2, <3>1 DEF HandlerInv, SendAllReturns
  <2>3. CASE ~(pc = "arrive" /\ Len(out) = 1)
    BY <1>3, <2>1, <2>3 DEF HandlerInv, Connected, SendAllReturns
  <2>. QED BY <2>2, <2>3
<1>4. ASSUME NEW c \in Clients, RecvEnd(c) \/ RecvText(c) PROVE HandlerInv'
  <2>1. Connected(c)
    BY <1>4, ComesToClient DEF RecvEnd, RecvText
  <2>2. desc' = desc /\ fd' = desc[c] /\ pc' \in {"leave", "line"}
    BY <1>4 DEF RecvEnd, RecvText
  <2>. QED BY <2>1, <2>2 DEF HandlerInv, Connected
<1>5. ASSUME NEW c \in Clients, Close(c) \/ ExtractFails(c) PROVE HandlerInv'
  BY <1>5 DEF HandlerInv, Close, ExtractFails
<1>6. ASSUME NEW c \in Clients, NEW d \in Fds, Accept(c, d) PROVE HandlerInv'
  BY <1>6 DEF HandlerInv, Accept
<1>. QED
  BY <1>1, <1>2, <1>3, <1>4, <1>5, <1>6
  DEF Next, Server, Client, vars, JoinFails, Send, BrokenPipe, Connect, Write, Read,
      Disconnect

\* Nothing but the handler that receives takes text or the end from a client.
LEMMA ScanStep ==
  TypeOK /\ DescriptorsInv /\ BacklogInv /\ HandlerInv /\ ScanInv /\ [Next]_vars
    => ScanInv'
<1> SUFFICES ASSUME TypeOK, DescriptorsInv, BacklogInv, HandlerInv, ScanInv, [Next]_vars
             PROVE  ScanInv'
  OBVIOUS
<1> USE DEF scanning, sending, clients, sockets, ends
<1>1. CASE UNCHANGED <<readset, fd, desc, inbox, link>> /\ (pc' = pc \/ pc # "select")
  BY <1>1 DEF ScanInv, AtEnd
<1>2. CASE Select
  <2>1. SockFd \notin Fds
    BY MiniServAssumption DEF Fds, SockFd
  <2>2. \A d \in Ready \cap Fds :
          \E c \in Clients : desc[c] = d /\ (inbox[c] # <<>> \/ AtEnd(c))
    BY <2>1 DEF Ready
  <2>3. readset' = Ready /\ UNCHANGED <<desc, inbox, link>>
    BY <1>2 DEF Select
  <2>. QED BY <2>2, <2>3 DEF ScanInv, AtEnd
<1>3. CASE AcceptFails
  <2>1. pc = "scan" /\ fd < fd' /\ fd' \in Int /\ fd \in Int
    BY <1>3 DEF AcceptFails, Comes, SockFd, TypeOK
  <2>2. \A d \in Fds : fd' < d => fd < d
    BY <2>1 DEF Fds
  <2>3. UNCHANGED <<readset, desc, inbox, link>>
    BY <1>3 DEF AcceptFails
  <2>4. \A d \in readset \cap Fds :
          fd' < d => \E c \in Clients : desc[c] = d /\ (inbox[c] # <<>> \/ AtEnd(c))
    BY <2>1, <2>2 DEF ScanInv
  <2>. QED BY <2>3, <2>4 DEF ScanInv, AtEnd
<1>4. ASSUME NEW c \in Clients, RecvEnd(c) \/ RecvText(c) PROVE ScanInv'
  <2>1. /\ pc = "scan" /\ fd < fd' /\ fd' = desc[c] /\ fd \in Int /\ desc[c] \in Fds
    <3>1. Comes(desc[c]) /\ pc = "scan" /\ fd' = desc[c]
      BY <1>4 DEF RecvEnd, RecvText
    <3>2. desc[c] \in Fds /\ fd < desc[c]
      BY <3>1, ComesToClient DEF Comes
    <3>3. fd \in Int
      BY DEF TypeOK
    <3>. QED BY <3>1, <3>2, <3>3
  <2>2. \A d \in Fds : fd' < d => fd < d /\ d # desc[c]
    BY <2>1 DEF Fds
  <2>3. /\ \A e \in Clients : e # c => inbox'[e] = inbox[e]
        /\ UNCHANGED <<readset, desc, link>>
    BY <1>4 DEF RecvEnd, RecvText, TypeOK
  <2>. QED BY <2>1, <2>2, <2>3 DEF ScanInv, AtEnd
<1>5. ASSUME NEW c \in Clients, Close(c) PROVE ScanInv'
  <2>1. /\ pc = "leave" /\ desc[c] = fd
        /\ UNCHANGED <<readset, fd, inbox, link>>
    BY <1>5 DEF Close
  <2>2. \A e \in Clients : e # c => desc'[e] = desc[e]
    BY <1>5 DEF Close, TypeOK
  <2>3. \A d \in Fds : fd < d => d # desc[c]
    BY <2>1 DEF Fds, TypeOK
  <2>. QED BY <2>1, <2>2, <2>3 DEF ScanInv, AtEnd
<1>6. ASSUME NEW c \in Clients, NEW d \in Fds, Accept(c, d) PROVE ScanInv'
  <2>1. /\ pc = "scan" /\ fd < fd' /\ fd' \in Int /\ fd \in Int
        /\ UNCHANGED <<readset, inbox, link>>
    BY <1>6 DEF Accept, Comes, SockFd, TypeOK
  <2>2. \A e \in Fds : fd' < e => fd < e
    BY <2>1 DEF Fds
  <2>3. ~Connected(c) /\ \A e \in Clients : e # c => desc'[e] = desc[e]
    BY <1>6, AcceptFacts
  <2>4. \A e \in Fds : e # NoFd
    BY MiniServAssumption DEF Fds, NoFd, SockFd
  <2>. QED BY <2>1, <2>2, <2>3, <2>4 DEF ScanInv, AtEnd, Connected
<1>7. ASSUME NEW c \in Clients, Send(c) \/ Connect(c) \/ Disconnect(c) \/ \E x \in Chars : Write(c, x)
      PROVE  ScanInv'
  <2>1. UNCHANGED <<pc, readset, fd, desc>>
    BY <1>7 DEF Send, Connect, Disconnect, Write
  <2>2. \A e \in Clients : inbox[e] # <<>> => inbox'[e] # <<>>
    <3>1. CASE \E x \in Chars : Write(c, x)
      <4>1. PICK x \in Chars : inbox' = [inbox EXCEPT ![c] = Append(@, x)]
        BY <3>1 DEF Write
      <4>2. inbox \in [Clients -> Seq(Chars)]
        BY DEF TypeOK
      <4>3. Append(inbox[c], x) # <<>>
        BY <4>2, AppendProperties
      <4>. QED BY <4>1, <4>2, <4>3
    <3>2. CASE inbox' = inbox
      BY <3>2
    <3>. QED BY <1>7, <3>1, <3>2 DEF Send, Connect, Disconnect
  <2>3. \A e \in Clients : AtEnd(e) => AtEnd(e)'
    BY <1>7 DEF Send, Connect, Disconnect, Write, TypeOK, AtEnd
  <2>. QED BY <2>1, <2>2, <2>3 DEF ScanInv
<1>. QED
  BY <1>1, <1>2, <1>3, <1>4, <1>5, <1>6, <1>7
  DEF Next, Server, Client, vars, EndScan, Extract, LinesDone, ExtractFails,
      SendAllReturns, JoinFails, BrokenPipe, Read

\* An empty stock has no line.
LEMMA NoLineInNothing == ~Room!HasLine(<<>>)
BY DEF Room!HasLine

\* The loop over extract_message leaves no line, unless calloc failed.
LEMMA LinesStep ==
  TypeOK /\ DescriptorsInv /\ BacklogInv /\ HandlerInv /\ LinesInv /\ [Next]_vars
    => LinesInv'
<1> SUFFICES ASSUME TypeOK, DescriptorsInv, BacklogInv, HandlerInv, LinesInv, [Next]_vars
             PROVE  LinesInv'
  OBVIOUS
<1> USE DEF scanning, sending, clients, sockets, ends
<1>0. desc \in [Clients -> Fds \cup {NoFd}] /\ stock \in [Fds -> Seq(Chars)]
  BY DEF TypeOK
<1>1. CASE /\ UNCHANGED <<short, desc, stock>>
           /\ (pc' = pc /\ fd' = fd) \/ pc # "line"
  BY <1>1 DEF LinesInv, Connected
<1>2. CASE Extract
  <2>1. /\ pc = "line" /\ pc' = pc /\ fd' = fd /\ UNCHANGED <<short, desc>>
        /\ stock' = [stock EXCEPT ![fd] = Room!AfterLine(@)]
    BY <1>2 DEF Extract
  <2>2. \A c \in Clients : Connected(c) /\ desc[c] # fd => stock'[desc[c]] = stock[desc[c]]
    BY <1>0, <2>1 DEF Connected
  <2>. QED BY <2>1, <2>2 DEF LinesInv, Connected
<1>3. CASE LinesDone
  BY <1>3 DEF LinesDone, LinesInv, Connected
<1>4. ASSUME NEW c \in Clients, RecvText(c) PROVE LinesInv'
  <2>1. /\ pc = "scan" /\ pc' = "line" /\ fd' = desc[c] /\ UNCHANGED <<short, desc>>
    BY <1>4 DEF RecvText
  <2>2. \A e \in Clients : Connected(e) /\ desc[e] # desc[c] => stock'[desc[e]] = stock[desc[e]]
    BY <1>0, <1>4 DEF RecvText, Connected
  <2>. QED BY <2>1, <2>2 DEF LinesInv, Connected
<1>5. ASSUME NEW c \in Clients, Close(c) PROVE LinesInv'
  <2>1. /\ pc = "leave" /\ UNCHANGED <<short, stock>>
        /\ \A e \in Clients : desc'[e] = IF e = c THEN NoFd ELSE desc[e]
    BY <1>0, <1>5 DEF Close
  <2>. QED BY <2>1 DEF LinesInv, Connected
<1>6. ASSUME NEW c \in Clients, ExtractFails(c) PROVE LinesInv'
  <2>1. /\ UNCHANGED <<desc, stock>> /\ short' = short \cup {c} /\ desc[c] = fd
    BY <1>6 DEF ExtractFails
  <2>2. \A e \in Clients \ short' : e # c
    BY <2>1
  <2>3. \A e \in Clients : Connected(e) /\ e # c => desc[e] # fd
    BY <2>1 DEF DescriptorsInv
  <2>. QED BY <2>1, <2>2, <2>3 DEF LinesInv, Connected
<1>7. ASSUME NEW c \in Clients, NEW d \in Fds, Accept(c, d) PROVE LinesInv'
  <2>1. /\ pc = "scan" /\ pc' = "arrive" /\ short' = short
        /\ stock' = [stock EXCEPT ![d] = <<>>]
    BY <1>7 DEF Accept, Registered
  <2>2. /\ desc'[c] = d
        /\ \A e \in Clients : e # c => desc'[e] = desc[e]
        /\ \A e \in Clients : desc[e] # d
    BY <1>7, AcceptFacts
  <2>3. /\ stock'[d] = <<>>
        /\ \A e \in Clients : Connected(e) => stock'[desc[e]] = stock[desc[e]]
    BY <1>0, <2>1, <2>2 DEF Connected
  <2>. QED BY <2>1, <2>2, <2>3, NoLineInNothing DEF LinesInv, Connected
<1>. QED
  BY <1>1, <1>2, <1>3, <1>4, <1>5, <1>6, <1>7
  DEF Next, Server, Client, vars, Select, EndScan, AcceptFails, SendAllReturns, RecvEnd,
      JoinFails, Send, BrokenPipe, Connect, Write, Read, Disconnect

\* The invariant holds in every reachable state.
LEMMA Invariance == Spec => []IInv
<1>1. Init => IInv
  <2>1. Init => DescriptorsInv /\ HandlerInv /\ ScanInv /\ LinesInv
    BY DEF Init, DescriptorsInv, HandlerInv, ScanInv, LinesInv, Connected
  <2>2. Init => BacklogInv
    BY EmptySeq DEF Init, BacklogInv, Connected
  <2>. QED BY <2>1, <2>2, TypeInit DEF IInv
<1>2. IInv /\ [Next]_vars => IInv'
  BY TypeStep, DescriptorsStep, BacklogStep, HandlerStep, ScanStep, LinesStep DEF IInv
<1>. QED BY <1>1, <1>2, PTL DEF Spec

\* The types of all variables, for any number of clients and descriptors.
THEOREM TypeCorrect == Spec => []TypeOK
<1>1. IInv => TypeOK
  BY DEF IInv
<1>. QED BY <1>1, Invariance, PTL

\* recv is called on a descriptor only if it returns at once.
THEOREM ReceivesAtOnce == Spec => []RecvNeverBlocks
<1>1. IInv => RecvNeverBlocks
  BY DEF IInv, ScanInv, RecvNeverBlocks
<1>. QED BY <1>1, Invariance, PTL

\* No complete line stays in a stock while the server waits in select.
THEOREM LinesAreNotKept == Spec => []NoLineKeptBack
<1>1. IInv => NoLineKeptBack
  BY DEF IInv, LinesInv, NoLineKeptBack, Connected
<1>. QED BY <1>1, Invariance, PTL

-----------------------------------------------------------------------------
(***************************************************************************)
(* The loop implements the room.  A line is said, and an arrival or a      *)
(* departure announced, by the step that gives its strings to send_all;    *)
(* what send_all does then only moves them from Pending to told.           *)
(***************************************************************************)
Typed == [c \in Clients |-> Unsaid(c)]
Gone  == { c \in Clients : link[c] \in {"closed", "reset"} }
Heard == [c \in Clients |-> told[c] \o Pending(c)]

\* send_all sends to the connected clients but one
SendsToTheOthers ==
  \A c \in Clients : desc[c] \in Recipients <=> Connected(c) /\ desc[c] # except

LEMMA RecipientsAreOthers == TypeOK /\ DescriptorsInv => SendsToTheOthers
<1> SUFFICES ASSUME TypeOK, DescriptorsInv, NEW c \in Clients
             PROVE  desc[c] \in Recipients <=> Connected(c) /\ desc[c] # except
  BY DEF SendsToTheOthers
<1>1. desc[c] \in Fds \cup {NoFd} /\ active \subseteq 0 .. maxfd
  BY DEF TypeOK, SockFd
<1>2. desc[c] \in active /\ desc[c] # SockFd <=> Connected(c)
  <2>1. SockFd # NoFd /\ SockFd \notin Fds
    BY MiniServAssumption DEF Fds, SockFd, NoFd
  <2>. QED BY <1>1, <2>1 DEF DescriptorsInv, Connected
<1>. QED BY <1>1, <1>2 DEF Recipients

\* Strings given to send_all are heard by everybody in the room but one.
LEMMA Broadcast ==
  ASSUME TypeOK, TypeOK', NEW c \in Clients,
         out = <<>>, out' # <<>>, to' = 0, told' = told,
         \A d \in Clients : desc'[d] \in Recipients' <=> d \in here \ {c}
  PROVE  Heard' = [d \in Clients |-> IF d \in here \ {c} THEN Heard[d] \o out' ELSE Heard[d]]
<1>1. ASSUME NEW d \in Clients
      PROVE  Heard'[d] = IF d \in here \ {c} THEN Heard[d] \o out' ELSE Heard[d]
  <2>1. told[d] \in Seq(Room!Strings)
    BY DEF TypeOK
  <2>2. Heard[d] = told[d]
    BY <2>1, ConcatEmptySeq DEF Heard, Pending
  <2>3. CASE d \in here \ {c}
    <3>1. desc'[d] \in Recipients' /\ desc'[d] >= to'
      BY <2>3 DEF Recipients
    <3>2. Pending(d)' = out'
      BY <3>1 DEF Pending
    <3>. QED BY <2>2, <2>3, <3>2 DEF Heard
  <2>4. CASE d \notin here \ {c}
    <3>1. Pending(d)' = <<>>
      BY <2>4 DEF Pending
    <3>. QED BY <2>1, <2>2, <2>4, <3>1, ConcatEmptySeq DEF Heard
  <2>. QED BY <2>3, <2>4
<1>. QED BY <1>1 DEF Heard

\* What a step that leaves the sockets and the sending alone keeps.
LEMMA Stutters ==
  ASSUME UNCHANGED <<active, maxfd, next_id, stock, sending, desc, link, inbox, told, number, short>>,
         here' = here
  PROVE  UNCHANGED Room!vars
<1>1. UNCHANGED Typed
  BY DEF Typed, Unsaid
<1>2. UNCHANGED Heard
  BY DEF Heard, Pending, Recipients, sending
<1>. QED BY <1>1, <1>2 DEF Room!vars, Typed, Heard

\* Outside the handler of a departure the room holds whoever is connected.
LEMMA HereIsConnected ==
  ASSUME pc # "leave" PROVE here = { c \in Clients : Connected(c) }
BY DEF here, Connected

\* An accept is an entry: from then on the announcement is pending for the others.
LEMMA AcceptEnters ==
  ASSUME IInv, IInv', SendsToTheOthers', NEW c \in Clients, NEW d \in Fds, Accept(c, d)
  PROVE  Room!Enter(c)
<1> USE DEF scanning, sending, clients, sockets, ends
<1>1. /\ pc = "scan" /\ pc' = "arrive" /\ out = <<>>
      /\ out' = <<Room!Arrived(next_id)>> /\ except' = d /\ to' = 0
      /\ next_id' = next_id + 1 /\ number' = [number EXCEPT ![c] = next_id]
      /\ stock' = [stock EXCEPT ![d] = <<>>]
      /\ UNCHANGED <<inbox, link, told, short>>
  BY DEF Accept, Registered, IInv, HandlerInv
<1>2. /\ ~Connected(c) /\ number[c] = Room!NoNumber /\ desc'[c] = d /\ d # NoFd
      /\ \A e \in Clients : desc[e] # d
      /\ \A e \in Clients : e # c => desc'[e] = desc[e]
  BY AcceptFacts DEF IInv
<1>3. here' = here \cup {c} /\ c \notin here
  BY <1>1, <1>2 DEF here, Connected
<1>4. \A e \in Clients : desc'[e] \in Recipients' <=> e \in here \ {c}
  BY <1>1, <1>2 DEF SendsToTheOthers, here, Connected
<1>5. Heard' = [e \in Clients |-> IF e \in here \ {c} THEN Heard[e] \o out' ELSE Heard[e]]
  <2>1. out' # <<>>
    BY <1>1
  <2>. QED BY <1>1, <1>4, <2>1, Broadcast DEF IInv
<1>6. Typed' = Typed
  <2>1. ASSUME NEW e \in Clients PROVE Unsaid(e)' = Unsaid(e)
    <3>0. inbox[e] \in Seq(Chars) /\ desc[e] \in Fds \cup {NoFd} /\ stock \in [Fds -> Seq(Chars)]
      BY DEF IInv, TypeOK
    <3>1. CASE e = c
      <4>1. Unsaid(e)' = stock'[d] \o inbox[e]
        BY <1>1, <1>2, <1>3, <3>1 DEF Unsaid
      <4>2. stock'[d] = <<>>
        BY <1>1, <3>0
      <4>3. Unsaid(e)' = inbox[e]
        BY <3>0, <4>1, <4>2, ConcatEmptySeq
      <4>. QED BY <1>3, <3>1, <4>3 DEF Unsaid
    <3>2. CASE e # c /\ e \in here
      <4>1. stock'[desc[e]] = stock[desc[e]]
        BY <1>1, <1>2, <3>0, <3>2 DEF here, Connected
      <4>2. desc'[e] = desc[e] /\ e \in here'
        BY <1>2, <1>3, <3>2
      <4>3. Unsaid(e)' = stock'[desc'[e]] \o inbox'[e]
        BY <4>2 DEF Unsaid
      <4>4. Unsaid(e) = stock[desc[e]] \o inbox[e]
        BY <3>2 DEF Unsaid
      <4>5. inbox' = inbox
        BY <1>1
      <4>. QED BY <4>1, <4>2, <4>3, <4>4, <4>5
    <3>3. CASE e # c /\ e \notin here
      BY <1>1, <1>3, <3>3 DEF Unsaid
    <3>. QED BY <3>1, <3>2, <3>3
  <2>. QED BY <2>1 DEF Typed
<1>. QED
  BY <1>1, <1>2, <1>3, <1>5, <1>6 DEF Room!Enter, Room!Told, Typed, Heard

\* The end of a connection is its departure, which no complete line is left behind by.
LEMMA EndLeaves ==
  ASSUME IInv, IInv', SendsToTheOthers', NEW c \in Clients, RecvEnd(c)
  PROVE  Room!Leave(c)
<1> USE DEF scanning, sending, clients, sockets, ends
<1>1. /\ pc = "scan" /\ pc' = "leave" /\ fd' = desc[c] /\ out = <<>>
      /\ out' = <<Room!Left(ids[desc[c]])>> /\ except' = desc[c] /\ to' = 0
      /\ AtEnd(c)
      /\ UNCHANGED <<next_id, number, stock, inbox, link, told, short, desc>>
  BY DEF RecvEnd, IInv, HandlerInv
<1>2. Connected(c) /\ desc[c] \in Fds
  BY ComesToClient DEF RecvEnd, IInv
<1>3. \A e \in Clients : e # c => desc[e] # desc[c]
  BY <1>2 DEF IInv, DescriptorsInv
<1>4. here' = here \ {c} /\ c \in here
  BY <1>1, <1>2, <1>3 DEF here, Connected
<1>5. \A e \in Clients : desc'[e] \in Recipients' <=> e \in here \ {c}
  BY <1>1, <1>3 DEF SendsToTheOthers, here, Connected
<1>6. Heard' = [e \in Clients |-> IF e \in here \ {c} THEN Heard[e] \o out' ELSE Heard[e]]
  <2>1. out' # <<>>
    BY <1>1
  <2>. QED BY <1>1, <1>5, <2>1, Broadcast DEF IInv
<1>7. number[c] = ids[desc[c]]
  BY <1>2 DEF IInv, DescriptorsInv
<1>8. inbox[c] = <<>> /\ stock[desc[c]] \in Seq(Chars)
  BY <1>1, <1>2 DEF AtEnd, IInv, TypeOK
<1>9. Typed[c] = stock[desc[c]]
  BY <1>4, <1>8, ConcatEmptySeq DEF Typed, Unsaid
<1>10. Room!HasLine(Typed[c]) => c \in short
  BY <1>1, <1>2, <1>9 DEF IInv, LinesInv
<1>11. Typed' = [Typed EXCEPT ![c] = <<>>]
  BY <1>1, <1>4, <1>8 DEF Typed, Unsaid
<1>12. c \in Gone /\ Gone' = Gone
  BY <1>1 DEF Gone, AtEnd
<1>. QED
  BY <1>1, <1>4, <1>6, <1>7, <1>10, <1>11, <1>12
  DEF Room!Leave, Room!Told, Typed, Heard, Gone

\* An extraction says the first line of what its author typed.
LEMMA ExtractSays ==
  ASSUME IInv, IInv', SendsToTheOthers', Extract
  PROVE  \E c \in Clients : Room!Say(c)
<1> USE DEF scanning, sending, clients, sockets, ends
<1>1. /\ pc = "line" /\ pc' = "line" /\ fd' = fd /\ out = <<>>
      /\ Room!HasLine(stock[fd])
      /\ out' = <<Room!ClientIs(ids[fd]), Room!Line(Room!FirstLine(stock[fd]))>>
      /\ except' = fd /\ to' = 0
      /\ stock' = [stock EXCEPT ![fd] = Room!AfterLine(@)]
      /\ UNCHANGED <<next_id, number, inbox, link, told, short, desc>>
  BY DEF Extract
<1>2. PICK c \in Clients : Connected(c) /\ desc[c] = fd
  BY <1>1 DEF IInv, HandlerInv
<1>3. \A e \in Clients : e # c => desc[e] # fd
  BY <1>2 DEF IInv, DescriptorsInv
<1>4. /\ inbox \in [Clients -> Seq(Chars)] /\ fd \in Fds
      /\ stock \in [Fds -> Seq(Chars)] /\ desc \in [Clients -> Fds \cup {NoFd}]
  BY <1>2 DEF IInv, TypeOK, Connected
<1>5. here' = here /\ c \in here
  BY <1>1, <1>2 DEF here, Connected
<1>6. Typed[c] = stock[fd] \o inbox[c]
  BY <1>2, <1>5 DEF Typed, Unsaid
<1>7. /\ Room!HasLine(Typed[c])
      /\ Room!FirstLine(Typed[c]) = Room!FirstLine(stock[fd])
      /\ Room!AfterLine(Typed[c]) = Room!AfterLine(stock[fd]) \o inbox[c]
  <2>1. stock[fd] \in Seq(Chars) /\ inbox[c] \in Seq(Chars)
    BY <1>4
  <2>2. /\ Room!HasLine(stock[fd] \o inbox[c])
        /\ Room!FirstLine(stock[fd] \o inbox[c]) = Room!FirstLine(stock[fd])
        /\ Room!AfterLine(stock[fd] \o inbox[c]) = Room!AfterLine(stock[fd]) \o inbox[c]
    BY <1>1, <2>1, LineOfPrefix
  <2>. QED BY <1>6, <2>2
<1>8. Typed' = [Typed EXCEPT ![c] = Room!AfterLine(@)]
  <2>1. Unsaid(c)' = Room!AfterLine(stock[fd]) \o inbox[c]
    <3>1. stock'[fd] = Room!AfterLine(stock[fd])
      BY <1>1, <1>4
    <3>. QED BY <1>1, <1>2, <1>5, <3>1 DEF Unsaid
  <2>2. ASSUME NEW e \in Clients, e # c PROVE Unsaid(e)' = Unsaid(e)
    <3>1. e \in here => stock'[desc[e]] = stock[desc[e]]
      BY <1>1, <1>3, <1>4, <2>2 DEF here, Connected
    <3>. QED BY <1>1, <1>5, <3>1 DEF Unsaid
  <2>3. Typed' = [e \in Clients |-> IF e = c THEN Room!AfterLine(Typed[c]) ELSE Typed[e]]
    BY <1>7, <2>1, <2>2 DEF Typed
  <2>4. Typed = [e \in Clients |-> Typed[e]]
    BY DEF Typed
  <2>. QED BY <2>3, <2>4
<1>9. \A e \in Clients : desc'[e] \in Recipients' <=> e \in here \ {c}
  BY <1>1, <1>2, <1>3 DEF SendsToTheOthers, here, Connected
<1>10. Heard' = [e \in Clients |-> IF e \in here \ {c} THEN Heard[e] \o out' ELSE Heard[e]]
  <2>1. out' # <<>>
    BY <1>1
  <2>. QED BY <1>1, <1>9, <2>1, Broadcast DEF IInv
<1>11. number[c] = ids[fd]
  BY <1>2 DEF IInv, DescriptorsInv
<1>12. Room!Say(c)
  BY <1>1, <1>5, <1>7, <1>8, <1>10, <1>11 DEF Room!Say, Room!Told, Typed, Heard
<1>. QED BY <1>12

\* Text joined in two pieces is joined in one.
LEMMA TextsAssociate ==
  ASSUME NEW p \in Seq(Chars), NEW q \in Seq(Chars), NEW r \in Seq(Chars)
  PROVE  (p \o q) \o r = p \o (q \o r)
OBVIOUS

\* What is typed behind a text that is joined later comes last all the same.
LEMMA TextsAppend ==
  ASSUME NEW p \in Seq(Chars), NEW q \in Seq(Chars), NEW x \in Chars
  PROVE  p \o Append(q, x) = Append(p \o q, x)
OBVIOUS

\* recv and str_join move text from the socket to the stock: nobody hears of it.
LEMMA RecvTextStutters ==
  ASSUME IInv, NEW c \in Clients, RecvText(c)
  PROVE  UNCHANGED Room!vars
<1> USE DEF scanning, sending, clients, sockets, ends
<1>1. /\ pc = "scan" /\ pc' = "line" /\ out = <<>> /\ out' = <<>>
      /\ stock' = [stock EXCEPT ![desc[c]] = @ \o SubSeq(inbox[c], 1, Received(c))]
      /\ inbox' = [inbox EXCEPT ![c] = SubSeq(@, Received(c) + 1, Len(@))]
      /\ UNCHANGED <<next_id, number, link, told, short, desc>>
  BY DEF RecvText, IInv, HandlerInv
<1>2. Connected(c) /\ desc[c] \in Fds
  BY ComesToClient DEF RecvText, IInv
<1>3. \A e \in Clients : e # c => desc[e] # desc[c]
  BY <1>2 DEF IInv, DescriptorsInv
<1>4. /\ inbox \in [Clients -> Seq(Chars)]
      /\ stock \in [Fds -> Seq(Chars)] /\ desc \in [Clients -> Fds \cup {NoFd}]
  BY DEF IInv, TypeOK
<1>5. here' = here /\ c \in here
  BY <1>1, <1>2 DEF here, Connected
<1>6. UNCHANGED Heard
  BY <1>1 DEF Heard, Pending
<1>7. ASSUME NEW e \in Clients PROVE Unsaid(e)' = Unsaid(e)
  <2>1. CASE e = c
    <3> DEFINE a == SubSeq(inbox[c], 1, Received(c))
               b == SubSeq(inbox[c], Received(c) + 1, Len(inbox[c]))
               s == stock[desc[c]]
    <3>1. a \in Seq(Chars) /\ b \in Seq(Chars) /\ a \o b = inbox[c] /\ s \in Seq(Chars)
      BY <1>2, <1>4, Parts
    <3>2. stock'[desc[c]] = s \o a /\ inbox'[c] = b
      BY <1>1, <1>2, <1>4
    <3> HIDE DEF a, b, s
    <3>3. (s \o a) \o b = s \o (a \o b)
      BY <3>1, TextsAssociate
    <3>4. Unsaid(c) = s \o inbox[c] /\ Unsaid(c)' = (s \o a) \o b
      BY <1>1, <1>5, <3>2 DEF Unsaid, s
    <3>. QED BY <2>1, <3>1, <3>3, <3>4
  <2>2. CASE e # c
    <3>1. inbox'[e] = inbox[e] /\ desc' = desc
      BY <1>1, <1>4, <2>2
    <3>2. e \in here => stock'[desc[e]] = stock[desc[e]]
      BY <1>1, <1>3, <1>4, <2>2 DEF here, Connected
    <3>. QED BY <1>5, <3>1, <3>2 DEF Unsaid
  <2>. QED BY <2>1, <2>2
<1>8. UNCHANGED Typed
  BY <1>7 DEF Typed
<1>. QED BY <1>1, <1>5, <1>6, <1>8 DEF Room!vars, Typed, Heard

\* The departure was already told: closing the descriptor changes nothing in the room.
LEMMA CloseStutters ==
  ASSUME IInv, NEW c \in Clients, Close(c)
  PROVE  UNCHANGED Room!vars
<1> USE DEF scanning, sending, clients, sockets, ends
<1>1. /\ pc = "leave" /\ pc' = "scan" /\ out = <<>> /\ out' = <<>> /\ desc[c] = fd
      /\ desc' = [desc EXCEPT ![c] = NoFd]
      /\ UNCHANGED <<next_id, number, stock, inbox, link, told, short>>
  BY DEF Close
<1>2. \A e \in Clients : desc'[e] = IF e = c THEN NoFd ELSE desc[e]
  BY <1>1 DEF IInv, TypeOK
<1>3. \A e \in Clients : Connected(e) /\ e # c => desc[e] # fd
  BY <1>1 DEF IInv, DescriptorsInv, Connected
<1>4. here' = here /\ c \notin here
  BY <1>1, <1>2, <1>3 DEF here, Connected
<1>5. UNCHANGED Heard
  BY <1>1 DEF Heard, Pending
<1>6. UNCHANGED Typed
  <2>1. \A e \in here : desc'[e] = desc[e]
    BY <1>2, <1>4 DEF here
  <2>2. ASSUME NEW e \in Clients PROVE Unsaid(e)' = Unsaid(e)
    BY <1>1, <1>4, <2>1 DEF Unsaid
  <2>. QED BY <2>2 DEF Typed
<1>. QED BY <1>1, <1>4, <1>5, <1>6 DEF Room!vars, Typed, Heard

\* One send moves the string from what is pending for c to what c was told.
LEMMA SendStutters ==
  ASSUME IInv, NEW c \in Clients, Send(c)
  PROVE  UNCHANGED Room!vars
<1> USE DEF scanning, sending, clients, sockets, ends
<1>1. /\ out # <<>> /\ desc[c] \in Recipients /\ to <= desc[c] /\ to' = desc[c] + 1
      /\ \A e \in Recipients : ~(to <= e /\ e < desc[c])
      /\ told' = [told EXCEPT ![c] = Append(@, Head(out))]
      /\ UNCHANGED <<pc, fd, active, maxfd, next_id, stock, out, except, desc, inbox,
                     short, number>>
  BY DEF Send, Sends
<1>2. /\ told \in [Clients -> Seq(Room!Strings)] /\ out \in Seq(Room!Strings)
      /\ desc \in [Clients -> Fds \cup {NoFd}] /\ to \in Int /\ maxfd \in Int
      /\ Recipients \subseteq Int
  BY DEF IInv, TypeOK, Recipients, SockFd
<1>3. here' = here /\ Recipients' = Recipients
  BY <1>1 DEF here, Recipients
<1>4. Gone' = Gone
  <2>1. link \in [Clients -> {"none", "open", "closed", "reset"}]
    BY DEF IInv, TypeOK
  <2>2. \/ link' = link
        \/ link[c] = "closed" /\ \E l \in {"closed", "reset"} : link' = [link EXCEPT ![c] = l]
    BY DEF Send
  <2>. QED BY <2>1, <2>2 DEF Gone
<1>5. desc[c] # NoFd
  BY <1>1, MiniServAssumption DEF Recipients, NoFd
<1>6. ASSUME NEW d \in Clients PROVE Heard'[d] = Heard[d]
  <2>1. CASE d = c
    <3>0. desc[c] \in Int /\ desc[c] >= to /\ ~(desc[c] >= to')
      <4>1. desc[c] \in Int
        BY <1>1, <1>2
      <4>2. to \in Int /\ to <= desc[c] /\ to' = desc[c] + 1
        BY <1>1, <1>2
      <4>. QED BY <4>1, <4>2
    <3>1. Pending(c) = out /\ Pending(c)' = Tail(out)
      BY <1>1, <1>3, <3>0 DEF Pending
    <3>2. told'[c] = Append(told[c], Head(out))
      BY <1>1, <1>2
    <3>3. Head(out) \in Room!Strings /\ Tail(out) \in Seq(Room!Strings) /\ told[c] \in Seq(Room!Strings)
      BY <1>1, <1>2, HeadTailProperties
    <3>4. Append(told[c], Head(out)) \o Tail(out) = told[c] \o out
      BY <1>1, <1>2, <3>3, AppendHeadTail
    <3>. QED BY <2>1, <3>1, <3>2, <3>4 DEF Heard
  <2>2. CASE d # c
    <3>1. told'[d] = told[d]
      BY <1>1, <1>2, <2>2
    <3>2. desc[d] # desc[c]
      BY <1>5, <2>2 DEF IInv, DescriptorsInv, Connected
    <3>3. desc[d] \in Recipients => (desc[d] >= to <=> desc[d] >= desc[c] + 1)
      <4>1. desc[c] \in Int
        BY <1>1, <1>2
      <4>2. desc[d] \in Recipients =>
              desc[d] \in Int /\ ~(to <= desc[d] /\ desc[d] < desc[c])
        BY <1>1, <1>2
      <4>3. to \in Int /\ to <= desc[c]
        BY <1>1, <1>2
      <4>. QED BY <3>2, <4>1, <4>2, <4>3
    <3>4. Pending(d)' = Pending(d)
      BY <1>1, <1>3, <3>3 DEF Pending
    <3>. QED BY <3>1, <3>4 DEF Heard
  <2>. QED BY <2>1, <2>2
<1>7. UNCHANGED Heard
  BY <1>6 DEF Heard
<1>8. UNCHANGED Typed
  BY <1>1, <1>3 DEF Typed, Unsaid
<1>. QED BY <1>1, <1>3, <1>4, <1>7, <1>8 DEF Room!vars, Typed, Heard, Gone

\* When a string went to everybody, the next is pending for everybody.
LEMMA SendAllReturnsStutters ==
  ASSUME IInv, SendAllReturns
  PROVE  UNCHANGED Room!vars
<1> USE DEF scanning, sending, clients, sockets, ends
<1>1. /\ out # <<>> /\ out' = Tail(out) /\ to' = 0
      /\ \A e \in Recipients : e < to
      /\ (pc' = pc) \/ (pc = "arrive" /\ pc' = "scan")
      /\ UNCHANGED <<fd, active, maxfd, next_id, stock, except, desc, link, inbox, told,
                     short, number>>
  <2>1. pc' = IF pc = "arrive" /\ Len(out) = 1 THEN "scan" ELSE pc
    BY DEF SendAllReturns
  <2>2. (pc' = pc) \/ (pc = "arrive" /\ pc' = "scan")
    <3>1. CASE pc = "arrive" /\ Len(out) = 1
      BY <2>1, <3>1
    <3>2. CASE ~(pc = "arrive" /\ Len(out) = 1)
      BY <2>1, <3>2
    <3>. QED BY <3>1, <3>2
  <2>. QED BY <2>2 DEF SendAllReturns
<1>2. Recipients \subseteq 0 .. maxfd /\ Recipients' = Recipients /\ to \in Int /\ maxfd \in Int
  BY <1>1 DEF Recipients, IInv, TypeOK, SockFd
<1>3. ASSUME NEW d \in Clients PROVE Pending(d)' = Pending(d)
  <2>1. desc[d] \in Recipients => desc[d] >= 0 /\ ~(desc[d] >= to)
    <3>1. desc[d] \in Recipients => desc[d] \in 0 .. maxfd /\ desc[d] < to
      BY <1>1, <1>2
    <3>. QED BY <1>2, <3>1
  <2>2. Pending(d) = IF desc[d] \in Recipients THEN Tail(out) ELSE <<>>
    BY <1>1, <2>1 DEF Pending
  <2>3. Pending(d)' = IF desc[d] \in Recipients THEN Tail(out) ELSE <<>>
    BY <1>1, <1>2, <2>1 DEF Pending
  <2>. QED BY <2>2, <2>3
<1>4. here' = here
  BY <1>1 DEF here
<1>5. UNCHANGED Heard
  BY <1>1, <1>3 DEF Heard
<1>6. UNCHANGED Typed
  BY <1>1, <1>4 DEF Typed, Unsaid
<1>. QED BY <1>1, <1>4, <1>5, <1>6 DEF Room!vars, Typed, Heard

\* A character written to a socket is typed in the room.
LEMMA WriteTypes ==
  ASSUME IInv, NEW c \in Clients, NEW x \in Chars, Write(c, x)
  PROVE  Room!Type(c, x)
<1> USE DEF scanning, sending, clients, sockets, ends
<1>1. /\ link[c] = "open" /\ inbox' = [inbox EXCEPT ![c] = Append(@, x)]
      /\ UNCHANGED <<pc, fd, active, maxfd, next_id, stock, out, except, to, desc, link, told,
                     short, number>>
  BY DEF Write
<1>2. /\ inbox \in [Clients -> Seq(Chars)]
      /\ stock \in [Fds -> Seq(Chars)] /\ desc \in [Clients -> Fds \cup {NoFd}]
  BY DEF IInv, TypeOK
<1>3. here' = here
  BY <1>1 DEF here
<1>4. UNCHANGED Heard
  BY <1>1 DEF Heard, Pending, Recipients
<1>5. Unsaid(c)' = Append(Unsaid(c), x)
  <2>1. inbox'[c] = Append(inbox[c], x)
    BY <1>1, <1>2
  <2>2. CASE c \in here
    <3>0. desc[c] \in Fds
      BY <1>2, <2>2 DEF here
    <3>1. stock[desc[c]] \in Seq(Chars) /\ inbox[c] \in Seq(Chars)
      BY <1>2, <3>0
    <3>2. stock[desc[c]] \o Append(inbox[c], x) = Append(stock[desc[c]] \o inbox[c], x)
      BY <3>1, TextsAppend
    <3>. QED BY <1>1, <1>3, <2>1, <2>2, <3>2 DEF Unsaid
  <2>3. CASE c \notin here
    BY <1>3, <2>1, <2>3 DEF Unsaid
  <2>. QED BY <2>2, <2>3
<1>6. ASSUME NEW e \in Clients, e # c PROVE Unsaid(e)' = Unsaid(e)
  <2>1. inbox'[e] = inbox[e]
    BY <1>1, <1>2, <1>6
  <2>. QED BY <1>1, <1>3, <2>1 DEF Unsaid
<1>7. Typed' = [Typed EXCEPT ![c] = Append(@, x)]
  BY <1>5, <1>6 DEF Typed
<1>8. c \notin Gone /\ Gone' = Gone
  BY <1>1 DEF Gone
<1>. QED BY <1>1, <1>3, <1>4, <1>7, <1>8 DEF Room!Type, Typed, Heard, Gone

-----------------------------------------------------------------------------
\* Every step of the server and of its clients is one of the room, or none.
LEMMA RoomStep ==
  IInv /\ IInv' /\ SendsToTheOthers' /\ [Next]_vars => [Room!Next]_Room!vars
<1> SUFFICES ASSUME IInv, IInv', SendsToTheOthers', [Next]_vars
             PROVE  [Room!Next]_Room!vars
  OBVIOUS
<1> USE DEF scanning, sending, clients, sockets, ends
<1>1. CASE \/ Select \/ EndScan \/ AcceptFails \/ LinesDone \/ UNCHANGED vars
           \/ \E c \in Clients : JoinFails(c) \/ BrokenPipe(c) \/ Read(c)
  <2> DEFINE Kept ==
        UNCHANGED <<active, maxfd, next_id, stock, out, except, to, desc, link, inbox, told,
                    number, short>>
      Stays == UNCHANGED <<pc, fd>>
      Turns == pc # "leave" /\ pc' # "leave"
  <2>1. Kept /\ (Stays \/ Turns)
    <3>1. CASE Select
      BY <3>1 DEF Select
    <3>2. CASE EndScan
      BY <3>2 DEF EndScan
    <3>3. CASE AcceptFails
      BY <3>3 DEF AcceptFails
    <3>4. CASE LinesDone
      BY <3>4 DEF LinesDone
    <3>5. CASE UNCHANGED vars
      BY <3>5 DEF vars
    <3>6. ASSUME NEW c \in Clients, JoinFails(c) PROVE Kept /\ Stays
      BY <3>6 DEF JoinFails
    <3>7. ASSUME NEW c \in Clients, BrokenPipe(c) PROVE Kept /\ Stays
      BY <3>7 DEF BrokenPipe
    <3>8. ASSUME NEW c \in Clients, Read(c) PROVE Kept /\ Stays
      BY <3>8 DEF Read
    <3>. QED BY <1>1, <3>1, <3>2, <3>3, <3>4, <3>5, <3>6, <3>7, <3>8
  <2>2. here' = here
    BY <2>1 DEF here
  <2>. QED BY <2>1, <2>2, Stutters
<1>2. CASE Extract
  BY <1>2, ExtractSays DEF Room!Next
<1>3. CASE SendAllReturns
  BY <1>3, SendAllReturnsStutters
<1>4. ASSUME NEW c \in Clients, RecvEnd(c) PROVE [Room!Next]_Room!vars
  BY <1>4, EndLeaves DEF Room!Next
<1>5. ASSUME NEW c \in Clients, Close(c) PROVE [Room!Next]_Room!vars
  BY <1>5, CloseStutters
<1>6. ASSUME NEW c \in Clients, RecvText(c) PROVE [Room!Next]_Room!vars
  BY <1>6, RecvTextStutters
<1>7. ASSUME NEW c \in Clients, ExtractFails(c) PROVE [Room!Next]_Room!vars
  <2>1. /\ short' = short \cup {c} /\ pc = "line" /\ pc' = "scan"
        /\ UNCHANGED <<fd, active, maxfd, next_id, stock, out, except, to, desc, link,
                       inbox, told, number>>
    BY <1>7 DEF ExtractFails
  <2>2. here' = here
    BY <2>1 DEF here
  <2>3. UNCHANGED Typed
    BY <2>1, <2>2 DEF Typed, Unsaid
  <2>4. UNCHANGED Heard
    BY <2>1 DEF Heard, Pending, Recipients
  <2>5. Room!RunShort(c)
    BY <2>1, <2>2, <2>3, <2>4 DEF Room!RunShort, Typed, Heard
  <2>. QED BY <2>5 DEF Room!Next
<1>8. ASSUME NEW c \in Clients, Send(c) PROVE [Room!Next]_Room!vars
  BY <1>8, SendStutters
<1>9. ASSUME NEW c \in Clients, NEW d \in Fds, Accept(c, d) PROVE [Room!Next]_Room!vars
  BY <1>9, AcceptEnters DEF Room!Next
<1>10. ASSUME NEW c \in Clients, NEW x \in Chars, Write(c, x) PROVE [Room!Next]_Room!vars
  BY <1>10, WriteTypes DEF Room!Next
<1>11. ASSUME NEW c \in Clients, Connect(c) \/ Disconnect(c) PROVE [Room!Next]_Room!vars
  <2>1. /\ \/ link[c] = "none" /\ link' = [link EXCEPT ![c] = "open"]
           \/ link' = [link EXCEPT ![c] = "closed"]
        /\ UNCHANGED <<pc, fd, active, maxfd, next_id, stock, out, except, to, desc,
                       inbox, told, number, short>>
    BY <1>11 DEF Connect, Disconnect
  <2>2. here' = here
    BY <2>1 DEF here
  <2>3. UNCHANGED Typed
    BY <2>1, <2>2 DEF Typed, Unsaid
  <2>4. UNCHANGED Heard
    BY <2>1 DEF Heard, Pending, Recipients
  <2>5. Gone' = Gone \/ Gone' = Gone \cup {c}
    <3>1. link \in [Clients -> {"none", "open", "closed", "reset"}]
      BY DEF IInv, TypeOK
    <3>2. CASE link[c] = "none" /\ link' = [link EXCEPT ![c] = "open"]
      BY <3>1, <3>2 DEF Gone
    <3>3. CASE link' = [link EXCEPT ![c] = "closed"]
      BY <3>1, <3>3 DEF Gone
    <3>. QED BY <2>1, <3>2, <3>3
  <2>6. UNCHANGED Room!vars \/ Room!HangUp(c)
    BY <2>1, <2>2, <2>3, <2>4, <2>5 DEF Room!vars, Room!HangUp, Typed, Heard, Gone
  <2>. QED BY <2>6 DEF Room!Next
<1>. QED
  BY <1>1, <1>2, <1>3, <1>4, <1>5, <1>6, <1>7, <1>8, <1>9, <1>10, <1>11
  DEF Next, Server, Client

\* mini_serv.c implements the room: whatever the number of clients and the way their
\* text is cut up, each complete line is told to all others once, whole, in order
\* and under its author's number.
THEOREM Implementation == Spec => ImplementsRoom
<1>1. Init => Room!Init
  <2>1. Init => Heard = [c \in Clients |-> <<>>] /\ Typed = [c \in Clients |-> <<>>]
    <3> SUFFICES ASSUME Init PROVE Heard = [c \in Clients |-> <<>>] /\ Typed = [c \in Clients |-> <<>>]
      OBVIOUS
    <3>1. <<>> \o <<>> = <<>>
      BY EmptySeq, ConcatEmptySeq
    <3>2. \A c \in Clients : told[c] = <<>> /\ Pending(c) = <<>> /\ Unsaid(c) = <<>>
      BY DEF Init, Pending, Unsaid, here
    <3>. QED BY <3>1, <3>2 DEF Heard, Typed
  <2>2. Init => here = {} /\ Gone = {}
    BY DEF Init, here, Gone
  <2>. QED BY <2>1, <2>2 DEF Init, Room!Init, Heard, Typed, Gone
<1>2. IInv => SendsToTheOthers
  BY RecipientsAreOthers DEF IInv
<1>. QED
  BY <1>1, <1>2, Invariance, RoomStep, PTL DEF Spec, ImplementsRoom, Room!Spec
=============================================================================
