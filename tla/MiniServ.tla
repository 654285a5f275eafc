------------------------------ MODULE MiniServ ------------------------------
(***************************************************************************)
(* exam-06/mini_serv.c: one select loop that serves the clients of a chat. *)
(*                                                                         *)
(* The server is one thread; a step is one system call with the code up to *)
(* the next, since only system calls see what the clients do meanwhile.    *)
(* Sockets are those of the operating system: a buffer in each direction,  *)
(* a queue of connections to accept, the lowest free descriptor for the    *)
(* next one, and SIGPIPE for who sends to a connection that was reset.     *)
(* Descriptors below sockfd are in no set and left out.  A character is    *)
(* NL or not; extract_message and str_join are ChatRoom's operators on     *)
(* lines and concatenation.                                                *)
(***************************************************************************)
EXTENDS Integers, Sequences, FiniteSets

CONSTANTS Clients, Chars, NL,
          LastFd,    \* the last descriptor the process may open
          BufSize,   \* the most one recv returns
          SockBuf,   \* strings a socket holds for a client that does not read
          Lazy,      \* clients that may never read
          MaxText    \* bound: characters a client types

SockFd == 0
Fds    == SockFd + 1 .. LastFd
NoFd   == -1

ASSUME MiniServAssumption ==
  /\ NL \in Chars
  /\ LastFd \in Nat
  /\ BufSize \in Nat \ {0}
  /\ SockBuf \in Nat \ {0}
  /\ Lazy \subseteq Clients
  /\ MaxText \in [Clients -> Nat]

VARIABLES
  up,       \* the process has not ended
  pc,       \* where main stands; "arrive", "leave" and "line" are in send_all
  fd,       \* the descriptor of the scan
  readset, active, maxfd, next_id, ids, stock,
  out,      \* strings to hand to send_all, the one being sent first
  except,   \* whom send_all leaves out
  to,       \* the descriptor send_all looks at next
  backlog,  \* connections not accepted yet
  desc,     \* desc[c]: the server's descriptor of c's connection
  link,     \* c's end of its connection
  inbox,    \* inbox[c]: characters sent by c and not received
  unread,   \* unread[c]: strings sent to c and not read
  written,  \* written[c]: characters typed so far
  short,    \* history: clients for whose line calloc has failed
  told,     \* history: what send has accepted for c
  number    \* history: the number announced for c

scanning == <<fd, readset>>
sending  == <<out, except, to>>
clients  == <<active, maxfd, next_id, ids>>
sockets  == <<backlog, desc>>
ends     == <<link, inbox, unread, written>>
vars == <<up, pc, scanning, clients, stock, sending, sockets, ends, short, told, number>>

here == { c \in Clients : desc[c] # NoFd /\ ~(pc = "leave" /\ desc[c] = fd) }

\* For a client d: what send_all has yet to send to it
Recipients == (active \ {SockFd, except}) \cap 0 .. maxfd
Pending(d) ==
  IF out = <<>> \/ desc[d] \notin Recipients THEN <<>>
  ELSE IF desc[d] >= to THEN out ELSE Tail(out)

\* What c has typed and send_all has not been given
Unsaid(c) == IF c \in here THEN stock[desc[c]] \o inbox[c] ELSE inbox[c]

Room == INSTANCE ChatRoom WITH
  next  <- next_id,
  typed <- [c \in Clients |-> Unsaid(c)],
  gone  <- { c \in Clients : link[c] \in {"closed", "reset"} },
  heard <- [c \in Clients |-> told[c] \o Pending(c)]

-----------------------------------------------------------------------------
Init ==
  /\ up = TRUE
  /\ pc = "select"
  /\ fd = SockFd
  /\ readset = {} /\ active = {SockFd} /\ maxfd = SockFd /\ next_id = 0
  /\ ids   = [d \in Fds |-> 0]
  /\ stock = [d \in Fds |-> <<>>]
  /\ out = <<>> /\ except = NoFd /\ to = 0
  /\ backlog = <<>>
  /\ desc    = [c \in Clients |-> NoFd]
  /\ link    = [c \in Clients |-> "none"]
  /\ inbox   = [c \in Clients |-> <<>>]
  /\ unread  = [c \in Clients |-> 0]
  /\ written = [c \in Clients |-> 0]
  /\ short = {}
  /\ told    = [c \in Clients |-> <<>>]
  /\ number  = [c \in Clients |-> Room!NoNumber]

-----------------------------------------------------------------------------
(***************************************************************************)
(* select and the scan.                                                    *)
(***************************************************************************)
AtEnd(c) == inbox[c] = <<>> /\ link[c] \in {"closed", "reset"}

\* Mutants: select reports everything, or only connections with text
EverythingReady == active
TextReady ==
  { d \in active \cap 0 .. maxfd :
      \/ d = SockFd /\ backlog # <<>>
      \/ \E c \in Clients : desc[c] = d /\ inbox[c] # <<>> }

Ready ==
  { d \in active \cap 0 .. maxfd :
      \/ d = SockFd /\ backlog # <<>>
      \/ \E c \in Clients : desc[c] = d /\ (inbox[c] # <<>> \/ AtEnd(c)) }

Select ==
  /\ pc = "select"
  /\ Ready # {}
  /\ readset' = Ready
  /\ fd' = SockFd - 1
  /\ pc' = "scan"
  /\ UNCHANGED <<up, clients, stock, sending, sockets, ends, short, told, number>>

\* d is the next descriptor of readset the loop comes to
Comes(d) ==
  /\ d \in readset /\ fd < d /\ d <= maxfd
  /\ \A e \in readset : ~(fd < e /\ e < d)

EndScan ==
  /\ pc = "scan"
  /\ \A d \in readset : ~(fd < d /\ d <= maxfd)
  /\ pc' = "select"
  /\ UNCHANGED <<up, scanning, clients, stock, sending, sockets, ends, short, told, number>>

-----------------------------------------------------------------------------
(***************************************************************************)
(* A connection: accept returns the lowest descriptor that is not open, or *)
(* -1 when the process or the system has none left.                        *)
(***************************************************************************)
Open == { desc[c] : c \in Clients }

AcceptFails ==
  /\ pc = "scan" /\ Comes(SockFd)
  /\ fd' = SockFd
  /\ UNCHANGED <<up, pc, readset, clients, stock, sending, sockets, ends, short, told, number>>

\* Mutants: maxfd or the stock of the last client is forgotten
WithoutMaxfd(d) ==
  /\ active' = active \cup {d}
  /\ maxfd' = maxfd
  /\ ids' = [ids EXCEPT ![d] = next_id]
  /\ next_id' = next_id + 1
  /\ stock' = [stock EXCEPT ![d] = <<>>]
StockKept(d) ==
  /\ active' = active \cup {d}
  /\ maxfd' = IF d > maxfd THEN d ELSE maxfd
  /\ ids' = [ids EXCEPT ![d] = next_id]
  /\ next_id' = next_id + 1
  /\ stock' = stock

Registered(d) ==
  /\ active' = active \cup {d}
  /\ maxfd' = IF d > maxfd THEN d ELSE maxfd
  /\ ids' = [ids EXCEPT ![d] = next_id]
  /\ next_id' = next_id + 1
  /\ stock' = [stock EXCEPT ![d] = <<>>]

Accept(c, d) ==
  /\ pc = "scan" /\ Comes(SockFd)
  /\ backlog # <<>> /\ c = Head(backlog)
  /\ d \notin Open /\ \A e \in Fds \ Open : d <= e
  /\ fd' = SockFd
  /\ backlog' = Tail(backlog)
  /\ desc' = [desc EXCEPT ![c] = d]
  /\ Registered(d)
  /\ number' = [number EXCEPT ![c] = next_id]
  /\ out' = <<Room!Arrived(next_id)>> /\ except' = d /\ to' = 0
  /\ pc' = "arrive"
  /\ UNCHANGED <<up, readset, ends, short, told>>

(***************************************************************************)
(* recv returns 0 or -1: the others are told, then the descriptor closed.  *)
(* stock[fd] is freed and keeps its stale pointer.                         *)
(***************************************************************************)
RecvEnd(c) ==
  /\ pc = "scan" /\ Comes(desc[c])
  /\ AtEnd(c)
  /\ fd' = desc[c]
  /\ out' = <<Room!Left(ids[desc[c]])>> /\ except' = desc[c] /\ to' = 0
  /\ pc' = "leave"
  /\ UNCHANGED <<up, readset, clients, stock, sockets, ends, short, told, number>>

Close(c) ==
  /\ pc = "leave" /\ out = <<>> /\ desc[c] = fd
  /\ active' = active \ {fd}
  /\ desc' = [desc EXCEPT ![c] = NoFd]
  /\ pc' = "scan"
  /\ UNCHANGED <<up, scanning, maxfd, next_id, ids, stock, sending, backlog, ends, short, told, number>>

(***************************************************************************)
(* recv returns text: it is joined to what is left of the last line, and   *)
(* every complete line is sent.  A failed malloc of str_join ends the      *)
(* program, a failed calloc of extract_message only ends the loop.         *)
(***************************************************************************)
Received(c) == IF Len(inbox[c]) < BufSize THEN Len(inbox[c]) ELSE BufSize

RecvText(c) ==
  /\ pc = "scan" /\ Comes(desc[c])
  /\ inbox[c] # <<>>
  /\ fd' = desc[c]
  /\ stock' = [stock EXCEPT ![desc[c]] = @ \o SubSeq(inbox[c], 1, Received(c))]
  /\ inbox' = [inbox EXCEPT ![c] = SubSeq(@, Received(c) + 1, Len(@))]
  /\ pc' = "line"
  /\ UNCHANGED <<up, readset, clients, sending, sockets, link, unread, written, short, told, number>>

JoinFails(c) ==
  /\ pc = "scan" /\ Comes(desc[c])
  /\ inbox[c] # <<>>
  /\ up' = FALSE
  /\ UNCHANGED <<pc, scanning, clients, stock, sending, sockets, ends, short, told, number>>

Extract ==
  /\ pc = "line" /\ out = <<>>
  /\ Room!HasLine(stock[fd])
  /\ out' = <<Room!ClientIs(ids[fd]), Room!Line(Room!FirstLine(stock[fd]))>>
  /\ except' = fd /\ to' = 0
  /\ stock' = [stock EXCEPT ![fd] = Room!AfterLine(@)]
  /\ UNCHANGED <<up, pc, scanning, clients, sockets, ends, short, told, number>>

\* Mutant: if instead of while
OneLineOnly ==
  /\ pc = "line" /\ out = <<>>
  /\ pc' = "scan"
  /\ UNCHANGED <<up, scanning, clients, stock, sending, sockets, ends, short, told, number>>

LinesDone ==
  /\ pc = "line" /\ out = <<>>
  /\ ~Room!HasLine(stock[fd])
  /\ pc' = "scan"
  /\ UNCHANGED <<up, scanning, clients, stock, sending, sockets, ends, short, told, number>>

ExtractFails(c) ==
  /\ pc = "line" /\ out = <<>> /\ desc[c] = fd
  /\ Room!HasLine(stock[fd])
  /\ short' = short \cup {c}
  /\ pc' = "scan"
  /\ UNCHANGED <<up, scanning, clients, stock, sending, sockets, ends, told, number>>

-----------------------------------------------------------------------------
(***************************************************************************)
(* send_all, one send at a time.  A send waits for room in the socket of a *)
(* client that does not read.  To a client that has closed its end the     *)
(* first one succeeds and brings the reset that makes the next one a       *)
(* SIGPIPE, which nobody handles.                                          *)
(***************************************************************************)
Sends(c) ==
  /\ out # <<>>
  /\ desc[c] \in Recipients /\ to <= desc[c]
  /\ \A e \in Recipients : ~(to <= e /\ e < desc[c])

Send(c) ==
  /\ Sends(c)
  /\ \/ link[c] = "open" /\ unread[c] < SockBuf
        /\ unread' = [unread EXCEPT ![c] = @ + 1]
        /\ link' = link
     \/ link[c] = "closed"
        /\ \E l \in {"closed", "reset"} : link' = [link EXCEPT ![c] = l]
        /\ unread' = unread
  /\ told' = [told EXCEPT ![c] = Append(@, Head(out))]
  /\ to' = desc[c] + 1
  /\ UNCHANGED <<up, pc, scanning, clients, stock, out, except, sockets, inbox, written, short, number>>

BrokenPipe(c) ==
  /\ Sends(c)
  /\ link[c] = "reset"
  /\ up' = FALSE
  /\ UNCHANGED <<pc, scanning, clients, stock, sending, sockets, ends, short, told, number>>

SendAllReturns ==
  /\ out # <<>>
  /\ \A e \in Recipients : e < to
  /\ out' = Tail(out) /\ to' = 0
  /\ pc' = IF pc = "arrive" /\ Len(out) = 1 THEN "scan" ELSE pc
  /\ UNCHANGED <<up, scanning, clients, stock, except, sockets, ends, short, told, number>>

Server ==
  /\ up
  /\ \/ Select \/ EndScan \/ AcceptFails \/ Extract \/ LinesDone \/ SendAllReturns
     \/ \E c \in Clients :
          \/ RecvEnd(c) \/ Close(c) \/ RecvText(c) \/ JoinFails(c)
          \/ ExtractFails(c) \/ Send(c) \/ BrokenPipe(c)
          \/ \E d \in Fds : Accept(c, d)

-----------------------------------------------------------------------------
(***************************************************************************)
(* The clients: subject.txt lets them connect, write, read late or never,  *)
(* and disconnect.                                                         *)
(***************************************************************************)
Connect(c) ==
  /\ link[c] = "none"
  /\ link' = [link EXCEPT ![c] = "open"]
  /\ backlog' = Append(backlog, c)
  /\ UNCHANGED <<up, pc, scanning, clients, stock, sending, desc, inbox, unread, written, short, told, number>>

Write(c, x) ==
  /\ link[c] = "open" /\ written[c] < MaxText[c]
  /\ inbox' = [inbox EXCEPT ![c] = Append(@, x)]
  /\ written' = [written EXCEPT ![c] = @ + 1]
  /\ UNCHANGED <<up, pc, scanning, clients, stock, sending, sockets, link, unread, short, told, number>>

Read(c) ==
  /\ link[c] = "open" /\ unread[c] > 0
  /\ unread' = [unread EXCEPT ![c] = 0]
  /\ UNCHANGED <<up, pc, scanning, clients, stock, sending, sockets, link, inbox, written, short, told, number>>

Disconnect(c) ==
  /\ link[c] = "open"
  /\ link' = [link EXCEPT ![c] = "closed"]
  /\ UNCHANGED <<up, pc, scanning, clients, stock, sending, sockets, inbox, unread, written, short, told, number>>

Client(c) ==
  /\ up
  /\ Connect(c) \/ Read(c) \/ Disconnect(c) \/ \E x \in Chars : Write(c, x)

Next == Server \/ \E c \in Clients : Client(c)

Spec ==
  /\ Init /\ [][Next]_vars
  /\ WF_vars(Server)
  /\ \A c \in Clients \ Lazy : WF_vars(up /\ Read(c))

-----------------------------------------------------------------------------
TypeOK ==
  /\ up \in BOOLEAN
  /\ pc \in {"select", "scan", "arrive", "leave", "line"}
  /\ fd \in SockFd - 1 .. LastFd
  /\ maxfd \in SockFd .. LastFd
  /\ active \subseteq SockFd .. maxfd
  /\ readset \subseteq SockFd .. maxfd
  /\ next_id \in Nat
  /\ ids \in [Fds -> Nat]
  /\ stock \in [Fds -> Seq(Chars)]
  /\ out \in Seq(Room!Strings)
  /\ except \in Fds \cup {NoFd}
  /\ to \in 0 .. LastFd + 1
  /\ backlog \in Seq(Clients)
  /\ desc \in [Clients -> Fds \cup {NoFd}]
  /\ link \in [Clients -> {"none", "open", "closed", "reset"}]
  /\ inbox \in [Clients -> Seq(Chars)]
  /\ unread \in [Clients -> Nat]
  /\ written \in [Clients -> Nat]
  /\ short \subseteq Clients
  /\ told \in [Clients -> Seq(Room!Strings)]
  /\ number \in [Clients -> Nat \cup {Room!NoNumber}]

\* subject.txt:17: recv blocks on a descriptor select has not reported.  The scan
\* goes through what select reported although connections are opened and closed
\* during it: every descriptor still to come has text or its end to be received.
RecvNeverBlocks ==
  pc = "scan" =>
    \A d \in readset \cap Fds :
      fd < d => \E c \in Clients : desc[c] = d /\ (inbox[c] # <<>> \/ AtEnd(c))

\* What is kept of a client between two turns of the loop is less than a line, so
\* no line waits for the client to type more, unless memory ran short.
NoLineKeptBack ==
  pc = "select" =>
    \A c \in Clients \ short : desc[c] # NoFd => ~Room!HasLine(stock[desc[c]])

\* mini_serv.c:71: as seen by its clients the loop is ChatRoom: every complete line
\* reaches everybody else in the room once, whole, in order and under the number of
\* who typed it, also when it came in pieces, descriptors are used again, or its
\* author has hung up.
ImplementsRoom == Room!Spec

\* subject.txt:29: a client that hangs up is announced and its descriptor closed,
\* unless the server has ended.
HungUpIsAnnounced ==
  \A c \in Clients :
    desc[c] # NoFd /\ link[c] \in {"closed", "reset"} ~> desc[c] = NoFd \/ ~up

\* subject.txt:27: a line a client has completed is sent to the others, unless the
\* server has ended or memory ran short.
EveryLineIsSaid ==
  \A c \in Clients :
    c \in here /\ Room!HasLine(Unsaid(c))
      ~> ~up \/ c \in short \/ ~Room!HasLine(Unsaid(c))

\* mini_serv.c:107: the loop comes to everybody who typed or left, whoever else
\* types, reads late or leaves meanwhile.
EverybodyIsServed == HungUpIsAnnounced /\ EveryLineIsSaid

\* subject.txt:13: "Your program must be non-blocking but client can be lazy": whatever
\* a client does, the server gets back to select and the others, if it has not ended.
NeverHeldUp == up /\ pc # "select" ~> pc = "select" \/ ~up
=============================================================================
