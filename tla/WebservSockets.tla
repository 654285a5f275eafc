--------------------------- MODULE WebservSockets ---------------------------
(***************************************************************************)
(* webserv/srcs/SocketManager.cpp: the poll loop, its connections and its  *)
(* clients, which send their requests in pieces.                           *)
(*                                                                         *)
(* A step is one turn of a loop of run with the calls it makes; what the   *)
(* clients do comes in between.  The three vectors of SocketManager are    *)
(* three sequences; the listening sockets have the first places.  read     *)
(* takes all that has arrived, since the loop of handleClientData goes on  *)
(* until nothing is left.  Time is counted in seconds, and for a server    *)
(* that is never late by itself (see Second).                              *)
(***************************************************************************)
EXTENDS WebservRequest

CONSTANTS Casts,        \* which client asks for what, 0 for nothing
          Abrupt,       \* the clients that reset their connection
          Listens,      \* number of listening sockets
          MaxFd,        \* the last descriptor the process may open
          Limit,        \* seconds of silence allowed, 5 in the code
          MaxVoid,      \* bound: entries of _fds for an accept that failed
          Unlucky       \* bound: the clients whose connection it may fail to take

ASSUME SocketsAssumption == Listens \in Nat /\ MaxFd \in Nat /\ Limit \in Nat

\* Nobody asks for what is no request; pauses are within the text; a path and the
\* files of a form lead to objects
ASSUME ClientsAssumption ==
  /\ Len(Asks) \in Nat /\ Casts \subseteq [Clients -> 0 .. Len(Asks)]
  /\ \A a \in 1 .. Len(Asks) :
       /\ Asks[a].headers \in Seq({ t \in Tokens : t.k \in {"te", "cl", "port"} })
       /\ Asks[a].body \in Seq({ t \in Tokens : t.k = "file" => t.n \in Names \cup {NoName} })
       /\ Asks[a].name \in Names
       /\ Asks[a].plan \in Seq({"read", "write"}) /\ Asks[a].output \in Nat
       /\ Asks[a].pauses \subseteq 1 .. Len(Asks[a].headers) + Len(Asks[a].body) + 2

Servers == 1 .. Listens
NoFd == -1

VARIABLES
  fds,            \* _fds: [fd, ready] stands for fd and revents & POLLIN
  request_parts, last_activity,
  at,             \* the i of the loops of run
  client_fd,      \* the argument of handleClientData
  backlog,        \* backlog[l]: connections of listening socket l, not accepted
  desc,           \* desc[c]: the server's descriptor of c's connection
  ask, door,      \* what c asks for, and the listening socket it uses
  link,           \* c's end of its connection
  sent, inbox,    \* how much c has sent; what of it the server has not read
  got,            \* what the server has written to c
  quiet           \* history: seconds since c last sent something; above Limit
                  \* (or when text of c waits for longer) until the server reads it

vectors == <<fds, request_parts, last_activity>>
loop    == <<at, client_fd>>
os      == <<backlog, desc>>
clients == <<ask, door, link, sent>>
vars == <<manager, vectors, loop, os, clients, inbox, got, quiet>>

\* The text of a request, and the points at which its client may pause
TextOf == [a \in 1 .. Len(Asks) |->
             <<Tok("line", a)>> \o Asks[a].headers \o <<Tok("blank", 0)>> \o Asks[a].body]
Text(c) == TextOf[ask[c]]
Pauses(c) == Asks[ask[c]].pauses \cup {Len(Text(c))}

Server(l)  == [fd |-> l, ready |-> FALSE]
Accepted(c) == desc[c] # NoFd
Place(d) == CHOOSE i \in 1 .. Len(fds) : fds[i].fd = d
RemoveAt(s, i) == [j \in 1 .. Len(s) - 1 |-> IF j < i THEN s[j] ELSE s[j + 1]]

-----------------------------------------------------------------------------
\* The constructor: the listening sockets
Started ==
  /\ fds = [l \in Servers |-> Server(l)]
  /\ request_parts = [l \in Servers |-> <<>>]
  /\ last_activity = [l \in Servers |-> 0]
  /\ at = 1 /\ client_fd = NoFd
  /\ pc = "poll" /\ response = 0 /\ counter = 0 /\ cgi = NoCgi

Init ==
  /\ Started
  /\ disk = Tree
  /\ backlog = [l \in Servers |-> <<>>]
  /\ desc = [c \in Clients |-> NoFd]
  /\ ask \in Casts
  /\ door \in [Clients -> Servers]
  /\ link = [c \in Clients |-> "none"]
  /\ sent = [c \in Clients |-> 0]
  /\ inbox = [c \in Clients |-> <<>>]
  /\ got = [c \in Clients |-> <<>>]
  /\ stored = [c \in Clients |-> {}]
  /\ quiet = [c \in Clients |-> 0]

-----------------------------------------------------------------------------
(***************************************************************************)
(* The clients.  A client that hangs up closes its connection or, when it  *)
(* is Abrupt, resets it.  What was sent before can still be read.  Clients *)
(* act where the server may tell the difference: while it only goes on in  *)
(* its loops, an act of theirs is as well put later.                       *)
(***************************************************************************)
Ready(i) == fds[i].ready
\* The next i of a loop from at to the end of _fds for which Holds
Comes(i, Holds(_)) ==
  /\ i \in at .. Len(fds) /\ Holds(i)
  /\ \A j \in at .. i - 1 : ~Holds(j)
NoneLeft(Holds(_)) == \A j \in at .. Len(fds) : ~Holds(j)

Seen ==
  /\ pc \notin {"expire", "off", "killed"}
  /\ ~(pc = "scan" /\ NoneLeft(Ready))

Connect(c) ==
  /\ Seen /\ link[c] = "none" /\ ask[c] # 0
  /\ link' = [link EXCEPT ![c] = "open"]
  /\ backlog' = [backlog EXCEPT ![door[c]] = Append(@, c)]
  /\ UNCHANGED <<manager, vectors, loop, desc, ask, door, sent, inbox, got, quiet>>

Send(c, n) ==
  /\ Seen /\ link[c] = "open"
  /\ sent[c] < n
  /\ sent' = [sent EXCEPT ![c] = n]
  /\ inbox' = [inbox EXCEPT ![c] = @ \o SubSeq(Text(c), sent[c] + 1, n)]
  /\ quiet' = [quiet EXCEPT ![c] = IF @ > Limit THEN @ ELSE 0]
  /\ UNCHANGED <<manager, vectors, loop, os, ask, door, link, got>>

HangUp(c) ==
  /\ Seen /\ link[c] = "open"
  /\ link' = [link EXCEPT ![c] = IF c \in Abrupt THEN "reset" ELSE "closed"]
  /\ UNCHANGED <<manager, vectors, loop, os, ask, door, sent, inbox, got, quiet>>

-----------------------------------------------------------------------------
(***************************************************************************)
(* A second begins, while poll waits or while a CGI program holds the      *)
(* server.  Assumption on time: the rest takes none, so there is one turn  *)
(* of run between two seconds, and none begins while poll has text to      *)
(* report.                                                                 *)
(***************************************************************************)
Waiting(c) == Accepted(c) /\ inbox[c] # <<>>
Older(s) == IF s > Limit THEN s ELSE s + 1

Second ==
  /\ \/ pc = "poll" /\ (\A c \in Clients : ~Waiting(c)) /\ pc' = "late"
     \/ pc = "cgi" /\ UNCHANGED pc
  /\ last_activity' = [i \in DOMAIN last_activity |-> Older(last_activity[i])]
  /\ quiet' = [c \in Clients |->
       IF link[c] \in {"none", "over"} THEN quiet[c]
       ELSE IF Waiting(c) THEN Limit + 1 ELSE Older(quiet[c])]
  /\ UNCHANGED <<response, disk, counter, cgi, stored, fds, request_parts, loop, os, ask,
                 door, link, sent, inbox, got>>

-----------------------------------------------------------------------------
(***************************************************************************)
(* run: poll, at most a second long, then the connections that have been   *)
(* silent for too long, then the descriptors that poll reported.           *)
(***************************************************************************)
AtEnd(c) == link[c] \in {"closed", "reset"}
Reported(d) ==
  IF d \in Servers THEN backlog[d] # <<>>
  ELSE \E c \in Clients : desc[c] = d /\ d # NoFd /\ (inbox[c] # <<>> \/ AtEnd(c))

Poll ==
  /\ pc \in {"poll", "late"}
  /\ fds' = [i \in DOMAIN fds |-> [fds[i] EXCEPT !.ready = Reported(fds[i].fd)]]
  /\ at' = Listens + 1
  /\ pc' = "expire"
  /\ UNCHANGED <<response, disk, counter, cgi, stored, request_parts, last_activity,
                 client_fd, os, clients, inbox, got, quiet>>

\* removeClient(i): i is erased from the three vectors
RemoveClient(i) ==
  /\ fds' = RemoveAt(fds, i)
  /\ request_parts' = RemoveAt(request_parts, i)
  /\ last_activity' = RemoveAt(last_activity, i)
  /\ desc' = [c \in Clients |-> IF desc[c] = fds[i].fd THEN NoFd ELSE desc[c]]
  /\ link' = [c \in Clients |-> IF Accepted(c) /\ desc[c] = fds[i].fd
                                THEN "over" ELSE link[c]]
  /\ quiet' = [c \in Clients |-> IF Accepted(c) /\ desc[c] = fds[i].fd
                                  THEN 0 ELSE quiet[c]]

\* Overdue without the timeout
OverdueNever(i) == FALSE

Overdue(i) == last_activity[i] > Limit

\* The one that takes the place of the erased one is not looked at
Expire(i) ==
  /\ pc = "expire" /\ Comes(i, Overdue)
  /\ RemoveClient(i)
  /\ at' = i + 1
  /\ UNCHANGED <<manager, client_fd, backlog, ask, door, sent, inbox, got>>

ExpireDone ==
  /\ pc = "expire" /\ NoneLeft(Overdue)
  /\ at' = 1
  /\ pc' = "scan"
  /\ UNCHANGED <<response, disk, counter, cgi, stored, vectors, client_fd,
                 os, clients, inbox, got, quiet>>

ScanDone ==
  /\ pc = "scan" /\ NoneLeft(Ready)
  /\ at' = 1
  /\ pc' = "poll"
  /\ UNCHANGED <<response, disk, counter, cgi, stored, vectors, client_fd, os,
                 clients, inbox, got, quiet>>

-----------------------------------------------------------------------------
(***************************************************************************)
(* handleNewConnection: what accept returns is not looked at.  It is the   *)
(* lowest descriptor that is free, or -1 when the system has none left.    *)
(***************************************************************************)
Open == { fds[i].fd : i \in 1 .. Len(fds) }

\* AddClient without last_activity.push_back
AddClientUntimed(d) ==
  /\ fds' = Append(fds, [fd |-> d, ready |-> FALSE])
  /\ request_parts' = Append(request_parts, <<>>)
  /\ UNCHANGED last_activity

AddClient(d) ==
  /\ fds' = Append(fds, [fd |-> d, ready |-> FALSE])
  /\ request_parts' = Append(request_parts, <<>>)
  /\ last_activity' = Append(last_activity, 0)

Accept(i) ==
  /\ pc = "scan" /\ Comes(i, Ready) /\ fds[i].fd \in Servers
  /\ LET l == fds[i].fd IN
     \E d \in Listens + 1 .. MaxFd :
       /\ d \notin Open /\ \A e \in Listens + 1 .. d - 1 : e \in Open
       /\ AddClient(d)
       /\ backlog' = [backlog EXCEPT ![l] = Tail(@)]
       /\ desc' = [desc EXCEPT ![Head(backlog[l])] = d]
  /\ at' = i + 1
  /\ UNCHANGED <<manager, client_fd, clients, inbox, got, quiet>>

AcceptFails(i) ==
  /\ pc = "scan" /\ Comes(i, Ready) /\ fds[i].fd \in Servers
  /\ Head(backlog[fds[i].fd]) \in Unlucky
  /\ Cardinality({ j \in 1 .. Len(fds) : fds[j].fd = NoFd }) < MaxVoid
  /\ AddClient(NoFd)
  /\ at' = i + 1
  /\ UNCHANGED <<manager, client_fd, os, clients, inbox, got, quiet>>

-----------------------------------------------------------------------------
(***************************************************************************)
(* handleClientData.  p is what has been received so far, with what read   *)
(* finds.  An empty read, and one that fails, count as activity too.       *)
(***************************************************************************)
\* atoi reads the length as an int and body_len is a size_t: a negative length is
\* larger than any
TooLarge(p) == Has(p, "cl") /\ (Declared(p) > MaxBody \/ Declared(p) < 0)
\* Short off by one
ShortByOne(p) == Has(p, "cl") /\ ~TooLarge(p) /\ Len(Body(p)) < Declared(p) - 1
Short(p) == Has(p, "cl") /\ ~TooLarge(p) /\ Len(Body(p)) < Declared(p)

\* The end of the headers and, for chunks, something like the last are there
Framed(p) == Has(p, "blank") /\ (Chunked(p) => Terminated(p))

\* Read by the handler: the text joins the part, cleaned once it is framed
\* Kept without the new time of the last activity
KeptStale(c, i, p) ==
  /\ request_parts' = [request_parts EXCEPT ![i] = p]
  /\ inbox' = [inbox EXCEPT ![c] = <<>>]
  /\ quiet' = [quiet EXCEPT ![c] = IF @ > Limit THEN 0 ELSE @]
  /\ UNCHANGED last_activity

Kept(c, i, p) ==
  /\ request_parts' = [request_parts EXCEPT ![i] = p]
  /\ last_activity' = [last_activity EXCEPT ![i] = 0]
  /\ inbox' = [inbox EXCEPT ![c] = <<>>]
  /\ quiet' = [quiet EXCEPT ![c] = IF @ > Limit THEN 0 ELSE @]

HandleClientData(c, i) ==
  /\ pc = "scan" /\ Comes(i, Ready)
  /\ Accepted(c) /\ desc[c] = fds[i].fd
  /\ \E p \in {request_parts[i] \o inbox[c]} :
       \/ /\ ~Framed(p)
          /\ Kept(c, i, p)
          /\ at' = i + 1
          /\ UNCHANGED <<manager, client_fd>>
       \/ /\ Framed(p)
          /\ \E q \in {Clean(p)} :
               \/ /\ Short(q)
                  /\ Kept(c, i, q)
                  /\ at' = i + 1
                  /\ UNCHANGED <<manager, client_fd>>
               \/ /\ TooLarge(q)
                  /\ Kept(c, i, q)
                  /\ client_fd' = fds[i].fd /\ at' = i
                  /\ Respond(413)
                  /\ UNCHANGED <<disk, counter, cgi, stored>>
               \/ /\ ~Short(q) /\ ~TooLarge(q)
                  /\ Kept(c, i, <<>>)
                  /\ client_fd' = fds[i].fd /\ at' = i
                  /\ Manage(c, q)
  /\ UNCHANGED <<fds, os, clients, got>>

\* One write, then the connection is closed whatever it returned.  A write to a
\* connection that was reset ends the process by SIGPIPE, or fails and does not when
\* the reset itself is still to be reported; got counts the answers written.
WriteResponse(c) ==
  /\ pc = "write" /\ Accepted(c) /\ desc[c] = client_fd
  /\ \/ /\ link[c] = "reset"              \* SIGPIPE
        /\ pc' = "killed"
        /\ UNCHANGED <<response, vectors, desc, link, at, client_fd, got, quiet>>
     \/ /\ got' = [got EXCEPT ![c] = Append(@, response)]
        /\ RemoveClient(Place(client_fd))
        /\ response' = 0
        /\ client_fd' = NoFd
        /\ at' = at + 1
        /\ pc' = "scan"
  /\ UNCHANGED <<disk, counter, cgi, stored, backlog, ask,
                 door, sent, inbox>>

-----------------------------------------------------------------------------
(***************************************************************************)
(* SIGINT and SIGQUIT clear g_running, which is only looked at before and  *)
(* after poll: what matters is that it is clear then.  main returns and    *)
(* the destructor closes the descriptors.                                  *)
(***************************************************************************)
Stop ==
  /\ pc = "poll"
  /\ pc' = "off"
  /\ UNCHANGED <<response, disk, counter, cgi, stored, vectors, loop, os, clients, inbox,
                 got, quiet>>

-----------------------------------------------------------------------------
Cgi == Exchange /\ UNCHANGED <<vectors, loop, os, clients, inbox, got, quiet>>
Program == Script /\ UNCHANGED <<vectors, loop, os, clients, inbox, got, quiet>>

Run ==
  \/ Poll \/ ExpireDone \/ ScanDone \/ Cgi
  \/ \E i \in 1 .. Len(fds) : Expire(i) \/ Accept(i) \/ AcceptFails(i)
  \/ \E c \in Clients, i \in 1 .. Len(fds) : HandleClientData(c, i)
  \/ \E c \in Clients : WriteResponse(c)

Client(c) ==
  \/ Connect(c) \/ HangUp(c)
  \/ ask[c] # 0 /\ \E n \in Pauses(c) : Send(c, n)

Next ==
  \/ Run
  \/ Program
  \/ Second
  \/ Stop
  \/ \E c \in Clients : Client(c)

Spec == Init /\ [][Next]_vars

(***************************************************************************)
(* Fairness: the server and a program run, time passes, and accept does    *)
(* not fail for ever.  Clients may stop at any point.  ServerRuns is weak  *)
(* fairness of Run with the guards of its actions written out (CanRun), to *)
(* spare TLC the search for a step.                                        *)
(***************************************************************************)
CanExchange == IF cgi.todo > 0 THEN Ended \/ cgi.in < PipeCap ELSE Ended \/ cgi.out > 0
CanRun == pc \in {"poll", "late", "expire", "scan", "write"} \/ (pc = "cgi" /\ CanExchange)
ServerRuns == ([]<>~CanRun) \/ ([]<><<Run>>_vars)

FairSpec ==
  /\ Spec
  /\ ServerRuns
  /\ WF_vars(Program)
  /\ SF_vars(Second)
  /\ SF_vars(\E i \in 1 .. Len(fds) : Accept(i))

-----------------------------------------------------------------------------
TypeOK ==
  /\ pc \in {"poll", "late", "expire", "scan", "cgi", "write", "off", "killed"}
  /\ response \in Nat /\ counter \in Nat
  /\ disk \in [Names -> Entries]
  /\ cgi \in [ask : Nat, todo : Nat, in : Nat, out : Nat, left : Nat,
              plan : Seq({"read", "write"})]
  /\ stored \in [Clients -> SUBSET [name : Names, media : {"raw", "form"}]]
  /\ fds \in Seq([fd : Int, ready : BOOLEAN])
  /\ request_parts \in Seq(Seq(Tokens)) /\ last_activity \in Seq(0 .. Limit + 1)
  /\ at \in Nat /\ client_fd \in Int
  /\ backlog \in [Servers -> Seq(Clients)]
  /\ desc \in [Clients -> Int]
  /\ ask \in [Clients -> 0 .. Len(Asks)] /\ door \in [Clients -> Servers]
  /\ link \in [Clients -> {"none", "open", "closed", "reset", "over"}]
  /\ sent \in [Clients -> Nat] /\ inbox \in [Clients -> Seq(Tokens)]
  /\ got \in [Clients -> Seq(Nat)]
  /\ quiet \in [Clients -> 0 .. Limit + 1]

\* What a request has behind its line
Behind(a) == a.headers \o <<Tok("blank", 0)>> \o a.body

\* A request in which the searches find what its client meant: one way to tell
\* the length of the body, no header in the body, no end of chunks before the last
\* (content and files are what the client meant: see RequestsAssumption)
Plain(a) ==
  LET t == Behind(a)
      size == Len(a.body) IN
  /\ \A i \in 1 .. size : a.body[i].k \notin {"te", "cl", "zero", "blank"}
  /\ IF Has(a.headers, "te")
     THEN /\ ~Has(t, "cl") /\ ~Has(t, "port")
          /\ \A i \in 1 .. size - 2 : a.body[i] # Tok("size", 0)
     ELSE IF Has(t, "cl") THEN Declared(t) = size ELSE size = 0

\* content is the body with its chunks joined; files, the text a form has last for
\* a name
ASSUME RequestsAssumption ==
  \A a \in { Asks[n] : n \in 1 .. Len(Asks) } : Plain(a) =>
    /\ a.content = IF Has(a.headers, "te") THEN Dechunk(a.body) ELSE a.body
    /\ a.media = "form" /\ ~Malformed(a.content) =>
         LET files == Files(a.content)
         IN  \A i \in DOMAIN files : i = Last(Named(files, files[i].name)) =>
               files[i].text = a.files[files[i].name]

\* The three vectors stay parallel whatever is erased from them: the listening
\* sockets have the first places, every accepted client exactly one of the others,
\* and an answer is made for the client whose place the loop of run is at
\* (addClient, removeClient and the loops of run that call them)
PlacesAgree ==
  /\ Len(request_parts) = Len(fds) /\ Len(last_activity) = Len(fds)
  /\ \A i \in 1 .. Len(fds) : fds[i].fd \in Servers <=> i \in Servers
  /\ \A i \in 1 .. Len(fds) : i \notin Servers =>
       fds[i].fd = NoFd \/ \E c \in Clients : fds[i].fd = desc[c]
  /\ \A c \in Clients : Accepted(c) =>
       \E i \in 1 .. Len(fds) : \A j \in 1 .. Len(fds) : fds[j].fd = desc[c] <=> i = j
  /\ \A c, d \in Clients : Accepted(c) /\ desc[c] = desc[d] => c = d
  /\ pc \in {"cgi", "write"} =>
       fds[at].fd = client_fd /\ \E c \in Clients : Accepted(c) /\ desc[c] = client_fd

\* A client is answered once, and not before its whole request is there unless
\* the length it declared is refused (handleClientData)
NobodyIsAnsweredEarly ==
  \A c \in Clients :
    /\ Len(got[c]) <= 1
    /\ got[c] # <<>> /\ Plain(Asks[ask[c]]) =>
         sent[c] = Len(Text(c)) \/ got[c] = <<413>>

\* A connection the server closes without an answer was silent for too long, or a
\* CGI program has kept the server from reading what the client sent
\* (run, addClient, handleClientData)
OnlyTheSilentAreCutOff ==
  [][ \A c \in Clients :
        link'[c] = "over" /\ link[c] # "over" /\ got'[c] = <<>> => quiet[c] > Limit ]_vars

\* What is kept for a request is what its client meant, however the request
\* arrived and whatever else was uploaded (handleClientData, buildPOSTResponse)
Meant(a, f) == IF f.media = "raw" THEN a.content ELSE a.files[f.name]
StoredAsSent ==
  \A c \in Clients : \A f \in stored[c] :
    Plain(Asks[ask[c]]) => disk[f.name] = File(Meant(Asks[ask[c]], f))

\* The server and the CGI program wait for each other only if both have more to
\* write than a pipe holds and the program does not read first (executeCGI)
ServerWaits == \/ cgi.todo > 0 /\ cgi.in = PipeCap /\ ~Ended
               \/ cgi.todo = 0 /\ cgi.out = 0 /\ ~Ended
ScriptWaits == \/ Doing("read") /\ cgi.in = 0 /\ cgi.todo > 0
               \/ Doing("write") /\ cgi.left > 0 /\ cgi.out = PipeCap
Stuck == pc = "cgi" /\ ServerWaits /\ ScriptWaits
OnlyFullPipesBlock ==
  Stuck => LET a == Asks[cgi.ask]
           IN a.plan[1] = "write" /\ a.output > PipeCap /\ Len(a.body) > PipeCap

\* Every client that stays gets its answer or is closed, unless the process ends
\* or is stuck with a CGI program (run)
EveryConnectionEnds ==
  \A c \in Clients :
    link[c] = "open" ~> link[c] # "open" \/ pc \in {"off", "killed"} \/ Stuck
=============================================================================
