--------------------------- MODULE WebservProofs ---------------------------
(***************************************************************************)
(* For any number of clients, listening sockets and descriptors, any       *)
(* requests and any configuration: the vectors of SocketManager, who is    *)
(* cut off, and how often a client is answered.                            *)
(***************************************************************************)
EXTENDS WebservSockets, SequenceTheorems, TLAPS

-----------------------------------------------------------------------------
(***************************************************************************)
(* The inductive invariant.                                                *)
(***************************************************************************)

Entry == [fd : Int, ready : BOOLEAN]
Ages == 0 .. Limit + 1

\* The three vectors are as long as each other
VectorsInv ==
  /\ fds \in Seq(Entry)
  /\ last_activity \in Seq(Ages) /\ Len(last_activity) = Len(fds)
  /\ request_parts = [i \in 1 .. Len(fds) |-> request_parts[i]]

ClientsInv ==
  /\ desc \in [Clients -> {NoFd} \cup (Listens + 1 .. MaxFd)]
  /\ link \in [Clients -> {"none", "open", "closed", "reset", "over"}]
  /\ ask \in [Clients -> 0 .. Len(Asks)] /\ door \in [Clients -> Servers]
  /\ sent \in [Clients -> Nat] /\ inbox \in [Clients -> Seq(Tokens)]
  /\ quiet \in [Clients -> Ages]

\* Who has which place
PlacesInv ==
  /\ \A l \in Servers : l <= Len(fds) /\ fds[l].fd = l
  /\ \A i \in Listens + 1 .. Len(fds) :
       fds[i].fd = NoFd \/ \E c \in Clients : desc[c] = fds[i].fd
  /\ \A i, j \in 1 .. Len(fds) : fds[i].fd = fds[j].fd /\ fds[i].fd # NoFd => i = j
  /\ \A c \in Clients : Accepted(c) => \E i \in 1 .. Len(fds) : fds[i].fd = desc[c]
  /\ \A c, d \in Clients : Accepted(c) /\ desc[c] = desc[d] => c = d

\* Who waits in a backlog waits once and is not accepted; only who is through
\* has an answer
Live(c) == link[c] \in {"open", "closed", "reset"}
BacklogInv ==
  /\ backlog \in [Servers -> Seq(Clients)]
  /\ \A l \in Servers : \A k \in 1 .. Len(backlog[l]) :
       LET c == backlog[l][k] IN
       /\ Live(c) /\ ~Accepted(c) /\ door[c] = l
       /\ \A m \in 1 .. Len(backlog[l]) : backlog[l][m] = c => m = k
  /\ \A c \in Clients : Accepted(c) => Live(c)

AnswersInv ==
  /\ got = [c \in Clients |-> got[c]]
  /\ \A c \in Clients : IF link[c] = "over" THEN got[c] \in Seq({got[c][1]}) /\ Len(got[c]) <= 1
                        ELSE got[c] = <<>>

\* Where the loops of run are
LoopInv ==
  /\ at \in Nat \ {0}
  /\ pc = "expire" => at > Listens
  /\ pc \in {"expire", "scan"} =>
       \A l \in Servers : (pc = "expire" \/ l >= at) /\ fds[l].ready => backlog[l] # <<>>
  /\ pc \in {"cgi", "write"} =>
       /\ at \in 1 .. Len(fds) /\ fds[at].fd = client_fd
       /\ \E c \in Clients : Accepted(c) /\ desc[c] = client_fd

\* A connection is found silent only if its client was, or could not be heard
SilenceInv ==
  \A c \in Clients : \A i \in 1 .. Len(fds) :
    Accepted(c) /\ fds[i].fd = desc[c] =>
      /\ inbox[c] = <<>> => last_activity[i] <= quiet[c]
      /\ last_activity[i] > Limit => quiet[c] > Limit

IInv ==
  /\ VectorsInv /\ ClientsInv /\ PlacesInv /\ BacklogInv /\ AnswersInv
  /\ LoopInv /\ SilenceInv

-----------------------------------------------------------------------------
(***************************************************************************)
(* Sequences.                                                              *)
(***************************************************************************)

\* A function on 1 .. n is a sequence of length n.
LEMMA FunctionIsSequence ==
  ASSUME NEW n \in Nat, NEW s, s = [i \in 1 .. n |-> s[i]]
  PROVE  Len(s) = n /\ s \in Seq({ s[i] : i \in 1 .. n })
<1> DEFINE S == { s[i] : i \in 1 .. n }
<1>1. s \in [1 .. n -> S]
  OBVIOUS
<1> QED BY <1>1

\* RemoveAt takes one element out, and the later ones move up.
LEMMA Removed_ ==
  ASSUME NEW S, NEW s \in Seq(S), NEW i \in 1 .. Len(s)
  PROVE  /\ RemoveAt(s, i) \in Seq(S)
         /\ Len(RemoveAt(s, i)) = Len(s) - 1
         /\ \A j \in 1 .. Len(s) - 1 :
              RemoveAt(s, i)[j] = IF j < i THEN s[j] ELSE s[j + 1]
<1> DEFINE n == Len(s) - 1
<1>1. n \in Nat /\ \A j \in 1 .. n : j \in 1 .. Len(s) /\ j + 1 \in 1 .. Len(s)
  OBVIOUS
<1>2. \A j \in 1 .. Len(s) : s[j] \in S
  OBVIOUS
<1>3. RemoveAt(s, i) \in [1 .. n -> S]
  BY <1>1, <1>2 DEF RemoveAt
<1> QED BY <1>1, <1>3 DEF RemoveAt

\* The text of a request is a sequence of tokens.
LEMMA Texts ==
  ASSUME NEW a \in 1 .. Len(Asks)
  PROVE  TextOf[a] \in Seq(Tokens) /\ \A n \in Asks[a].pauses \cup {Len(TextOf[a])} :
           n \in 1 .. Len(TextOf[a])
<1>1. Asks[a].headers \in Seq(Tokens) /\ Asks[a].body \in Seq(Tokens)
  <2> DEFINE Heads == { t \in Tokens : t.k \in {"te", "cl", "port"} }
             Parts == { t \in Tokens : t.k = "file" => t.n \in Names \cup {NoName} }
  <2>1. Asks[a].headers \in Seq(Heads) /\ Asks[a].body \in Seq(Parts)
    BY ClientsAssumption
  <2>2. Heads \subseteq Tokens /\ Parts \subseteq Tokens
    OBVIOUS
  <2> HIDE DEF Heads, Parts
  <2> QED BY <2>1, <2>2, SeqMonotonic
<1> DEFINE first == <<Tok("line", a)>>
           last  == <<Tok("blank", 0)>>
<1>2. /\ first \in Seq(Tokens) /\ Len(first) = 1
      /\ last \in Seq(Tokens) /\ Len(last) = 1
  BY ClientsAssumption DEF Tok, Tokens, Kinds
<1> DEFINE h == Asks[a].headers
           b == Asks[a].body
           fh == first \o h
           fhl == fh \o last
<1>3. TextOf[a] = fhl \o b
  BY DEF TextOf
<1>a. fh \in Seq(Tokens) /\ Len(fh) = 1 + Len(h)
  BY <1>1, <1>2, ConcatProperties
<1>b. fhl \in Seq(Tokens) /\ Len(fhl) = Len(fh) + 1
  BY <1>a, <1>2, ConcatProperties
<1>c. fhl \o b \in Seq(Tokens) /\ Len(fhl \o b) = Len(fhl) + Len(b)
  BY <1>b, <1>1, ConcatProperties
<1>4. TextOf[a] \in Seq(Tokens)
  BY <1>3, <1>c
<1>5. Len(TextOf[a]) = Len(h) + Len(b) + 2
  <2> HIDE DEF first, last, h, b, fh, fhl
  <2> Len(h) \in Nat /\ Len(b) \in Nat
    BY <1>1 DEF h, b
  <2> QED BY <1>3, <1>a, <1>b, <1>c
<1>6. Asks[a].pauses \subseteq 1 .. Len(h) + Len(b) + 2
  BY ClientsAssumption
<1>7. Len(h) \in Nat /\ Len(b) \in Nat
  BY <1>1
<1> QED
  <2> HIDE DEF first, last, h, b, fh, fhl
  <2> QED BY <1>4, <1>5, <1>6, <1>7

-----------------------------------------------------------------------------
(***************************************************************************)
(* The initial states, and the calls of the handlers.                      *)
(***************************************************************************)

\* The constructor of SocketManager establishes the invariant.
LEMMA InitInv == Init => IInv
<1> SUFFICES ASSUME Init PROVE IInv
  OBVIOUS
<1> USE SocketsAssumption
<1>1. /\ fds = [l \in 1 .. Listens |-> Server(l)]
      /\ request_parts = [l \in 1 .. Listens |-> <<>>]
      /\ last_activity = [l \in 1 .. Listens |-> 0]
  BY DEF Init, Started, Servers
<1>2. Len(fds) = Listens /\ fds \in Seq(Entry)
  BY <1>1 DEF Server, Entry
<1>3. Len(last_activity) = Listens /\ last_activity \in Seq(Ages)
  BY <1>1 DEF Ages
<1>4. VectorsInv
  BY <1>1, <1>2, <1>3 DEF VectorsInv
<1>5. ClientsInv
  BY ClientsAssumption DEF Init, ClientsInv, Ages
<1>6. PlacesInv
  BY <1>1, <1>2 DEF Init, PlacesInv, Server, Servers, Accepted, NoFd
<1>7. BacklogInv
  BY DEF Init, BacklogInv, Live, Accepted
<1>8. AnswersInv
  BY DEF Init, AnswersInv
<1>9. LoopInv
  BY DEF Init, Started, LoopInv
<1>10. SilenceInv
  BY DEF Init, SilenceInv, Accepted
<1> QED BY <1>4, <1>5, <1>6, <1>7, <1>8, <1>9, <1>10 DEF IInv

\* removeClient on a place that is not a listening socket's.
LEMMA RemoveClientInv ==
  ASSUME VectorsInv, ClientsInv, PlacesInv, BacklogInv, SilenceInv,
         NEW i \in Listens + 1 .. Len(fds), RemoveClient(i),
         UNCHANGED <<backlog, ask, door, sent, inbox>>
  PROVE  /\ VectorsInv' /\ ClientsInv' /\ PlacesInv' /\ BacklogInv' /\ SilenceInv'
         /\ Len(fds') = Len(fds) - 1
         /\ \A j \in 1 .. Len(fds') : fds'[j] = IF j < i THEN fds[j] ELSE fds[j + 1]
<1> USE SocketsAssumption
<1>0. Len(fds) \in Nat /\ i \in 1 .. Len(fds) /\ Len(last_activity) = Len(fds)
  BY DEF VectorsInv
<1>1. /\ fds' \in Seq(Entry) /\ Len(fds') = Len(fds) - 1
      /\ \A j \in 1 .. Len(fds) - 1 : fds'[j] = IF j < i THEN fds[j] ELSE fds[j + 1]
  BY <1>0, Removed_ DEF VectorsInv, RemoveClient
<1>2. /\ last_activity' \in Seq(Ages) /\ Len(last_activity') = Len(fds) - 1
      /\ \A j \in 1 .. Len(fds) - 1 :
           last_activity'[j] = IF j < i THEN last_activity[j] ELSE last_activity[j + 1]
  BY <1>0, Removed_ DEF VectorsInv, RemoveClient
<1>3. Len(request_parts) = Len(fds)
  BY <1>0, FunctionIsSequence DEF VectorsInv
<1>4. request_parts' = [j \in 1 .. Len(fds') |-> request_parts'[j]]
  BY <1>1, <1>3 DEF RemoveClient, RemoveAt
<1>5. VectorsInv'
  BY <1>1, <1>2, <1>4 DEF VectorsInv
<1>6. ClientsInv'
  BY DEF ClientsInv, RemoveClient, Ages
<1>7. \A c \in Clients : desc'[c] = IF desc[c] = fds[i].fd THEN NoFd ELSE desc[c]
  BY DEF RemoveClient, ClientsInv
<1>8. PlacesInv'
  <2>1. \A l \in Servers : l <= Len(fds') /\ fds'[l].fd = l
    BY <1>0, <1>1 DEF PlacesInv, Servers
  <2>2. ASSUME NEW j \in Listens + 1 .. Len(fds')
        PROVE  fds'[j].fd = NoFd \/ \E c \in Clients : desc'[c] = fds'[j].fd
    <3>1. PICK k \in Listens + 1 .. Len(fds) : k # i /\ fds'[j] = fds[k]
      BY <1>0, <1>1
    <3>2. fds[k].fd # NoFd => fds[k].fd # fds[i].fd
      BY <1>0, <3>1 DEF PlacesInv
    <3> QED BY <3>1, <3>2, <1>7 DEF PlacesInv
  <2>3. ASSUME NEW j \in 1 .. Len(fds'), NEW k \in 1 .. Len(fds'),
               fds'[j].fd = fds'[k].fd, fds'[j].fd # NoFd
        PROVE  j = k
    <3> DEFINE old(m) == IF m < i THEN m ELSE m + 1
    <3>1. /\ old(j) \in 1 .. Len(fds) /\ old(k) \in 1 .. Len(fds)
          /\ fds'[j] = fds[old(j)] /\ fds'[k] = fds[old(k)]
      BY <1>0, <1>1
    <3>2. old(j) = old(k)
      BY <2>3, <3>1 DEF PlacesInv
    <3> QED BY <3>2, <1>0, <1>1
  <2>4. ASSUME NEW c \in Clients, Accepted(c)'
        PROVE  \E j \in 1 .. Len(fds') : fds'[j].fd = desc'[c]
    <3>1. desc[c] # fds[i].fd /\ desc'[c] = desc[c] /\ Accepted(c)
      BY <2>4, <1>7 DEF Accepted
    <3>2. PICK k \in 1 .. Len(fds) : fds[k].fd = desc[c]
      BY <3>1 DEF PlacesInv
    <3>3. k # i
      BY <3>1, <3>2
    <3>4. CASE k < i
      BY <3>1, <3>2, <3>4, <1>0, <1>1
    <3>5. CASE k > i
      <4>1. k - 1 \in 1 .. Len(fds) - 1 /\ ~(k - 1 < i) /\ (k - 1) + 1 = k
        BY <3>5, <1>0
      <4> QED BY <4>1, <3>1, <3>2, <1>1
    <3> QED BY <3>3, <3>4, <3>5, <1>0
  <2>5. \A c, d \in Clients : Accepted(c)' /\ desc'[c] = desc'[d] => c = d
    BY <1>7 DEF PlacesInv, Accepted
  <2> QED BY <2>1, <2>2, <2>3, <2>4, <2>5 DEF PlacesInv
<1>9. BacklogInv'
  <2>1. \A c \in Clients : ~Accepted(c) => link'[c] = link[c] /\ ~Accepted(c)'
    BY <1>7 DEF RemoveClient, Accepted, ClientsInv
  <2>2. \A c \in Clients : Accepted(c)' => Accepted(c) /\ link'[c] = link[c]
    BY <1>7 DEF RemoveClient, Accepted, ClientsInv
  <2>3. \A l \in Servers : \A k \in 1 .. Len(backlog[l]) : backlog[l][k] \in Clients
    BY DEF BacklogInv
  <2> QED BY <2>1, <2>2, <2>3 DEF BacklogInv, Live
<1>10. SilenceInv'
  <2> SUFFICES ASSUME NEW c \in Clients, NEW j \in 1 .. Len(fds'),
                      Accepted(c)', fds'[j].fd = desc'[c]
               PROVE  /\ inbox[c] = <<>> => last_activity'[j] <= quiet'[c]
                      /\ last_activity'[j] > Limit => quiet'[c] > Limit
    BY DEF SilenceInv
  <2>1. desc[c] # fds[i].fd /\ desc'[c] = desc[c] /\ Accepted(c)
    BY <1>7 DEF Accepted
  <2>2. quiet'[c] = quiet[c]
    BY <2>1 DEF RemoveClient, ClientsInv
  <2>3. PICK k \in 1 .. Len(fds) :
          fds'[j] = fds[k] /\ last_activity'[j] = last_activity[k]
    <3> DEFINE k == IF j < i THEN j ELSE j + 1
    <3>1. j \in 1 .. Len(fds) - 1 /\ k \in 1 .. Len(fds)
      BY <1>0, <1>1
    <3>2. fds'[j] = fds[k] /\ last_activity'[j] = last_activity[k]
      BY <3>1, <1>1, <1>2
    <3> QED BY <3>1, <3>2
  <2>4. /\ inbox[c] = <<>> => last_activity[k] <= quiet[c]
        /\ last_activity[k] > Limit => quiet[c] > Limit
    <3>1. fds[k].fd = desc[c]
      BY <2>1, <2>3
    <3> QED BY <2>1, <3>1 DEF SilenceInv
  <2> QED BY <2>2, <2>3, <2>4
<1> QED BY <1>1, <1>5, <1>6, <1>8, <1>9, <1>10

\* addClient: a new last place, of nobody or of a client that had none.
LEMMA AddClientInv ==
  ASSUME VectorsInv, SilenceInv, PlacesInv, ClientsInv, NEW d \in Int, AddClient(d)
  PROVE  /\ VectorsInv'
         /\ Len(fds') = Len(fds) + 1 /\ fds'[Len(fds) + 1] = [fd |-> d, ready |-> FALSE]
         /\ \A j \in 1 .. Len(fds) : fds'[j] = fds[j] /\ last_activity'[j] = last_activity[j]
         /\ last_activity'[Len(fds) + 1] = 0
<1> USE SocketsAssumption
<1>0. Len(fds) \in Nat /\ Len(last_activity) = Len(fds)
  BY DEF VectorsInv
<1>1. /\ fds' \in Seq(Entry) /\ Len(fds') = Len(fds) + 1
      /\ fds'[Len(fds) + 1] = [fd |-> d, ready |-> FALSE]
      /\ \A j \in 1 .. Len(fds) : fds'[j] = fds[j]
  <2>1. [fd |-> d, ready |-> FALSE] \in Entry
    BY DEF Entry
  <2> QED BY <2>1, AppendProperties DEF VectorsInv, AddClient
<1>2. /\ last_activity' \in Seq(Ages) /\ Len(last_activity') = Len(fds) + 1
      /\ last_activity'[Len(fds) + 1] = 0
      /\ \A j \in 1 .. Len(fds) : last_activity'[j] = last_activity[j]
  <2>1. 0 \in Ages
    BY DEF Ages
  <2> QED BY <2>1, <1>0, AppendProperties DEF VectorsInv, AddClient
<1>3. request_parts' = [j \in 1 .. Len(fds') |-> request_parts'[j]]
  <2> DEFINE S == { request_parts[j] : j \in 1 .. Len(fds) }
             T == S \cup {<<>>}
  <2>1. Len(request_parts) = Len(fds) /\ request_parts \in Seq(S)
    BY <1>0, FunctionIsSequence DEF VectorsInv
  <2>2. request_parts \in Seq(T) /\ <<>> \in T
    BY <2>1, SeqMonotonic
  <2>3. request_parts' \in Seq(T) /\ Len(request_parts') = Len(fds')
    BY <2>1, <2>2, <1>1, AppendProperties DEF AddClient
  <2> QED BY <2>3, LenProperties
<1> QED BY <1>1, <1>2, <1>3 DEF VectorsInv

\* RequestManager ends with an answer, a CGI program, or the end of the server.
LEMMA ManageEnds ==
  ASSUME NEW c, NEW t, Manage(c, t)
  PROVE  pc' \in {"write", "cgi", "killed"}
<1> DEFINE a == Asks[t[1].n]
<1>1. CASE Verdict(a, BodyLength(t)) # 0 /\ Respond(Verdict(a, BodyLength(t)))
  BY <1>1 DEF Respond
<1>2. CASE pc' = "killed"
  BY <1>2
<1>3. CASE Get(a)
  BY <1>3 DEF Get, Respond
<1>4. CASE Refuse(a, Body(t))
  BY <1>4 DEF Refuse, Respond
<1>5. CASE UploadBody(c, a, Body(t))
  BY <1>5 DEF UploadBody, Respond
<1>6. CASE UploadForm(c, a, Body(t))
  BY <1>6 DEF UploadForm, Respond
<1>7. CASE Delete(a)
  BY <1>7 DEF Delete, Removed, Respond
<1>8. CASE ExecuteCgi(t, a)
  BY <1>8 DEF ExecuteCgi, Respond
<1> QED BY <1>1, <1>2, <1>3, <1>4, <1>5, <1>6, <1>7, <1>8 DEF Manage

-----------------------------------------------------------------------------
(***************************************************************************)
(* Every step preserves the invariant: the steps of run first.             *)
(***************************************************************************)
Outside == <<vectors, loop, os, clients, inbox, got, quiet>>

\* Steps that only go on with an answer, or end the server.
LEMMA InsideInv ==
  ASSUME IInv, UNCHANGED Outside,
         pc' \in {"off", "killed"} \/ (pc = "cgi" /\ pc' \in {"cgi", "write"})
  PROVE  IInv'
<1> USE DEF Outside, vectors, loop, os, clients
<1>1. VectorsInv' /\ ClientsInv'
  BY DEF IInv, VectorsInv, ClientsInv
<1>2. PlacesInv' /\ BacklogInv'
  BY DEF IInv, PlacesInv, BacklogInv, Accepted, Live
<1>3. AnswersInv'
  BY DEF IInv, AnswersInv
<1>4. LoopInv'
  BY DEF IInv, LoopInv, Accepted
<1>5. SilenceInv'
  BY DEF IInv, SilenceInv, Accepted
<1> QED BY <1>1, <1>2, <1>3, <1>4, <1>5 DEF IInv

\* The exchange with a CGI program, up to its answer.
LEMMA CgiInv == IInv /\ (Cgi \/ Program) => IInv'
<1> SUFFICES ASSUME IInv, Cgi \/ Program PROVE IInv'
  OBVIOUS
<1>1. UNCHANGED Outside
  BY DEF Cgi, Program, Outside
<1>2. pc = "cgi" /\ pc' \in {"cgi", "write", "killed"}
  <2>1. CASE Cgi
    BY <2>1 DEF Cgi, Exchange, CgiFeed, CgiBrokenPipe, CgiCollect, CgiWaited, Respond
  <2>2. CASE Program
    BY <2>2 DEF Program, Script, ScriptReads, ScriptWrites
  <2> QED BY <2>1, <2>2
<1> QED BY <1>1, <1>2, InsideInv

\* A signal ends run.
LEMMA StopInv == IInv /\ Stop => IInv'
<1> SUFFICES ASSUME IInv, Stop PROVE IInv'
  OBVIOUS
<1>1. UNCHANGED Outside /\ pc' = "off"
  BY DEF Stop, Outside
<1> QED BY <1>1, InsideInv

\* poll writes revents, and the loop over the silent starts.
LEMMA PollInv == IInv /\ Poll => IInv'
<1> SUFFICES ASSUME IInv, Poll PROVE IInv'
  OBVIOUS
<1> USE SocketsAssumption DEF os, clients
<1>0. fds \in Seq(Entry) /\ Len(fds) \in Nat
  BY DEF IInv, VectorsInv
<1>1. /\ fds' \in Seq(Entry) /\ Len(fds') = Len(fds)
      /\ \A i \in 1 .. Len(fds) : fds'[i].fd = fds[i].fd /\ fds'[i].ready = Reported(fds[i].fd)
  <2> DEFINE new(i) == [fds[i] EXCEPT !.ready = Reported(fds[i].fd)]
  <2>1. fds' = [i \in 1 .. Len(fds) |-> new(i)]
    BY <1>0 DEF Poll
  <2>2. ASSUME NEW i \in 1 .. Len(fds)
        PROVE  /\ new(i) \in Entry
               /\ new(i).fd = fds[i].fd /\ new(i).ready = Reported(fds[i].fd)
    <3>1. fds[i] \in Entry
      BY <1>0
    <3>2. Reported(fds[i].fd) \in BOOLEAN
      <4>1. CASE fds[i].fd \in Servers
        BY <4>1 DEF Reported
      <4>2. CASE fds[i].fd \notin Servers
        BY <4>2 DEF Reported
      <4> QED BY <4>1, <4>2
    <3> QED BY <3>1, <3>2 DEF Entry
  <2> HIDE DEF new
  <2>3. fds' \in [1 .. Len(fds) -> Entry]
    BY <2>1, <2>2
  <2>4. fds' \in Seq(Entry) /\ Len(fds') = Len(fds)
    BY <1>0, <2>3
  <2> QED BY <2>1, <2>2, <2>4
<1>2. VectorsInv'
  BY <1>1 DEF IInv, VectorsInv, Poll
<1>3. ClientsInv' /\ AnswersInv'
  BY DEF IInv, ClientsInv, AnswersInv, Poll
<1>4. PlacesInv'
  BY <1>1 DEF IInv, PlacesInv, Poll, Accepted, Servers
<1>5. BacklogInv'
  BY DEF IInv, BacklogInv, Poll, Accepted, Live
<1>6. LoopInv'
  <2>1. at' = Listens + 1 /\ pc' = "expire" /\ backlog' = backlog
    BY DEF Poll
  <2>2. \A l \in Servers : l \in 1 .. Len(fds) /\ fds[l].fd = l
    BY <1>0 DEF IInv, PlacesInv, Servers
  <2>3. \A l \in Servers : fds'[l].ready => backlog[l] # <<>>
    BY <1>1, <2>2 DEF Reported
  <2> QED BY <2>1, <2>3 DEF LoopInv
<1>7. SilenceInv'
  BY <1>1 DEF IInv, SilenceInv, Poll, Accepted
<1> QED BY <1>2, <1>3, <1>4, <1>5, <1>6, <1>7 DEF IInv

\* The loop over the silent closes a connection.
LEMMA ExpireInv ==
  ASSUME IInv, NEW i \in 1 .. Len(fds), Expire(i)
  PROVE  IInv'
<1> USE SocketsAssumption
<1>0. Len(fds) \in Nat /\ at \in Nat /\ at > Listens /\ i >= at /\ pc = "expire" /\ pc' = pc
  BY DEF IInv, VectorsInv, LoopInv, Expire, Comes, manager
<1>1. i \in Listens + 1 .. Len(fds)
  BY <1>0
<1>2. /\ VectorsInv' /\ ClientsInv' /\ PlacesInv' /\ BacklogInv' /\ SilenceInv'
      /\ Len(fds') = Len(fds) - 1
      /\ \A j \in 1 .. Len(fds') : fds'[j] = IF j < i THEN fds[j] ELSE fds[j + 1]
  <2>1. RemoveClient(i) /\ UNCHANGED <<backlog, ask, door, sent, inbox>>
    BY DEF Expire
  <2> QED BY <1>1, <2>1, RemoveClientInv DEF IInv
<1>3. AnswersInv'
  <2>1. got' = got /\ \A c \in Clients : link'[c] = link[c] \/ (link'[c] = "over" /\ Live(c))
    BY DEF IInv, ClientsInv, BacklogInv, Expire, RemoveClient
  <2>2. \A c \in Clients : got[c] = <<>> =>
          got[c] \in Seq({got[c][1]}) /\ Len(got[c]) <= 1
    OBVIOUS
  <2> QED BY <2>1, <2>2 DEF IInv, AnswersInv, Live
<1>4. LoopInv'
  <2>1. at' = i + 1 /\ backlog' = backlog
    BY DEF Expire
  <2>2. \A l \in Servers : fds'[l] = fds[l]
    BY <1>0, <1>1, <1>2 DEF IInv, PlacesInv, Servers
  <2> QED BY <1>0, <1>1, <2>1, <2>2 DEF IInv, LoopInv
<1> QED BY <1>2, <1>3, <1>4 DEF IInv

\* The ends of the two loops.
LEMMA LoopsEndInv == IInv /\ (ExpireDone \/ ScanDone) => IInv'
<1> SUFFICES ASSUME IInv, ExpireDone \/ ScanDone PROVE IInv'
  OBVIOUS
<1>1. UNCHANGED <<vectors, client_fd, os, clients, inbox, got, quiet>> /\ at' = 1
  BY DEF ExpireDone, ScanDone
<1>2. (pc = "expire" /\ pc' = "scan") \/ pc' = "poll"
  BY DEF ExpireDone, ScanDone
<1> USE <1>1 DEF vectors, os, clients
<1>3. VectorsInv' /\ ClientsInv' /\ AnswersInv'
  BY DEF IInv, VectorsInv, ClientsInv, AnswersInv
<1>4. PlacesInv' /\ BacklogInv'
  BY DEF IInv, PlacesInv, BacklogInv, Accepted, Live
<1>5. LoopInv'
  BY <1>2 DEF IInv, LoopInv, Servers
<1>6. SilenceInv'
  BY DEF IInv, SilenceInv, Accepted
<1> QED BY <1>3, <1>4, <1>5, <1>6 DEF IInv

\* accept: the client that has waited longest gets a descriptor and a place.
LEMMA AcceptInv ==
  ASSUME IInv, NEW i \in 1 .. Len(fds), Accept(i)
  PROVE  IInv'
<1> USE SocketsAssumption
<1> DEFINE l == fds[i].fd
           c == Head(backlog[l])
<1>0. /\ pc = "scan" /\ pc' = pc /\ at' = i + 1 /\ i >= at /\ fds[i].ready
      /\ l \in Servers /\ Len(fds) \in Nat /\ at \in Nat
      /\ UNCHANGED <<link, ask, door, sent, inbox, got, quiet>>
  BY DEF Accept, Comes, Ready, IInv, VectorsInv, LoopInv, manager, clients
<1>1. PICK d \in Listens + 1 .. MaxFd :
        /\ d \notin Open /\ AddClient(d)
        /\ backlog' = [backlog EXCEPT ![l] = Tail(@)]
        /\ desc' = [desc EXCEPT ![c] = d]
  BY DEF Accept
<1>2. l = i
  BY <1>0 DEF IInv, PlacesInv, NoFd, Servers
<1>3. backlog[l] # <<>> /\ backlog[l] \in Seq(Clients)
  BY <1>0, <1>2 DEF IInv, LoopInv, BacklogInv
<1>4. /\ c \in Clients /\ c = backlog[l][1] /\ 1 \in 1 .. Len(backlog[l])
      /\ Tail(backlog[l]) \in Seq(Clients) /\ Len(Tail(backlog[l])) = Len(backlog[l]) - 1
      /\ \A k \in 1 .. Len(backlog[l]) - 1 : Tail(backlog[l])[k] = backlog[l][k + 1]
  BY <1>3
<1>5. ~Accepted(c) /\ Live(c) /\ door[c] = l
  BY <1>0, <1>4 DEF IInv, BacklogInv
<1>6. /\ VectorsInv'
      /\ Len(fds') = Len(fds) + 1 /\ fds'[Len(fds) + 1] = [fd |-> d, ready |-> FALSE]
      /\ \A j \in 1 .. Len(fds) : fds'[j] = fds[j] /\ last_activity'[j] = last_activity[j]
      /\ last_activity'[Len(fds) + 1] = 0
  BY <1>1, AddClientInv DEF IInv
<1>7. /\ \A e \in Clients : desc'[e] = IF e = c THEN d ELSE desc[e]
      /\ \A j \in 1 .. Len(fds) : fds[j].fd # d
      /\ \A e \in Clients : desc[e] # d
      /\ d # NoFd /\ d \notin Servers
  <2>1. \A j \in 1 .. Len(fds) : fds[j].fd # d
    BY <1>1 DEF Open
  <2>2. d # NoFd /\ d \notin Servers
    BY <1>1 DEF NoFd, Servers
  <2>3. \A e \in Clients : desc[e] # d
    BY <2>1, <2>2 DEF IInv, PlacesInv, Accepted
  <2> QED BY <1>1, <2>1, <2>2, <2>3 DEF IInv, ClientsInv
<1> HIDE DEF l, c
<1>8. ClientsInv'
  BY <1>0, <1>1 DEF IInv, ClientsInv
<1>9. PlacesInv'
  <2>1. \A m \in Servers : m <= Len(fds') /\ fds'[m].fd = m
    BY <1>0, <1>6 DEF IInv, PlacesInv, Servers
  <2>2. ASSUME NEW j \in Listens + 1 .. Len(fds')
        PROVE  fds'[j].fd = NoFd \/ \E e \in Clients : desc'[e] = fds'[j].fd
    <3>1. CASE j = Len(fds) + 1
      BY <3>1, <1>4, <1>6, <1>7
    <3>2. CASE j # Len(fds) + 1
      <4>0. j \in Listens + 1 .. Len(fds) /\ j \in 1 .. Len(fds)
        BY <3>2, <1>0, <1>6
      <4>1. j \in Listens + 1 .. Len(fds) /\ fds'[j] = fds[j]
        BY <4>0, <1>6
      <4> QED BY <4>1, <1>5, <1>7 DEF IInv, PlacesInv, Accepted
    <3> QED BY <3>1, <3>2
  <2>3. ASSUME NEW j \in 1 .. Len(fds'), NEW k \in 1 .. Len(fds'),
               fds'[j].fd = fds'[k].fd, fds'[j].fd # NoFd
        PROVE  j = k
    <3>1. \A m \in 1 .. Len(fds') : m \in 1 .. Len(fds) \/ m = Len(fds) + 1
      BY <1>0, <1>6
    <3>2. fds'[Len(fds) + 1].fd = d
      BY <1>6
    <3>3. j \in 1 .. Len(fds) => fds'[j] = fds[j] /\ fds[j].fd # d
      BY <1>6, <1>7
    <3>4. k \in 1 .. Len(fds) => fds'[k] = fds[k] /\ fds[k].fd # d
      BY <1>6, <1>7
    <3>5. CASE j \in 1 .. Len(fds) /\ k \in 1 .. Len(fds)
      BY <2>3, <3>3, <3>4, <3>5 DEF IInv, PlacesInv
    <3> QED BY <2>3, <3>1, <3>2, <3>3, <3>4, <3>5
  <2>4. ASSUME NEW e \in Clients, Accepted(e)'
        PROVE  \E j \in 1 .. Len(fds') : fds'[j].fd = desc'[e]
    <3>1. CASE e = c
      <4>1. Len(fds) + 1 \in 1 .. Len(fds') /\ fds'[Len(fds) + 1].fd = d
        BY <1>0, <1>6
      <4> QED BY <3>1, <4>1, <1>7
    <3>2. CASE e # c
      <4>1. desc'[e] = desc[e] /\ Accepted(e)
        BY <3>2, <2>4, <1>7 DEF Accepted
      <4>2. PICK j \in 1 .. Len(fds) : fds[j].fd = desc[e]
        BY <4>1 DEF IInv, PlacesInv
      <4>3. j \in 1 .. Len(fds') /\ fds'[j] = fds[j]
        BY <1>0, <1>6
      <4> QED BY <4>1, <4>2, <4>3
    <3> QED BY <3>1, <3>2
  <2>5. \A e, f \in Clients : Accepted(e)' /\ desc'[e] = desc'[f] => e = f
    BY <1>7 DEF IInv, PlacesInv, Accepted
  <2> QED BY <2>1, <2>2, <2>3, <2>4, <2>5 DEF PlacesInv
<1>10. BacklogInv'
  <2>1. backlog' \in [Servers -> Seq(Clients)]
    BY <1>1, <1>4 DEF IInv, BacklogInv
  <2>2. ASSUME NEW m \in Servers, NEW k \in 1 .. Len(backlog'[m]), NEW e, e = backlog'[m][k]
        PROVE  /\ Live(e)' /\ ~Accepted(e)' /\ door'[e] = m
               /\ \A n \in 1 .. Len(backlog'[m]) : backlog'[m][n] = e => n = k
    <3>1. PICK p \in {0, 1} : /\ p = IF m = l THEN 1 ELSE 0
                              /\ Len(backlog'[m]) = Len(backlog[m]) - p
                              /\ \A n \in 1 .. Len(backlog'[m]) :
                                   backlog'[m][n] = backlog[m][n + p]
      <4>1. CASE m = l
        <5>1. backlog'[m] = Tail(backlog[l])
          BY <4>1, <1>0, <1>1 DEF IInv, BacklogInv, l
        <5> QED BY <4>1, <5>1, <1>4
      <4>2. CASE m # l
        <5>1. backlog'[m] = backlog[m]
          BY <4>2, <1>1 DEF IInv, BacklogInv
        <5>2. backlog[m] \in Seq(Clients)
          BY DEF IInv, BacklogInv
        <5>3. Len(backlog[m]) = Len(backlog[m]) - 0
              /\ \A n \in 1 .. Len(backlog[m]) : n + 0 = n
          BY <5>2
        <5> QED BY <4>2, <5>1, <5>3
      <4> QED BY <4>1, <4>2
    <3>2. backlog[m] \in Seq(Clients) /\ Len(backlog[m]) \in Nat
      BY DEF IInv, BacklogInv
    <3>3. /\ k + p \in 1 .. Len(backlog[m]) /\ e = backlog[m][k + p]
          /\ \A n \in 1 .. Len(backlog'[m]) : n + p \in 1 .. Len(backlog[m])
      BY <2>2, <3>1, <3>2
    <3>4. /\ e \in Clients /\ Live(e) /\ ~Accepted(e) /\ door[e] = m
          /\ \A n \in 1 .. Len(backlog[m]) : backlog[m][n] = e => n = k + p
      BY <3>2, <3>3 DEF IInv, BacklogInv
    <3>5. e # c
      <4>1. CASE m = l
        <5>1. c = backlog[m][1] /\ 1 \in 1 .. Len(backlog[m]) /\ k + p # 1
          BY <4>1, <1>4, <3>1
        <5> QED BY <5>1, <3>4
      <4>2. CASE m # l
        BY <4>2, <1>5, <3>4
      <4> QED BY <4>1, <4>2
    <3>6. \A n \in 1 .. Len(backlog'[m]) : backlog'[m][n] = e => n = k
      <4>1. SUFFICES ASSUME NEW n \in 1 .. Len(backlog'[m]), backlog'[m][n] = e PROVE n = k
        OBVIOUS
      <4>2. n + p = k + p
        BY <4>1, <3>1, <3>3, <3>4
      <4>3. n \in Int /\ k \in Int /\ p \in Int
        OBVIOUS
      <4> QED BY <4>2, <4>3
    <3> QED BY <1>0, <1>7, <3>4, <3>5, <3>6 DEF Live, Accepted
  <2>3. \A e \in Clients : Accepted(e)' => Live(e)'
    BY <1>0, <1>5, <1>7 DEF IInv, BacklogInv, Live, Accepted
  <2> QED BY <2>1, <2>2, <2>3 DEF BacklogInv
<1>11. AnswersInv'
  BY <1>0 DEF IInv, AnswersInv
<1>12. LoopInv'
  <2>1. \A m \in Servers : m >= at' => backlog'[m] = backlog[m] /\ fds'[m] = fds[m] /\ m >= at
    BY <1>0, <1>1, <1>2, <1>6 DEF IInv, PlacesInv, BacklogInv, Servers
  <2> QED BY <1>0, <2>1 DEF IInv, LoopInv
<1>13. SilenceInv'
  <2> SUFFICES ASSUME NEW e \in Clients, NEW j \in 1 .. Len(fds'),
                      Accepted(e)', fds'[j].fd = desc'[e]
               PROVE  /\ inbox'[e] = <<>> => last_activity'[j] <= quiet'[e]
                      /\ last_activity'[j] > Limit => quiet'[e] > Limit
    BY DEF SilenceInv
  <2>1. CASE j = Len(fds) + 1
    BY <2>1, <1>0, <1>6 DEF IInv, ClientsInv, Ages
  <2>2. CASE j # Len(fds) + 1
    <3>1. j \in 1 .. Len(fds) /\ fds'[j] = fds[j] /\ last_activity'[j] = last_activity[j]
      BY <2>2, <1>0, <1>6
    <3>2. e # c
      BY <3>1, <1>7
    <3>3. desc'[e] = desc[e] /\ Accepted(e) /\ fds[j].fd = desc[e]
      BY <3>1, <3>2, <1>7 DEF Accepted
    <3> QED BY <3>1, <3>3, <1>0 DEF IInv, SilenceInv
  <2> QED BY <2>1, <2>2
<1> QED BY <1>6, <1>8, <1>9, <1>10, <1>11, <1>12, <1>13 DEF IInv

\* accept failed: a place of nobody's.
LEMMA AcceptFailsInv ==
  ASSUME IInv, NEW i \in 1 .. Len(fds), AcceptFails(i)
  PROVE  IInv'
<1> USE SocketsAssumption
<1>0. /\ pc = "scan" /\ pc' = pc /\ at' = i + 1 /\ i >= at /\ fds[i].ready
      /\ Len(fds) \in Nat /\ at \in Nat
      /\ UNCHANGED <<backlog, desc, link, ask, door, sent, inbox, got, quiet>>
  BY DEF AcceptFails, Comes, Ready, IInv, VectorsInv, LoopInv, manager, os, clients
<1>1. AddClient(NoFd) /\ NoFd \in Int
  BY DEF AcceptFails, NoFd
<1>2. /\ VectorsInv'
      /\ Len(fds') = Len(fds) + 1 /\ fds'[Len(fds) + 1] = [fd |-> NoFd, ready |-> FALSE]
      /\ \A j \in 1 .. Len(fds) : fds'[j] = fds[j] /\ last_activity'[j] = last_activity[j]
      /\ last_activity'[Len(fds) + 1] = 0
  BY <1>1, AddClientInv DEF IInv
<1>3. \A j \in 1 .. Len(fds') :
        \/ j \in 1 .. Len(fds) /\ fds'[j] = fds[j] /\ last_activity'[j] = last_activity[j]
        \/ j = Len(fds) + 1 /\ fds'[j].fd = NoFd
  BY <1>0, <1>2
<1>4. ClientsInv' /\ BacklogInv' /\ AnswersInv'
  BY <1>0 DEF IInv, ClientsInv, BacklogInv, AnswersInv, Live, Accepted
<1>5. PlacesInv'
  <2>1. \A m \in Servers : m <= Len(fds') /\ fds'[m].fd = m
    <3>1. \A m \in Servers : m \in 1 .. Len(fds) /\ fds[m].fd = m
      BY <1>0 DEF IInv, PlacesInv, Servers
    <3> QED BY <3>1, <1>0, <1>2
  <2>2. \A j \in Listens + 1 .. Len(fds') :
          fds'[j].fd = NoFd \/ \E e \in Clients : desc'[e] = fds'[j].fd
    BY <1>0, <1>2, <1>3 DEF IInv, PlacesInv
  <2>3. \A j, k \in 1 .. Len(fds') :
          fds'[j].fd = fds'[k].fd /\ fds'[j].fd # NoFd => j = k
    BY <1>3 DEF IInv, PlacesInv
  <2>4. ASSUME NEW e \in Clients, Accepted(e)
        PROVE  \E j \in 1 .. Len(fds') : fds'[j].fd = desc'[e]
    <3>1. PICK j \in 1 .. Len(fds) : fds[j].fd = desc[e]
      BY <2>4 DEF IInv, PlacesInv
    <3>2. j \in 1 .. Len(fds') /\ fds'[j] = fds[j]
      BY <1>0, <1>2
    <3> QED BY <1>0, <3>1, <3>2
  <2> QED BY <1>0, <2>1, <2>2, <2>3, <2>4 DEF IInv, PlacesInv, Accepted
<1>6. LoopInv'
  <2>1. \A m \in Servers : m >= at' => fds'[m] = fds[m] /\ m >= at
    BY <1>0, <1>2 DEF IInv, PlacesInv, Servers
  <2> QED BY <1>0, <2>1 DEF IInv, LoopInv
<1>7. SilenceInv'
  BY <1>0, <1>3 DEF IInv, SilenceInv, Accepted
<1> QED BY <1>2, <1>4, <1>5, <1>6, <1>7 DEF IInv

\* read and what follows it, up to the answer.
LEMMA HandleInv ==
  ASSUME IInv, NEW c \in Clients, NEW i \in 1 .. Len(fds), HandleClientData(c, i)
  PROVE  IInv'
<1> USE SocketsAssumption
<1>0. /\ pc = "scan" /\ i >= at /\ Accepted(c) /\ desc[c] = fds[i].fd
      /\ Len(fds) \in Nat /\ at \in Nat
      /\ UNCHANGED <<fds, backlog, desc, ask, door, link, sent, got>>
  BY DEF HandleClientData, Comes, Ready, IInv, VectorsInv, LoopInv, os, clients
<1>1. PICK p : /\ Kept(c, i, p)
               /\ \/ at' = i + 1 /\ UNCHANGED <<manager, client_fd>>
                  \/ /\ client_fd' = fds[i].fd /\ at' = i
                     /\ pc' \in {"write", "cgi", "killed"}
  <2>1. PICK p : p = request_parts[i] \o inbox[c] /\
       \/ /\ ~Framed(p)
          /\ Kept(c, i, p)
          /\ at' = i + 1
          /\ UNCHANGED <<manager, client_fd>>
       \/ /\ Framed(p)
          /\ \E q \in {Clean(p)} :
               \/ /\ Short(q)
                  /\ Kept(c, i, q)
                  /\ at' = i + 1
                  /\ UNCHANGED <<manager, client_fd>>
               \/ /\ TooLarge(q)
                  /\ Kept(c, i, q)
                  /\ client_fd' = fds[i].fd /\ at' = i
                  /\ Respond(413)
                  /\ UNCHANGED <<disk, counter, cgi, stored>>
               \/ /\ ~Short(q) /\ ~TooLarge(q)
                  /\ Kept(c, i, <<>>)
                  /\ client_fd' = fds[i].fd /\ at' = i
                  /\ Manage(c, q)
    BY DEF HandleClientData
  <2>2. CASE Framed(p)
    <3>1. PICK q :
               \/ /\ Kept(c, i, q)
                  /\ at' = i + 1
                  /\ UNCHANGED <<manager, client_fd>>
               \/ /\ Kept(c, i, q)
                  /\ client_fd' = fds[i].fd /\ at' = i
                  /\ Respond(413)
               \/ /\ Kept(c, i, <<>>)
                  /\ client_fd' = fds[i].fd /\ at' = i
                  /\ Manage(c, q)
      BY <2>1, <2>2
    <3> QED BY <3>1, ManageEnds DEF Respond
  <2>3. CASE ~Framed(p)
    BY <2>1, <2>3
  <2> QED BY <2>2, <2>3
<1>2. /\ request_parts' = [request_parts EXCEPT ![i] = p]
      /\ last_activity' = [last_activity EXCEPT ![i] = 0]
      /\ inbox' = [inbox EXCEPT ![c] = <<>>]
      /\ quiet' = [quiet EXCEPT ![c] = IF @ > Limit THEN 0 ELSE @]
  BY <1>1 DEF Kept
<1>3. VectorsInv'
  <2>1. last_activity' \in Seq(Ages) /\ Len(last_activity') = Len(last_activity)
    <3>1. 0 \in Ages /\ i \in 1 .. Len(last_activity) /\ last_activity \in Seq(Ages)
      BY DEF IInv, VectorsInv, Ages
    <3> QED BY <1>2, <3>1, ExceptSeq
  <2> QED BY <1>0, <1>2, <2>1 DEF IInv, VectorsInv
<1>4. ClientsInv'
  <2>1. inbox' \in [Clients -> Seq(Tokens)]
    BY <1>2 DEF IInv, ClientsInv
  <2>2. quiet' \in [Clients -> Ages]
    BY <1>2 DEF IInv, ClientsInv, Ages
  <2> QED BY <1>0, <2>1, <2>2 DEF IInv, ClientsInv
<1>5. PlacesInv' /\ BacklogInv' /\ AnswersInv'
  <2>1. PlacesInv'
    BY <1>0 DEF IInv, PlacesInv, Accepted
  <2>2. BacklogInv'
    BY <1>0 DEF IInv, BacklogInv, Live, Accepted
  <2>3. AnswersInv'
    BY <1>0 DEF IInv, AnswersInv
  <2> QED BY <2>1, <2>2, <2>3
<1>6. i > Listens
  BY <1>0 DEF IInv, PlacesInv, ClientsInv, Accepted, Servers
<1>7. LoopInv'
  <2>1. CASE at' = i + 1 /\ pc' = pc
    BY <1>0, <1>6, <2>1 DEF IInv, LoopInv, Servers
  <2>2. CASE client_fd' = fds[i].fd /\ at' = i /\ pc' \in {"write", "cgi", "killed"}
    BY <1>0, <2>2 DEF IInv, LoopInv, Accepted
  <2> QED BY <1>1, <2>1, <2>2 DEF manager
<1>8. SilenceInv'
  <2> SUFFICES ASSUME NEW e \in Clients, NEW j \in 1 .. Len(fds),
                      Accepted(e), fds[j].fd = desc[e]
               PROVE  /\ inbox'[e] = <<>> => last_activity'[j] <= quiet'[e]
                      /\ last_activity'[j] > Limit => quiet'[e] > Limit
    BY <1>0 DEF SilenceInv, Accepted
  <2>1. CASE e = c
    <3>1. j = i
      BY <2>1, <1>0 DEF IInv, PlacesInv, Accepted
    <3>2. last_activity'[j] = 0
      BY <3>1, <1>2 DEF IInv, VectorsInv
    <3> QED BY <3>2, <1>4 DEF ClientsInv, Ages
  <2>2. CASE e # c
    <3>1. j # i
      BY <2>2, <1>0 DEF IInv, PlacesInv, Accepted
    <3>2. last_activity'[j] = last_activity[j] /\ inbox'[e] = inbox[e] /\ quiet'[e] = quiet[e]
      BY <2>2, <3>1, <1>2 DEF IInv, VectorsInv, ClientsInv
    <3> QED BY <3>2 DEF IInv, SilenceInv
  <2> QED BY <2>1, <2>2
<1> QED BY <1>3, <1>4, <1>5, <1>7, <1>8 DEF IInv

\* The answer is written and its connection closed, at the place of its client.
LEMMA AnswerPlace ==
  ASSUME IInv, NEW c \in Clients, WriteResponse(c), pc' # "killed"
  PROVE  /\ at \in Listens + 1 .. Len(fds) /\ Place(client_fd) = at
         /\ Accepted(c) /\ desc[c] = fds[at].fd
         /\ \A e \in Clients : Accepted(e) /\ desc[e] = fds[at].fd => e = c
<1> USE SocketsAssumption
<1>1. /\ pc = "write" /\ Accepted(c) /\ desc[c] = client_fd
      /\ at \in 1 .. Len(fds) /\ fds[at].fd = client_fd
  BY DEF IInv, LoopInv, WriteResponse
<1>2. \A j \in 1 .. Len(fds) : fds[j].fd = client_fd => j = at
  BY <1>1 DEF IInv, PlacesInv, Accepted
<1>3. Place(client_fd) = at
  BY <1>1, <1>2 DEF Place
<1>4. at > Listens
  <2>1. Len(fds) \in Nat /\ desc[c] \in Listens + 1 .. MaxFd
    BY <1>1 DEF IInv, VectorsInv, ClientsInv, Accepted
  <2>2. at \in Servers => fds[at].fd = at
    BY DEF IInv, PlacesInv
  <2> QED BY <1>1, <2>1, <2>2 DEF Servers
<1>5. \A e \in Clients : Accepted(e) /\ desc[e] = fds[at].fd => e = c
  BY <1>1 DEF IInv, PlacesInv
<1> QED BY <1>1, <1>3, <1>4, <1>5 DEF IInv, VectorsInv

\* The answer, or the signal of a write to a connection that was reset.
LEMMA WriteInv ==
  ASSUME IInv, NEW c \in Clients, WriteResponse(c)
  PROVE  IInv'
<1> USE SocketsAssumption
<1>1. CASE pc' = "killed"
  <2>1. UNCHANGED Outside /\ pc' = "killed"
    BY <1>1 DEF WriteResponse, Outside, vectors, loop, os, clients
  <2> QED BY <2>1, InsideInv
<1>2. CASE pc' # "killed"
  <2>1. /\ at \in Listens + 1 .. Len(fds) /\ Place(client_fd) = at
        /\ Accepted(c) /\ desc[c] = fds[at].fd
    BY <1>2, AnswerPlace
  <2>2. /\ got' = [got EXCEPT ![c] = Append(@, response)]
        /\ RemoveClient(at) /\ at' = at + 1 /\ pc' = "scan"
        /\ UNCHANGED <<backlog, ask, door, sent, inbox>>
    BY <1>2, <2>1 DEF WriteResponse
  <2>3. /\ VectorsInv' /\ ClientsInv' /\ PlacesInv' /\ BacklogInv' /\ SilenceInv'
    BY <2>1, <2>2, RemoveClientInv DEF IInv
  <2>4. AnswersInv'
    <3>1. c \in Clients /\ got[c] = <<>> /\ link'[c] = "over"
      BY <2>1, <2>2 DEF IInv, AnswersInv, BacklogInv, Live, ClientsInv, RemoveClient
    <3>2. got'[c] = <<response>>
      BY <3>1, <2>2 DEF IInv, AnswersInv
    <3>3. got'[c] \in Seq({got'[c][1]}) /\ Len(got'[c]) <= 1
      BY <3>2
    <3>4. got' = [e \in Clients |-> got'[e]] /\ \A e \in Clients : e # c => got'[e] = got[e]
      BY <2>2 DEF IInv, AnswersInv
    <3>5. \A e \in Clients : e # c => link'[e] = link[e]
      <4>1. \A e \in Clients : Accepted(e) /\ desc[e] = fds[at].fd => e = c
        BY <1>2, AnswerPlace
      <4> QED BY <4>1, <2>2 DEF IInv, ClientsInv, RemoveClient
    <3> QED BY <3>1, <3>3, <3>4, <3>5 DEF IInv, AnswersInv
  <2>5. LoopInv'
    BY <2>1, <2>2 DEF LoopInv, Servers
  <2> QED BY <2>3, <2>4, <2>5 DEF IInv
<1> QED BY <1>1, <1>2

-----------------------------------------------------------------------------
(***************************************************************************)
(* The steps of the clients and of the clock.                              *)
(***************************************************************************)

\* A second makes everything older, and deaf where the server does not read.
LEMMA SecondInv == IInv /\ Second => IInv'
<1> SUFFICES ASSUME IInv, Second PROVE IInv'
  OBVIOUS
<1> USE SocketsAssumption DEF loop
<1>1. /\ (pc = "poll" /\ pc' = "late") \/ (pc = "cgi" /\ pc' = pc)
      /\ UNCHANGED <<fds, request_parts, at, client_fd, backlog, desc, ask, door, link,
                     sent, inbox, got>>
  BY DEF Second, os
<1>2. /\ last_activity \in Seq(Ages) /\ last_activity' \in Seq(Ages)
      /\ Len(last_activity') = Len(last_activity) /\ Len(last_activity) = Len(fds)
      /\ \A i \in 1 .. Len(last_activity) : last_activity'[i] = Older(last_activity[i])
  <2>1. last_activity \in Seq(Ages) /\ Len(last_activity) = Len(fds)
    BY DEF IInv, VectorsInv
  <2>2. last_activity' = [i \in 1 .. Len(last_activity) |-> Older(last_activity[i])]
    BY <2>1 DEF Second
  <2>3. \A i \in 1 .. Len(last_activity) : Older(last_activity[i]) \in Ages
    BY <2>1 DEF Older, Ages
  <2>4. last_activity' \in [1 .. Len(last_activity) -> Ages]
    BY <2>2, <2>3
  <2> QED BY <2>1, <2>2, <2>4
<1>3. /\ quiet' \in [Clients -> Ages]
      /\ \A c \in Clients : Live(c) =>
           quiet'[c] = IF Waiting(c) THEN Limit + 1 ELSE Older(quiet[c])
  BY DEF IInv, ClientsInv, Second, Older, Ages, Live
<1>4. VectorsInv'
  BY <1>1, <1>2 DEF IInv, VectorsInv
<1>5. ClientsInv' /\ AnswersInv'
  BY <1>1, <1>3 DEF IInv, ClientsInv, AnswersInv
<1>6. PlacesInv' /\ BacklogInv'
  <2>1. UNCHANGED <<fds, backlog, desc, door, link>>
    BY <1>1
  <2>2. PlacesInv'
    BY <2>1 DEF IInv, PlacesInv, Accepted
  <2>3. BacklogInv'
    BY <2>1 DEF IInv, BacklogInv, Live, Accepted
  <2> QED BY <2>2, <2>3
<1>7. LoopInv'
  BY <1>1 DEF IInv, LoopInv, Accepted
<1>8. SilenceInv'
  <2> SUFFICES ASSUME NEW c \in Clients, NEW i \in 1 .. Len(fds),
                      Accepted(c), fds[i].fd = desc[c]
               PROVE  /\ inbox[c] = <<>> => last_activity'[i] <= quiet'[c]
                      /\ last_activity'[i] > Limit => quiet'[c] > Limit
    BY <1>1 DEF SilenceInv, Accepted
  <2>1. /\ last_activity'[i] = Older(last_activity[i])
        /\ last_activity[i] \in Ages /\ quiet[c] \in Ages /\ Live(c)
    BY <1>2 DEF IInv, ClientsInv, BacklogInv
  <2>2. /\ inbox[c] = <<>> => last_activity[i] <= quiet[c]
        /\ last_activity[i] > Limit => quiet[c] > Limit
    BY DEF IInv, SilenceInv
  <2>3. CASE Waiting(c)
    BY <2>1, <2>3, <1>3 DEF Waiting
  <2>4. CASE ~Waiting(c)
    BY <2>1, <2>2, <2>4, <1>3 DEF Waiting, Older, Ages
  <2> QED BY <2>3, <2>4
<1> QED BY <1>4, <1>5, <1>6, <1>7, <1>8 DEF IInv

\* A client joins the backlog of its listening socket.
LEMMA ConnectInv ==
  ASSUME IInv, NEW c \in Clients, Connect(c)
  PROVE  IInv'
<1>1. /\ link[c] = "none" /\ link' = [link EXCEPT ![c] = "open"]
      /\ backlog' = [backlog EXCEPT ![door[c]] = Append(@, c)]
      /\ UNCHANGED <<pc, vectors, loop, desc, ask, door, sent, inbox, got, quiet>>
  BY DEF Connect, manager
<1> USE DEF vectors, loop
<1>2. ~Accepted(c) /\ door[c] \in Servers
  BY <1>1 DEF IInv, BacklogInv, ClientsInv, Live
<1>3. VectorsInv' /\ ClientsInv'
  BY <1>1 DEF IInv, VectorsInv, ClientsInv
<1>4. PlacesInv'
  BY <1>1 DEF IInv, PlacesInv, Accepted
<1>5. \A l \in Servers : backlog[l] \in Seq(Clients) /\ backlog'[l] \in Seq(Clients)
        /\ backlog'[l] = IF l = door[c] THEN Append(backlog[l], c) ELSE backlog[l]
  BY <1>1 DEF IInv, BacklogInv
<1>6. BacklogInv'
  <2>1. backlog' \in [Servers -> Seq(Clients)]
    BY <1>1, <1>5 DEF IInv, BacklogInv
  <2>2. \A l \in Servers : \A k \in 1 .. Len(backlog[l]) : backlog[l][k] # c
    BY <1>1 DEF IInv, BacklogInv, Live
  <2>3. ASSUME NEW l \in Servers, NEW k \in 1 .. Len(backlog'[l]), NEW e, e = backlog'[l][k]
        PROVE  /\ Live(e)' /\ ~Accepted(e)' /\ door'[e] = l
               /\ \A n \in 1 .. Len(backlog'[l]) : backlog'[l][n] = e => n = k
    <3>1. CASE l # door[c]
      <4>1. backlog'[l] = backlog[l]
        BY <1>5, <3>1
      <4>2. /\ e \in Clients /\ Live(e) /\ ~Accepted(e) /\ door[e] = l
            /\ \A n \in 1 .. Len(backlog[l]) : backlog[l][n] = e => n = k
        BY <2>3, <4>1, <1>5 DEF IInv, BacklogInv
      <4>3. e # c
        BY <2>2, <2>3, <4>1
      <4>4. Live(e)' /\ ~Accepted(e)' /\ door'[e] = l
        BY <1>1, <4>2, <4>3 DEF Live, Accepted, IInv, ClientsInv
      <4> QED BY <4>1, <4>2, <4>3, <4>4, <2>3
    <3>2. CASE l = door[c]
      <4>1. /\ Len(backlog'[l]) = Len(backlog[l]) + 1 /\ backlog'[l][Len(backlog[l]) + 1] = c
            /\ \A n \in 1 .. Len(backlog[l]) : backlog'[l][n] = backlog[l][n]
            /\ Len(backlog[l]) \in Nat
        <5>1. backlog[l] \in Seq(Clients) /\ backlog'[l] = Append(backlog[l], c)
          BY <1>5, <3>2
        <5> QED BY <5>1, AppendProperties
      <4>2. CASE k = Len(backlog[l]) + 1
        <5>1. e = c
          BY <2>3, <4>1, <4>2
        <5>2. link'[c] = "open" /\ ~Accepted(c)' /\ door'[c] = l
          BY <1>1, <1>2, <3>2 DEF Accepted, IInv, ClientsInv
        <5>3. ASSUME NEW n \in 1 .. Len(backlog'[l]), backlog'[l][n] = c PROVE n = k
          <6>1. n \in 1 .. Len(backlog[l]) \/ n = k
            BY <4>1, <4>2
          <6> QED BY <6>1, <5>3, <2>2, <4>1
        <5> QED BY <5>1, <5>2, <5>3 DEF Live
      <4>3. CASE k \in 1 .. Len(backlog[l])
        <5>1. /\ e \in Clients /\ Live(e) /\ ~Accepted(e) /\ door[e] = l /\ e # c
              /\ \A n \in 1 .. Len(backlog[l]) : backlog[l][n] = e => n = k
          BY <2>2, <2>3, <4>1, <4>3, <1>5 DEF IInv, BacklogInv
        <5>2. Live(e)' /\ ~Accepted(e)' /\ door'[e] = l
          BY <1>1, <5>1 DEF Live, Accepted, IInv, ClientsInv
        <5>3. ASSUME NEW n \in 1 .. Len(backlog'[l]), backlog'[l][n] = e PROVE n = k
          <6>1. n \in 1 .. Len(backlog[l]) \/ n = Len(backlog[l]) + 1
            BY <4>1
          <6> QED BY <6>1, <5>1, <5>3, <4>1
        <5> QED BY <5>2, <5>3
      <4> QED BY <4>1, <4>2, <4>3
    <3> QED BY <3>1, <3>2
  <2>4. \A e \in Clients : Accepted(e)' => Live(e)'
    BY <1>1 DEF IInv, BacklogInv, ClientsInv, Live, Accepted
  <2> QED BY <2>1, <2>3, <2>4 DEF BacklogInv
<1>7. AnswersInv'
  BY <1>1 DEF IInv, AnswersInv, ClientsInv
<1>8. LoopInv'
  <2>1. \A l \in Servers : Append(backlog[l], c) # <<>>
    BY <1>5, AppendProperties
  <2>2. \A l \in Servers : backlog[l] # <<>> => backlog'[l] # <<>>
    BY <1>5, <2>1
  <2> QED BY <1>1, <2>2 DEF IInv, LoopInv, Accepted
<1>9. SilenceInv'
  BY <1>1 DEF IInv, SilenceInv, Accepted
<1> QED BY <1>3, <1>4, <1>6, <1>7, <1>8, <1>9 DEF IInv

\* A client closes or resets its connection, which stays the server's to close.
LEMMA HangUpInv ==
  ASSUME IInv, NEW c \in Clients, HangUp(c)
  PROVE  IInv'
<1>1. /\ link[c] = "open"
      /\ link' = [link EXCEPT ![c] = IF c \in Abrupt THEN "reset" ELSE "closed"]
      /\ UNCHANGED <<pc, fds, request_parts, last_activity, at, client_fd, backlog, desc,
                     ask, door, sent, inbox, got, quiet>>
  BY DEF HangUp, manager, vectors, loop, os
<1>2. VectorsInv' /\ PlacesInv' /\ LoopInv' /\ SilenceInv'
  <2>1. VectorsInv' /\ PlacesInv'
    BY <1>1 DEF IInv, VectorsInv, PlacesInv, Accepted
  <2>2. LoopInv' /\ SilenceInv'
    BY <1>1 DEF IInv, LoopInv, SilenceInv, Accepted
  <2> QED BY <2>1, <2>2
<1>3. \A e \in Clients :
        /\ link[e] \in {"open", "closed", "reset"} => link'[e] \in {"open", "closed", "reset"}
        /\ (link'[e] = "over") = (link[e] = "over")
  BY <1>1 DEF IInv, ClientsInv
<1>4. ClientsInv'
  BY <1>1 DEF IInv, ClientsInv
<1>5. BacklogInv'
  <2>1. UNCHANGED <<backlog, desc, door>>
    BY <1>1
  <2>2. \A l \in Servers : \A k \in 1 .. Len(backlog[l]) : backlog[l][k] \in Clients
    BY DEF IInv, BacklogInv
  <2> QED BY <2>1, <2>2, <1>3 DEF IInv, BacklogInv, Live, Accepted
<1>6. AnswersInv'
  <2>1. got' = got
    BY <1>1
  <2> QED BY <2>1, <1>3 DEF IInv, AnswersInv
<1> QED BY <1>2, <1>4, <1>5, <1>6 DEF IInv

\* What c sends is not empty, so that c is heard as soon as it is read.
LEMMA SendInv ==
  ASSUME IInv, NEW c \in Clients, ask[c] # 0, NEW n \in Pauses(c), Send(c, n)
  PROVE  IInv'
<1> USE SocketsAssumption
<1> DEFINE more == SubSeq(Text(c), sent[c] + 1, n)
<1>1. /\ link[c] = "open" /\ sent[c] < n
      /\ sent' = [sent EXCEPT ![c] = n]
      /\ inbox' = [inbox EXCEPT ![c] = @ \o more]
      /\ quiet' = [quiet EXCEPT ![c] = IF @ > Limit THEN @ ELSE 0]
      /\ UNCHANGED <<pc, fds, request_parts, last_activity, at, client_fd, backlog, desc,
                     ask, door, link, got>>
  BY DEF Send, manager, vectors, loop, os
<1>2. /\ n \in Nat /\ more \in Seq(Tokens) /\ Len(more) > 0
      /\ inbox[c] \in Seq(Tokens) /\ sent[c] \in Nat
  <2>1. ask[c] \in 1 .. Len(Asks) /\ inbox[c] \in Seq(Tokens) /\ sent[c] \in Nat
    BY ClientsAssumption DEF IInv, ClientsInv
  <2>2. Text(c) \in Seq(Tokens) /\ n \in 1 .. Len(Text(c))
    BY <2>1, Texts DEF Text, Pauses
  <2>3. Len(Text(c)) \in Nat
    BY <2>2
  <2>4. more \in Seq(Tokens) /\ Len(more) = n - (sent[c] + 1) + 1
    <3>1. sent[c] + 1 \in 1 .. Len(Text(c)) + 1 /\ n \in sent[c] + 1 - 1 .. Len(Text(c))
      BY <1>1, <2>1, <2>2, <2>3
    <3>2. \A i \in sent[c] + 1 .. n : Text(c)[i] \in Tokens
      BY <2>1, <2>2, <2>3
    <3> HIDE DEF Text
    <3> QED BY <1>1, <2>1, <2>2, <2>3, <3>1, <3>2, SubSeqProperties
  <2> HIDE DEF more
  <2> QED BY <1>1, <2>1, <2>2, <2>3, <2>4
<1> HIDE DEF more
<1>3. /\ inbox' \in [Clients -> Seq(Tokens)] /\ inbox'[c] # <<>>
      /\ \A e \in Clients : e # c => inbox'[e] = inbox[e]
  <2>1. inbox[c] \o more \in Seq(Tokens) /\ inbox[c] \o more # <<>>
    BY <1>2, ConcatProperties
  <2> QED BY <1>1, <2>1 DEF IInv, ClientsInv
<1>4. /\ quiet' \in [Clients -> Ages]
      /\ \A e \in Clients : e # c => quiet'[e] = quiet[e]
      /\ quiet'[c] = IF quiet[c] > Limit THEN quiet[c] ELSE 0
  BY <1>1 DEF IInv, ClientsInv, Ages
<1>5. VectorsInv' /\ PlacesInv'
  BY <1>1 DEF IInv, VectorsInv, PlacesInv, Accepted
<1>6. ClientsInv'
  BY <1>1, <1>2, <1>3, <1>4 DEF IInv, ClientsInv
<1>7. BacklogInv' /\ AnswersInv' /\ LoopInv'
  <2>1. BacklogInv' /\ AnswersInv'
    BY <1>1 DEF IInv, BacklogInv, AnswersInv, Accepted, Live
  <2>2. LoopInv'
    BY <1>1 DEF IInv, LoopInv, Accepted
  <2> QED BY <2>1, <2>2
<1>8. SilenceInv'
  BY <1>1, <1>3, <1>4 DEF IInv, SilenceInv, Accepted
<1> QED BY <1>5, <1>6, <1>7, <1>8 DEF IInv

-----------------------------------------------------------------------------
(***************************************************************************)
(* The theorems.                                                           *)
(***************************************************************************)

\* Every step preserves the invariant.
LEMMA NextInv == IInv /\ [Next]_vars => IInv'
<1> SUFFICES ASSUME IInv, [Next]_vars PROVE IInv'
  OBVIOUS
<1>1. CASE Poll
  BY <1>1, PollInv
<1>2. CASE ExpireDone \/ ScanDone
  BY <1>2, LoopsEndInv
<1>3. CASE Cgi \/ Program
  BY <1>3, CgiInv
<1>4. ASSUME NEW i \in 1 .. Len(fds), Expire(i) PROVE IInv'
  BY <1>4, ExpireInv
<1>5. ASSUME NEW i \in 1 .. Len(fds), Accept(i) PROVE IInv'
  BY <1>5, AcceptInv
<1>6. ASSUME NEW i \in 1 .. Len(fds), AcceptFails(i) PROVE IInv'
  BY <1>6, AcceptFailsInv
<1>7. ASSUME NEW c \in Clients, NEW i \in 1 .. Len(fds), HandleClientData(c, i) PROVE IInv'
  BY <1>7, HandleInv
<1>8. ASSUME NEW c \in Clients, WriteResponse(c) PROVE IInv'
  BY <1>8, WriteInv
<1>9. CASE Second
  BY <1>9, SecondInv
<1>10. CASE Stop
  BY <1>10, StopInv
<1>11. ASSUME NEW c \in Clients, Client(c) PROVE IInv'
  BY <1>11, ConnectInv, HangUpInv, SendInv DEF Client
<1>12. CASE UNCHANGED vars
  <2>1. UNCHANGED <<manager, vectors, loop, os, clients, inbox, got, quiet>>
    BY <1>12 DEF vars
  <2> USE <2>1 DEF manager, vectors, loop, os, clients
  <2>2. VectorsInv' /\ ClientsInv' /\ PlacesInv'
    BY DEF IInv, VectorsInv, ClientsInv, PlacesInv, Accepted
  <2>3. BacklogInv' /\ AnswersInv'
    BY DEF IInv, BacklogInv, AnswersInv, Accepted, Live
  <2>4. LoopInv' /\ SilenceInv'
    BY DEF IInv, LoopInv, SilenceInv, Accepted
  <2> QED BY <2>2, <2>3, <2>4 DEF IInv
<1> QED BY <1>1, <1>2, <1>3, <1>4, <1>5, <1>6, <1>7, <1>8, <1>9, <1>10, <1>11, <1>12
        DEF Next, Run

\* The vectors, the clients and the loops of run agree in every reachable state (run).
THEOREM Invariance == Spec => []IInv
<1> QED BY InitInv, NextInv, PTL DEF Spec

\* _fds, request_parts and last_activity stay parallel, the listening sockets keep
\* the first places and every accepted client has one of the others, whatever is
\* accepted and erased (addClient, removeClient and the loops of run).
THEOREM VectorsStayParallel == Spec => []PlacesAgree
<1> USE SocketsAssumption
<1>1. IInv => PlacesAgree
  <2> SUFFICES ASSUME IInv PROVE PlacesAgree
    OBVIOUS
  <2>1. Len(fds) \in Nat /\ Len(last_activity) = Len(fds)
    BY DEF IInv, VectorsInv
  <2>2. Len(request_parts) = Len(fds)
    BY <2>1, FunctionIsSequence DEF IInv, VectorsInv
  <2>3. \A i \in Listens + 1 .. Len(fds) :
          fds[i].fd = NoFd \/ \E c \in Clients : fds[i].fd = desc[c]
    BY DEF IInv, PlacesInv
  <2>4. ASSUME NEW i \in 1 .. Len(fds)
        PROVE  /\ fds[i].fd \in Servers <=> i \in Servers
               /\ i \notin Servers => fds[i].fd = NoFd \/ \E c \in Clients : fds[i].fd = desc[c]
    <3>1. CASE i \in Servers
      BY <3>1 DEF IInv, PlacesInv
    <3>2. CASE i \notin Servers
      <4>1. fds[i].fd = NoFd \/ \E c \in Clients : fds[i].fd = desc[c]
        BY <2>1, <2>3, <3>2 DEF Servers
      <4>2. fds[i].fd \notin Servers
        BY <4>1 DEF IInv, ClientsInv, NoFd, Servers
      <4> QED BY <3>2, <4>1, <4>2
    <3> QED BY <3>1, <3>2
  <2>5. ASSUME NEW c \in Clients, Accepted(c)
        PROVE  \E i \in 1 .. Len(fds) : \A j \in 1 .. Len(fds) : fds[j].fd = desc[c] <=> i = j
    BY <2>5 DEF IInv, PlacesInv, Accepted
  <2>6. \A c, d \in Clients : Accepted(c) /\ desc[c] = desc[d] => c = d
    BY DEF IInv, PlacesInv
  <2>7. pc \in {"cgi", "write"} =>
          fds[at].fd = client_fd /\ \E c \in Clients : Accepted(c) /\ desc[c] = client_fd
    BY DEF IInv, LoopInv
  <2> QED BY <2>1, <2>2, <2>4, <2>5, <2>6, <2>7 DEF PlacesAgree
<1> QED BY <1>1, Invariance, PTL

\* A client whose connection is closed without an answer was silent for longer than
\* the limit, or could not be heard for a CGI program (run, handleClientData).
THEOREM SilentOnesAreCutOff == Spec => OnlyTheSilentAreCutOff
<1> USE SocketsAssumption
<1> DEFINE Cut(c) == link'[c] = "over" /\ link[c] # "over" /\ got'[c] = <<>>
<1>1. IInv /\ [Next]_vars => [\A c \in Clients : Cut(c) => quiet[c] > Limit]_vars
  <2> SUFFICES ASSUME IInv, [Next]_vars, NEW c \in Clients, Cut(c)
               PROVE  quiet[c] > Limit
    OBVIOUS
  <2> DEFINE Same == link' = link
  <2>1. ASSUME NEW i \in 1 .. Len(fds), Expire(i) PROVE quiet[c] > Limit
    <3>1. RemoveClient(i) /\ Overdue(i)
      BY <2>1 DEF Expire, Comes
    <3>2. Accepted(c) /\ desc[c] = fds[i].fd
      BY <3>1 DEF RemoveClient
    <3> QED BY <3>1, <3>2 DEF IInv, SilenceInv, Overdue
  <2>2. ASSUME NEW d \in Clients, WriteResponse(d) PROVE FALSE
    <3>1. CASE pc' = "killed"
      BY <2>2, <3>1 DEF WriteResponse
    <3>2. CASE pc' # "killed"
      <4>1. RemoveClient(at) /\ got' = [got EXCEPT ![d] = Append(@, response)]
        BY <2>2, <3>2, AnswerPlace DEF WriteResponse
      <4>2. c = d
        <5>1. Accepted(c) /\ desc[c] = fds[at].fd
          BY <4>1 DEF RemoveClient
        <5>2. \A e \in Clients : Accepted(e) /\ desc[e] = fds[at].fd => e = d
          BY <2>2, <3>2, AnswerPlace
        <5> QED BY <5>1, <5>2
      <4>3. got[c] = <<>> /\ got'[c] = Append(got[c], response)
        <5>1. DOMAIN got = Clients
          BY DEF IInv, AnswersInv
        <5>2. got'[d] = Append(got[d], response)
          BY <4>1, <5>1
        <5>3. link[c] # "over"
          OBVIOUS
        <5>4. got[c] = <<>>
          BY <5>3 DEF IInv, AnswersInv
        <5> QED BY <4>2, <5>2, <5>4
      <4>4. \A e : Append(<<>>, e) # <<>>
        OBVIOUS
      <4>5. got'[c] = <<>>
        OBVIOUS
      <4> QED BY <4>3, <4>4, <4>5
    <3> QED BY <3>1, <3>2
  <2>3. ASSUME NEW d \in Clients, Connect(d) PROVE FALSE
    BY <2>3 DEF Connect, IInv, ClientsInv
  <2>4. ASSUME NEW d \in Clients, HangUp(d) PROVE FALSE
    BY <2>4 DEF HangUp, IInv, ClientsInv
  <2>5. ASSUME NEW d \in Clients, NEW n, Send(d, n) PROVE FALSE
    BY <2>5 DEF Send
  <2>6. CASE Poll \/ ExpireDone \/ ScanDone \/ Stop \/ Second
    BY <2>6 DEF Poll, ExpireDone, ScanDone, Stop, Second, clients
  <2>7. CASE Cgi \/ Program
    BY <2>7 DEF Cgi, Program, clients
  <2>8. ASSUME NEW i \in 1 .. Len(fds), Accept(i) \/ AcceptFails(i) PROVE FALSE
    BY <2>8 DEF Accept, AcceptFails, clients
  <2>9. ASSUME NEW d \in Clients, NEW i \in 1 .. Len(fds), HandleClientData(d, i) PROVE FALSE
    BY <2>9 DEF HandleClientData, clients
  <2>10. CASE UNCHANGED vars
    BY <2>10 DEF vars, clients
  <2> QED BY <2>1, <2>2, <2>3, <2>4, <2>5, <2>6, <2>7, <2>8, <2>9, <2>10
          DEF Next, Run, Client
<1> QED BY <1>1, Invariance, PTL DEF Spec, OnlyTheSilentAreCutOff

\* No client is answered twice: its answer ends its connection (handleClientData).
THEOREM AnsweredAtMostOnce == Spec => [](\A c \in Clients : Len(got[c]) <= 1)
<1>1. IInv => \A c \in Clients : Len(got[c]) <= 1
  <2> SUFFICES ASSUME IInv, NEW c \in Clients PROVE Len(got[c]) <= 1
    OBVIOUS
  <2>1. (got[c] \in Seq({got[c][1]}) /\ Len(got[c]) <= 1) \/ got[c] = <<>>
    BY DEF IInv, AnswersInv
  <2> QED BY <2>1
<1> QED BY <1>1, Invariance, PTL

=============================================================================
