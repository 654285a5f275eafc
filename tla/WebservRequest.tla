--------------------------- MODULE WebservRequest ---------------------------
(***************************************************************************)
(* webserv/srcs/RequestManager.cpp: the answer to one request, what it     *)
(* changes on the disk, and the CGI program that may have to run for it.   *)
(*                                                                         *)
(* Asks are the requests clients make, Locations those of the              *)
(* configuration.  Paths are sequences of letters, "/" and "?" among them. *)
(* The object a path leads to is a name; what is there is disk[name].      *)
(* Of an answer only the status is kept.  The server is one thread:        *)
(* everything here but the exchange with a CGI program is one step.        *)
(***************************************************************************)
EXTENDS WebservText, FiniteSets

CONSTANTS Clients,
          Asks,         \* the requests, a sequence of records
          Locations,    \* _config.locations
          MaxBody,      \* _config.clientMaxBodySize
          Names,        \* objects of the file system
          Tree,         \* what is there at first
          PipeCap       \* what a pipe holds

Kind == {"none", "file", "dir", "full"}   \* "full": a directory not empty
Entries == [kind : Kind, mode : SUBSET {"r", "w"}, text : Seq(Tokens)]
Gone == [kind |-> "none", mode |-> {}, text |-> <<>>]
File(text) == [kind |-> "file", mode |-> {"r", "w"}, text |-> text]

\* The objects there are, and the names the server comes to for a new one: every
\* store has "upload_1", "upload_2", ... for as many bodies as there are clients
ASSUME DiskAssumption ==
  /\ PipeCap \in Nat \ {0}
  /\ Tree \in [Names -> Entries]
  /\ Len(Locations) \in Nat \ {0}
  /\ \A l \in 1 .. Len(Locations) :
       /\ Locations[l].redirect \in Nat
       /\ Locations[l].upload =>
            /\ Locations[l].uploads \in Seq(Names)
            /\ Len(Locations[l].uploads) >= Cardinality(Clients)
  /\ \A l, m \in 1 .. Len(Locations) : Locations[l].upload /\ Locations[m].upload =>
       \A i \in DOMAIN Locations[l].uploads, j \in DOMAIN Locations[m].uploads :
         Locations[l].uploads[i] = Locations[m].uploads[j] => i = j
  /\ IsFiniteSet(Clients)

VARIABLES
  pc,        \* where run stands; "cgi" is executeCGI, "write" the answer's write
  response,  \* the status of _response, 0 for none
  disk, counter,
  cgi,       \* the exchange with the CGI program, of request cgi.ask
  stored     \* history: stored[c], the files kept for the request of c

manager == <<pc, response, disk, counter, cgi, stored>>

NoCgi == [ask |-> 0, todo |-> 0, in |-> 0, out |-> 0, left |-> 0, plan |-> <<>>]

-----------------------------------------------------------------------------
(***************************************************************************)
(* The first of a list of cases that holds.                                *)
(***************************************************************************)
When(holds, status) == [holds |-> holds, status |-> status]
FirstOf(cases) ==
  LET holding == { i \in 1 .. Len(cases) : cases[i].holds }
  IN IF holding = {} THEN 0 ELSE cases[First(holding)].status

(***************************************************************************)
(* IsMethodAllow: the longest location that is a prefix of the path, the   *)
(* first of them if there are two and the first of all if there is none.   *)
(***************************************************************************)
Ends(path, letter) == path # <<>> /\ path[Len(path)] = letter
IsPrefix(p, path) == Len(p) <= Len(path) /\ p = SubSeq(path, 1, Len(p))
Matches(l, path) ==
  IsPrefix(l.path, IF Ends(l.path, "/") /\ ~Ends(path, "/") THEN Append(path, "/")
                   ELSE path)
Best(path) ==
  { i \in 1 .. Len(Locations) :
      /\ Matches(Locations[i], path)
      /\ \A j \in 1 .. Len(Locations) :
           Matches(Locations[j], path) => Len(Locations[j].path) <= Len(Locations[i].path) }
Location(path) == Locations[IF Best(path) = {} THEN 1 ELSE First(Best(path))]

\* requestParser up to the choice of the method, 0 if it gets there
Verdict(a, length) ==
  LET l == Location(a.path) IN
  FirstOf(<< When(~a.words, 400),
             When(a.version \notin {"HTTP/1.0", "HTTP/1.1"}, 505),
             When(a.long, 414),
             When(a.version = "HTTP/1.1" /\ ~a.host, 400),
             When(a.large, 431),
             When(length > MaxBody, 413),
             When(a.method \notin l.methods, 405),
             When(l.redirect # 0, l.redirect),
             When(a.method \notin {"GET", "POST", "DELETE"}, 501) >>)

\* The path without its location: substr throws out_of_range, which nobody
\* catches but main
WithoutQuery(path) ==
  LET marks == { i \in 1 .. Len(path) : path[i] = "?" }
  IN IF marks = {} THEN path ELSE SubSeq(path, 1, First(marks) - 1)
OutOfRange(a) ==
  LET path == IF a.method = "GET" THEN WithoutQuery(a.path) ELSE a.path
  IN Len(path) < Len(Location(a.path).path) - 1

IsCgi(a) == Location(a.path).cgi /\ a.script
Readable(e) == e.kind # "none" /\ "r" \in e.mode
Runs(a) == a.method \in {"GET", "POST"} /\ IsCgi(a) /\ Readable(disk[a.name])

-----------------------------------------------------------------------------
Respond(status) ==
  /\ response' = status
  /\ pc' = "write"

(***************************************************************************)
(* GET: buildGETResponse, fileResponse, dirResponse, buildOkResponse.      *)
(***************************************************************************)
FileStatus(e) == IF Readable(e) THEN 200 ELSE 500

DirStatus(a) ==
  LET l == Location(a.path) IN
  FirstOf(<< When(~Ends(WithoutQuery(a.path), "/") /\ ~Ends(l.path, "/"), 301),
             When(disk[a.index].kind = "file", FileStatus(disk[a.index])),
             When(l.autoindex, 200),
             When(TRUE, 404) >>)

Get(a) ==
  LET e == disk[a.name] IN
  /\ a.method = "GET" /\ ~Runs(a)
  /\ Respond(FirstOf(<< When(e.kind = "none", 404),
                        When("r" \notin e.mode, 403),
                        When(e.kind = "file", FileStatus(e)),
                        When(TRUE, DirStatus(a)) >>))
  /\ UNCHANGED <<disk, counter, cgi, stored>>

(***************************************************************************)
(* POST: an upload of the body, or of the files of a form.                 *)
(***************************************************************************)
NotUploaded(a, body) ==
  LET l == Location(a.path)
      e == disk[a.name] IN
  FirstOf(<< When(IsCgi(a) /\ e.kind = "none", 404),
             When(IsCgi(a), 403),
             When(a.media = "form" /\ ~a.boundary, 400),
             When(~l.upload, 403),
             When(l.store = "missing", 404),
             When(l.store = "locked", 403),
             When(a.media = "form" /\ Malformed(body), 400) >>)

Refuse(a, body) ==
  /\ a.method = "POST" /\ ~Runs(a)
  /\ NotUploaded(a, body) # 0
  /\ Respond(NotUploaded(a, body))
  /\ UNCHANGED <<disk, counter, cgi, stored>>

CanWrite(e) == e.kind = "none" \/ (e.kind = "file" /\ "w" \in e.mode)

\* A form may have brought a file of the name counter comes to
Forgotten(name, media) ==
  [c \in Clients |-> { f \in stored[c] : ~(f.name = name /\ f.media \in media) }]

\* UploadBody without counter++
UploadBodyUncounted(c, a, body) ==
  LET name == Location(a.path).uploads[counter + 1] IN
  /\ a.method = "POST" /\ ~Runs(a) /\ a.media = "raw"
  /\ NotUploaded(a, body) = 0
  /\ disk' = [disk EXCEPT ![name] = File(body)]
  /\ stored' = [Forgotten(name, {"form"}) EXCEPT
                  ![c] = { [name |-> name, media |-> "raw"] }]
  /\ Respond(201)
  /\ UNCHANGED <<counter, cgi>>

UploadBody(c, a, body) ==
  LET name == Location(a.path).uploads[counter + 1] IN   \* "upload_n" of its store
  /\ a.method = "POST" /\ ~Runs(a) /\ a.media = "raw"
  /\ NotUploaded(a, body) = 0
  /\ counter' = counter + 1
  /\ IF CanWrite(disk[name])
     THEN /\ disk' = [disk EXCEPT ![name] = File(body)]
          /\ stored' = [Forgotten(name, {"form"}) EXCEPT
                          ![c] = { [name |-> name, media |-> "raw"] }]
          /\ Respond(201)
     ELSE /\ Respond(500)
          /\ UNCHANGED <<disk, stored>>
  /\ UNCHANGED cgi

\* The files before the place stop are written, a later one over an earlier of
\* its name
Named(files, name) == { i \in DOMAIN files : files[i].name = name }
Last(S) == CHOOSE i \in S : \A j \in S : j <= i
Written(files, stop) ==
  [name \in Names |->
     LET those == { i \in Named(files, name) : i < stop }
     IN IF those = {} THEN disk[name] ELSE File(files[Last(those)].text)]

FirstRefused(files, end) ==
  LET refused == { i \in DOMAIN files : ~CanWrite(disk[files[i].name]) }
  IN IF refused = {} THEN end ELSE First(refused)

\* A name of which a later file is not written is not kept for c
WriteFiles(c, files, stop) ==
  LET names == { files[i].name : i \in { i \in DOMAIN files : i < stop } }
      whole == { name \in names : \A i \in Named(files, name) : i < stop }
  IN /\ disk' = Written(files, stop)
     /\ stored' = [d \in Clients |->
          IF d = c THEN { [name |-> name, media |-> "form"] : name \in whole }
          ELSE { f \in stored[d] : f.name \notin names }]

UploadForm(c, a, body) ==
  /\ a.method = "POST" /\ ~Runs(a) /\ a.media = "form"
  /\ NotUploaded(a, body) = 0
  /\ \E files \in {Files(body)} : \E stop \in {FirstRefused(files, Len(body) + 1)} :
       /\ WriteFiles(c, files, stop)
       /\ Respond(IF stop > Len(body) THEN 201 ELSE 500)
  /\ UNCHANGED <<counter, cgi>>

(***************************************************************************)
(* DELETE.  Whether the directory lets go of the object is not known here. *)
(***************************************************************************)
Removed(a) ==
  /\ disk' = [disk EXCEPT ![a.name] = Gone]
  /\ stored' = Forgotten(a.name, {"raw", "form"})
  /\ Respond(204)

Delete(a) ==
  LET e == disk[a.name]
      keep == UNCHANGED <<disk, stored>> IN
  /\ a.method = "DELETE"
  /\ \/ e.kind = "none" /\ Respond(404) /\ keep
     \/ e.kind # "none" /\ "w" \notin e.mode /\ Respond(403) /\ keep
     \/ e.kind = "file" /\ "w" \in e.mode /\ (Removed(a) \/ (Respond(500) /\ keep))
     \/ e.kind = "dir" /\ "w" \in e.mode
          /\ (Removed(a) \/ (\E status \in {403, 500} : Respond(status) /\ keep))
     \/ e.kind = "full" /\ "w" \in e.mode
          /\ (\E status \in {403, 409, 500} : Respond(status) /\ keep)
  /\ UNCHANGED <<counter, cgi>>

(***************************************************************************)
(* executeCGI.  The server writes the body into one pipe, closes it, reads *)
(* the other pipe to its end and waits for the program, which reads and    *)
(* writes in the order of a.plan, a.output units in all.                   *)
(***************************************************************************)
\* ExecuteCgi with the whole request written to the program
ExecuteCgiWhole(t, a) ==
  /\ Runs(a)
  /\ cgi' = [ask  |-> t[1].n, todo |-> Len(t), in |-> 0, out |-> 0,
             left |-> a.output, plan |-> a.plan]
  /\ pc' = "cgi"
  /\ UNCHANGED <<response, disk, counter, stored>>

ExecuteCgi(t, a) ==
  /\ Runs(a)
  /\ \/ /\ cgi' = [ask  |-> t[1].n,
                   todo |-> IF a.method = "POST" /\ BodyLength(t) > 0 THEN Len(Body(t))
                            ELSE 0,
                   in |-> 0, out |-> 0, left |-> a.output, plan |-> a.plan]
        /\ pc' = "cgi"
        /\ UNCHANGED response
     \/ Respond(500) /\ UNCHANGED cgi      \* pipe or fork fails
  /\ UNCHANGED <<disk, counter, stored>>

Ended == cgi.plan = <<>>
Doing(what) == ~Ended /\ cgi.plan[1] = what

\* CgiFeed going on after the end of the body
CgiFeedOn ==
  /\ pc = "cgi"
  /\ ~Ended /\ cgi.in < PipeCap
  /\ cgi' = [cgi EXCEPT !.todo = @ - 1, !.in = @ + 1]
  /\ UNCHANGED <<pc, response, disk, counter, stored>>

CgiFeed ==
  /\ pc = "cgi"
  /\ cgi.todo > 0 /\ ~Ended /\ cgi.in < PipeCap
  /\ cgi' = [cgi EXCEPT !.todo = @ - 1, !.in = @ + 1]
  /\ UNCHANGED <<pc, response, disk, counter, stored>>

\* Nobody reads the body: SIGPIPE, for which webserv has no handler
CgiBrokenPipe ==
  /\ pc = "cgi"
  /\ cgi.todo > 0 /\ Ended
  /\ pc' = "killed"
  /\ UNCHANGED <<response, disk, counter, cgi, stored>>

CgiCollect ==
  /\ pc = "cgi"
  /\ cgi.todo = 0 /\ cgi.out > 0
  /\ cgi' = [cgi EXCEPT !.out = @ - 1]
  /\ UNCHANGED <<pc, response, disk, counter, stored>>

CgiWaited ==
  /\ pc = "cgi"
  /\ cgi.todo = 0 /\ cgi.out = 0 /\ Ended
  /\ Respond(IF Asks[cgi.ask].succeeds THEN 200 ELSE 500)
  /\ cgi' = NoCgi
  /\ UNCHANGED <<disk, counter, stored>>

\* The program, which goes on to the next point of its plan at the end of its
\* input or of its output
ScriptReads ==
  /\ pc = "cgi" /\ Doing("read")
  /\ cgi.in > 0 \/ cgi.todo = 0
  /\ cgi' = IF cgi.in > 0 THEN [cgi EXCEPT !.in = @ - 1]
            ELSE [cgi EXCEPT !.plan = Tail(@)]
  /\ UNCHANGED <<pc, response, disk, counter, stored>>

ScriptWrites ==
  /\ pc = "cgi" /\ Doing("write")
  /\ cgi.left = 0 \/ cgi.out < PipeCap
  /\ cgi' = IF cgi.left > 0 THEN [cgi EXCEPT !.left = @ - 1, !.out = @ + 1]
            ELSE [cgi EXCEPT !.plan = Tail(@)]
  /\ UNCHANGED <<pc, response, disk, counter, stored>>

Script == ScriptReads \/ ScriptWrites
Exchange == CgiFeed \/ CgiBrokenPipe \/ CgiCollect \/ CgiWaited

-----------------------------------------------------------------------------
(***************************************************************************)
(* RequestManager(request, _config, body_len) for the request t of c.      *)
(***************************************************************************)
Manage(c, t) ==
  LET a == Asks[t[1].n]
      verdict == Verdict(a, BodyLength(t))
  IN \/ /\ verdict # 0
        /\ Respond(verdict)
        /\ UNCHANGED <<disk, counter, cgi, stored>>
     \/ /\ verdict = 0 /\ OutOfRange(a)
        /\ pc' = "killed"
        /\ UNCHANGED <<response, disk, counter, cgi, stored>>
     \/ /\ verdict = 0 /\ ~OutOfRange(a)
        /\ \/ Get(a)
           \/ Refuse(a, Body(t))
           \/ UploadBody(c, a, Body(t))
           \/ UploadForm(c, a, Body(t))
           \/ Delete(a)
           \/ ExecuteCgi(t, a)
=============================================================================
