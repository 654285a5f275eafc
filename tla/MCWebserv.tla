----------------------------- MODULE MCWebserv -----------------------------
(***************************************************************************)
(* Requests, locations and a file system for the runs of WebservSockets.   *)
(* The locations are those of config/default.conf, cut down; the requests  *)
(* those of my_tests/tests.txt.                                            *)
(***************************************************************************)
EXTENDS WebservSockets, TLC

Data(n) == Tok("data", n)
Chunk(data) == <<Tok("size", Len(data))>> \o data \o <<Tok("crlf", 0)>>
LastChunk == <<Tok("size", 0), Tok("crlf", 0)>>

\* Names of the file system: uploads 1 to 3, then "small.txt", a page and one
\* that may not be read, a directory that is not empty, an empty one, one that
\* may not be written, the CGI program, and nothing
Small == 4
Page == 5
Secret == 6
Folder == 7
Empty == 8
Kept_ == 9
Hello == 10
Nowhere == 11
MCNames == 1 .. 11
Dir(kind, mode) == [kind |-> kind, mode |-> mode, text |-> <<>>]
MCTree == [n \in MCNames |->
             CASE n \in {3, Page, Hello} -> File(<<>>)
               [] n = Secret -> [File(<<>>) EXCEPT !.mode = {}]
               [] n = Folder -> Dir("full", {"r", "w"})
               [] n = Empty -> Dir("dir", {"r", "w"})
               [] n = Kept_ -> Dir("dir", {"r"})
               [] OTHER -> Gone]

Loc == [path |-> <<"/">>, methods |-> {"GET"}, redirect |-> 0, autoindex |-> FALSE,
        upload |-> FALSE, store |-> "missing",
        uploads |-> <<>>, cgi |-> FALSE]
Uploads == [Loc EXCEPT !.path = <<"/", "upload", "/">>, !.methods = {"POST"},
                       !.upload = TRUE, !.store = "ok",
                       !.uploads = <<1, 2, 3>>]
MCLocations ==
  << Uploads, Loc,
     [Loc EXCEPT !.path = <<"/", "delete", "/">>, !.methods = {"DELETE", "PUT"}],
     [Loc EXCEPT !.path = <<"/", "cgi", "/">>, !.methods = {"GET", "POST"}, !.cgi = TRUE],
     [Loc EXCEPT !.path = <<"/", "list", "/">>, !.autoindex = TRUE],
     [Loc EXCEPT !.path = <<"/", "old">>, !.redirect = 301],
     [Loc EXCEPT !.path = <<"/", "page">>],
     [Loc EXCEPT !.path = <<"/", "closed", "/">>, !.methods = {"POST"}],
     [Uploads EXCEPT !.path = <<"/", "taken", "/">>, !.uploads = <<Folder, 2, 3>>],
     [Uploads EXCEPT !.path = <<"/", "locked", "/">>, !.store = "locked"],
     [Uploads EXCEPT !.path = <<"/", "missing", "/">>, !.store = "missing"] >>

Plainly == [words |-> TRUE, version |-> "HTTP/1.1", long |-> FALSE, host |-> TRUE,
            large |-> FALSE, method |-> "GET", path |-> <<"/">>, name |-> Page,
            index |-> Page, script |-> FALSE, media |-> "raw", boundary |-> FALSE,
            headers |-> <<>>, body |-> <<>>, content |-> <<>>, files |-> <<>>,
            plan |-> <<>>, output |-> 0, succeeds |-> TRUE, pauses |-> {}]
Upload(n) == [Plainly EXCEPT !.method = "POST", !.path = <<"/", "upload">>,
                             !.name = Nowhere, !.content = <<Data(n), Data(n)>>]
Whole(n) == [Upload(n) EXCEPT !.headers = <<Tok("cl", 2)>>, !.body = <<Data(n), Data(n)>>]
Paused(r, n) == [r EXCEPT !.pauses = {n}]
InChunks(n) == [Upload(n) EXCEPT !.headers = <<Tok("te", 0)>>,
                  !.body = Chunk(<<Data(n)>>) \o Chunk(<<Data(n)>>) \o LastChunk, !.pauses = {7}]
FormBody == << Tok("bound", 0), Tok("file", Small), Data(3),
               Tok("bound", 0), Tok("file", Folder), Tok("final", 0) >>
Form == [Upload(3) EXCEPT !.media = "form", !.boundary = TRUE, !.content = FormBody,
           !.headers = <<Tok("cl", Len(FormBody))>>, !.body = FormBody,
           !.files = (Small :> <<Data(3)>>) @@ (Folder :> <<>>)]
Program_(n, plan) ==
  [Plainly EXCEPT !.method = "POST", !.path = <<"/", "cgi", "/", "hello">>,
     !.name = Hello, !.script = TRUE, !.headers = <<Tok("cl", 2)>>,
     !.body = <<Data(n), Data(n)>>, !.content = <<Data(n), Data(n)>>,
     !.plan = plan, !.output = 2]

\* One request for every end of RequestManager the six above do not come to
At_(path, name) == [Plainly EXCEPT !.path = path, !.name = name]
Pages ==
  << At_(<<"/">>, Nowhere), At_(<<"/">>, Secret), At_(<<"/", "page">>, Folder),
     [At_(<<"/", "list", "/", "?">>, Folder) EXCEPT !.index = Nowhere],
     [At_(<<"/", "list", "/">>, Folder) EXCEPT !.index = Secret],
     [At_(<<"/">>, Folder) EXCEPT !.index = Nowhere] >>
Refused ==
  << [Plainly EXCEPT !.words = FALSE], [Plainly EXCEPT !.version = "HTTP/2"],
     [Plainly EXCEPT !.long = TRUE], [Plainly EXCEPT !.host = FALSE],
     [Plainly EXCEPT !.large = TRUE], At_(<<"/", "old">>, Page),
     [At_(<<"/", "upload">>, Page) EXCEPT !.headers = <<Tok("port", 0)>>],
     [At_(<<"/", "delete", "/">>, Page) EXCEPT !.method = "PUT"],
     [At_(<<"x">>, Nowhere) EXCEPT !.method = "POST"],
     [Whole(1) EXCEPT !.headers = <<Tok("cl", 9)>>],
     [Whole(1) EXCEPT !.headers = <<Tok("cl", -1)>>],
     [InChunks(1) EXCEPT !.body = Chunk([i \in 1 .. 7 |-> Data(1)]) \o LastChunk,
                         !.content = [i \in 1 .. 7 |-> Data(1)]] >>
\* The searches mislead: an end of chunks or a header inside the data, the last
\* header line that ends in 0, one length for the text and another for the chunks
Odd ==
  << [InChunks(1) EXCEPT !.body = Chunk(<<Tok("zero", 1), Data(1)>>) \o LastChunk,
                         !.content = <<Tok("zero", 1), Data(1)>>],
     [Whole(1) EXCEPT !.body = <<Tok("te", 1), Data(1)>>,
                      !.content = <<Tok("te", 1), Data(1)>>],
     [InChunks(1) EXCEPT !.headers = <<Tok("te", 0), Tok("port", 0)>>],
     [InChunks(1) EXCEPT !.headers = <<Tok("te", 0), Tok("cl", 2)>>] >>
FormOf(body) == [Form EXCEPT !.headers = <<Tok("cl", Len(body))>>, !.body = body,
                             !.content = body, !.pauses = {1}]
Forms ==
  << [Form EXCEPT !.boundary = FALSE], FormOf(<<Data(1)>>), FormOf(<<Tok("bound", 0)>>),
     FormOf(<<Tok("bound", 0), Tok("file", NoName), Tok("final", 0)>>),
     FormOf(<<Tok("bound", 0), Tok("field", 0), Tok("final", 0)>>),
     [FormOf(<<Tok("bound", 0), Tok("file", 2), Data(1), Tok("final", 0)>>) EXCEPT
        !.files = 2 :> <<Data(1)>>],
     [FormOf(<<Tok("bound", 0), Tok("bound", 0), Tok("file", 3), Tok("final", 0)>>) EXCEPT
        !.files = 3 :> <<>>] >>
Stores == [i \in 1 .. 4 |-> [Whole(1) EXCEPT
             !.path = <<"/", <<"closed", "locked", "missing", "taken">>[i], "/">>]]
Deletes == [i \in 1 .. 5 |-> [Plainly EXCEPT !.method = "DELETE", !.path = <<"/", "delete">>,
             !.name = <<Nowhere, Kept_, Page, Empty, Folder>>[i]]]
Scripts ==
  << [Program_(4, <<"write">>) EXCEPT !.output = 0],         \* reads nothing
     [Program_(4, <<"write", "read">>) EXCEPT !.headers = <<Tok("cl", 1)>>,
                                              !.body = <<Data(4)>>, !.content = <<Data(4)>>],
     [Program_(4, <<"read">>) EXCEPT !.name = Nowhere],
     [Program_(4, <<"read">>) EXCEPT !.name = Secret],
     [Program_(4, <<"write">>) EXCEPT !.method = "GET", !.headers = <<>>, !.body = <<>>,
                                      !.content = <<>>, !.succeeds = FALSE] >>

MCAsks ==
  << Plainly, Whole(1), InChunks(2), Form,
     Program_(4, <<"read", "write">>), Program_(5, <<"write", "read">>) >>
  \o Pages \o Refused \o Odd \o Forms \o Stores \o Deletes \o Scripts
  \o << Paused(Whole(1), 4),
        \* a form with a file of the name the counter comes to first
        [FormOf(<<Tok("bound", 0), Tok("file", 1), Data(3), Tok("final", 0)>>) EXCEPT
           !.files = 1 :> <<Data(3)>>, !.pauses = {}] >>

\* Two clients at once, accept failing for one of them, or one client alone
CONSTANTS c1, c2, c3
Cast(a1, a2, a3) == (c1 :> a1) @@ (c2 :> a2) @@ (c3 :> a3)
MCCasts ==
  { Cast(3, 2, 0), Cast(5, 1, 0), Cast(0, 1, 1), Cast(Len(MCAsks), 2, 0) }
    \cup { Cast(0, a, 0) : a \in {4} \cup 6 .. Len(MCAsks) }
============================================================================
