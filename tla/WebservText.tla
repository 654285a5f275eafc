---------------------------- MODULE WebservText ----------------------------
(***************************************************************************)
(* webserv: the text of a request and what the server finds in it.         *)
(*                                                                         *)
(* A text is a sequence of tokens [k, n], the pieces the searches of       *)
(* SocketManager and RequestManager tell apart:                            *)
(*   line    the request line and ordinary headers of request n of Asks    *)
(*   te      "Transfer-Encoding: chunked"     cl  "Content-Length: n"      *)
(*   port    a last header line that ends in 0, as "Host: localhost:8080"  *)
(*   blank   the empty line after the headers                              *)
(*   size    the line with the size n of a chunk     crlf  an end of line  *)
(*   data    one unit of a body               zero  one that has 0, CRLF,  *)
(*                                                  CRLF in it             *)
(*   bound   a boundary of a form             final the last boundary      *)
(*   file    the header of the part for file n (NoName: an empty name)     *)
(*   field   the header of a part without a file name                      *)
(* The searches run over the whole text, so te and cl count in a body too. *)
(***************************************************************************)
EXTENDS Integers, Sequences

Kinds == {"line", "te", "cl", "port", "blank", "size", "crlf", "data", "zero",
          "bound", "final", "file", "field"}
Tokens == [k : Kinds, n : Int]
NoName == -1

Tok(k, n) == [k |-> k, n |-> n]

\* Positions of tokens of kind k; the first of a nonempty set of positions
At(t, k) == { i \in 1 .. Len(t) : t[i].k = k }
First(S) == CHOOSE i \in S : \A j \in S : i <= j

Has(t, k)   == At(t, k) # {}
Slice(t, a, b) == SubSeq(t, a, IF b < Len(t) THEN b ELSE Len(t))
HeaderOf(t) == SubSeq(t, 1, First(At(t, "blank")))
Body(t)     == SubSeq(t, First(At(t, "blank")) + 1, Len(t))

-----------------------------------------------------------------------------
(***************************************************************************)
(* What handleClientData looks for before it takes a request.              *)
(***************************************************************************)
Chunked(t) == Has(t, "te")

\* "0\r\n\r\n" is somewhere in t: it ends the last chunk, or seems to
EndsInZero(tok) ==
  tok.k = "port" \/ (tok.k = "cl" /\ tok.n % 10 = 0) \/ tok = Tok("size", 0)
Terminated(t) ==
  \/ Has(t, "zero")
  \/ \E i \in 1 .. Len(t) - 1 : EndsInZero(t[i]) /\ t[i + 1].k \in {"blank", "crlf"}

\* The data of the chunks of raw: ended by the size 0, the end of the text, or
\* what is no size
Dechunk(raw) ==
  LET from[p \in Nat] ==
        IF p \in 1 .. Len(raw) /\ raw[p].k = "size" /\ raw[p].n > 0
        THEN Slice(raw, p + 1, p + raw[p].n) \o from[p + raw[p].n + 2]
        ELSE <<>>
  IN from[1]

\* The text once the chunks are joined, and body_len.  Simplified: body_len is asked
\* of the joined text, so that a "te" behind the last chunk counts no more here.
Clean(t)      == IF Chunked(t) THEN HeaderOf(t) \o Dechunk(Body(t)) ELSE t
Declared(t)   == t[First(At(t, "cl"))].n
BodyLength(t) == IF Has(t, "cl") THEN Declared(t)
                 ELSE IF Chunked(t) THEN Len(Body(t)) ELSE 0

-----------------------------------------------------------------------------
(***************************************************************************)
(* The parts of a multipart body.  A part goes from a boundary to the one  *)
(* after it; the loop ends at the first final boundary.  Between two       *)
(* boundaries with nothing in between the length of the part is negative,  *)
(* as an unsigned number longer than the text: the part is all the rest.   *)
(***************************************************************************)
Bounds(b)  == At(b, "bound") \cup At(b, "final")
Opening(b) == { i \in At(b, "bound") : \A j \in At(b, "final") : i < j }
Later(b, i) == { j \in Bounds(b) : j > i }

Part(b, i) ==
  LET next == First(Later(b, i))
  IN SubSeq(b, i + 1, IF next = i + 1 THEN Len(b) ELSE next - 1)
PartHeaders(p) == At(p, "file") \cup At(p, "field")
PartHeader(p)  == p[First(PartHeaders(p))]

\* Answered 400: no boundary, none after an opening one, a part without a
\* header, an empty file name, no file at all
Malformed(b) ==
  \/ Bounds(b) = {}
  \/ \E i \in Opening(b) : Later(b, i) = {}
  \/ \E i \in Opening(b) : PartHeaders(Part(b, i)) = {}
  \/ \E i \in Opening(b) : PartHeader(Part(b, i)) = Tok("file", NoName)
  \/ \A i \in Opening(b) : PartHeader(Part(b, i)).k = "field"

\* The files of a form, by the places of their boundaries
Files(b) ==
  [i \in { i \in Opening(b) : PartHeader(Part(b, i)).k = "file" } |->
     LET part == Part(b, i)
     IN  [name |-> PartHeader(part).n,
          text |-> SubSeq(part, First(PartHeaders(part)) + 1, Len(part))]]
=============================================================================
