------------------------------ MODULE ChatRoom ------------------------------
(***************************************************************************)
(* What exam-06/mini_serv.c promises to its clients, without descriptors,  *)
(* buffers or a loop: a room in which every line is told to everybody      *)
(* else at one instant.                                                    *)
(***************************************************************************)
EXTENDS Integers, Sequences

CONSTANTS Clients,       \* each connects once
          Chars, NL      \* what a client types; NL ends a line

NoNumber == -1

VARIABLES
  here,    \* who is in the room
  number,  \* number[c]: the number announced for c
  next,    \* the number of the next to arrive
  typed,   \* typed[c]: what c has typed and the room has not been told
  gone,    \* who has hung up
  short,   \* whose lines were held up by a lack of memory
  heard    \* heard[c]: what c has been told, in order

vars == <<here, number, next, typed, gone, short, heard>>

-----------------------------------------------------------------------------
\* The first line of a text, with its NL, and what follows it
EndsAt(s, i)  == s[i] = NL /\ \A j \in 1 .. i - 1 : s[j] # NL
HasLine(s)    == \E i \in 1 .. Len(s) : EndsAt(s, i)
LineEnd(s)    == CHOOSE i \in 1 .. Len(s) : EndsAt(s, i)
FirstLine(s)  == SubSeq(s, 1, LineEnd(s))
AfterLine(s)  == SubSeq(s, LineEnd(s) + 1, Len(s))

\* The strings the server sends
Arrived(n)  == <<"arrived", n>>
Left(n)     == <<"left", n>>
ClientIs(n) == <<"client", n>>
Line(l)     == <<"line", l>>
Strings == ({"arrived", "left", "client"} \X Nat) \cup ({"line"} \X Seq(Chars))

\* Everybody in the room but c is told the strings of ss
Told(c, ss) ==
  [d \in Clients |-> IF d \in here \ {c} THEN heard[d] \o ss ELSE heard[d]]

-----------------------------------------------------------------------------
Init ==
  /\ here = {} /\ gone = {} /\ short = {} /\ next = 0
  /\ number = [c \in Clients |-> NoNumber]
  /\ typed  = [c \in Clients |-> <<>>]
  /\ heard  = [c \in Clients |-> <<>>]

Enter(c) ==
  /\ number[c] = NoNumber
  /\ here' = here \cup {c}
  /\ number' = [number EXCEPT ![c] = next]
  /\ next' = next + 1
  /\ heard' = Told(c, <<Arrived(next)>>)
  /\ UNCHANGED <<typed, gone, short>>

Type(c, x) ==
  /\ c \notin gone
  /\ typed' = [typed EXCEPT ![c] = Append(@, x)]
  /\ UNCHANGED <<here, number, next, gone, short, heard>>

HangUp(c) ==
  /\ gone' = gone \cup {c}
  /\ UNCHANGED <<here, number, next, typed, short, heard>>

RunShort(c) ==
  /\ short' = short \cup {c}
  /\ UNCHANGED <<here, number, next, typed, gone, heard>>

\* A complete line is told to the others, whole and behind the name of who typed it
Say(c) ==
  /\ c \in here
  /\ HasLine(typed[c])
  /\ heard' = Told(c, <<ClientIs(number[c]), Line(FirstLine(typed[c]))>>)
  /\ typed' = [typed EXCEPT ![c] = AfterLine(@)]
  /\ UNCHANGED <<here, number, next, gone, short>>

\* Nobody leaves before what it typed was told, up to the last NL
Leave(c) ==
  /\ c \in here
  /\ c \in gone
  /\ HasLine(typed[c]) => c \in short
  /\ heard' = Told(c, <<Left(number[c])>>)
  /\ here' = here \ {c}
  /\ typed' = [typed EXCEPT ![c] = <<>>]
  /\ UNCHANGED <<number, next, gone, short>>

Next ==
  \E c \in Clients :
    \/ Enter(c) \/ HangUp(c) \/ RunShort(c) \/ Say(c) \/ Leave(c)
    \/ \E x \in Chars : Type(c, x)

Spec == Init /\ [][Next]_vars
=============================================================================
