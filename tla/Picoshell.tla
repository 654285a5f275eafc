----------------------------- MODULE Picoshell -----------------------------
(***************************************************************************)
(* picoshell of exam-04: a pipe and a child per command, then wait for     *)
(* all; any error ends the line early.  Its pcs begin with "pico".         *)
(*                                                                         *)
(* For the last command no pipe is made and fd has what it had before: the *)
(* descriptors of the pipe before the last, closed by then.  A line of one *)
(* command closes whatever fd happens to hold, which is no pipe's.         *)
(***************************************************************************)
EXTENDS Pipes

VARIABLE returned      \* what picoshell returns, -1 before it does

PicoBegin(l) ==
  /\ pc = "pico"
  /\ Begin(l, {})
  /\ pc' = "pico_loop" /\ at' = 1
  /\ UNCHANGED returned

\* pipe or fork returns -1: the open descriptors are closed
PicoError ==
  /\ pc = "pico_loop"
  /\ held' = [held EXCEPT ![0] = {}]
  /\ pc' = "pico_wait" /\ returned' = 1
  /\ UNCHANGED <<line, pipes, buf, child, left, code, at>>

\* PicoFork with the write end left open in the program
PicoForkLeaky ==
  /\ pc = "pico_loop"
  /\ LET new == IF at < Len(line) THEN EndsOf(at) ELSE {} IN
     /\ pipes' = IF at < Len(line) THEN pipes \cup {at} ELSE pipes
     /\ Fork(at, held[0] \cup new, (held[0] \cup new) \ {End(at - 1, "r")})
  /\ IF at < Len(line) THEN at' = at + 1 /\ UNCHANGED <<pc, returned>>
     ELSE pc' = "pico_wait" /\ returned' = 0 /\ UNCHANGED at
  /\ UNCHANGED <<line, buf, code>>

PicoFork ==
  /\ pc = "pico_loop"
  /\ LET new == IF at < Len(line) THEN EndsOf(at) ELSE {} IN
     /\ pipes' = IF at < Len(line) THEN pipes \cup {at} ELSE pipes
     /\ Fork(at, held[0] \cup new, new \ {End(at, "w")})
  /\ IF at < Len(line) THEN at' = at + 1 /\ UNCHANGED <<pc, returned>>
     ELSE pc' = "pico_wait" /\ returned' = 0 /\ UNCHANGED at
  /\ UNCHANGED <<line, buf, code>>

\* dup2, close, execvp, and exit(1) when there is no such command
PicoChild(i) ==
  /\ pc \in {"pico_loop", "pico_wait"} /\ child[i] = "forked"
  /\ IF line[i].kind = "missing" THEN Ends(i, 1) ELSE Running(i)
  /\ UNCHANGED <<pc, at, returned>>

PicoWait(i) ==
  /\ pc = "pico_wait" /\ child[i] = "zombie"
  /\ Reaped(i)
  /\ UNCHANGED <<pc, at, returned>>

PicoReturn ==
  /\ pc = "pico_wait" /\ Children = {}
  /\ pc' = "pico_over"
  /\ UNCHANGED <<system, at, returned>>

Pico ==
  \/ PicoFork \/ PicoError \/ PicoReturn
  \/ \E i \in Numbers : PicoWait(i)
=============================================================================
