------------------------------- MODULE Pipes -------------------------------
(***************************************************************************)
(* Pipes and processes as minishell, pipex and picoshell use them: the     *)
(* operating system and the commands, none of which is code of theirs.     *)
(*                                                                         *)
(* Process 0 is the program, process i the child that runs stage i of the  *)
(* line.  Pipe p leads from stage p to stage p + 1.  A reader sees the end *)
(* of a pipe when no process has its write end open; a writer gets SIGPIPE *)
(* when none has its read end open.  Data is counted, not named.           *)
(***************************************************************************)
EXTENDS Integers, Sequences, FiniteSets

CONSTANTS Lines,       \* the lines there are, sequences of stages
          MaxStages,
          Cap          \* units a pipe holds

(***************************************************************************)
(* kind says what the program finds when it comes to the stage; in and out *)
(* where its redirections lead; the rest is what the command does: write   *)
(* adds units, read wants units at most, each copied to its output or not, *)
(* and end with code.                                                      *)
(***************************************************************************)
Kinds == {"external", "forked", "missing", "inside", "exit", "unforked"}
Places == {"default", "file", "nofile"}
Stages == [kind : Kinds, in : Places, out : Places,
           adds : Nat, wants : Nat, copies : BOOLEAN, code : 0 .. 255]

ASSUME PipesAssumption ==
  /\ MaxStages \in Nat /\ Cap \in Nat \ {0}
  /\ Lines \subseteq Seq(Stages)
  /\ \A l \in Lines : Len(l) \in 1 .. MaxStages

VARIABLES
  pc, at,      \* where the program is, and its stage
  line,        \* the line that is run
  pipes,       \* the pipes made for it
  held,        \* held[q]: the ends of pipes that q has open
  buf,         \* units in a pipe
  child,       \* "forked": before it has arranged its descriptors
  left,        \* what a command still wants to read and has to write
  code         \* how a child ended, Signal if it was killed

system == <<line, pipes, held, buf, child, left, code>>

Procs == 0 .. MaxStages
Numbers == 1 .. MaxStages
Signal == -1
End(p, side) == <<p, side>>
EndsOf(p) == {End(p, "r"), End(p, "w")}
EndsOfStage(i) == { e \in {End(i - 1, "r"), End(i, "w")} : e[1] \in pipes }
Readers(p) == { q \in Procs : End(p, "r") \in held[q] }
Writers(p) == { q \in Procs : End(p, "w") \in held[q] }
Unread(i) == i - 1 \in pipes
Piped(i)  == i \in pipes

SystemInit ==
  /\ line = <<>> /\ pipes = {}
  /\ held = [q \in Procs |-> {}]
  /\ buf = [p \in Numbers |-> 0]
  /\ child = [i \in Numbers |-> "none"]
  /\ left = [i \in Numbers |-> [wants |-> 0, pending |-> 0]]
  /\ code = [i \in Numbers |-> 0]

\* A line is begun with the pipes P, whose ends process 0 has
Begin(l, P) ==
  /\ line' = l /\ pipes' = P
  /\ held' = [q \in Procs |-> IF q = 0 THEN UNION { EndsOf(p) : p \in P } ELSE {}]
  /\ buf' = [p \in Numbers |-> 0]
  /\ child' = [i \in Numbers |-> "none"]
  /\ UNCHANGED <<left, code>>

\* fork: the child has what process 0 has open, ends, and process 0 keeps kept
Fork(i, ends, kept) ==
  /\ child' = [child EXCEPT ![i] = "forked"]
  /\ held' = [held EXCEPT ![i] = ends, ![0] = kept]
  /\ left' = [left EXCEPT ![i] = [wants |-> line[i].wants, pending |-> line[i].adds]]

Ends(i, how) ==
  /\ child' = [child EXCEPT ![i] = "zombie"]
  /\ held' = [held EXCEPT ![i] = {}]
  /\ code' = [code EXCEPT ![i] = how]
  /\ UNCHANGED <<line, pipes, buf, left>>

\* execve: the command has its own ends only
Running(i) ==
  /\ child' = [child EXCEPT ![i] = "running"]
  /\ held' = [held EXCEPT ![i] = EndsOfStage(i)]
  /\ UNCHANGED <<line, pipes, buf, left, code>>

Reaped(i) ==
  /\ child' = [child EXCEPT ![i] = "reaped"]
  /\ UNCHANGED <<line, pipes, held, buf, left, code>>

Children == { i \in Numbers : child[i] \in {"forked", "running", "zombie"} }

-----------------------------------------------------------------------------
(***************************************************************************)
(* A command.                                                              *)
(***************************************************************************)
Writes(i) == child[i] = "running" /\ left[i].pending > 0
Reads(i)  == child[i] = "running" /\ left[i].pending = 0 /\ left[i].wants > 0

Write(i) ==
  /\ Writes(i)
  /\ Piped(i) => Readers(i) # {} /\ buf[i] < Cap
  /\ buf' = IF Piped(i) THEN [buf EXCEPT ![i] = @ + 1] ELSE buf
  /\ left' = [left EXCEPT ![i].pending = @ - 1]
  /\ UNCHANGED <<line, pipes, held, child, code>>

BrokenPipe(i) ==
  /\ Writes(i) /\ Piped(i) /\ Readers(i) = {}
  /\ Ends(i, Signal)

Read(i) ==
  /\ Reads(i) /\ Unread(i) /\ buf[i - 1] > 0
  /\ buf' = [buf EXCEPT ![i - 1] = @ - 1]
  /\ left' = [left EXCEPT ![i] = [wants   |-> @.wants - 1,
                                  pending |-> IF line[i].copies THEN 1 ELSE 0]]
  /\ UNCHANGED <<line, pipes, held, child, code>>

\* The end of its input, at once if that is a file or the terminal
AtEnd(i) == Unread(i) => buf[i - 1] = 0 /\ Writers(i - 1) = {}
Done(i) ==
  /\ child[i] = "running" /\ left[i].pending = 0
  /\ left[i].wants = 0 \/ AtEnd(i)
  /\ Ends(i, line[i].code)

Command(i) == Write(i) \/ BrokenPipe(i) \/ Read(i) \/ Done(i)

\* A command that waits for another to read or to write
Blocked(i) ==
  \/ Writes(i) /\ Piped(i) /\ buf[i] = Cap /\ Readers(i) # {}
  \/ Reads(i) /\ Unread(i) /\ buf[i - 1] = 0 /\ Writers(i - 1) # {}
=============================================================================
