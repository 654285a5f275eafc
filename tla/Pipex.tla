------------------------------- MODULE Pipex -------------------------------
(***************************************************************************)
(* pipex: the first command in a child, waited for; then the second in the *)
(* program itself.  Its pcs begin with "pipex".                            *)
(***************************************************************************)
EXTENDS Pipes

CONSTANT PipexLines      \* the two commands with their files

others == <<line, pipes, buf, code, at>>

PipexBegin(l) ==
  /\ pc = "pipex"
  /\ Begin(l, {1})
  /\ pc' = "pipex_fork" /\ UNCHANGED at

\* error_exit when fork returns -1
PipexFork ==
  /\ pc = "pipex_fork"
  /\ \/ Fork(1, held[0], held[0]) /\ pc' = "pipex_wait"
     \/ held' = [held EXCEPT ![0] = {}] /\ pc' = "pipex_over" /\ UNCHANGED <<child, left>>
  /\ UNCHANGED others

\* child_process: open, close(fd[0]), dup2, exec, which may fail
ChildProcess ==
  /\ pc = "pipex_wait" /\ child[1] = "forked"
  /\ IF line[1].in = "nofile" \/ line[1].kind = "missing" THEN Ends(1, 1) ELSE Running(1)
  /\ UNCHANGED <<pc, at>>

\* wait(NULL)
Wait ==
  /\ pc = "pipex_wait" /\ child[1] = "zombie"
  /\ Reaped(1)
  /\ pc' = "pipex_second" /\ UNCHANGED at

\* parent_process: the second command is the program itself from here on
ParentProcess ==
  /\ pc = "pipex_second"
  /\ pc' = "pipex_over"
  /\ IF line[2].out = "nofile" \/ line[2].kind = "missing"
     THEN held' = [held EXCEPT ![0] = {}] /\ UNCHANGED <<child, left>>
     ELSE /\ child' = [child EXCEPT ![2] = "running"]
          /\ held' = [held EXCEPT ![0] = {}, ![2] = EndsOfStage(2)]
          /\ left' = [left EXCEPT ![2] = [wants |-> line[2].wants, pending |-> line[2].adds]]
  /\ UNCHANGED others

PipexNext ==
  \/ \E l \in PipexLines : PipexBegin(l)
  \/ PipexFork \/ ChildProcess \/ Wait \/ ParentProcess
=============================================================================
