----------------------------- MODULE Minishell -----------------------------
(***************************************************************************)
(* minishell: the lines of main.c, from the parsed list to the next prompt *)
(* (create_pipes, redirect_operator for each node, wait_for_pids), and     *)
(* Ctrl-C (signals.c).                                                     *)
(*                                                                         *)
(* A node of the list is a stage.  Parsing comes before and is not         *)
(* modelled; redirections are already opened.  What become of the pids is  *)
(* told apart by the number of the stage: a pid of an earlier line is 0.   *)
(* Pipes are always made: create_pipes does not look whether pipe failed,  *)
(* and would use what was in its array.                                    *)
(***************************************************************************)
EXTENDS Pipes

CONSTANTS MaxLines,      \* bound: lines typed
          MaxPresses     \* bound: times Ctrl-C is typed

VARIABLES
  last_pid,      \* fgv_last_pid: a stage of this line, 0 for any other
  status,        \* $?
  sig_nb, in_cmd,
  leaving,       \* exit of handle_cmds
  typed,         \* lines typed
  presses, told, \* history: Ctrl-C typed, and those that became $?
  by_signal      \* history: $? is of a Ctrl-C

shell == <<pc, at, last_pid, status, sig_nb, in_cmd, leaving, typed, presses, told,
           by_signal>>

ShellInit ==
  /\ last_pid = 0 /\ status = 0 /\ sig_nb = 0
  /\ in_cmd = FALSE /\ leaving = FALSE /\ typed = 0
  /\ presses = 0 /\ told = 0 /\ by_signal = FALSE

SetStatus(value) == status' = value /\ by_signal' = FALSE

\* create_pipes without the test of tail->next
PipesForAll(l) == { p \in 1 .. Len(l) : l[p].out = "default" }

\* create_pipes: where neither side is redirected
PipesFor(l) ==
  { p \in 1 .. Len(l) - 1 : l[p].out = "default" /\ l[p + 1].in = "default" }

ReadLine(l) ==
  /\ pc = "prompt" /\ typed < MaxLines
  /\ Begin(l, PipesFor(l))
  /\ pc' = "run" /\ at' = 1 /\ typed' = typed + 1 /\ leaving' = FALSE
  /\ last_pid' = 0
  /\ UNCHANGED <<status, sig_nb, in_cmd, presses, told, by_signal>>

\* Ctrl-D, or no more lines
EndOfInput ==
  /\ pc = "prompt"
  /\ pc' = "over"
  /\ UNCHANGED <<system, at, last_pid, status, sig_nb, in_cmd, leaving, typed, presses,
                 told, by_signal>>

-----------------------------------------------------------------------------
(***************************************************************************)
(* redirect_operator on the node at.                                       *)
(***************************************************************************)
AtNode(kinds) == pc = "run" /\ at <= Len(line) /\ line[at].kind \in kinds
NextNode ==
  /\ in_cmd' = TRUE
  /\ at' = at + 1
  /\ UNCHANGED <<pc, sig_nb, typed, presses, told>>

\* exec_parent_process closing the input only
LaunchHalfClosed ==
  /\ AtNode({"external", "forked"})
  /\ Fork(at, held[0], held[0] \ {End(at - 1, "r")})
  /\ last_pid' = IF at = Len(line) THEN at ELSE last_pid
  /\ NextNode
  /\ UNCHANGED <<line, pipes, buf, code, status, by_signal, leaving>>

Launch ==
  /\ AtNode({"external", "forked"})
  /\ Fork(at, held[0], held[0] \ EndsOfStage(at))
  /\ last_pid' = IF at = Len(line) THEN at ELSE last_pid
  /\ NextNode
  /\ UNCHANGED <<line, pipes, buf, code, status, by_signal, leaving>>

\* fork returned -1; the ends of the node stay open
LaunchFails ==
  /\ AtNode({"unforked"})
  /\ NextNode
  /\ UNCHANGED <<system, last_pid, status, by_signal, leaving>>

\* find_path returned NULL; the ends of the node stay open
NotFound ==
  /\ AtNode({"missing"})
  /\ SetStatus(127)
  /\ NextNode
  /\ UNCHANGED <<system, last_pid, leaving>>

\* cd, export, unset: in the shell itself; the ends of the node stay open
Inside ==
  /\ AtNode({"inside"})
  /\ SetStatus(line[at].code)
  /\ NextNode
  /\ UNCHANGED <<system, last_pid, leaving>>

\* ft_exit: the rest of the line is run all the same
Exit ==
  /\ AtNode({"exit"})
  /\ leaving' = TRUE
  /\ NextNode
  /\ UNCHANGED <<system, last_pid, status, by_signal>>

AllLaunched ==
  /\ pc = "run" /\ at > Len(line)
  /\ pc' = "wait"
  /\ UNCHANGED <<system, at, last_pid, status, sig_nb, in_cmd, leaving, typed, presses,
                 told, by_signal>>

\* The child: reset_signals, dup2, close_fd_except, execve or which_builtin.
\* It has its own ends twice, which makes no difference
Start(i) ==
  /\ pc \in {"run", "wait"} /\ child[i] = "forked"
  /\ Running(i)
  /\ UNCHANGED shell

-----------------------------------------------------------------------------
(***************************************************************************)
(* wait_for_pids.                                                          *)
(***************************************************************************)
ExitStatus(i) == IF code[i] = Signal THEN 0 ELSE code[i]      \* WEXITSTATUS

\* WaitReturns without fgv_sig_nb(0)
WaitReturnsAgain(i) ==
  /\ pc = "wait" /\ child[i] = "zombie"
  /\ Reaped(i)
  /\ IF i # last_pid
     THEN UNCHANGED <<status, by_signal, told, sig_nb>>
     ELSE /\ status' = IF sig_nb # 0 THEN sig_nb ELSE ExitStatus(i)
          /\ by_signal' = (sig_nb # 0)
          /\ told' = IF sig_nb # 0 THEN told + 1 ELSE told
          /\ UNCHANGED sig_nb
  /\ UNCHANGED <<pc, at, last_pid, in_cmd, leaving, typed, presses>>

WaitReturns(i) ==
  /\ pc = "wait" /\ child[i] = "zombie"
  /\ Reaped(i)
  /\ IF i # last_pid
     THEN UNCHANGED <<status, by_signal, told, sig_nb>>
     ELSE /\ status' = IF sig_nb # 0 THEN sig_nb ELSE ExitStatus(i)
          /\ by_signal' = (sig_nb # 0)
          /\ told' = IF sig_nb # 0 THEN told + 1 ELSE told
          /\ sig_nb' = 0
  /\ UNCHANGED <<pc, at, last_pid, in_cmd, leaving, typed, presses>>

\* wait returns -1; then close_fd
NoChildLeft ==
  /\ pc = "wait" /\ Children = {}
  /\ held' = [held EXCEPT ![0] = {}]
  /\ in_cmd' = FALSE
  /\ pc' = IF leaving THEN "over" ELSE "prompt"
  /\ UNCHANGED <<line, pipes, buf, child, left, code, at, last_pid, status, sig_nb, leaving,
                 typed, presses, told, by_signal>>

-----------------------------------------------------------------------------
(***************************************************************************)
(* Ctrl-C goes to the shell and to all its children.  A child that has not *)
(* come to reset_signals runs the handler of the shell and goes on.        *)
(***************************************************************************)
Interrupt ==
  /\ pc \in {"prompt", "run", "wait"} /\ presses < MaxPresses
  /\ presses' = presses + 1
  /\ child' = [i \in Numbers |-> IF child[i] = "running" THEN "zombie" ELSE child[i]]
  /\ held' = [q \in Procs |-> IF q # 0 /\ child[q] = "running" THEN {} ELSE held[q]]
  /\ code' = [i \in Numbers |-> IF child[i] = "running" THEN Signal ELSE code[i]]
  /\ IF in_cmd
     THEN sig_nb' = 130 /\ UNCHANGED <<status, by_signal, told>>
     ELSE status' = 130 /\ by_signal' = TRUE /\ told' = told + 1 /\ UNCHANGED sig_nb
  /\ UNCHANGED <<line, pipes, buf, left, pc, at, last_pid, in_cmd, leaving, typed>>

Shell ==
  \/ Launch \/ LaunchFails \/ NotFound \/ Inside \/ Exit
  \/ AllLaunched \/ NoChildLeft
  \/ \E i \in Numbers : WaitReturns(i)
=============================================================================
