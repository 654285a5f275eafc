----------------------------- MODULE Pipelines -----------------------------
(***************************************************************************)
(* The three programs of the repository that run pipelines, each with the  *)
(* commands it starts.                                                     *)
(***************************************************************************)
EXTENDS Minishell, Pipex, Picoshell

CONSTANT PicoLines

ASSUME PipelinesAssumption ==
  /\ PipexLines \cup PicoLines \subseteq Seq(Stages)
  /\ \A l \in PipexLines : Len(l) = 2
  /\ \A l \in PipexLines \cup PicoLines : Len(l) \in 1 .. MaxStages
  /\ MaxLines \in Nat /\ MaxPresses \in Nat

vars == <<system, shell, returned>>

Init ==
  /\ pc \in {"prompt", "pipex", "pico"} /\ at = 1
  /\ SystemInit /\ ShellInit
  /\ returned = -1

MinishellStep ==
  /\ \/ \E l \in Lines : ReadLine(l)
     \/ Shell \/ Interrupt \/ EndOfInput
     \/ \E i \in Numbers : Start(i)
  /\ UNCHANGED returned

PipexStep ==
  /\ PipexNext
  /\ UNCHANGED <<last_pid, status, sig_nb, in_cmd, leaving, typed, presses, told,
                 by_signal, returned>>

PicoStep ==
  /\ \/ \E l \in PicoLines : PicoBegin(l)
     \/ Pico
     \/ \E i \in Numbers : PicoChild(i)
  /\ UNCHANGED <<last_pid, status, sig_nb, in_cmd, leaving, typed, presses, told, by_signal>>

CommandStep(i) == Command(i) /\ UNCHANGED <<shell, returned>>

Next ==
  \/ MinishellStep \/ PipexStep \/ PicoStep
  \/ \E i \in Numbers : CommandStep(i)

Spec == Init /\ [][Next]_vars

(***************************************************************************)
(* Fairness: the operating system runs every process.  Nobody needs to     *)
(* type anything.                                                          *)
(***************************************************************************)
FairSpec ==
  /\ Spec
  /\ WF_vars(Shell /\ UNCHANGED returned)
  /\ \A i \in Numbers : WF_vars(Start(i) /\ UNCHANGED returned)
  /\ WF_vars(PipexStep)
  /\ WF_vars(PicoStep)
  /\ \A i \in Numbers : WF_vars(CommandStep(i))

-----------------------------------------------------------------------------
TypeOK ==
  /\ pc \in {"prompt", "run", "wait", "over", "pipex", "pipex_fork", "pipex_wait",
             "pipex_second", "pipex_over", "pico", "pico_loop", "pico_wait", "pico_over"}
  /\ line \in Lines \cup PipexLines \cup PicoLines \cup {<<>>}
  /\ at \in 1 .. Len(line) + 1
  /\ pipes \subseteq 1 .. Len(line) - 1
  /\ held \in [Procs -> SUBSET (pipes \X {"r", "w"})]
  /\ buf \in [Numbers -> 0 .. Cap]
  /\ child \in [Numbers -> {"none", "forked", "running", "zombie", "reaped"}]
  /\ \A i \in Numbers : child[i] # "none" => i \in 1 .. Len(line)
  /\ left \in [Numbers -> [wants : Nat, pending : Nat]]
  /\ code \in [Numbers -> 0 .. 255 \cup {Signal}]
  /\ last_pid \in 0 .. Len(line) /\ status \in 0 .. 255
  /\ sig_nb \in {0, 130} /\ in_cmd \in BOOLEAN /\ leaving \in BOOLEAN
  /\ typed \in 0 .. MaxLines /\ presses \in 0 .. MaxPresses /\ told \in Nat
  /\ by_signal \in BOOLEAN /\ returned \in {-1, 0, 1}

(***************************************************************************)
(* When a program is done with a line every child is reaped and no end of  *)
(* a pipe is open, but for the second command of pipex; and $? is that of  *)
(* the last node of the line, or 130 for a Ctrl-C not yet reported         *)
(* (handle_cmds, wait_for_pids, picoshell, pipex).                         *)
(***************************************************************************)
StatusOf(l) ==
  CASE l[Len(l)].kind = "missing"  -> {127}
    [] l[Len(l)].kind = "inside"   -> {l[Len(l)].code}
    [] l[Len(l)].kind \in {"external", "forked"} -> {ExitStatus(Len(l))}
    [] OTHER -> 0 .. 255
LinesAreSettled ==
  /\ pc \in {"prompt", "over", "pico_over"} =>
       Children = {} /\ \A q \in Procs : held[q] = {}
  /\ pc = "pipex_over" =>
       Children \subseteq {2} /\ \A q \in Procs \ {2} : held[q] = {}
  /\ pc = "prompt" /\ line # <<>> => by_signal \/ status \in StatusOf(line)
  /\ told <= presses

(***************************************************************************)
(* A line comes to a standstill only next to a node that minishell runs in *)
(* the shell or could not start, or when pipex waits for a first command   *)
(* that writes more than a pipe holds (redirect_operator, close_fd_except, *)
(* main of pipex, picoshell).                                              *)
(***************************************************************************)
Waits == pc \in {"wait", "pipex_wait", "pico_wait"}
Standstill ==
  /\ Waits /\ Children # {}
  /\ \A i \in Children : child[i] = "running" /\ Blocked(i)
Unstarted(i) == line[i].kind \in {"missing", "inside", "exit", "unforked"}
Excused ==
  \/ /\ pc = "wait"
     /\ \E i \in 1 .. Len(line) :
          Unstarted(i) /\ ((Unread(i) /\ Blocked(i - 1)) \/ (Piped(i) /\ Blocked(i + 1)))
  \/ pc = "pipex_wait" /\ line[1].adds > Cap
OnlyTheUnstartedBlock == Standstill => Excused

\* Every line ends, with its commands, unless it is at such a standstill
\* (wait_for_pids, main of pipex, picoshell)
Busy == Waits \/ \E i \in Numbers : child[i] \in {"forked", "running"}
EveryLineEnds == Busy ~> ~Busy \/ (Standstill /\ Excused)
=============================================================================
