-------------------------- MODULE PipelinesProofs --------------------------
(***************************************************************************)
(* The pipelines of minishell, pipex and picoshell, proved for lines of    *)
(* any length, pipes of any capacity and any number of Ctrl-C: the types,  *)
(* that only an excused line stands still, and that every line is settled  *)
(* when the program goes on.                                               *)
(*                                                                         *)
(* The argument for the standstill: if every child is blocked, the first   *)
(* of those that read an empty pipe has no running child before it, and    *)
(* the last of those that write to a full one has none after it.  So the   *)
(* end each waits for is open in the program itself, and the invariant     *)
(* says of whose stage the ends are that the program still has.            *)
(***************************************************************************)
EXTENDS Pipelines, ExtremeNumbers, SequenceTheorems, TLAPS

\* The stage that an end of a pipe is for
StageOf(e) == IF e[2] = "r" THEN e[1] + 1 ELSE e[1]

\* Which line goes with where a program is
LineInv ==
  /\ pc \in {"run", "wait"} => line \in Lines
  /\ pc \in {"pipex_fork", "pipex_wait", "pipex_second"} => line \in PipexLines
  /\ pc \in {"pico_loop", "pico_wait"} => line \in PicoLines
  /\ pc \in {"pipex", "pico"} => at = 1 /\ last_pid = 0
  /\ pc = "pico_loop" => at <= Len(line)
  /\ pc = "wait" => at > Len(line)
  /\ (pc = "run" /\ at > 1) \/ pc = "wait" => in_cmd

\* The ends a child has, and the children there may be
ChildInv ==
  /\ \A i \in Numbers : child[i] = "running" => held[i] = EndsOfStage(i)
  /\ \A i \in Numbers : child[i] \in {"none", "zombie", "reaped"} => held[i] = {}
  /\ \A i \in Numbers : child[i] = "forked" =>
       pc \in {"run", "wait", "pipex_wait", "pico_loop", "pico_wait"}
  /\ pc \in {"prompt", "over", "pipex", "pico", "pico_over"} =>
       \A i \in Numbers : child[i] \in {"none", "reaped"}
  /\ pc = "pipex_fork" => \A i \in Numbers : child[i] = "none"
  /\ pc \in {"pipex_wait", "pipex_second"} => \A i \in Numbers \ {1} : child[i] = "none"
  /\ pc = "pipex_second" => child[1] = "reaped"
  /\ pc = "pico_loop" => \A i \in Numbers : i >= at => child[i] = "none"
  /\ pc = "pipex_over" => \A i \in Numbers \ {2} : child[i] \in {"none", "reaped"}

\* The ends the program has are of stages to come, or of stages not started
HeldInv ==
  /\ pc \in {"run", "wait"} => \A e \in held[0] : StageOf(e) >= at \/ Unstarted(StageOf(e))
  /\ pc = "pico_loop" => held[0] \subseteq {End(at - 1, "r")}
  /\ pc \in {"prompt", "over", "pipex", "pipex_over", "pico", "pico_wait", "pico_over"} =>
       held[0] = {}


\* No Ctrl-C is counted twice, last_pid is the last stage's once it is
\* started, and $? is right as soon as that stage is reaped
Settled == by_signal \/ status \in StatusOf(line)
Awaited == line[Len(line)].kind \in {"external", "forked"}
StatusInv ==
  /\ told + (IF sig_nb = 0 THEN 0 ELSE 1) <= presses
  /\ pc \in {"run", "wait"} =>
       last_pid = IF at > Len(line) /\ Awaited THEN Len(line) ELSE 0
  /\ pc \in {"run", "wait"} /\ at > Len(line) /\ ~Awaited => Settled
  /\ pc \in {"run", "wait"} /\ at > Len(line) /\ Awaited =>
       child[Len(line)] # "none" /\ (child[Len(line)] = "reaped" => Settled)
  /\ pc = "prompt" /\ line # <<>> => Settled

\* The first command of pipex has written no more than its adds
PipexInv ==
  /\ pc = "pipex_fork" => buf[1] = 0
  /\ pc = "pipex_wait" => buf[1] + left[1].pending <= line[1].adds

\* The inductive invariant
IInv == TypeOK /\ LineInv /\ ChildInv /\ HeldInv /\ StatusInv /\ PipexInv
-----------------------------------------------------------------------------
(***************************************************************************)
(* TypeOK in parts.                                                        *)
(***************************************************************************)
PcType == pc \in {"prompt", "run", "wait", "over", "pipex", "pipex_fork", "pipex_wait",
                  "pipex_second", "pipex_over", "pico", "pico_loop", "pico_wait", "pico_over"}
LineType == line \in Lines \cup PipexLines \cup PicoLines \cup {<<>>}
AtType == at \in 1 .. Len(line) + 1
PipesType == pipes \subseteq 1 .. Len(line) - 1
HeldType == held \in [Procs -> SUBSET (pipes \X {"r", "w"})]
BufType == buf \in [Numbers -> 0 .. Cap]
ChildType ==
  /\ child \in [Numbers -> {"none", "forked", "running", "zombie", "reaped"}]
  /\ \A i \in Numbers : child[i] # "none" => i \in 1 .. Len(line)
LeftType == left \in [Numbers -> [wants : Nat, pending : Nat]]
CodeType == code \in [Numbers -> 0 .. 255 \cup {Signal}]
ShellType ==
  /\ status \in 0 .. 255
  /\ sig_nb \in {0, 130} /\ returned \in {-1, 0, 1}
  /\ typed \in 0 .. MaxLines /\ presses \in 0 .. MaxPresses /\ told \in Nat
LastType == last_pid \in 0 .. Len(line)
FlagType == in_cmd \in BOOLEAN /\ leaving \in BOOLEAN /\ by_signal \in BOOLEAN

\* TypeOK is its parts
LEMMA Parts ==
  TypeOK <=> /\ PcType /\ LineType /\ AtType /\ PipesType /\ HeldType /\ BufType
             /\ ChildType /\ LeftType /\ CodeType /\ ShellType /\ LastType /\ FlagType
BY DEF TypeOK, PcType, LineType, AtType, PipesType, HeldType, BufType, ChildType, LeftType,
       CodeType, ShellType, LastType,
   FlagType

\* The assumptions about the bounds
LEMMA Bounds ==
  MaxStages \in Nat /\ Cap \in Nat /\ Cap > 0 /\ MaxLines \in Nat /\ MaxPresses \in Nat
BY PipesAssumption, PipelinesAssumption

\* A line has one stage at least and MaxStages at most
LEMMA Lined ==
  /\ \A l \in Lines \cup PipexLines \cup PicoLines :
       l \in Seq(Stages) /\ Len(l) \in Nat /\ 1 <= Len(l) /\ Len(l) <= MaxStages
  /\ \A l \in PipexLines : Len(l) = 2
<1>1. \A l \in Lines \cup PipexLines \cup PicoLines :
        l \in Seq(Stages) /\ Len(l) \in 1 .. MaxStages
  BY PipesAssumption, PipelinesAssumption
<1>2. \A l \in PipexLines : Len(l) = 2
  BY PipelinesAssumption
<1> QED
  BY <1>1, <1>2, Bounds

\* Each end of a pipe belongs to one stage
LEMMA StageOfEnd ==
  ASSUME NEW P, P \subseteq Int, NEW e \in P \X {"r", "w"}
  PROVE  /\ StageOf(e) \in Int /\ e[1] \in P
         /\ \A i \in Int : StageOf(e) = i => e \in {End(i - 1, "r"), End(i, "w")}
<1>1. /\ e[1] \in P /\ e[2] \in {"r", "w"}
      /\ e = <<e[1], e[2]>>
  OBVIOUS
<1>2. e[1] \in Int
  BY <1>1
<1>3. CASE e[2] = "r"
  BY <1>1, <1>2, <1>3 DEF StageOf, End
<1>4. CASE e[2] = "w"
  BY <1>1, <1>2, <1>4 DEF StageOf, End
<1> QED
  BY <1>1, <1>3, <1>4


-----------------------------------------------------------------------------
(***************************************************************************)
(* Only the excused lines stand still.                                     *)
(***************************************************************************)
\* The line is a sequence of stages
LEMMA Stageful ==
  ASSUME TypeOK
  PROVE  /\ line \in Seq(Stages) /\ Len(line) \in Nat /\ Len(line) <= MaxStages
         /\ \A i \in 1 .. Len(line) : line[i] \in Stages
<1>1. LineType
  BY Parts
<1>2. CASE line \in Lines \cup PipexLines \cup PicoLines
  <2>1. line \in Seq(Stages) /\ Len(line) \in Nat /\ Len(line) <= MaxStages
    BY <1>2, Lined
  <2>2. \A i \in 1 .. Len(line) : line[i] \in Stages
    BY <2>1, ElementOfSeq
  <2> QED
    BY <2>1, <2>2
<1>3. CASE line = <<>>
  <2>1. line \in Seq(Stages) /\ Len(line) = 0
    BY <1>3, EmptySeq
  <2> QED
    BY <2>1, Bounds
<1> QED
  BY <1>1, <1>2, <1>3 DEF LineType

\* Who is blocked reads an empty pipe or writes to a full one
LEMMA BlockedBy ==
  ASSUME IInv, NEW i \in Numbers, child[i] = "running", Blocked(i),
         \A j \in Children : child[j] = "running" /\ Blocked(j)
  PROVE  \/ /\ Reads(i) /\ Unread(i) /\ buf[i - 1] = 0
            /\ End(i - 1, "w") \in held[0] \/ (i - 1 \in Numbers /\ child[i - 1] = "running")
         \/ /\ Writes(i) /\ Piped(i) /\ buf[i] = Cap
            /\ End(i, "r") \in held[0] \/ (i + 1 \in Numbers /\ child[i + 1] = "running")
<1> USE Bounds
<1>0. TypeOK /\ ChildType /\ PipesType /\ ChildInv
  BY Parts DEF IInv
<1>a. \A q \in Numbers : child[q] # "forked"
  BY DEF Children
<1>b. \A q \in Numbers : held[q] # {} => child[q] = "running" /\ held[q] = EndsOfStage(q)
  BY <1>0, <1>a DEF ChildInv, ChildType
<1>c. \A q \in Procs : q = 0 \/ q \in Numbers
  BY DEF Procs, Numbers
<1>d. pipes \subseteq Int /\ i \in Int
  BY <1>0 DEF PipesType, Numbers
<1>1. CASE Writes(i) /\ Piped(i) /\ buf[i] = Cap /\ Readers(i) # {}
  <2>1. PICK q \in Procs : End(i, "r") \in held[q]
    BY <1>1 DEF Readers
  <2>2. CASE q \in Numbers
    <3>1. End(i, "r") \in EndsOfStage(q) /\ child[q] = "running"
      BY <2>1, <2>2, <1>b
    <3>2. q = i + 1
      BY <3>1, <2>2, <1>d DEF EndsOfStage, End, Numbers
    <3> QED
      BY <3>1, <3>2, <2>2, <1>1
  <2> QED
    BY <2>1, <2>2, <1>c, <1>1
<1>2. CASE Reads(i) /\ Unread(i) /\ buf[i - 1] = 0 /\ Writers(i - 1) # {}
  <2>1. PICK q \in Procs : End(i - 1, "w") \in held[q]
    BY <1>2 DEF Writers
  <2>2. CASE q \in Numbers
    <3>1. End(i - 1, "w") \in EndsOfStage(q) /\ child[q] = "running"
      BY <2>1, <2>2, <1>b
    <3>2. q = i - 1
      BY <3>1, <2>2, <1>d DEF EndsOfStage, End, Numbers
    <3> QED
      BY <3>1, <3>2, <2>2, <1>2
  <2> QED
    BY <2>1, <2>2, <1>c, <1>2
<1> QED
  BY <1>1, <1>2 DEF Blocked

\* With all children blocked, process 0 has the end that one of them waits for
LEMMA SomebodyHolds ==
  ASSUME IInv, Standstill
  PROVE  \E i \in Numbers :
           /\ child[i] = "running" /\ Blocked(i)
           /\ \/ Reads(i) /\ Unread(i) /\ End(i - 1, "w") \in held[0]
              \/ Writes(i) /\ Piped(i) /\ End(i, "r") \in held[0]
<1> USE Bounds
<1> DEFINE Reading == { j \in Numbers : child[j] = "running" /\ Reads(j) /\ Unread(j) /\ buf[j - 1] = 0 }
           Writing == { j \in Numbers : child[j] = "running" /\ Writes(j) /\ Piped(j) /\ buf[j] = Cap }
<1>0. LeftType
  BY Parts DEF IInv
<1>1. \A j \in Children : child[j] = "running" /\ Blocked(j) /\ j \in Numbers
  BY DEF Standstill, Children
<1>2. \A j \in Numbers : child[j] = "running" => j \in Children
  BY DEF Children
<1>3. \A j \in Children : j \in Reading \/ j \in Writing
  BY <1>1, BlockedBy
<1>4. SUFFICES ASSUME \A i \in Reading : End(i - 1, "w") \notin held[0],
                      \A i \in Writing : End(i, "r") \notin held[0]
               PROVE  FALSE
  BY <1>1, <1>2
<1>5. Reading = {}
  <2> SUFFICES ASSUME Reading # {}
               PROVE  FALSE
    OBVIOUS
  <2>1. Reading \subseteq Nat
    BY DEF Numbers
  <2>2. PICK m \in Reading : \A n \in Reading : m <= n
    <3> HIDE DEF Reading
    <3> QED
      BY <2>1, Least
  <2>3. m - 1 \in Numbers /\ child[m - 1] = "running"
    <3>1. child[m] = "running" /\ m \in Numbers /\ Blocked(m) /\ Reads(m)
      BY <1>1, <1>2
    <3>2. ~ Writes(m)
      BY <3>1, <1>0 DEF Writes, Reads, LeftType
    <3> QED
      BY <3>1, <3>2, <1>1, <1>4, BlockedBy
  <2>4. m - 1 \notin Writing
    <3>1. buf[m - 1] = 0
      OBVIOUS
    <3> QED
      BY <3>1
  <2>5. m - 1 \in Reading
    BY <2>3, <2>4, <1>2, <1>3
  <2>6. m \in Nat
    BY <2>1
  <2> QED
    BY <2>2, <2>5, <2>6
<1>6. Writing = {}
  <2> SUFFICES ASSUME Writing # {}
               PROVE  FALSE
    OBVIOUS
  <2>1. Writing \subseteq 0 .. MaxStages
    BY DEF Numbers
  <2>2. PICK m \in Writing : \A n \in Writing : n <= m
    <3> HIDE DEF Writing
    <3> QED
      BY <2>1, Greatest
  <2>3. m + 1 \in Numbers /\ child[m + 1] = "running"
    <3>1. child[m] = "running" /\ m \in Numbers /\ Blocked(m) /\ Writes(m)
      BY <1>1, <1>2
    <3>2. ~ Reads(m)
      BY <3>1, <1>0 DEF Writes, Reads, LeftType
    <3> QED
      BY <3>1, <3>2, <1>1, <1>4, BlockedBy
  <2>5. m + 1 \in Writing
    BY <2>3, <1>5, <1>2, <1>3
  <2>6. m \in Nat
    BY <2>1
  <2> QED
    BY <2>2, <2>5, <2>6
<1> QED
  BY <1>3, <1>5, <1>6 DEF Standstill

\* The invariant excludes every standstill that is not excused
LEMMA Unblocked == IInv => OnlyTheUnstartedBlock
<1> USE Bounds
<1> SUFFICES ASSUME IInv, Standstill
             PROVE  Excused
  BY DEF OnlyTheUnstartedBlock
<1>0. TypeOK /\ AtType /\ PipesType /\ LeftType /\ LineInv /\ ChildInv /\ HeldInv /\ PipexInv
  BY Parts DEF IInv
<1>1. PICK i \in Numbers :
           /\ child[i] = "running" /\ Blocked(i)
           /\ \/ Reads(i) /\ Unread(i) /\ End(i - 1, "w") \in held[0]
              \/ Writes(i) /\ Piped(i) /\ End(i, "r") \in held[0]
  BY SomebodyHolds
<1>2. pipes \subseteq 1 .. Len(line) - 1 /\ Len(line) \in Nat
  BY <1>0, Stageful DEF PipesType
<1>3. CASE pc = "wait"
  <2>1. CASE Reads(i) /\ Unread(i) /\ End(i - 1, "w") \in held[0]
    <3>1. i - 1 \in 1 .. Len(line) - 1 /\ i \in Int
      BY <2>1, <1>2 DEF Unread, Numbers
    <3>2. Unstarted(i - 1)
      BY <2>1, <3>1, <1>0, <1>3, <1>2 DEF HeldInv, LineInv, StageOf, End, AtType
    <3>3. (i - 1) + 1 = i
      BY <3>1
    <3> QED
      BY <2>1, <3>1, <3>2, <3>3, <1>1, <1>2, <1>3 DEF Excused, Unread, Piped
  <2>2. CASE Writes(i) /\ Piped(i) /\ End(i, "r") \in held[0]
    <3>1. i + 1 \in 1 .. Len(line) /\ i \in Int
      BY <2>2, <1>2 DEF Piped, Numbers
    <3>2. Unstarted(i + 1)
      BY <2>2, <3>1, <1>0, <1>3, <1>2 DEF HeldInv, LineInv, StageOf, End, AtType
    <3>3. (i + 1) - 1 = i
      BY <3>1
    <3> QED
      BY <2>2, <3>1, <3>2, <3>3, <1>1, <1>2, <1>3 DEF Excused, Unread, Piped
  <2> QED
    BY <1>1, <2>1, <2>2
<1>4. CASE pc = "pipex_wait"
  <2>1. i = 1
    BY <1>0, <1>1, <1>4 DEF ChildInv
  <2>2. ~ Unread(i)
    BY <2>1, <1>2 DEF Unread
  <2>3. Writes(1) /\ buf[1] = Cap
    BY <1>1, <2>1, <2>2 DEF Blocked
  <2>4. left[1].pending \in Nat /\ line[1].adds \in Nat
    <3>1. 1 \in 1 .. Len(line)
      <4>1. line \in PipexLines
        BY <1>0, <1>4 DEF LineInv
      <4> QED
        BY <4>1, Lined
    <3>2. line[1] \in Stages
      BY <3>1, <1>0, Stageful
    <3> QED
      BY <3>2, <2>1, <1>0 DEF LeftType, Stages
  <2>5. buf[1] + left[1].pending <= line[1].adds
    BY <1>0, <1>4 DEF PipexInv
  <2>6. line[1].adds > Cap
    BY <2>3, <2>4, <2>5 DEF Writes
  <2> QED
    BY <2>6, <1>4 DEF Excused
<1>5. CASE pc = "pico_wait"
  BY <1>0, <1>1, <1>5 DEF HeldInv
<1> QED
  BY <1>3, <1>4, <1>5 DEF Standstill, Waits

\* The invariant settles every line
LEMMA IsSettled == IInv => LinesAreSettled
<1> SUFFICES ASSUME IInv
             PROVE  LinesAreSettled
  OBVIOUS
<1>0. ChildType /\ ShellType /\ ChildInv /\ HeldInv /\ StatusInv
  BY Parts DEF IInv
<1>1. \A q \in Procs : q = 0 \/ q \in Numbers
  BY Bounds DEF Procs, Numbers
<1>2. \A q \in Numbers : child[q] \in {"none", "reaped"} => q \notin Children /\ held[q] = {}
  BY <1>0 DEF ChildInv, Children
<1>3. ASSUME pc \in {"prompt", "over", "pico_over"}
      PROVE  Children = {} /\ \A q \in Procs : held[q] = {}
  <2>1. \A q \in Numbers : q \notin Children /\ held[q] = {}
    BY <1>0, <1>2, <1>3 DEF ChildInv
  <2>2. held[0] = {}
    BY <1>0, <1>3 DEF HeldInv
  <2> QED
    BY <1>1, <2>1, <2>2 DEF Children
<1>4. ASSUME pc = "pipex_over"
      PROVE  Children \subseteq {2} /\ \A q \in Procs \ {2} : held[q] = {}
  <2>1. \A q \in Numbers \ {2} : q \notin Children /\ held[q] = {}
    BY <1>0, <1>2, <1>4 DEF ChildInv
  <2>2. held[0] = {}
    BY <1>0, <1>4 DEF HeldInv
  <2> QED
    BY <1>1, <2>1, <2>2 DEF Children
<1>5. told <= presses
  BY <1>0 DEF StatusInv, ShellType
<1> QED
  BY <1>0, <1>3, <1>4, <1>5 DEF LinesAreSettled, StatusInv, Settled

\* In pipex the first stage of the line is there
LEMMA PipexStage ==
  ASSUME IInv, pc = "pipex_wait"
  PROVE  line[1].adds \in Nat /\ 1 \in Numbers
<1>1. line \in PipexLines
  BY DEF IInv, LineInv
<1>2. line \in Seq(Stages) /\ Len(line) = 2 /\ Len(line) <= MaxStages
  BY <1>1, Lined
<1>3. 1 \in Numbers
  BY <1>2, Bounds DEF Numbers
<1>4. \A i \in 1 .. Len(line) : line[i] \in Stages
  BY Stageful DEF IInv
<1>5. line[1] \in Stages
  BY <1>2, <1>4
<1> QED
  BY <1>3, <1>5 DEF Stages
-----------------------------------------------------------------------------
(***************************************************************************)
(* The invariant is inductive: one lemma for each kind of step.            *)
(***************************************************************************)
\* The parts of the invariant make the whole
LEMMA Whole ==
  ASSUME PcType', LineType', AtType', PipesType', HeldType', BufType', ChildType', LeftType',
         CodeType', ShellType', LastType', FlagType', LineInv', ChildInv', HeldInv', StatusInv', PipexInv'
  PROVE  IInv'
<1>1. TypeOK'
  BY DEF TypeOK, PcType, LineType, AtType, PipesType, HeldType, BufType, ChildType, LeftType, CodeType, ShellType, LastType, FlagType
<1> QED
  BY <1>1 DEF IInv

\* ReadLine: the invariant is kept
LEMMA LineRead ==
  ASSUME IInv, NEW l \in Lines, ReadLine(l), UNCHANGED returned
  PROVE  IInv'
<1> USE Bounds
<1>0. /\ PcType /\ LineType /\ AtType /\ PipesType /\ HeldType /\ BufType
      /\ ChildType /\ LeftType /\ CodeType /\ ShellType /\ LastType /\ FlagType
      /\ LineInv /\ ChildInv /\ HeldInv /\ StatusInv /\ PipexInv
      /\ Len(line) \in Nat
  BY Parts, Stageful DEF IInv
<1>a. Len(l) \in Nat /\ 1 <= Len(l) /\ Len(l) <= MaxStages
  BY Lined
<1>1. PcType'
  BY <1>0 DEF ReadLine, Begin, PipesFor, EndsOf, End, Procs, Numbers, PcType
<1>2. LineType'
  BY <1>0 DEF ReadLine, Begin, PipesFor, EndsOf, End, Procs, Numbers, LineType
<1>3. AtType'
  BY <1>0 DEF ReadLine, Begin, PipesFor, EndsOf, End, Procs, Numbers, AtType
<1>4. PipesType'
  BY <1>0 DEF ReadLine, Begin, PipesFor, EndsOf, End, Procs, Numbers, PipesType
<1>5. HeldType'
  BY <1>0 DEF ReadLine, Begin, PipesFor, EndsOf, End, Procs, Numbers, HeldType
<1>6. BufType'
  BY <1>0 DEF ReadLine, Begin, PipesFor, EndsOf, End, Procs, Numbers, BufType
<1>7. ChildType'
  BY <1>0 DEF ReadLine, Begin, PipesFor, EndsOf, End, Procs, Numbers, ChildType
<1>8. LeftType'
  BY <1>0 DEF ReadLine, Begin, PipesFor, EndsOf, End, Procs, Numbers, LeftType
<1>9. CodeType'
  BY <1>0 DEF ReadLine, Begin, PipesFor, EndsOf, End, Procs, Numbers, CodeType
<1>10. ShellType'
  <2>1. /\ last_pid' = 0 /\ line' = l
        /\ typed < MaxLines /\ typed' = typed + 1
        /\ UNCHANGED <<status, sig_nb, in_cmd, presses, told, by_signal, returned>>
        /\ leaving' = FALSE
    BY DEF ReadLine, Begin
  <2> QED
    BY <1>0, <1>a, <2>1 DEF ShellType
<1>11. LastType'
  BY <1>0 DEF ReadLine, Begin, PipesFor, EndsOf, End, Procs, Numbers, LastType
<1>12. FlagType'
  BY <1>0 DEF ReadLine, Begin, PipesFor, EndsOf, End, Procs, Numbers, FlagType
<1>13. LineInv'
  BY <1>0 DEF ReadLine, Begin, PipesFor, EndsOf, End, Procs, Numbers, LineInv
<1>14. ChildInv'
  BY <1>0 DEF ReadLine, Begin, PipesFor, EndsOf, End, Procs, Numbers, ChildInv, EndsOfStage
<1>15. HeldInv'
  <2>1. pc' = "run" /\ at' = 1
    BY DEF ReadLine
  <2>2. ASSUME NEW e \in held'[0]
        PROVE  StageOf(e) >= 1
    <3>1. PICK p \in 1 .. Len(l) - 1 : e \in {<<p, "r">>, <<p, "w">>}
      BY <2>2 DEF ReadLine, Begin, PipesFor, EndsOf, End, Procs
    <3> QED
      BY <1>a, <3>1 DEF StageOf
  <2> QED
    BY <2>1, <2>2 DEF HeldInv
<1>16. StatusInv'
  <2>1. pc' = "run" /\ at' = 1 /\ line' = l /\ last_pid' = 0 /\ UNCHANGED <<told, sig_nb, presses>>
    BY DEF ReadLine, Begin
  <2>2. ~(at' > Len(line'))
    BY <1>a, <2>1
  <2> QED
    BY <1>0, <2>1, <2>2 DEF StatusInv
<1>17. PipexInv'
  BY <1>0 DEF ReadLine, Begin, PipesFor, EndsOf, End, Procs, Numbers, PipexInv
<1> QED
  BY <1>1, <1>2, <1>3, <1>4, <1>5, <1>6, <1>7, <1>8,
     <1>9, <1>10, <1>11, <1>12, <1>13, <1>14, <1>15, <1>16, <1>17, Whole

\* A child ends: the invariant is kept
LEMMA ChildEnds ==
  ASSUME IInv, NEW i \in Numbers, NEW how \in 0 .. 255 \cup {Signal}, child[i] \in {"forked", "running"},
         Ends(i, how), UNCHANGED <<shell, returned>>
  PROVE  IInv'
<1> USE Bounds
<1>0. /\ PcType /\ LineType /\ AtType /\ PipesType /\ HeldType /\ BufType
      /\ ChildType /\ LeftType /\ CodeType /\ ShellType /\ LastType /\ FlagType
      /\ LineInv /\ ChildInv /\ HeldInv /\ StatusInv /\ PipexInv
      /\ Len(line) \in Nat
  BY Parts, Stageful DEF IInv
<1>a. /\ \A j \in Numbers : child'[j] = IF j = i THEN "zombie" ELSE child[j]
      /\ \A j \in Numbers : held'[j] = IF j = i THEN {} ELSE held[j]
      /\ held'[0] = held[0] /\ UNCHANGED <<line, pipes, pc, at>>
  BY <1>0 DEF Ends, ChildType, HeldType, Procs, Numbers, shell
<1>1. PcType'
  BY <1>0 DEF Ends, shell, PcType
<1>2. LineType'
  BY <1>0 DEF Ends, shell, LineType
<1>3. AtType'
  BY <1>0 DEF Ends, shell, AtType
<1>4. PipesType'
  BY <1>0 DEF Ends, shell, PipesType
<1>5. HeldType'
  BY <1>0 DEF Ends, shell, HeldType, Procs, Numbers
<1>6. BufType'
  BY <1>0 DEF Ends, shell, BufType
<1>7. ChildType'
  BY <1>0 DEF Ends, shell, ChildType
<1>8. LeftType'
  BY <1>0 DEF Ends, shell, LeftType
<1>9. CodeType'
  BY <1>0 DEF Ends, shell, CodeType
<1>10. ShellType'
  BY <1>0 DEF Ends, shell, ShellType
<1>11. LastType'
  BY <1>0 DEF Ends, shell, LastType
<1>12. FlagType'
  BY <1>0 DEF Ends, shell, FlagType
<1>13. LineInv'
  BY <1>0 DEF Ends, shell, LineInv
<1>14. ChildInv'
  BY <1>0, <1>a DEF ChildInv, EndsOfStage
<1>15. HeldInv'
  BY <1>0, <1>a DEF HeldInv, Unstarted
<1>16. StatusInv'
  <2>1. /\ \A j \in Numbers : child'[j] = IF j = i THEN "zombie" ELSE child[j]
        /\ \A j \in Numbers : j # i => code'[j] = code[j]
        /\ UNCHANGED <<line, shell, returned>>
    BY <1>0 DEF Ends, ChildType, CodeType
  <2>2. \A j \in Numbers : child'[j] # "none" => child[j] # "none"
    BY <2>1
  <2>3. child'[i] = "zombie"
    BY <2>1
  <2>4. pc \in {"run", "wait"} => Len(line) \in Numbers
    BY <1>0, Lined DEF LineInv, Numbers
  <2>5. pc = "prompt" => FALSE
    BY <1>0 DEF ChildInv
  <2> QED
    BY <1>0, <2>1, <2>2, <2>3, <2>4, <2>5 DEF StatusInv, Settled, StatusOf, ExitStatus, Awaited, shell
<1>17. PipexInv'
  BY <1>0 DEF Ends, shell, PipexInv
<1> QED
  BY <1>1, <1>2, <1>3, <1>4, <1>5, <1>6, <1>7, <1>8,
     <1>9, <1>10, <1>11, <1>12, <1>13, <1>14, <1>15, <1>16, <1>17, Whole

\* A child comes to its command: the invariant is kept
LEMMA ChildRuns ==
  ASSUME IInv, NEW i \in Numbers, child[i] = "forked", Running(i), UNCHANGED <<shell, returned>>
  PROVE  IInv'
<1> USE Bounds
<1>0. /\ PcType /\ LineType /\ AtType /\ PipesType /\ HeldType /\ BufType
      /\ ChildType /\ LeftType /\ CodeType /\ ShellType /\ LastType /\ FlagType
      /\ LineInv /\ ChildInv /\ HeldInv /\ StatusInv /\ PipexInv
      /\ Len(line) \in Nat
  BY Parts, Stageful DEF IInv
<1>a. /\ \A j \in Numbers : child'[j] = IF j = i THEN "running" ELSE child[j]
      /\ \A j \in Numbers : held'[j] = IF j = i THEN EndsOfStage(i) ELSE held[j]
      /\ held'[0] = held[0] /\ UNCHANGED <<line, pipes, pc, at>>
  BY <1>0 DEF Running, ChildType, HeldType, Procs, Numbers, shell
<1>1. PcType'
  BY <1>0 DEF Running, shell, PcType
<1>2. LineType'
  BY <1>0 DEF Running, shell, LineType
<1>3. AtType'
  BY <1>0 DEF Running, shell, AtType
<1>4. PipesType'
  BY <1>0 DEF Running, shell, PipesType
<1>5. HeldType'
  BY <1>0 DEF Running, shell, HeldType, EndsOfStage, End, PipesType, Procs, Numbers
<1>6. BufType'
  BY <1>0 DEF Running, shell, BufType
<1>7. ChildType'
  BY <1>0 DEF Running, shell, ChildType
<1>8. LeftType'
  BY <1>0 DEF Running, shell, LeftType
<1>9. CodeType'
  BY <1>0 DEF Running, shell, CodeType
<1>10. ShellType'
  BY <1>0 DEF Running, shell, ShellType
<1>11. LastType'
  BY <1>0 DEF Running, shell, LastType
<1>12. FlagType'
  BY <1>0 DEF Running, shell, FlagType
<1>13. LineInv'
  BY <1>0 DEF Running, shell, LineInv
<1>14. ChildInv'
  BY <1>0, <1>a DEF ChildInv, EndsOfStage
<1>15. HeldInv'
  BY <1>0, <1>a DEF HeldInv, Unstarted
<1>16. StatusInv'
  BY <1>0 DEF Running, shell, StatusInv, Settled, StatusOf, ExitStatus, Awaited, ChildType
<1>17. PipexInv'
  BY <1>0 DEF Running, shell, PipexInv
<1> QED
  BY <1>1, <1>2, <1>3, <1>4, <1>5, <1>6, <1>7, <1>8,
     <1>9, <1>10, <1>11, <1>12, <1>13, <1>14, <1>15, <1>16, <1>17, Whole

\* Launch: the invariant is kept
LEMMA Launched ==
  ASSUME IInv, Launch, UNCHANGED returned
  PROVE  IInv'
<1> USE Bounds
<1>0. /\ PcType /\ LineType /\ AtType /\ PipesType /\ HeldType /\ BufType
      /\ ChildType /\ LeftType /\ CodeType /\ ShellType /\ LastType /\ FlagType
      /\ LineInv /\ ChildInv /\ HeldInv /\ StatusInv /\ PipexInv
      /\ Len(line) \in Nat
  BY Parts, Stageful DEF IInv
<1>a. /\ line \in Seq(Stages) /\ Len(line) \in Nat /\ Len(line) <= MaxStages
      /\ \A j \in 1 .. Len(line) : line[j] \in Stages
  BY <1>0, Stageful DEF IInv
<1>b. at \in 1 .. Len(line) /\ at \in Numbers /\ pc = "run" /\ line[at] \in Stages
  BY <1>0, <1>a DEF Launch, AtNode, AtType, Numbers
<1>c. line[at].wants \in Nat /\ line[at].adds \in Nat
  BY <1>b DEF Stages
<1>d. /\ \A j \in Numbers : child'[j] = IF j = at THEN "forked" ELSE child[j]
      /\ \A j \in Numbers : held'[j] = IF j = at THEN held[0] ELSE held[j]
      /\ pc' = "run" /\ at' = at + 1 /\ UNCHANGED <<line, pipes>>
      /\ held'[0] = held[0] \ EndsOfStage(at)
  BY <1>0, <1>b DEF Launch, NextNode, Fork, ChildType, HeldType, Procs, Numbers
<1>1. PcType'
  BY <1>0 DEF Launch, AtNode, NextNode, Fork, PcType
<1>2. LineType'
  BY <1>0 DEF Launch, AtNode, NextNode, Fork, LineType
<1>3. AtType'
  BY <1>0, <1>b DEF Launch, AtNode, NextNode, Fork, AtType
<1>4. PipesType'
  BY <1>0 DEF Launch, AtNode, NextNode, Fork, PipesType
<1>5. HeldType'
  BY <1>0, <1>b DEF Launch, AtNode, NextNode, Fork, HeldType, Procs, Numbers
<1>6. BufType'
  BY <1>0 DEF Launch, AtNode, NextNode, Fork, BufType
<1>7. ChildType'
  BY <1>0, <1>b DEF Launch, AtNode, NextNode, Fork, ChildType
<1>8. LeftType'
  BY <1>0, <1>b, <1>c DEF Launch, AtNode, NextNode, Fork, LeftType
<1>9. CodeType'
  BY <1>0 DEF Launch, AtNode, NextNode, Fork, CodeType
<1>10. ShellType'
  BY <1>0, <1>a, <1>b DEF Launch, AtNode, NextNode, Fork, ShellType
<1>11. LastType'
  BY <1>0 DEF Launch, AtNode, NextNode, Fork, LastType
<1>12. FlagType'
  BY <1>0 DEF Launch, AtNode, NextNode, Fork, FlagType
<1>13. LineInv'
  BY <1>0, <1>b DEF Launch, AtNode, NextNode, Fork, LineInv
<1>14. ChildInv'
  BY <1>0, <1>b, <1>d DEF ChildInv, EndsOfStage
<1>15. HeldInv'
  <2>2. ASSUME NEW e \in held'[0]
        PROVE  StageOf(e) >= at + 1 \/ Unstarted(StageOf(e))
    <3>1. e \in held[0] /\ e \notin EndsOfStage(at)
      BY <1>d, <2>2
    <3>2. e \in pipes \X {"r", "w"} /\ pipes \subseteq Int
      BY <1>0, <3>1 DEF HeldType, PipesType, Procs
    <3>3. StageOf(e) # at /\ StageOf(e) \in Int
      BY <3>1, <3>2, <1>b, StageOfEnd DEF EndsOfStage
    <3>4. StageOf(e) >= at \/ Unstarted(StageOf(e))
      BY <1>0, <1>b, <3>1 DEF HeldInv
    <3> QED
      BY <3>3, <3>4, <1>b
  <2> QED
    BY <2>2, <1>d DEF HeldInv, Unstarted
<1>16. StatusInv'
  <2>1. /\ last_pid' = IF at = Len(line) THEN at ELSE last_pid
        /\ at' = at + 1 /\ pc' = "run" /\ child'[at] = "forked"
        /\ UNCHANGED <<told, sig_nb, presses, line, code, status, by_signal>>
        /\ line[at].kind \in {"external", "forked"}
    BY <1>0, <1>b DEF Launch, AtNode, NextNode, Fork, ChildType
  <2>2. last_pid = 0
    BY <1>0, <1>b DEF StatusInv
  <2> QED
    BY <1>0, <1>a, <1>b, <2>1, <2>2 DEF StatusInv, Awaited
<1>17. PipexInv'
  BY <1>0, <1>b DEF Launch, AtNode, NextNode, Fork, PipexInv
<1> QED
  BY <1>1, <1>2, <1>3, <1>4, <1>5, <1>6, <1>7, <1>8,
     <1>9, <1>10, <1>11, <1>12, <1>13, <1>14, <1>15, <1>16, <1>17, Whole

\* A node that starts no process: the invariant is kept
LEMMA NodeSkipped ==
  ASSUME IInv, LaunchFails \/ NotFound \/ Inside \/ Exit, UNCHANGED returned
  PROVE  IInv'
<1> USE Bounds
<1>0. /\ PcType /\ LineType /\ AtType /\ PipesType /\ HeldType /\ BufType
      /\ ChildType /\ LeftType /\ CodeType /\ ShellType /\ LastType /\ FlagType
      /\ LineInv /\ ChildInv /\ HeldInv /\ StatusInv /\ PipexInv
      /\ Len(line) \in Nat
  BY Parts, Stageful DEF IInv
<1>a. /\ line \in Seq(Stages) /\ Len(line) \in Nat /\ Len(line) <= MaxStages
      /\ \A j \in 1 .. Len(line) : line[j] \in Stages
  BY <1>0, Stageful DEF IInv
<1>b. /\ pc = "run" /\ at <= Len(line) /\ Unstarted(at) /\ NextNode
      /\ UNCHANGED <<system, last_pid>> /\ leaving' \in {leaving, TRUE}
      /\ \/ UNCHANGED <<status, by_signal>> /\ line[at].kind \in {"unforked", "exit"}
         \/ status' = 127 /\ by_signal' = FALSE /\ line[at].kind = "missing"
         \/ status' = line[at].code /\ by_signal' = FALSE /\ line[at].kind = "inside"
  BY DEF LaunchFails, NotFound, Inside, Exit, AtNode, SetStatus, Unstarted
<1>c. at \in 1 .. Len(line) /\ line[at] \in Stages
  BY <1>0, <1>a, <1>b DEF AtType
<1>d. line[at].code \in 0 .. 255
  BY <1>c DEF Stages
<1>1. PcType'
  BY <1>0, <1>b DEF NextNode, system, PcType
<1>2. LineType'
  BY <1>0, <1>b DEF NextNode, system, LineType
<1>3. AtType'
  BY <1>0, <1>b, <1>c DEF NextNode, system, AtType
<1>4. PipesType'
  BY <1>0, <1>b DEF NextNode, system, PipesType
<1>5. HeldType'
  BY <1>0, <1>b DEF NextNode, system, HeldType
<1>6. BufType'
  BY <1>0, <1>b DEF NextNode, system, BufType
<1>7. ChildType'
  BY <1>0, <1>b DEF NextNode, system, ChildType
<1>8. LeftType'
  BY <1>0, <1>b DEF NextNode, system, LeftType
<1>9. CodeType'
  BY <1>0, <1>b DEF NextNode, system, CodeType
<1>10. ShellType'
  <2>1. status' \in 0 .. 255
    <3>1. status' \in {status, 127, line[at].code}
      BY <1>b
    <3>2. status \in 0 .. 255
      BY <1>0 DEF ShellType
    <3> QED
      BY <1>d, <3>1, <3>2
  <2> QED
    BY <1>0, <1>b, <2>1 DEF ShellType, NextNode
<1>11. LastType'
  BY <1>0, <1>b DEF NextNode, system, LastType
<1>12. FlagType'
  BY <1>0, <1>b DEF NextNode, system, FlagType
<1>13. LineInv'
  BY <1>0, <1>b DEF NextNode, system, LineInv
<1>14. ChildInv'
  BY <1>0, <1>b DEF NextNode, system, ChildInv, EndsOfStage
<1>15. HeldInv'
  <2>1. ASSUME NEW e \in held[0]
        PROVE  StageOf(e) >= at + 1 \/ Unstarted(StageOf(e))
    <3>1. e \in pipes \X {"r", "w"} /\ pipes \subseteq Int
      BY <1>0 DEF HeldType, PipesType, Procs
    <3>2. StageOf(e) \in Int
      BY <3>1, StageOfEnd
    <3>3. StageOf(e) >= at \/ Unstarted(StageOf(e))
      BY <1>0, <1>b DEF HeldInv
    <3>4. CASE StageOf(e) = at
      BY <3>4, <1>b
    <3> QED
      BY <3>2, <3>3, <3>4, <1>c
  <2> QED
    BY <2>1, <1>b DEF HeldInv, Unstarted, NextNode, system
<1>16. StatusInv'
  <2>1. last_pid = 0 /\ last_pid' = 0 /\ at' = at + 1 /\ line' = line /\ pc' = "run"
    BY <1>0, <1>a, <1>b, <1>c DEF StatusInv, NextNode, system
  <2>2. status' \in 0 .. 255
    BY <1>10 DEF ShellType
  <2>3. at = Len(line) => ~Awaited /\ Settled'
    BY <1>b, <2>1, <2>2 DEF Awaited, Settled, StatusOf
  <2>4. UNCHANGED <<told, sig_nb, presses>>
    BY <1>b DEF NextNode
  <2> QED
    BY <1>0, <1>a, <1>c, <2>1, <2>3, <2>4 DEF StatusInv, Awaited
<1>17. PipexInv'
  BY <1>0, <1>b DEF NextNode, system, PipexInv
<1> QED
  BY <1>1, <1>2, <1>3, <1>4, <1>5, <1>6, <1>7, <1>8,
     <1>9, <1>10, <1>11, <1>12, <1>13, <1>14, <1>15, <1>16, <1>17, Whole

\* AllLaunched: the invariant is kept
LEMMA RunOver ==
  ASSUME IInv, AllLaunched, UNCHANGED returned
  PROVE  IInv'
<1> USE Bounds
<1>0. /\ PcType /\ LineType /\ AtType /\ PipesType /\ HeldType /\ BufType
      /\ ChildType /\ LeftType /\ CodeType /\ ShellType /\ LastType /\ FlagType
      /\ LineInv /\ ChildInv /\ HeldInv /\ StatusInv /\ PipexInv
      /\ Len(line) \in Nat
  BY Parts, Stageful DEF IInv
<1>a. /\ line \in Seq(Stages) /\ Len(line) \in Nat /\ Len(line) <= MaxStages
      /\ \A j \in 1 .. Len(line) : line[j] \in Stages
  BY <1>0, Stageful DEF IInv
<1>1. PcType'
  BY <1>0 DEF AllLaunched, system, PcType
<1>2. LineType'
  BY <1>0 DEF AllLaunched, system, LineType
<1>3. AtType'
  BY <1>0 DEF AllLaunched, system, AtType
<1>4. PipesType'
  BY <1>0 DEF AllLaunched, system, PipesType
<1>5. HeldType'
  BY <1>0 DEF AllLaunched, system, HeldType
<1>6. BufType'
  BY <1>0 DEF AllLaunched, system, BufType
<1>7. ChildType'
  BY <1>0 DEF AllLaunched, system, ChildType
<1>8. LeftType'
  BY <1>0 DEF AllLaunched, system, LeftType
<1>9. CodeType'
  BY <1>0 DEF AllLaunched, system, CodeType
<1>10. ShellType'
  BY <1>0 DEF AllLaunched, system, ShellType
<1>11. LastType'
  BY <1>0 DEF AllLaunched, system, LastType
<1>12. FlagType'
  BY <1>0 DEF AllLaunched, system, FlagType
<1>13. LineInv'
  <2>1. at > 1 /\ pc = "run" /\ at > Len(line)
    <3>1. line \in Lines
      BY <1>0 DEF AllLaunched, LineInv
    <3> QED
      BY <1>0, <1>a, <3>1, Lined DEF AllLaunched, AtType
  <2> QED
    BY <1>0, <2>1 DEF AllLaunched, system, LineInv
<1>14. ChildInv'
  BY <1>0 DEF AllLaunched, system, ChildInv, EndsOfStage
<1>15. HeldInv'
  BY <1>0 DEF AllLaunched, system, HeldInv, Unstarted
<1>16. StatusInv'
  BY <1>0 DEF AllLaunched, system, StatusInv, Settled, StatusOf, ExitStatus, Awaited
<1>17. PipexInv'
  BY <1>0 DEF AllLaunched, system, PipexInv
<1> QED
  BY <1>1, <1>2, <1>3, <1>4, <1>5, <1>6, <1>7, <1>8,
     <1>9, <1>10, <1>11, <1>12, <1>13, <1>14, <1>15, <1>16, <1>17, Whole

\* wait in minishell: the invariant is kept
LEMMA Waited ==
  ASSUME IInv, NEW i \in Numbers, WaitReturns(i), UNCHANGED returned
  PROVE  IInv'
<1> USE Bounds
<1>0. /\ PcType /\ LineType /\ AtType /\ PipesType /\ HeldType /\ BufType
      /\ ChildType /\ LeftType /\ CodeType /\ ShellType /\ LastType /\ FlagType
      /\ LineInv /\ ChildInv /\ HeldInv /\ StatusInv /\ PipexInv
      /\ Len(line) \in Nat
  BY Parts, Stageful DEF IInv
<1>1. PcType'
  BY <1>0 DEF WaitReturns, Reaped, PcType
<1>2. LineType'
  BY <1>0 DEF WaitReturns, Reaped, LineType
<1>3. AtType'
  BY <1>0 DEF WaitReturns, Reaped, AtType
<1>4. PipesType'
  BY <1>0 DEF WaitReturns, Reaped, PipesType
<1>5. HeldType'
  BY <1>0 DEF WaitReturns, Reaped, HeldType
<1>6. BufType'
  BY <1>0 DEF WaitReturns, Reaped, BufType
<1>7. ChildType'
  BY <1>0 DEF WaitReturns, Reaped, ChildType
<1>8. LeftType'
  BY <1>0 DEF WaitReturns, Reaped, LeftType
<1>9. CodeType'
  BY <1>0 DEF WaitReturns, Reaped, CodeType
<1>10. ShellType'
  <2>1. ExitStatus(i) \in 0 .. 255
    BY <1>0 DEF ExitStatus, CodeType
  <2>2. /\ status' \in {status, sig_nb, ExitStatus(i)} /\ by_signal' \in {by_signal, TRUE, FALSE}
        /\ told' \in {told, told + 1} /\ sig_nb' \in {sig_nb, 0}
        /\ UNCHANGED <<line, last_pid, in_cmd, leaving, typed, presses, returned>>
    BY <1>0 DEF WaitReturns, Reaped, ShellType
  <2>3. status \in 0 .. 255 /\ sig_nb \in {0, 130} /\ told \in Nat
    BY <1>0 DEF ShellType
  <2>4. status' \in 0 .. 255 /\ sig_nb' \in {0, 130} /\ told' \in Nat
    BY <2>1, <2>2, <2>3
  <2> QED
    BY <1>0, <2>2, <2>4 DEF ShellType
<1>11. LastType'
  BY <1>0 DEF WaitReturns, Reaped, LastType
<1>12. FlagType'
  BY <1>0 DEF WaitReturns, Reaped, FlagType
<1>13. LineInv'
  BY <1>0 DEF WaitReturns, Reaped, LineInv
<1>14. ChildInv'
  BY <1>0 DEF WaitReturns, Reaped, ChildInv, EndsOfStage, ChildType, HeldType
<1>15. HeldInv'
  BY <1>0 DEF WaitReturns, Reaped, HeldInv, Unstarted
<1>16. StatusInv'
  <2>0. pc = "wait" /\ Len(line) \in Numbers /\ at > Len(line)
    BY <1>0, Lined DEF WaitReturns, LineInv, Numbers
  <2>1. /\ \A j \in Numbers : child'[j] = IF j = i THEN "reaped" ELSE child[j]
        /\ child[i] = "zombie"
        /\ UNCHANGED <<line, pc, at, last_pid, code, presses>>
    BY <1>0 DEF WaitReturns, Reaped, ChildType
  <2>2. told' + (IF sig_nb' = 0 THEN 0 ELSE 1) <= presses
    BY <1>0 DEF WaitReturns, StatusInv, ShellType
  <2>3. CASE i # last_pid
    <3>1. UNCHANGED <<status, by_signal>>
      BY <2>3 DEF WaitReturns
    <3>2. Awaited => i # Len(line)
      BY <1>0, <2>0, <2>3 DEF StatusInv
    <3>3. Settled' <=> Settled
      BY <2>1, <3>1 DEF Settled, StatusOf, ExitStatus
    <3> QED
      BY <1>0, <2>0, <2>1, <2>2, <3>2, <3>3 DEF StatusInv, Awaited
  <2>4. CASE i = last_pid
    <3>1. i = Len(line) /\ Awaited
      BY <1>0, <2>0, <2>4 DEF StatusInv, Numbers
    <3>2. status' = (IF sig_nb # 0 THEN sig_nb ELSE ExitStatus(i)) /\ by_signal' = (sig_nb # 0)
      BY <2>4 DEF WaitReturns
    <3>3. Settled'
      BY <2>1, <3>1, <3>2 DEF Settled, StatusOf, ExitStatus, Awaited
    <3> QED
      BY <1>0, <2>0, <2>1, <2>2, <3>1, <3>3 DEF StatusInv, Awaited
  <2> QED
    BY <2>3, <2>4
<1>17. PipexInv'
  BY <1>0 DEF WaitReturns, Reaped, PipexInv
<1> QED
  BY <1>1, <1>2, <1>3, <1>4, <1>5, <1>6, <1>7, <1>8,
     <1>9, <1>10, <1>11, <1>12, <1>13, <1>14, <1>15, <1>16, <1>17, Whole

\* NoChildLeft: the invariant is kept
LEMMA LineDone ==
  ASSUME IInv, NoChildLeft, UNCHANGED returned
  PROVE  IInv'
<1> USE Bounds
<1>0. /\ PcType /\ LineType /\ AtType /\ PipesType /\ HeldType /\ BufType
      /\ ChildType /\ LeftType /\ CodeType /\ ShellType /\ LastType /\ FlagType
      /\ LineInv /\ ChildInv /\ HeldInv /\ StatusInv /\ PipexInv
      /\ Len(line) \in Nat
  BY Parts, Stageful DEF IInv
<1>1. PcType'
  BY <1>0 DEF NoChildLeft, PcType
<1>2. LineType'
  BY <1>0 DEF NoChildLeft, LineType
<1>3. AtType'
  BY <1>0 DEF NoChildLeft, AtType
<1>4. PipesType'
  BY <1>0 DEF NoChildLeft, PipesType
<1>5. HeldType'
  BY <1>0 DEF NoChildLeft, HeldType, Procs
<1>6. BufType'
  BY <1>0 DEF NoChildLeft, BufType
<1>7. ChildType'
  BY <1>0 DEF NoChildLeft, ChildType
<1>8. LeftType'
  BY <1>0 DEF NoChildLeft, LeftType
<1>9. CodeType'
  BY <1>0 DEF NoChildLeft, CodeType
<1>10. ShellType'
  BY <1>0 DEF NoChildLeft, ShellType
<1>11. LastType'
  BY <1>0 DEF NoChildLeft, LastType
<1>12. FlagType'
  BY <1>0 DEF NoChildLeft, FlagType
<1>13. LineInv'
  BY <1>0 DEF NoChildLeft, LineInv
<1>14. ChildInv'
  BY <1>0 DEF NoChildLeft, ChildInv, EndsOfStage, Children, HeldType, Procs, Numbers, ChildType
<1>15. HeldInv'
  BY <1>0 DEF NoChildLeft, HeldInv, Unstarted, HeldType, Procs
<1>16. StatusInv'
  <2>1. pc = "wait" /\ Len(line) \in Numbers /\ at > Len(line)
    BY <1>0, Lined DEF NoChildLeft, LineInv, Numbers
  <2>2. child[Len(line)] \in {"none", "reaped"}
    BY <1>0, <2>1 DEF NoChildLeft, Children, ChildType
  <2>3. Settled
    BY <1>0, <2>1, <2>2 DEF StatusInv
  <2>4. Settled'
    BY <2>3 DEF NoChildLeft, Settled, StatusOf, ExitStatus
  <2> QED
    BY <1>0, <2>4 DEF NoChildLeft, StatusInv
<1>17. PipexInv'
  BY <1>0 DEF NoChildLeft, PipexInv
<1> QED
  BY <1>1, <1>2, <1>3, <1>4, <1>5, <1>6, <1>7, <1>8,
     <1>9, <1>10, <1>11, <1>12, <1>13, <1>14, <1>15, <1>16, <1>17, Whole

\* Ctrl-C: the invariant is kept
LEMMA Interrupted ==
  ASSUME IInv, Interrupt, UNCHANGED returned
  PROVE  IInv'
<1> USE Bounds
<1>0. /\ PcType /\ LineType /\ AtType /\ PipesType /\ HeldType /\ BufType
      /\ ChildType /\ LeftType /\ CodeType /\ ShellType /\ LastType /\ FlagType
      /\ LineInv /\ ChildInv /\ HeldInv /\ StatusInv /\ PipexInv
      /\ Len(line) \in Nat
  BY Parts, Stageful DEF IInv
<1>a. /\ presses < MaxPresses /\ presses' = presses + 1
      /\ IF in_cmd THEN sig_nb' = 130 /\ UNCHANGED <<status, by_signal, told>>
         ELSE status' = 130 /\ by_signal' = TRUE /\ told' = told + 1 /\ UNCHANGED sig_nb
      /\ UNCHANGED <<line, pipes, buf, left, pc, at, last_pid, in_cmd, leaving, typed, returned>>
      /\ pc \in {"prompt", "run", "wait"}
  BY DEF Interrupt
<1>b. /\ \A j \in Numbers : child'[j] = IF child[j] = "running" THEN "zombie" ELSE child[j]
      /\ \A j \in Numbers : held'[j] = IF child[j] = "running" THEN {} ELSE held[j]
      /\ held'[0] = held[0]
      /\ \A j \in Numbers : code'[j] = IF child[j] = "running" THEN Signal ELSE code[j]
  BY DEF Interrupt, Procs, Numbers
<1>1. PcType'
  BY <1>0 DEF Interrupt, PcType
<1>2. LineType'
  BY <1>0 DEF Interrupt, LineType
<1>3. AtType'
  BY <1>0 DEF Interrupt, AtType
<1>4. PipesType'
  BY <1>0 DEF Interrupt, PipesType
<1>5. HeldType'
  BY <1>0 DEF Interrupt, HeldType, Procs, Numbers
<1>6. BufType'
  BY <1>0 DEF Interrupt, BufType
<1>7. ChildType'
  BY <1>0 DEF Interrupt, ChildType
<1>8. LeftType'
  BY <1>0 DEF Interrupt, LeftType
<1>9. CodeType'
  BY <1>0 DEF Interrupt, CodeType
<1>10. ShellType'
  <2>1. status \in 0 .. 255 /\ sig_nb \in {0, 130} /\ told \in Nat /\ presses \in Nat
    BY <1>0 DEF ShellType
  <2>2. status' \in 0 .. 255 /\ sig_nb' \in {0, 130} /\ told' \in Nat
    BY <1>a, <2>1
  <2>3. presses' \in 0 .. MaxPresses
    BY <1>a, <2>1
  <2> QED
    BY <1>0, <1>a, <2>2, <2>3 DEF ShellType
<1>11. LastType'
  BY <1>0 DEF Interrupt, LastType
<1>12. FlagType'
  BY <1>0 DEF Interrupt, FlagType
<1>13. LineInv'
  BY <1>0 DEF Interrupt, LineInv
<1>14. ChildInv'
  BY <1>0, <1>a, <1>b DEF ChildInv, ChildType, EndsOfStage
<1>15. HeldInv'
  BY <1>0, <1>a, <1>b DEF HeldInv, Unstarted
<1>16. StatusInv'
  <2>1. told' + (IF sig_nb' = 0 THEN 0 ELSE 1) <= presses'
    BY <1>0, <1>a DEF StatusInv, ShellType
  <2>2. CASE ~in_cmd
    <3>1. by_signal' /\ pc # "wait"
      BY <1>0, <1>a, <2>2 DEF LineInv
    <3>2. Settled'
      BY <3>1 DEF Settled
    <3>3. pc = "run" => last_pid = 0 /\ at <= Len(line)
      <4>1. pc = "run" => at = 1 /\ Len(line) \in 1 .. MaxStages
        BY <1>0, <2>2, Lined DEF LineInv, AtType
      <4> QED
        BY <1>0, <4>1 DEF StatusInv
    <3> QED
      BY <1>0, <1>a, <2>1, <3>1, <3>2, <3>3 DEF StatusInv, LineInv, AtType
  <2>3. CASE in_cmd /\ pc = "prompt"
    <3>1. \A j \in Numbers : child[j] # "running"
      BY <1>0, <2>3 DEF ChildInv
    <3>2. line # <<>> => Len(line) \in Numbers
      BY Stageful, EmptySeq, Parts DEF IInv, Numbers
    <3>3. line # <<>> => code'[Len(line)] = code[Len(line)]
      BY <1>b, <3>1, <3>2
    <3>4. line # <<>> /\ Settled => Settled'
      BY <1>a, <2>3, <3>3 DEF Settled, StatusOf, ExitStatus
    <3> QED
      BY <1>0, <1>a, <2>1, <2>3, <3>4 DEF StatusInv
  <2>4. CASE in_cmd /\ pc # "prompt"
    <3>1. Len(line) \in Numbers /\ pc \in {"run", "wait"}
      BY <1>0, <1>a, <2>4, Lined DEF LineInv, Numbers
    <3>2. child[Len(line)] \in {"none", "reaped"} \/ ~Awaited => (Settled => Settled')
      <4>1. child[Len(line)] \in {"none", "reaped"} => code'[Len(line)] = code[Len(line)]
        BY <1>b, <3>1
      <4> QED
        BY <1>a, <2>4, <4>1 DEF Settled, StatusOf, ExitStatus, Awaited
    <3> QED
      BY <1>0, <1>a, <1>b, <2>1, <2>4, <3>1, <3>2 DEF StatusInv, Awaited
  <2> QED
    BY <2>2, <2>3, <2>4
<1>17. PipexInv'
  BY <1>0 DEF Interrupt, PipexInv
<1> QED
  BY <1>1, <1>2, <1>3, <1>4, <1>5, <1>6, <1>7, <1>8,
     <1>9, <1>10, <1>11, <1>12, <1>13, <1>14, <1>15, <1>16, <1>17, Whole

\* EndOfInput: the invariant is kept
LEMMA InputEnds ==
  ASSUME IInv, EndOfInput, UNCHANGED returned
  PROVE  IInv'
<1> USE Bounds
<1>0. /\ PcType /\ LineType /\ AtType /\ PipesType /\ HeldType /\ BufType
      /\ ChildType /\ LeftType /\ CodeType /\ ShellType /\ LastType /\ FlagType
      /\ LineInv /\ ChildInv /\ HeldInv /\ StatusInv /\ PipexInv
      /\ Len(line) \in Nat
  BY Parts, Stageful DEF IInv
<1>1. PcType'
  BY <1>0 DEF EndOfInput, system, PcType
<1>2. LineType'
  BY <1>0 DEF EndOfInput, system, LineType
<1>3. AtType'
  BY <1>0 DEF EndOfInput, system, AtType
<1>4. PipesType'
  BY <1>0 DEF EndOfInput, system, PipesType
<1>5. HeldType'
  BY <1>0 DEF EndOfInput, system, HeldType
<1>6. BufType'
  BY <1>0 DEF EndOfInput, system, BufType
<1>7. ChildType'
  BY <1>0 DEF EndOfInput, system, ChildType
<1>8. LeftType'
  BY <1>0 DEF EndOfInput, system, LeftType
<1>9. CodeType'
  BY <1>0 DEF EndOfInput, system, CodeType
<1>10. ShellType'
  BY <1>0 DEF EndOfInput, system, ShellType
<1>11. LastType'
  BY <1>0 DEF EndOfInput, system, LastType
<1>12. FlagType'
  BY <1>0 DEF EndOfInput, system, FlagType
<1>13. LineInv'
  BY <1>0 DEF EndOfInput, system, LineInv
<1>14. ChildInv'
  BY <1>0 DEF EndOfInput, system, ChildInv, EndsOfStage
<1>15. HeldInv'
  BY <1>0 DEF EndOfInput, system, HeldInv, Unstarted
<1>16. StatusInv'
  BY <1>0 DEF EndOfInput, system, StatusInv, Settled, StatusOf, ExitStatus, Awaited
<1>17. PipexInv'
  BY <1>0 DEF EndOfInput, system, PipexInv
<1> QED
  BY <1>1, <1>2, <1>3, <1>4, <1>5, <1>6, <1>7, <1>8,
     <1>9, <1>10, <1>11, <1>12, <1>13, <1>14, <1>15, <1>16, <1>17, Whole

\* PipexBegin: the invariant is kept
LEMMA PipexBegun ==
  ASSUME IInv, NEW l \in PipexLines, PipexBegin(l), UNCHANGED <<last_pid, status, sig_nb, in_cmd, leaving, typed, presses, told, by_signal, returned>>
  PROVE  IInv'
<1> USE Bounds
<1>0. /\ PcType /\ LineType /\ AtType /\ PipesType /\ HeldType /\ BufType
      /\ ChildType /\ LeftType /\ CodeType /\ ShellType /\ LastType /\ FlagType
      /\ LineInv /\ ChildInv /\ HeldInv /\ StatusInv /\ PipexInv
      /\ Len(line) \in Nat
  BY Parts, Stageful DEF IInv
<1>a. pc = "pipex" /\ pc' = "pipex_fork" /\ UNCHANGED <<at, left, code>> /\ line' = l /\ pipes' = {1}
  BY DEF PipexBegin, Begin
<1>b. /\ buf' = [p \in Numbers |-> 0]
      /\ child' = [j \in Numbers |-> "none"]
      /\ held' = [q \in Procs |-> IF q = 0 THEN EndsOf(1) ELSE {}]
  BY DEF PipexBegin, Begin
<1>c. Len(l) = 2 /\ 1 \in Numbers /\ at = 1 /\ last_pid = 0
  <2>1. Len(l) = 2 /\ Len(l) <= MaxStages
    BY Lined
  <2> QED
    BY <1>0, <1>a, <2>1 DEF LineInv, Numbers
<1>1. PcType'
  BY <1>0, <1>a, <1>c DEF Numbers, PcType
<1>2. LineType'
  BY <1>0, <1>a, <1>c DEF Numbers, LineType
<1>3. AtType'
  BY <1>0, <1>a, <1>c DEF Numbers, AtType
<1>4. PipesType'
  BY <1>0, <1>a, <1>c DEF Numbers, PipesType
<1>5. HeldType'
  BY <1>a, <1>b DEF HeldType, EndsOf, End
<1>6. BufType'
  BY <1>b DEF BufType
<1>7. ChildType'
  BY <1>b DEF ChildType
<1>8. LeftType'
  BY <1>0, <1>a, <1>c DEF Numbers, LeftType
<1>9. CodeType'
  BY <1>0, <1>a, <1>c DEF Numbers, CodeType
<1>10. ShellType'
  BY <1>0 DEF ShellType
<1>11. LastType'
  BY <1>a, <1>c DEF LastType
<1>12. FlagType'
  BY <1>0 DEF FlagType
<1>13. LineInv'
  BY <1>0, <1>a, <1>c DEF Numbers, LineInv
<1>14. ChildInv'
  <2>1. \A j \in Numbers : child'[j] = "none" /\ held'[j] = {}
    BY <1>b DEF Procs, Numbers
  <2> QED
    BY <1>a, <2>1 DEF ChildInv
<1>15. HeldInv'
  BY <1>a DEF HeldInv
<1>16. StatusInv'
  BY <1>0, <1>a DEF StatusInv
<1>17. PipexInv'
  BY <1>a, <1>b, <1>c DEF PipexInv
<1> QED
  BY <1>1, <1>2, <1>3, <1>4, <1>5, <1>6, <1>7, <1>8,
     <1>9, <1>10, <1>11, <1>12, <1>13, <1>14, <1>15, <1>16, <1>17, Whole

\* PipexFork: the invariant is kept
LEMMA PipexForked ==
  ASSUME IInv, PipexFork, UNCHANGED <<last_pid, status, sig_nb, in_cmd, leaving, typed, presses, told, by_signal, returned>>
  PROVE  IInv'
<1> USE Bounds
<1>0. /\ PcType /\ LineType /\ AtType /\ PipesType /\ HeldType /\ BufType
      /\ ChildType /\ LeftType /\ CodeType /\ ShellType /\ LastType /\ FlagType
      /\ LineInv /\ ChildInv /\ HeldInv /\ StatusInv /\ PipexInv
      /\ Len(line) \in Nat
  BY Parts, Stageful DEF IInv
<1>a. Len(line) = 2 /\ 1 \in Numbers /\ 2 \in Numbers /\ line \in Seq(Stages) /\ line \in PipexLines
  <2>1. line \in PipexLines
    BY <1>0 DEF PipexFork, LineInv
  <2>2. line \in Seq(Stages) /\ Len(line) = 2 /\ Len(line) <= MaxStages
    BY <2>1, Lined
  <2> QED
    BY <2>1, <2>2 DEF Numbers
<1>b. line[1] \in Stages /\ line[2] \in Stages
  <2>1. \A j \in 1 .. Len(line) : line[j] \in Stages
    BY <1>0, Stageful DEF IInv
  <2> QED
    BY <1>a, <2>1
<1>c. /\ line[1].wants \in Nat /\ line[1].adds \in Nat
      /\ line[2].wants \in Nat /\ line[2].adds \in Nat
  BY <1>b DEF Stages
<1>1. PcType'
  BY <1>0 DEF PipexFork, Fork, others, PcType
<1>2. LineType'
  BY <1>0 DEF PipexFork, Fork, others, LineType
<1>3. AtType'
  BY <1>0 DEF PipexFork, Fork, others, AtType
<1>4. PipesType'
  BY <1>0 DEF PipexFork, Fork, others, PipesType
<1>5. HeldType'
  BY <1>0, <1>a DEF PipexFork, Fork, others, HeldType, Procs, Numbers
<1>6. BufType'
  BY <1>0 DEF PipexFork, Fork, others, BufType
<1>7. ChildType'
  BY <1>0, <1>a DEF PipexFork, Fork, others, ChildType
<1>8. LeftType'
  <2>1. [wants |-> line[1].wants, pending |-> line[1].adds] \in [wants : Nat, pending : Nat]
    BY <1>c
  <2>2. \/ left' = left
        \/ left' = [left EXCEPT ![1] = [wants |-> line[1].wants, pending |-> line[1].adds]]
    BY DEF PipexFork, Fork
  <2> QED
    BY <1>0, <1>a, <2>1, <2>2 DEF LeftType
<1>9. CodeType'
  BY <1>0 DEF PipexFork, Fork, others, CodeType
<1>10. ShellType'
  BY <1>0, <1>a DEF PipexFork, Fork, others, ShellType
<1>11. LastType'
  BY <1>0 DEF PipexFork, Fork, others, LastType
<1>12. FlagType'
  BY <1>0 DEF PipexFork, Fork, others, FlagType
<1>13. LineInv'
  BY <1>0 DEF PipexFork, Fork, others, LineInv
<1>14. ChildInv'
  <2>1. \/ pc' = "pipex_wait" /\ \A j \in Numbers \ {1} : child'[j] = "none" /\ held'[j] = {}
        \/ pc' = "pipex_over" /\ \A j \in Numbers : child'[j] = "none" /\ held'[j] = {}
    BY <1>0 DEF PipexFork, Fork, ChildInv, ChildType, HeldType, Procs, Numbers
  <2>2. pc' = "pipex_wait" => child'[1] = "forked"
    BY <1>0, <1>a DEF PipexFork, Fork, ChildType
  <2>3. CASE pc' = "pipex_wait"
    BY <2>1, <2>2, <2>3 DEF ChildInv
  <2>4. CASE pc' = "pipex_over"
    BY <2>1, <2>4 DEF ChildInv
  <2> QED
    BY <2>1, <2>3, <2>4
<1>15. HeldInv'
  BY <1>0, <1>a DEF PipexFork, Fork, others, HeldInv, Unstarted, HeldType, Procs
<1>16. StatusInv'
  BY <1>0 DEF PipexFork, Fork, others, StatusInv, Settled, StatusOf, ExitStatus, Awaited
<1>17. PipexInv'
  BY <1>0, <1>a, <1>c DEF PipexFork, Fork, others, PipexInv, LeftType, BufType
<1> QED
  BY <1>1, <1>2, <1>3, <1>4, <1>5, <1>6, <1>7, <1>8,
     <1>9, <1>10, <1>11, <1>12, <1>13, <1>14, <1>15, <1>16, <1>17, Whole

\* wait in pipex: the invariant is kept
LEMMA PipexWaited ==
  ASSUME IInv, Wait, UNCHANGED <<last_pid, status, sig_nb, in_cmd, leaving, typed, presses, told, by_signal, returned>>
  PROVE  IInv'
<1> USE Bounds
<1>0. /\ PcType /\ LineType /\ AtType /\ PipesType /\ HeldType /\ BufType
      /\ ChildType /\ LeftType /\ CodeType /\ ShellType /\ LastType /\ FlagType
      /\ LineInv /\ ChildInv /\ HeldInv /\ StatusInv /\ PipexInv
      /\ Len(line) \in Nat
  BY Parts, Stageful DEF IInv
<1>a. Len(line) = 2 /\ 1 \in Numbers /\ 2 \in Numbers /\ line \in Seq(Stages) /\ line \in PipexLines
  <2>1. line \in PipexLines
    BY <1>0 DEF Wait, LineInv
  <2>2. line \in Seq(Stages) /\ Len(line) = 2 /\ Len(line) <= MaxStages
    BY <2>1, Lined
  <2> QED
    BY <2>1, <2>2 DEF Numbers
<1>b. line[1] \in Stages /\ line[2] \in Stages
  <2>1. \A j \in 1 .. Len(line) : line[j] \in Stages
    BY <1>0, Stageful DEF IInv
  <2> QED
    BY <1>a, <2>1
<1>c. /\ line[1].wants \in Nat /\ line[1].adds \in Nat
      /\ line[2].wants \in Nat /\ line[2].adds \in Nat
  BY <1>b DEF Stages
<1>1. PcType'
  BY <1>0 DEF Wait, Reaped, PcType
<1>2. LineType'
  BY <1>0 DEF Wait, Reaped, LineType
<1>3. AtType'
  BY <1>0 DEF Wait, Reaped, AtType
<1>4. PipesType'
  BY <1>0 DEF Wait, Reaped, PipesType
<1>5. HeldType'
  BY <1>0 DEF Wait, Reaped, HeldType
<1>6. BufType'
  BY <1>0 DEF Wait, Reaped, BufType
<1>7. ChildType'
  BY <1>0, <1>a DEF Wait, Reaped, ChildType
<1>8. LeftType'
  BY <1>0 DEF Wait, Reaped, LeftType
<1>9. CodeType'
  BY <1>0 DEF Wait, Reaped, CodeType
<1>10. ShellType'
  BY <1>0 DEF Wait, Reaped, ShellType
<1>11. LastType'
  BY <1>0 DEF Wait, Reaped, LastType
<1>12. FlagType'
  BY <1>0 DEF Wait, Reaped, FlagType
<1>13. LineInv'
  BY <1>0 DEF Wait, Reaped, LineInv
<1>14. ChildInv'
  BY <1>0, <1>a DEF Wait, Reaped, ChildInv, EndsOfStage, ChildType
<1>15. HeldInv'
  BY <1>0 DEF Wait, Reaped, HeldInv, Unstarted
<1>16. StatusInv'
  BY <1>0 DEF Wait, Reaped, StatusInv, Settled, StatusOf, ExitStatus, Awaited
<1>17. PipexInv'
  BY <1>0 DEF Wait, Reaped, PipexInv
<1> QED
  BY <1>1, <1>2, <1>3, <1>4, <1>5, <1>6, <1>7, <1>8,
     <1>9, <1>10, <1>11, <1>12, <1>13, <1>14, <1>15, <1>16, <1>17, Whole

\* ParentProcess: the invariant is kept
LEMMA PipexSecond ==
  ASSUME IInv, ParentProcess, UNCHANGED <<last_pid, status, sig_nb, in_cmd, leaving, typed, presses, told, by_signal, returned>>
  PROVE  IInv'
<1> USE Bounds
<1>0. /\ PcType /\ LineType /\ AtType /\ PipesType /\ HeldType /\ BufType
      /\ ChildType /\ LeftType /\ CodeType /\ ShellType /\ LastType /\ FlagType
      /\ LineInv /\ ChildInv /\ HeldInv /\ StatusInv /\ PipexInv
      /\ Len(line) \in Nat
  BY Parts, Stageful DEF IInv
<1>a. Len(line) = 2 /\ 1 \in Numbers /\ 2 \in Numbers /\ line \in Seq(Stages) /\ line \in PipexLines
  <2>1. line \in PipexLines
    BY <1>0 DEF ParentProcess, LineInv
  <2>2. line \in Seq(Stages) /\ Len(line) = 2 /\ Len(line) <= MaxStages
    BY <2>1, Lined
  <2> QED
    BY <2>1, <2>2 DEF Numbers
<1>b. line[1] \in Stages /\ line[2] \in Stages
  <2>1. \A j \in 1 .. Len(line) : line[j] \in Stages
    BY <1>0, Stageful DEF IInv
  <2> QED
    BY <1>a, <2>1
<1>c. /\ line[1].wants \in Nat /\ line[1].adds \in Nat
      /\ line[2].wants \in Nat /\ line[2].adds \in Nat
  BY <1>b DEF Stages
<1>1. PcType'
  BY <1>0 DEF ParentProcess, others, PcType
<1>2. LineType'
  BY <1>0 DEF ParentProcess, others, LineType
<1>3. AtType'
  BY <1>0 DEF ParentProcess, others, AtType
<1>4. PipesType'
  BY <1>0 DEF ParentProcess, others, PipesType
<1>5. HeldType'
  BY <1>0, <1>a DEF ParentProcess, others, HeldType, Procs, Numbers, EndsOfStage, End
<1>6. BufType'
  BY <1>0 DEF ParentProcess, others, BufType
<1>7. ChildType'
  BY <1>0, <1>a DEF ParentProcess, others, ChildType
<1>8. LeftType'
  <2>1. [wants |-> line[2].wants, pending |-> line[2].adds] \in [wants : Nat, pending : Nat]
    BY <1>c
  <2>2. \/ left' = left
        \/ left' = [left EXCEPT ![2] = [wants |-> line[2].wants, pending |-> line[2].adds]]
    BY DEF ParentProcess
  <2> QED
    BY <1>0, <1>a, <2>1, <2>2 DEF LeftType
<1>9. CodeType'
  BY <1>0 DEF ParentProcess, others, CodeType
<1>10. ShellType'
  BY <1>0 DEF ParentProcess, others, ShellType
<1>11. LastType'
  BY <1>0 DEF ParentProcess, others, LastType
<1>12. FlagType'
  BY <1>0 DEF ParentProcess, others, FlagType
<1>13. LineInv'
  BY <1>0 DEF ParentProcess, others, LineInv
<1>14. ChildInv'
  BY <1>0, <1>a DEF ParentProcess, others, ChildInv, EndsOfStage, ChildType, HeldType, Procs, Numbers
<1>15. HeldInv'
  BY <1>0, <1>a DEF ParentProcess, others, HeldInv, Unstarted, HeldType, Procs, Numbers
<1>16. StatusInv'
  BY <1>0 DEF ParentProcess, others, StatusInv, Settled, StatusOf, ExitStatus, Awaited
<1>17. PipexInv'
  BY <1>0 DEF ParentProcess, others, PipexInv
<1> QED
  BY <1>1, <1>2, <1>3, <1>4, <1>5, <1>6, <1>7, <1>8,
     <1>9, <1>10, <1>11, <1>12, <1>13, <1>14, <1>15, <1>16, <1>17, Whole

\* PicoBegin: the invariant is kept
LEMMA PicoBegun ==
  ASSUME IInv, NEW l \in PicoLines, PicoBegin(l), UNCHANGED <<last_pid, status, sig_nb, in_cmd, leaving, typed, presses, told, by_signal>>
  PROVE  IInv'
<1> USE Bounds
<1>0. /\ PcType /\ LineType /\ AtType /\ PipesType /\ HeldType /\ BufType
      /\ ChildType /\ LeftType /\ CodeType /\ ShellType /\ LastType /\ FlagType
      /\ LineInv /\ ChildInv /\ HeldInv /\ StatusInv /\ PipexInv
      /\ Len(line) \in Nat
  BY Parts, Stageful DEF IInv
<1>a. pc = "pico" /\ pc' = "pico_loop" /\ at' = 1 /\ UNCHANGED <<returned, left, code>> /\ line' = l /\ pipes' = {}
  BY DEF PicoBegin, Begin
<1>b. /\ buf' = [p \in Numbers |-> 0]
      /\ child' = [j \in Numbers |-> "none"]
      /\ held' = [q \in Procs |-> {}]
  BY DEF PicoBegin, Begin
<1>c. Len(l) \in Nat /\ 1 <= Len(l) /\ last_pid = 0
  <2>1. Len(l) \in Nat /\ 1 <= Len(l)
    BY Lined
  <2> QED
    BY <1>0, <1>a, <2>1 DEF LineInv
<1>1. PcType'
  BY <1>0, <1>a, <1>c DEF Numbers, PcType
<1>2. LineType'
  BY <1>0, <1>a, <1>c DEF Numbers, LineType
<1>3. AtType'
  BY <1>0, <1>a, <1>c DEF Numbers, AtType
<1>4. PipesType'
  BY <1>0, <1>a, <1>c DEF Numbers, PipesType
<1>5. HeldType'
  BY <1>a, <1>b DEF HeldType
<1>6. BufType'
  BY <1>b DEF BufType
<1>7. ChildType'
  BY <1>b DEF ChildType
<1>8. LeftType'
  BY <1>0, <1>a, <1>c DEF Numbers, LeftType
<1>9. CodeType'
  BY <1>0, <1>a, <1>c DEF Numbers, CodeType
<1>10. ShellType'
  BY <1>0, <1>a DEF ShellType
<1>11. LastType'
  BY <1>a, <1>c DEF LastType
<1>12. FlagType'
  BY <1>0 DEF FlagType
<1>13. LineInv'
  BY <1>0, <1>a, <1>c DEF Numbers, LineInv
<1>14. ChildInv'
  <2>1. \A j \in Numbers : child'[j] = "none" /\ held'[j] = {}
    BY <1>b DEF Procs, Numbers
  <2> QED
    BY <1>a, <2>1 DEF ChildInv
<1>15. HeldInv'
  <2>1. held'[0] = {}
    BY <1>b DEF Procs
  <2> QED
    BY <1>a, <2>1 DEF HeldInv
<1>16. StatusInv'
  BY <1>0, <1>a DEF StatusInv
<1>17. PipexInv'
  BY <1>a DEF PipexInv
<1> QED
  BY <1>1, <1>2, <1>3, <1>4, <1>5, <1>6, <1>7, <1>8,
     <1>9, <1>10, <1>11, <1>12, <1>13, <1>14, <1>15, <1>16, <1>17, Whole

\* PicoFork: the invariant is kept
LEMMA PicoForked ==
  ASSUME IInv, PicoFork, UNCHANGED <<last_pid, status, sig_nb, in_cmd, leaving, typed, presses, told, by_signal>>
  PROVE  IInv'
<1> USE Bounds
<1>0. /\ PcType /\ LineType /\ AtType /\ PipesType /\ HeldType /\ BufType
      /\ ChildType /\ LeftType /\ CodeType /\ ShellType /\ LastType /\ FlagType
      /\ LineInv /\ ChildInv /\ HeldInv /\ StatusInv /\ PipexInv
      /\ Len(line) \in Nat
  BY Parts, Stageful DEF IInv
<1>a. /\ line \in Seq(Stages) /\ Len(line) \in Nat /\ Len(line) <= MaxStages
      /\ \A j \in 1 .. Len(line) : line[j] \in Stages
  BY <1>0, Stageful DEF IInv
<1>b. /\ at \in Nat /\ 1 <= at /\ at <= Len(line) /\ Len(line) \in Nat
      /\ at \in Numbers /\ line[at] \in Stages /\ pc = "pico_loop"
  <2>1. at \in 1 .. Len(line) /\ pc = "pico_loop"
    BY <1>0, <1>a DEF PicoFork, LineInv, AtType
  <2> QED
    BY <1>a, <2>1 DEF Numbers
<1>c. line[at].wants \in Nat /\ line[at].adds \in Nat
  BY <1>b DEF Stages
<1>e. \A j \in Numbers : j >= at => child[j] = "none"
  BY <1>0, <1>b DEF ChildInv
<1>d. /\ pipes' = (IF at < Len(line) THEN pipes \cup {at} ELSE pipes)
      /\ IF at < Len(line) THEN at' = at + 1 /\ UNCHANGED <<pc, returned>>
         ELSE pc' = "pico_wait" /\ returned' = 0 /\ UNCHANGED at
      /\ UNCHANGED <<line, buf, code>>
  BY DEF PicoFork, Fork
<1>f. /\ child' = [child EXCEPT ![at] = "forked"]
      /\ left' = [left EXCEPT ![at] = [wants |-> line[at].wants, pending |-> line[at].adds]]
  BY DEF PicoFork, Fork
<1>g. PICK new \in SUBSET (pipes' \X {"r", "w"}) :
        /\ held' = [held EXCEPT ![at] = held[0] \cup new, ![0] = new \ {End(at, "w")}]
        /\ new = IF at < Len(line) THEN EndsOf(at) ELSE {}
  <2> DEFINE new == IF at < Len(line) THEN EndsOf(at) ELSE {}
  <2>1. new \in SUBSET (pipes' \X {"r", "w"})
    BY <1>b, <1>d DEF EndsOf, End
  <2> QED
    BY <2>1 DEF PicoFork, Fork
<1>h. /\ \A j \in Numbers : held'[j] = IF j = at THEN held[0] \cup new ELSE held[j]
      /\ held'[0] = new \ {End(at, "w")}
  <2>1. held' = [held EXCEPT ![at] = held[0] \cup new, ![0] = new \ {End(at, "w")}]
    BY <1>g
  <2>2. DOMAIN held = Procs /\ at # 0 /\ 0 \in Procs /\ \A j \in Numbers : j \in Procs /\ j # 0
    BY <1>0, <1>b DEF HeldType, Procs, Numbers
  <2> QED
    BY <2>1, <2>2
<1>1. PcType'
  BY <1>0, <1>b, <1>d DEF Numbers, PcType
<1>2. LineType'
  BY <1>0, <1>b, <1>d DEF Numbers, LineType
<1>3. AtType'
  BY <1>0, <1>b, <1>d DEF Numbers, AtType
<1>4. PipesType'
  BY <1>0, <1>b, <1>d DEF Numbers, PipesType
<1>5. HeldType'
  <2>1. pipes \subseteq pipes'
    BY <1>d
  <2>2. held[0] \subseteq pipes' \X {"r", "w"}
    BY <1>0, <2>1 DEF HeldType, Procs
  <2>3. \A q \in Procs : held[q] \subseteq pipes' \X {"r", "w"}
    BY <1>0, <2>1 DEF HeldType
  <2> QED
    BY <1>0, <1>b, <1>g, <2>2, <2>3 DEF HeldType
<1>6. BufType'
  BY <1>0, <1>b, <1>d DEF Numbers, BufType
<1>7. ChildType'
  BY <1>0, <1>b, <1>d, <1>f DEF ChildType
<1>8. LeftType'
  BY <1>0, <1>b, <1>c, <1>f DEF LeftType
<1>9. CodeType'
  BY <1>0, <1>b, <1>d DEF Numbers, CodeType
<1>10. ShellType'
  BY <1>0, <1>b, <1>d DEF Numbers, ShellType
<1>11. LastType'
  BY <1>0, <1>b, <1>d DEF Numbers, LastType
<1>12. FlagType'
  BY <1>0, <1>b, <1>d DEF Numbers, FlagType
<1>13. LineInv'
  BY <1>0, <1>b, <1>d DEF Numbers, LineInv
<1>14. ChildInv'
  <2>1. \A j \in Numbers : child'[j] = IF j = at THEN "forked" ELSE child[j]
    BY <1>0, <1>f DEF ChildType
  <2>2. pc' \in {"pico_loop", "pico_wait"}
    BY <1>b, <1>d
  <2>3. ASSUME NEW j \in Numbers, child[j] = "running"
        PROVE  EndsOfStage(j)' = EndsOfStage(j)
    <3>1. j < at /\ j \in Int
      BY <1>b, <1>e, <2>3 DEF Numbers
    <3> QED
      BY <1>b, <1>d, <3>1 DEF EndsOfStage, End
  <2>4. pc' = "pico_loop" => at' = at + 1
    BY <1>b, <1>d
  <2>5. \A j \in Numbers : j \in Int
    BY DEF Numbers
  <2> QED
    BY <1>0, <1>b, <1>e, <1>h, <2>1, <2>2, <2>3, <2>4, <2>5 DEF ChildInv
<1>15. HeldInv'
  <2>1. CASE at < Len(line)
    <3>1. held'[0] \subseteq {End(at, "r")}
      BY <1>g, <1>h, <2>1 DEF EndsOf
    <3>2. pc' = "pico_loop" /\ at' - 1 = at
      BY <1>b, <1>d, <2>1
    <3> QED
      BY <3>1, <3>2 DEF HeldInv
  <2>2. CASE ~(at < Len(line))
    <3>1. held'[0] = {} /\ pc' = "pico_wait"
      BY <1>d, <1>g, <1>h, <2>2
    <3> QED
      BY <3>1 DEF HeldInv
  <2> QED
    BY <2>1, <2>2
<1>16. StatusInv'
  BY <1>0, <1>b, <1>d DEF Numbers, StatusInv, Settled, StatusOf, ExitStatus, Awaited
<1>17. PipexInv'
  BY <1>0, <1>b, <1>d DEF Numbers, PipexInv
<1> QED
  BY <1>1, <1>2, <1>3, <1>4, <1>5, <1>6, <1>7, <1>8,
     <1>9, <1>10, <1>11, <1>12, <1>13, <1>14, <1>15, <1>16, <1>17, Whole

\* PicoError: the invariant is kept
LEMMA PicoFails ==
  ASSUME IInv, PicoError, UNCHANGED <<last_pid, status, sig_nb, in_cmd, leaving, typed, presses, told, by_signal>>
  PROVE  IInv'
<1> USE Bounds
<1>0. /\ PcType /\ LineType /\ AtType /\ PipesType /\ HeldType /\ BufType
      /\ ChildType /\ LeftType /\ CodeType /\ ShellType /\ LastType /\ FlagType
      /\ LineInv /\ ChildInv /\ HeldInv /\ StatusInv /\ PipexInv
      /\ Len(line) \in Nat
  BY Parts, Stageful DEF IInv
<1>a. /\ \A j \in Numbers : held'[j] = held[j]
      /\ held'[0] = {} /\ pc = "pico_loop" /\ pc' = "pico_wait" /\ UNCHANGED <<child, pipes>>
  BY <1>0 DEF PicoError, HeldType, Procs, Numbers
<1>1. PcType'
  BY <1>0 DEF PicoError, PcType
<1>2. LineType'
  BY <1>0 DEF PicoError, LineType
<1>3. AtType'
  BY <1>0 DEF PicoError, AtType
<1>4. PipesType'
  BY <1>0 DEF PicoError, PipesType
<1>5. HeldType'
  BY <1>0 DEF PicoError, HeldType, Procs
<1>6. BufType'
  BY <1>0 DEF PicoError, BufType
<1>7. ChildType'
  BY <1>0 DEF PicoError, ChildType
<1>8. LeftType'
  BY <1>0 DEF PicoError, LeftType
<1>9. CodeType'
  BY <1>0 DEF PicoError, CodeType
<1>10. ShellType'
  BY <1>0 DEF PicoError, ShellType
<1>11. LastType'
  BY <1>0 DEF PicoError, LastType
<1>12. FlagType'
  BY <1>0 DEF PicoError, FlagType
<1>13. LineInv'
  BY <1>0 DEF PicoError, LineInv
<1>14. ChildInv'
  BY <1>0, <1>a DEF ChildInv, EndsOfStage
<1>15. HeldInv'
  BY <1>a DEF HeldInv
<1>16. StatusInv'
  BY <1>0 DEF PicoError, StatusInv, Settled, StatusOf, ExitStatus, Awaited
<1>17. PipexInv'
  BY <1>0 DEF PicoError, PipexInv
<1> QED
  BY <1>1, <1>2, <1>3, <1>4, <1>5, <1>6, <1>7, <1>8,
     <1>9, <1>10, <1>11, <1>12, <1>13, <1>14, <1>15, <1>16, <1>17, Whole

\* PicoReturn: the invariant is kept
LEMMA PicoDone ==
  ASSUME IInv, PicoReturn, UNCHANGED <<last_pid, status, sig_nb, in_cmd, leaving, typed, presses, told, by_signal>>
  PROVE  IInv'
<1> USE Bounds
<1>0. /\ PcType /\ LineType /\ AtType /\ PipesType /\ HeldType /\ BufType
      /\ ChildType /\ LeftType /\ CodeType /\ ShellType /\ LastType /\ FlagType
      /\ LineInv /\ ChildInv /\ HeldInv /\ StatusInv /\ PipexInv
      /\ Len(line) \in Nat
  BY Parts, Stageful DEF IInv
<1>1. PcType'
  BY <1>0 DEF PicoReturn, system, PcType
<1>2. LineType'
  BY <1>0 DEF PicoReturn, system, LineType
<1>3. AtType'
  BY <1>0 DEF PicoReturn, system, AtType
<1>4. PipesType'
  BY <1>0 DEF PicoReturn, system, PipesType
<1>5. HeldType'
  BY <1>0 DEF PicoReturn, system, HeldType
<1>6. BufType'
  BY <1>0 DEF PicoReturn, system, BufType
<1>7. ChildType'
  BY <1>0 DEF PicoReturn, system, ChildType
<1>8. LeftType'
  BY <1>0 DEF PicoReturn, system, LeftType
<1>9. CodeType'
  BY <1>0 DEF PicoReturn, system, CodeType
<1>10. ShellType'
  BY <1>0 DEF PicoReturn, system, ShellType
<1>11. LastType'
  BY <1>0 DEF PicoReturn, system, LastType
<1>12. FlagType'
  BY <1>0 DEF PicoReturn, system, FlagType
<1>13. LineInv'
  BY <1>0 DEF PicoReturn, system, LineInv
<1>14. ChildInv'
  BY <1>0 DEF PicoReturn, system, ChildInv, EndsOfStage, Children, ChildType
<1>15. HeldInv'
  BY <1>0 DEF PicoReturn, system, HeldInv, Unstarted
<1>16. StatusInv'
  BY <1>0 DEF PicoReturn, system, StatusInv, Settled, StatusOf, ExitStatus, Awaited
<1>17. PipexInv'
  BY <1>0 DEF PicoReturn, system, PipexInv
<1> QED
  BY <1>1, <1>2, <1>3, <1>4, <1>5, <1>6, <1>7, <1>8,
     <1>9, <1>10, <1>11, <1>12, <1>13, <1>14, <1>15, <1>16, <1>17, Whole

\* wait in picoshell: the invariant is kept
LEMMA PicoWaited ==
  ASSUME IInv, NEW i \in Numbers, PicoWait(i), UNCHANGED <<last_pid, status, sig_nb, in_cmd, leaving, typed, presses, told, by_signal>>
  PROVE  IInv'
<1> USE Bounds
<1>0. /\ PcType /\ LineType /\ AtType /\ PipesType /\ HeldType /\ BufType
      /\ ChildType /\ LeftType /\ CodeType /\ ShellType /\ LastType /\ FlagType
      /\ LineInv /\ ChildInv /\ HeldInv /\ StatusInv /\ PipexInv
      /\ Len(line) \in Nat
  BY Parts, Stageful DEF IInv
<1>1. PcType'
  BY <1>0 DEF PicoWait, Reaped, PcType
<1>2. LineType'
  BY <1>0 DEF PicoWait, Reaped, LineType
<1>3. AtType'
  BY <1>0 DEF PicoWait, Reaped, AtType
<1>4. PipesType'
  BY <1>0 DEF PicoWait, Reaped, PipesType
<1>5. HeldType'
  BY <1>0 DEF PicoWait, Reaped, HeldType
<1>6. BufType'
  BY <1>0 DEF PicoWait, Reaped, BufType
<1>7. ChildType'
  BY <1>0 DEF PicoWait, Reaped, ChildType
<1>8. LeftType'
  BY <1>0 DEF PicoWait, Reaped, LeftType
<1>9. CodeType'
  BY <1>0 DEF PicoWait, Reaped, CodeType
<1>10. ShellType'
  BY <1>0 DEF PicoWait, Reaped, ShellType
<1>11. LastType'
  BY <1>0 DEF PicoWait, Reaped, LastType
<1>12. FlagType'
  BY <1>0 DEF PicoWait, Reaped, FlagType
<1>13. LineInv'
  BY <1>0 DEF PicoWait, Reaped, LineInv
<1>14. ChildInv'
  BY <1>0 DEF PicoWait, Reaped, ChildInv, EndsOfStage, ChildType, HeldType
<1>15. HeldInv'
  BY <1>0 DEF PicoWait, Reaped, HeldInv, Unstarted
<1>16. StatusInv'
  BY <1>0 DEF PicoWait, Reaped, StatusInv, Settled, StatusOf, ExitStatus, Awaited
<1>17. PipexInv'
  BY <1>0 DEF PicoWait, Reaped, PipexInv
<1> QED
  BY <1>1, <1>2, <1>3, <1>4, <1>5, <1>6, <1>7, <1>8,
     <1>9, <1>10, <1>11, <1>12, <1>13, <1>14, <1>15, <1>16, <1>17, Whole

\* A command writes: the invariant is kept
LEMMA Written ==
  ASSUME IInv, NEW i \in Numbers, Write(i), UNCHANGED <<shell, returned>>
  PROVE  IInv'
<1> USE Bounds
<1>0. /\ PcType /\ LineType /\ AtType /\ PipesType /\ HeldType /\ BufType
      /\ ChildType /\ LeftType /\ CodeType /\ ShellType /\ LastType /\ FlagType
      /\ LineInv /\ ChildInv /\ HeldInv /\ StatusInv /\ PipexInv
      /\ Len(line) \in Nat
  BY Parts, Stageful DEF IInv
<1>1. PcType'
  BY <1>0 DEF Write, Writes, Piped, shell, PcType
<1>2. LineType'
  BY <1>0 DEF Write, Writes, Piped, shell, LineType
<1>3. AtType'
  BY <1>0 DEF Write, Writes, Piped, shell, AtType
<1>4. PipesType'
  BY <1>0 DEF Write, Writes, Piped, shell, PipesType
<1>5. HeldType'
  BY <1>0 DEF Write, Writes, Piped, shell, HeldType
<1>6. BufType'
  BY <1>0 DEF Write, Writes, Piped, shell, BufType
<1>7. ChildType'
  BY <1>0 DEF Write, Writes, Piped, shell, ChildType
<1>8. LeftType'
  BY <1>0 DEF Write, Writes, Piped, shell, LeftType
<1>9. CodeType'
  BY <1>0 DEF Write, Writes, Piped, shell, CodeType
<1>10. ShellType'
  BY <1>0 DEF Write, Writes, Piped, shell, ShellType
<1>11. LastType'
  BY <1>0 DEF Write, Writes, Piped, shell, LastType
<1>12. FlagType'
  BY <1>0 DEF Write, Writes, Piped, shell, FlagType
<1>13. LineInv'
  BY <1>0 DEF Write, Writes, Piped, shell, LineInv
<1>14. ChildInv'
  BY <1>0 DEF Write, Writes, Piped, shell, ChildInv, EndsOfStage
<1>15. HeldInv'
  BY <1>0 DEF Write, Writes, Piped, shell, HeldInv, Unstarted
<1>16. StatusInv'
  BY <1>0 DEF Write, Writes, Piped, shell, StatusInv, Settled, StatusOf, ExitStatus, Awaited
<1>17. PipexInv'
  <2>1. child[i] = "running" /\ left[i].pending > 0 /\ UNCHANGED <<line, pc, child>>
    BY DEF Write, Writes, shell
  <2>2. pc \notin {"pipex_fork"} /\ (pc = "pipex_wait" => i = 1)
    BY <1>0, <2>1 DEF ChildInv
  <2>3. i = 1 => buf'[1] + left'[1].pending <= buf[1] + left[1].pending
    BY <1>0 DEF Write, BufType, LeftType
  <2>4. pc = "pipex_wait" => line[1].adds \in Nat /\ 1 \in Numbers
    BY <1>0, <2>2, PipexStage
  <2>5. i = 1 => /\ buf[1] \in Int /\ buf'[1] \in Int /\ left[1].pending \in Int
                 /\ left'[1].pending \in Int
    BY <1>0, <1>6, <1>8 DEF BufType, LeftType
  <2> QED
    BY <1>0, <2>1, <2>2, <2>3, <2>4, <2>5 DEF PipexInv
<1> QED
  BY <1>1, <1>2, <1>3, <1>4, <1>5, <1>6, <1>7, <1>8,
     <1>9, <1>10, <1>11, <1>12, <1>13, <1>14, <1>15, <1>16, <1>17, Whole

\* A command reads: the invariant is kept
LEMMA Taken ==
  ASSUME IInv, NEW i \in Numbers, Read(i), UNCHANGED <<shell, returned>>
  PROVE  IInv'
<1> USE Bounds
<1>0. /\ PcType /\ LineType /\ AtType /\ PipesType /\ HeldType /\ BufType
      /\ ChildType /\ LeftType /\ CodeType /\ ShellType /\ LastType /\ FlagType
      /\ LineInv /\ ChildInv /\ HeldInv /\ StatusInv /\ PipexInv
      /\ Len(line) \in Nat
  BY Parts, Stageful DEF IInv
<1>1. PcType'
  BY <1>0 DEF Read, Reads, Unread, shell, PcType
<1>2. LineType'
  BY <1>0 DEF Read, Reads, Unread, shell, LineType
<1>3. AtType'
  BY <1>0 DEF Read, Reads, Unread, shell, AtType
<1>4. PipesType'
  BY <1>0 DEF Read, Reads, Unread, shell, PipesType
<1>5. HeldType'
  BY <1>0 DEF Read, Reads, Unread, shell, HeldType
<1>6. BufType'
  <2>1. i - 1 \in Numbers
    <3>1. i - 1 \in pipes /\ i \in Int
      BY DEF Read, Unread, Numbers
    <3> QED
      BY <1>0, <3>1 DEF PipesType, Numbers
  <2> QED
    BY <1>0, <2>1 DEF Read, BufType
<1>7. ChildType'
  BY <1>0 DEF Read, Reads, Unread, shell, ChildType
<1>8. LeftType'
  BY <1>0 DEF Read, Reads, Unread, shell, LeftType
<1>9. CodeType'
  BY <1>0 DEF Read, Reads, Unread, shell, CodeType
<1>10. ShellType'
  BY <1>0 DEF Read, Reads, Unread, shell, ShellType
<1>11. LastType'
  BY <1>0 DEF Read, Reads, Unread, shell, LastType
<1>12. FlagType'
  BY <1>0 DEF Read, Reads, Unread, shell, FlagType
<1>13. LineInv'
  BY <1>0 DEF Read, Reads, Unread, shell, LineInv
<1>14. ChildInv'
  BY <1>0 DEF Read, Reads, Unread, shell, ChildInv, EndsOfStage
<1>15. HeldInv'
  BY <1>0 DEF Read, Reads, Unread, shell, HeldInv, Unstarted
<1>16. StatusInv'
  BY <1>0 DEF Read, Reads, Unread, shell, StatusInv, Settled, StatusOf, ExitStatus, Awaited
<1>17. PipexInv'
  <2>1. child[i] = "running" /\ i - 1 \in pipes /\ UNCHANGED pc
    BY DEF Read, Reads, Unread, shell
  <2>2. i # 1
    BY <1>0, <2>1 DEF PipesType
  <2>3. pc \notin {"pipex_fork", "pipex_wait"}
    BY <1>0, <2>1, <2>2 DEF ChildInv
  <2> QED
    BY <2>1, <2>3 DEF PipexInv
<1> QED
  BY <1>1, <1>2, <1>3, <1>4, <1>5, <1>6, <1>7, <1>8,
     <1>9, <1>10, <1>11, <1>12, <1>13, <1>14, <1>15, <1>16, <1>17, Whole

\* None of the programs has begun a line, and no process is there
LEMMA Begun ==
  ASSUME Init
  PROVE  IInv
<1> USE Bounds
<1>1. line = <<>> /\ Len(line) = 0 /\ at = 1 /\ pc \in {"prompt", "pipex", "pico"}
  BY EmptySeq DEF Init, SystemInit
<1>2. \A i \in Numbers : child[i] = "none" /\ held[i] = {}
  BY DEF Init, SystemInit, Procs, Numbers
<1>3. held[0] = {} /\ last_pid = 0 /\ told = 0 /\ sig_nb = 0 /\ presses = 0
  BY DEF Init, SystemInit, ShellInit, Procs
<1>4. PcType /\ LineType /\ AtType /\ PipesType
  BY <1>1 DEF Init, SystemInit, PcType, LineType, AtType, PipesType
<1>5. HeldType /\ BufType /\ ChildType
  BY DEF Init, SystemInit, HeldType, BufType, ChildType
<1>6. LeftType /\ CodeType
  BY DEF Init, SystemInit, LeftType, CodeType
<1>7. ShellType /\ LastType /\ FlagType
  <2>1. ShellType
    BY DEF Init, ShellInit, ShellType
  <2>2. LastType
    BY <1>1 DEF Init, ShellInit, LastType
  <2>3. FlagType
    BY DEF Init, ShellInit, FlagType
  <2> QED
    BY <2>1, <2>2, <2>3
<1>8. TypeOK
  BY <1>4, <1>5, <1>6, <1>7, Parts
<1>9. LineInv /\ ChildInv
  BY <1>1, <1>2, <1>3 DEF LineInv, ChildInv
<1>10. HeldInv /\ PipexInv
  BY <1>1, <1>3 DEF HeldInv, PipexInv
<1>11. StatusInv
  BY <1>1, <1>3 DEF StatusInv
<1> QED
  BY <1>8, <1>9, <1>10, <1>11 DEF IInv

\* A step that changes nothing
LEMMA Stutters ==
  ASSUME IInv, UNCHANGED vars
  PROVE  IInv'
<1>1. UNCHANGED <<system, shell, returned>>
  BY DEF vars
<1>2. TypeOK'
  BY <1>1 DEF IInv, TypeOK, system, shell
<1>3. LineInv' /\ PipexInv'
  BY <1>1 DEF IInv, LineInv, PipexInv, system, shell
<1>4. ChildInv' /\ HeldInv'
  BY <1>1 DEF IInv, ChildInv, HeldInv, EndsOfStage, Unstarted, system, shell
<1>5. StatusInv'
  BY <1>1 DEF IInv, StatusInv, Settled, StatusOf, ExitStatus, Awaited, system, shell
<1> QED
  BY <1>2, <1>3, <1>4, <1>5 DEF IInv

\* What a command does: it ends, killed by SIGPIPE or not, writes or reads
LEMMA CommandKeeps ==
  ASSUME IInv, NEW i \in Numbers, CommandStep(i)
  PROVE  IInv'
<1>0. UNCHANGED <<shell, returned>>
  BY DEF CommandStep
<1>1. CASE Write(i)
  BY <1>0, <1>1, Written
<1>2. CASE BrokenPipe(i)
  BY <1>0, <1>2, ChildEnds DEF BrokenPipe, Writes
<1>3. CASE Read(i)
  BY <1>0, <1>3, Taken
<1>4. CASE Done(i)
  <2>1. i \in 1 .. Len(line)
    BY <1>4, Parts DEF IInv, Done, ChildType
  <2>2. line[i].code \in 0 .. 255
    BY <2>1, Stageful DEF IInv, Stages
  <2> QED
    BY <1>0, <1>4, <2>2, ChildEnds DEF Done
<1> QED
  BY <1>1, <1>2, <1>3, <1>4 DEF CommandStep, Command

\* The steps of minishell
LEMMA MinishellKeeps ==
  ASSUME IInv, MinishellStep
  PROVE  IInv'
<1>0. UNCHANGED returned
  BY DEF MinishellStep
<1>1. ASSUME NEW l \in Lines, ReadLine(l)
      PROVE  IInv'
  BY <1>0, <1>1, LineRead
<1>2. CASE Launch
  BY <1>0, <1>2, Launched
<1>3. CASE LaunchFails \/ NotFound \/ Inside \/ Exit
  BY <1>0, <1>3, NodeSkipped
<1>4. CASE AllLaunched
  BY <1>0, <1>4, RunOver
<1>5. CASE NoChildLeft
  BY <1>0, <1>5, LineDone
<1>6. ASSUME NEW i \in Numbers, WaitReturns(i)
      PROVE  IInv'
  BY <1>0, <1>6, Waited
<1>7. CASE Interrupt
  BY <1>0, <1>7, Interrupted
<1>8. CASE EndOfInput
  BY <1>0, <1>8, InputEnds
<1>9. ASSUME NEW i \in Numbers, Start(i)
      PROVE  IInv'
  BY <1>0, <1>9, ChildRuns DEF Start
<1> QED
  BY <1>1, <1>2, <1>3, <1>4, <1>5, <1>6, <1>7, <1>8, <1>9 DEF MinishellStep, Shell

\* The steps of pipex
LEMMA PipexKeeps ==
  ASSUME IInv, PipexStep
  PROVE  IInv'
<1>0. UNCHANGED <<last_pid, status, sig_nb, in_cmd, leaving, typed, presses, told, by_signal,
                  returned>>
  BY DEF PipexStep
<1>1. ASSUME NEW l \in PipexLines, PipexBegin(l)
      PROVE  IInv'
  BY <1>0, <1>1, PipexBegun
<1>2. CASE PipexFork
  BY <1>0, <1>2, PipexForked
<1>3. CASE ChildProcess
  <2>1. UNCHANGED <<shell, returned>> /\ child[1] = "forked"
    BY <1>0, <1>3 DEF ChildProcess, shell
  <2>2. 1 \in Numbers
    BY <1>3, PipexStage DEF ChildProcess
  <2>3. CASE Ends(1, 1)
    BY <2>1, <2>2, <2>3, ChildEnds
  <2>4. CASE Running(1)
    BY <2>1, <2>2, <2>4, ChildRuns
  <2> QED
    BY <1>3, <2>3, <2>4 DEF ChildProcess
<1>4. CASE Wait
  BY <1>0, <1>4, PipexWaited
<1>5. CASE ParentProcess
  BY <1>0, <1>5, PipexSecond
<1> QED
  BY <1>1, <1>2, <1>3, <1>4, <1>5 DEF PipexStep, PipexNext

\* The steps of picoshell
LEMMA PicoKeeps ==
  ASSUME IInv, PicoStep
  PROVE  IInv'
<1>0. UNCHANGED <<last_pid, status, sig_nb, in_cmd, leaving, typed, presses, told, by_signal>>
  BY DEF PicoStep
<1>1. ASSUME NEW l \in PicoLines, PicoBegin(l)
      PROVE  IInv'
  BY <1>0, <1>1, PicoBegun
<1>2. CASE PicoFork
  BY <1>0, <1>2, PicoForked
<1>3. CASE PicoError
  BY <1>0, <1>3, PicoFails
<1>4. CASE PicoReturn
  BY <1>0, <1>4, PicoDone
<1>5. ASSUME NEW i \in Numbers, PicoWait(i)
      PROVE  IInv'
  BY <1>0, <1>5, PicoWaited
<1>6. ASSUME NEW i \in Numbers, PicoChild(i)
      PROVE  IInv'
  <2>1. UNCHANGED <<shell, returned>> /\ child[i] = "forked"
    BY <1>0, <1>6 DEF PicoChild, shell
  <2>2. CASE Ends(i, 1)
    BY <2>1, <2>2, ChildEnds
  <2>3. CASE Running(i)
    BY <2>1, <2>3, ChildRuns
  <2> QED
    BY <1>6, <2>2, <2>3 DEF PicoChild
<1> QED
  BY <1>1, <1>2, <1>3, <1>4, <1>5, <1>6 DEF PicoStep, Pico

-----------------------------------------------------------------------------
\* The inductive invariant holds in every state of the three programs
THEOREM Invariance == Spec => []IInv
<1>1. Init => IInv
  BY Begun
<1>2. IInv /\ [Next]_vars => IInv'
  <2> SUFFICES ASSUME IInv, [Next]_vars
               PROVE  IInv'
    OBVIOUS
  <2>1. CASE MinishellStep
    BY <2>1, MinishellKeeps
  <2>2. CASE PipexStep
    BY <2>2, PipexKeeps
  <2>3. CASE PicoStep
    BY <2>3, PicoKeeps
  <2>4. ASSUME NEW i \in Numbers, CommandStep(i)
        PROVE  IInv'
    BY <2>4, CommandKeeps
  <2>5. CASE UNCHANGED vars
    BY <2>5, Stutters
  <2> QED
    BY <2>1, <2>2, <2>3, <2>4, <2>5 DEF Next
<1> QED
  BY <1>1, <1>2, PTL DEF Spec

\* Every variable of the programs and of the pipes stays in its type
THEOREM TypeCorrect == Spec => []TypeOK
<1>1. IInv => TypeOK
  BY DEF IInv
<1> QED
  BY <1>1, Invariance, PTL

\* However many commands a line has and whatever they read and write, it
\* comes to a standstill only next to a node that minishell did not start in
\* a process of its own, or in pipex over a first command that writes more
\* than a pipe holds (redirect_operator, close_fd_except, picoshell, pipex)
THEOREM StandstillsAreExcused == Spec => []OnlyTheUnstartedBlock
BY Unblocked, Invariance, PTL

\* At every prompt, and when picoshell or pipex is done, no child is left and
\* no end of a pipe is open, and $? is that of the last node, or 130 after a
\* Ctrl-C (wait_for_pids, handle_cmds, sigint_handler)
THEOREM LinesSettle == Spec => []LinesAreSettled
BY IsSettled, Invariance, PTL
=============================================================================
