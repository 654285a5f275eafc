-------------------------------- MODULE Philo --------------------------------
(***************************************************************************)
(* philo/: N philosopher threads, one supervisor thread and the main       *)
(* thread of the dining-philosophers program.                              *)
(*                                                                         *)
(* A step is one access to shared data as the mutexes of the program make  *)
(* it atomic: taking or dropping a fork, a read of the end flag under      *)
(* end_mutex, a message printed under log_mutex, a meal recorded under     *)
(* meal_mutex.  end_mutex and log_mutex protect one access each and no     *)
(* lock is taken inside them, so they are folded into those steps;         *)
(* meal_mutex is held by the supervisor during a whole scan and is a       *)
(* variable.                                                               *)
(*                                                                         *)
(* Philosophers are numbered as the array of the program is, from 0; the   *)
(* clock is abstracted to whether time_to_die has passed since the last    *)
(* meal of each philosopher, which may become true at any time.            *)
(***************************************************************************)
EXTENDS Integers

CONSTANTS N,        \* table->nb_philos
          MustEat,  \* table->nb_must_eat, -1 when the argument is absent
          MealCap   \* meal counters saturate here

(***************************************************************************)
(* input_is_valid refuses an argument that is not positive.  The counters  *)
(* are only compared with nb_must_eat, so a cap above it changes nothing.  *)
(***************************************************************************)
ASSUME PhiloAssumption ==
  /\ N \in Nat \ {0}
  /\ MustEat \in Nat \ {0} \/ MustEat = -1
  /\ MealCap \in Nat \ {0}
  /\ MealCap >= MustEat

Philos == 0 .. N - 1
Nobody == -1

Left(p)  == p
Right(p) == IF p = N - 1 THEN 0 ELSE p + 1

VARIABLES
  pc,        \* where each philosopher's thread stands in philo_routine
  holder,    \* holder[f]: the philosopher that locked fork f
  meals,     \* philos[i].meal_counter, saturating at MealCap
  overdue,   \* now - philos[i].last_meal >= time_to_die
  sup,       \* where the supervisor's thread stands
  scan,      \* i and nb_eat_enough of supervisor_routine
  mealLock,  \* the supervisor holds meal_mutex
  end,       \* table->end
  dead,      \* the philosopher whose death was printed
  late,      \* history: messages printed by each philosopher since end = 1
  main       \* where the main thread stands

vars == <<pc, holder, meals, overdue, sup, scan, mealLock, end, dead, late, main>>
table == <<holder, meals, overdue, sup, scan, mealLock, end, dead, main>>

PhiloPC ==
  { "unborn", "loop", "alone", "spin", "left", "hasLeft", "giveUpLeft",
    "log1", "right", "hasRight", "giveUpBoth", "giveUpRight", "log2",
    "logEat", "record", "eating", "dropRight", "afterEat", "logSleep",
    "asleep", "logThink", "done" }

SupPC  == { "unborn", "lock", "scan", "setEnd", "unlock", "done" }
MainPC == { "start", "create", "join", "done" }

Init ==
  /\ pc = [p \in Philos |-> "unborn"]
  /\ holder = [f \in Philos |-> Nobody]
  /\ meals = [p \in Philos |-> 0]
  /\ overdue = [p \in Philos |-> FALSE]
  /\ sup = "unborn"
  /\ scan = [i |-> 0, enough |-> 0]
  /\ mealLock = FALSE
  /\ end = FALSE
  /\ dead = Nobody
  /\ late = [p \in Philos |-> 0]
  /\ main = "start"

-----------------------------------------------------------------------------
(* Philosopher threads *)

Goto(p, from, to) ==
  /\ pc[p] = from
  /\ pc' = [pc EXCEPT ![p] = to]

\* is_end(): one read of the flag decides where the thread goes on
TestEnd(p, from, ifEnd, ifNot) ==
  /\ Goto(p, from, IF end THEN ifEnd ELSE ifNot)
  /\ UNCHANGED <<table, late>>

\* print_log(): one line printed
Log(p, from, to) ==
  /\ Goto(p, from, to)
  /\ late' = IF end THEN [late EXCEPT ![p] = @ + 1] ELSE late
  /\ UNCHANGED table

LockFork(p, f, from, to) ==
  /\ Goto(p, from, to)
  /\ holder[f] = Nobody
  /\ holder' = [holder EXCEPT ![f] = p]
  /\ UNCHANGED <<meals, overdue, sup, scan, mealLock, end, dead, late, main>>

UnlockFork(p, f, from, to) ==
  /\ Goto(p, from, to)
  /\ holder' = [holder EXCEPT ![f] = Nobody]
  /\ UNCHANGED <<meals, overdue, sup, scan, mealLock, end, dead, late, main>>

\* philo_routine: the loop condition, then eat(), whose first test is for a
\* philosopher alone at the table
LoopTest(p) == TestEnd(p, "loop", "done", IF N = 1 THEN "alone" ELSE "left")

\* eat() with one philosopher: the only fork is announced and never locked,
\* and the thread spins until the end
LogAlone(p) == Log(p, "alone", "spin")
\* Mutant of SpinTest: the end flag is never read.
SpinForever(p) == Goto(p, "spin", "spin") /\ UNCHANGED <<table, late>>
SpinTest(p) == TestEnd(p, "spin", "afterEat", "spin")

\* Mutants of the take_forks steps: a return that forgets its fork, a fork that
\* is not locked, a test that is left out, a return that forgets the other fork.
GiveUpHolding(p)      == Goto(p, "giveUpLeft", "afterEat") /\ UNCHANGED <<table, late>>
TakeUnlocked(p)       == Goto(p, "right", "hasRight") /\ UNCHANGED <<table, late>>
NoTest(p)             == Goto(p, "hasRight", "log2") /\ UNCHANGED <<table, late>>
GiveUpLeftOfBoth(p)   == UnlockFork(p, Left(p), "giveUpBoth", "afterEat")

\* take_forks
TakeLeft(p)    == LockFork(p, Left(p), "left", "hasLeft")
LeftTest(p)    == TestEnd(p, "hasLeft", "giveUpLeft", "log1")
GiveUpLeft(p)  == UnlockFork(p, Left(p), "giveUpLeft", "afterEat")
LogFirst(p)    == Log(p, "log1", "right")
TakeRight(p)   == LockFork(p, Right(p), "right", "hasRight")
RightTest(p)   == TestEnd(p, "hasRight", "giveUpBoth", "log2")
GiveUpBoth(p)  == UnlockFork(p, Left(p), "giveUpBoth", "giveUpRight")
GiveUpRight(p) == UnlockFork(p, Right(p), "giveUpRight", "afterEat")
LogSecond(p)   == Log(p, "log2", "logEat")

\* eat(), once both forks are taken
LogEating(p) == Log(p, "logEat", "record")

\* Mutant of RecordMeal: meal_mutex is not taken.
RecordUnprotected(p) ==
  /\ Goto(p, "record", "eating")
  /\ meals' = [meals EXCEPT ![p] = IF @ < MealCap THEN @ + 1 ELSE @]
  /\ overdue' = [overdue EXCEPT ![p] = FALSE]
  /\ UNCHANGED <<holder, sup, scan, mealLock, end, dead, late, main>>

RecordMeal(p) ==
  /\ ~mealLock
  /\ Goto(p, "record", "eating")
  /\ meals' = [meals EXCEPT ![p] = IF @ < MealCap THEN @ + 1 ELSE @]
  /\ overdue' = [overdue EXCEPT ![p] = FALSE]
  /\ UNCHANGED <<holder, sup, scan, mealLock, end, dead, late, main>>

DropLeft(p)  == UnlockFork(p, Left(p), "eating", "dropRight")
DropRight(p) == UnlockFork(p, Right(p), "dropRight", "afterEat")

\* philo_routine, after eat() returned, whether it ate or gave up
AfterEatTest(p) == TestEnd(p, "afterEat", "done", "logSleep")
LogSleeping(p)  == Log(p, "logSleep", "asleep")
AwakeTest(p)    == TestEnd(p, "asleep", "done", "logThink")
LogThinking(p)  == Log(p, "logThink", "loop")

PhiloStep(p) ==
  \/ LoopTest(p) \/ LogAlone(p) \/ SpinTest(p)
  \/ TakeLeft(p) \/ LeftTest(p) \/ GiveUpLeft(p) \/ LogFirst(p)
  \/ TakeRight(p) \/ RightTest(p) \/ GiveUpBoth(p) \/ GiveUpRight(p)
  \/ LogSecond(p) \/ LogEating(p) \/ RecordMeal(p) \/ DropLeft(p) \/ DropRight(p)
  \/ AfterEatTest(p) \/ LogSleeping(p) \/ AwakeTest(p) \/ LogThinking(p)

-----------------------------------------------------------------------------
(* Supervisor thread *)

\* A mutant of StartScan: i is not reset.
StartWithIndex ==
  /\ sup = "lock"
  /\ sup' = "scan"
  /\ mealLock' = TRUE
  /\ scan' = [scan EXCEPT !.enough = 0]
  /\ UNCHANGED <<pc, holder, meals, overdue, end, dead, late, main>>

\* A scan starts: meal_mutex is taken, i and nb_eat_enough are reset.
StartScan ==
  /\ sup = "lock"
  /\ sup' = "scan"
  /\ mealLock' = TRUE
  /\ scan' = [i |-> 0, enough |-> 0]
  /\ UNCHANGED <<pc, holder, meals, overdue, end, dead, late, main>>

EatenEnough(p) == MustEat # -1 /\ meals[p] >= MustEat

\* nb_eat_enough once the philosopher the scan stands at has been counted
Enough == scan.enough + (IF EatenEnough(scan.i) THEN 1 ELSE 0)

\* detect_end decides on philosopher i: everybody ate enough, or i is dead
\* (and its death is printed); otherwise on to the next one, or the scan ends
\* and meal_mutex is released.
DetectEnd ==
  /\ sup = "scan"
  /\ scan' = [i |-> scan.i + 1, enough |-> Enough]
  /\ \/ /\ Enough = N
        /\ sup' = "setEnd"
        /\ UNCHANGED <<mealLock, dead>>
     \/ /\ Enough # N /\ overdue[scan.i]
        /\ dead' = scan.i
        /\ sup' = "setEnd"
        /\ UNCHANGED mealLock
     \/ /\ Enough # N /\ ~overdue[scan.i]
        /\ scan.i + 1 < N
        /\ UNCHANGED <<sup, mealLock, dead>>
     \/ /\ Enough # N /\ ~overdue[scan.i]
        /\ scan.i + 1 = N
        /\ sup' = "lock"
        /\ mealLock' = FALSE
        /\ UNCHANGED dead
  /\ UNCHANGED <<pc, holder, meals, overdue, end, late, main>>

\* Mutant of SetEnd: the supervisor returns without setting the flag.
EndUnset ==
  /\ sup = "setEnd"
  /\ sup' = "unlock"
  /\ UNCHANGED <<pc, holder, meals, overdue, scan, mealLock, end, dead, late, main>>

SetEnd ==
  /\ sup = "setEnd"
  /\ sup' = "unlock"
  /\ end' = TRUE
  /\ UNCHANGED <<pc, holder, meals, overdue, scan, mealLock, dead, late, main>>

ReleaseMeals ==
  /\ sup = "unlock"
  /\ sup' = "done"
  /\ mealLock' = FALSE
  /\ UNCHANGED <<pc, holder, meals, overdue, scan, end, dead, late, main>>

SupStep == StartScan \/ DetectEnd \/ SetEnd \/ ReleaseMeals

-----------------------------------------------------------------------------
(* Main thread: start_simulation, then destroy_free *)

CreateSupervisor ==
  /\ main = "start"
  /\ main' = "create"
  /\ sup' = "lock"
  /\ UNCHANGED <<pc, holder, meals, overdue, scan, mealLock, end, dead, late>>

CreatePhilo(p) ==
  /\ main = "create"
  /\ \A q \in Philos : q < p => pc[q] # "unborn"
  /\ Goto(p, "unborn", "loop")
  /\ main' = IF p = N - 1 THEN "join" ELSE "create"
  /\ UNCHANGED <<holder, meals, overdue, sup, scan, mealLock, end, dead, late>>

\* The joins return once every thread has; then the mutexes are destroyed.
JoinAndDestroy ==
  /\ main = "join"
  /\ sup = "done"
  /\ \A p \in Philos : pc[p] = "done"
  /\ main' = "done"
  /\ UNCHANGED <<pc, holder, meals, overdue, sup, scan, mealLock, end, dead, late>>

MainStep == CreateSupervisor \/ (\E p \in Philos : CreatePhilo(p)) \/ JoinAndDestroy

\* The clock.  What it says is read by nobody once the supervisor returned.
TimeToDiePasses(p) ==
  /\ sup # "done"
  /\ ~overdue[p]
  /\ overdue' = [overdue EXCEPT ![p] = TRUE]
  /\ UNCHANGED <<pc, holder, meals, sup, scan, mealLock, end, dead, late, main>>

Next ==
  \/ \E p \in Philos : PhiloStep(p)
  \/ SupStep
  \/ MainStep
  \/ \E p \in Philos : TimeToDiePasses(p)

Spec == Init /\ [][Next]_vars

-----------------------------------------------------------------------------
(* Properties *)

\* Every variable stays in its range; the scan index never runs past the
\* array of philosophers while the supervisor reads from it.
TypeOK ==
  /\ pc \in [Philos -> PhiloPC]
  /\ holder \in [Philos -> Philos \cup {Nobody}]
  /\ meals \in [Philos -> 0 .. MealCap]
  /\ overdue \in [Philos -> BOOLEAN]
  /\ sup \in SupPC
  /\ scan \in [i : 0 .. N, enough : 0 .. N]
  /\ (sup = "scan") => scan.i < N
  /\ mealLock \in BOOLEAN
  /\ end \in BOOLEAN
  /\ dead \in Philos \cup {Nobody}
  /\ late \in [Philos -> Nat]
  /\ main \in MainPC

Eating == { "logEat", "record", "eating" }

\* Neighbours share a fork, so they are never between "has taken a fork" (the
\* second one) and the release of the first fork at the same time.
NeighboursNeverEatTogether ==
  \A p \in Philos : Right(p) # p => ~(pc[p] \in Eating /\ pc[Right(p)] \in Eating)

\* The verdict the supervisor is about to publish is still true when it sets
\* the end flag: the philosopher it declared dead has not eaten meanwhile, or
\* everybody still has eaten enough.  (The whole scan runs under meal_mutex.)
VerdictNotStale ==
  sup \in {"setEnd", "unlock"} =>
    IF dead # Nobody THEN overdue[dead] ELSE \A p \in Philos : EatenEnough(p)

\* The simulation ends for one of the two reasons the program has.
EndJustified ==
  end => (dead # Nobody \/ \A p \in Philos : EatenEnough(p))

\* Once the end flag is set a philosopher prints at most two more lines: the
\* second fork and the meal that follow the last test it passed.
AtMostTwoLinesAfterEnd == \A p \in Philos : late[p] <= 2

\* destroy_free destroys no mutex that is locked.
NothingLockedAtDestroy ==
  main = "done" => ~mealLock /\ \A f \in Philos : holder[f] = Nobody

Blocked(p) ==
  \/ pc[p] = "left" /\ holder[Left(p)] # Nobody
  \/ pc[p] = "right" /\ holder[Right(p)] # Nobody

\* Each philosopher holds its left fork and waits for the right one.
CircularWait == \A p \in Philos : pc[p] = "right" /\ holder[Left(p)] = p

\* The philosophers block each other in one way only: if those still running
\* all wait for a fork, they all are in the cycle of the table.
OnlyTheCircleBlocks ==
  (/\ \A p \in Philos : pc[p] \notin {"unborn", "done"} => Blocked(p)
   /\ \A p \in Philos : pc[p] # "unborn"
   /\ \E p \in Philos : pc[p] # "done") => CircularWait

=============================================================================
