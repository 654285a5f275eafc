----------------------------- MODULE PhiloProofs -----------------------------
(***************************************************************************)
(* What holds of Philo for every number of philosophers and every number   *)
(* of meals.                                                               *)
(***************************************************************************)
EXTENDS Philo, ExtremeNumbers, TLAPS

(***************************************************************************)
(* The inductive invariant, in the parts the theorems need.                *)
(***************************************************************************)

\* Where a philosopher's thread owns its left and its right fork
HasLeft  == { "hasLeft", "giveUpLeft", "log1", "right", "hasRight", "giveUpBoth",
              "log2", "logEat", "record", "eating" }
HasRight == { "hasRight", "giveUpBoth", "giveUpRight", "log2", "logEat", "record",
              "eating", "dropRight" }

\* A fork is locked exactly by the thread whose position says so; a philosopher
\* alone at the table never touches its fork.
LeftHeld  == \A p \in Philos : pc[p] \in HasLeft => holder[Left(p)] = p
RightHeld == \A p \in Philos : pc[p] \in HasRight => holder[Right(p)] = p
HeldByUser ==
  \A f \in Philos : \A p \in Philos :
    holder[f] = p => \/ f = Left(p) /\ pc[p] \in HasLeft
                     \/ f = Right(p) /\ pc[p] \in HasRight
AloneHoldsNone ==
  N = 1 => \A p \in Philos : pc[p] \notin HasLeft \cup HasRight \cup {"left"}

ForksInv == LeftHeld /\ RightHeld /\ HeldByUser /\ AloneHoldsNone

\* meal_mutex is held during the scan and until the verdict is published; the
\* scan counts a philosopher only if it ate enough.
ScanInv ==
  /\ mealLock <=> sup \in { "scan", "setEnd", "unlock" }
  /\ sup = "scan" =>
       /\ scan.enough <= scan.i
       /\ scan.enough = scan.i => \A q \in Philos : q < scan.i => EatenEnough(q)
  /\ main = "start" => sup = "unborn"
  /\ sup \in { "unborn", "lock", "scan" } => dead = Nobody
  /\ end <=> sup \in { "unlock", "done" }
  /\ sup \in { "setEnd", "unlock", "done" } =>
       (dead # Nobody \/ \A q \in Philos : EatenEnough(q))

\* How much a thread can have printed since the end, by where it stands
Silent == { "unborn", "left", "hasLeft", "giveUpLeft", "log1", "log2", "alone",
            "logSleep", "logThink" }
OneLine == { "loop", "spin", "right", "hasRight", "giveUpBoth", "giveUpRight",
             "logEat", "asleep" }

LateInv ==
  /\ ~end => \A p \in Philos : late[p] = 0
  /\ \A p \in Philos : /\ pc[p] \in Silent => late[p] = 0
                       /\ pc[p] \in OneLine => late[p] <= 1
                       /\ late[p] <= 2

\* main is through its joins only when every thread has returned
JoinInv == main = "done" => sup = "done" /\ \A p \in Philos : pc[p] = "done"

-----------------------------------------------------------------------------

(***************************************************************************)
(* A step keeps each part.  The steps of a philosopher are taken by shape: *)
(* a test of the end flag, a printed line, a fork locked or unlocked, a    *)
(* recorded meal.                                                          *)
(***************************************************************************)
\* Every step keeps the types.
LEMMA TypeOfNext ==
  ASSUME TypeOK, ScanInv, [Next]_vars
  PROVE  TypeOK'
<1> USE PhiloAssumption
<1>1. ASSUME NEW p \in Philos, PhiloStep(p) PROVE TypeOK'
  <2>1. CASE RecordMeal(p)
    <3>1. meals' \in [Philos -> 0 .. MealCap]
      BY <2>1 DEF TypeOK, RecordMeal
    <3>2. overdue' \in [Philos -> BOOLEAN]
      BY <2>1, Zenon DEF TypeOK, RecordMeal
    <3>3. pc' \in [Philos -> PhiloPC]
      BY <2>1 DEF TypeOK, RecordMeal, Goto, PhiloPC
    <3> QED BY <2>1, <3>1, <3>2, <3>3 DEF TypeOK, RecordMeal
  <2>2. CASE \/ LoopTest(p) \/ SpinTest(p) \/ LeftTest(p) \/ RightTest(p)
             \/ AfterEatTest(p) \/ AwakeTest(p)
    BY <2>2 DEF TypeOK, LoopTest, SpinTest, LeftTest, RightTest, AfterEatTest,
                AwakeTest, TestEnd, Goto, table, PhiloPC
  <2>3. CASE \/ LogAlone(p) \/ LogFirst(p) \/ LogSecond(p) \/ LogEating(p)
             \/ LogSleeping(p) \/ LogThinking(p)
    BY <2>3 DEF TypeOK, LogAlone, LogFirst, LogSecond, LogEating, LogSleeping,
                LogThinking, Log, Goto, table, PhiloPC
  <2>4. CASE TakeLeft(p) \/ TakeRight(p)
    BY <2>4 DEF TypeOK, TakeLeft, TakeRight, LockFork, Goto, PhiloPC
  <2>5. CASE \/ GiveUpLeft(p) \/ GiveUpBoth(p) \/ GiveUpRight(p)
             \/ DropLeft(p) \/ DropRight(p)
    BY <2>5 DEF TypeOK, GiveUpLeft, GiveUpBoth, GiveUpRight, DropLeft, DropRight,
                UnlockFork, Goto, PhiloPC
  <2> QED BY <1>1, <2>1, <2>2, <2>3, <2>4, <2>5 DEF PhiloStep
<1>2. ASSUME SupStep PROVE TypeOK'
  <2>1. CASE StartScan
    BY <2>1 DEF TypeOK, StartScan, SupPC
  <2>2. CASE DetectEnd
    <3>1. scan.i \in 0 .. N - 1 /\ scan.enough \in 0 .. N - 1
      BY <2>2 DEF DetectEnd, TypeOK, ScanInv
    <3>2. Enough \in 0 .. N
      BY <3>1 DEF Enough
    <3>3. scan' \in [i : 0 .. N, enough : 0 .. N] /\ scan'.i = scan.i + 1
      BY <2>2, <3>1, <3>2 DEF DetectEnd
    <3>4. /\ (sup' = "scan") => scan'.i < N
          /\ sup' \in SupPC /\ mealLock' \in BOOLEAN
          /\ dead' \in Philos \cup {Nobody}
      BY <2>2, <3>1, <3>3 DEF DetectEnd, TypeOK, SupPC, Philos
    <3> QED BY <2>2, <3>3, <3>4 DEF DetectEnd, TypeOK
  <2>3. CASE SetEnd
    BY <2>3 DEF TypeOK, SetEnd, SupPC
  <2>4. CASE ReleaseMeals
    BY <2>4 DEF TypeOK, ReleaseMeals, SupPC
  <2> QED BY <1>2, <2>1, <2>2, <2>3, <2>4 DEF SupStep
<1>3. ASSUME MainStep PROVE TypeOK'
  <2>1. CASE CreateSupervisor
    BY <2>1 DEF TypeOK, CreateSupervisor, MainPC, SupPC
  <2>2. ASSUME NEW p \in Philos, CreatePhilo(p) PROVE TypeOK'
    BY <2>2 DEF TypeOK, CreatePhilo, Goto, MainPC, PhiloPC
  <2>3. CASE JoinAndDestroy
    BY <2>3 DEF TypeOK, JoinAndDestroy, MainPC
  <2> QED BY <1>3, <2>1, <2>2, <2>3 DEF MainStep
<1>4. ASSUME NEW p \in Philos, TimeToDiePasses(p) PROVE TypeOK'
  BY <1>4, Zenon DEF TypeOK, TimeToDiePasses
<1>5. CASE UNCHANGED vars
  BY <1>5 DEF TypeOK, vars
<1> QED BY <1>1, <1>2, <1>3, <1>4, <1>5 DEF Next

\* Each philosopher has its own left and its own right fork, and two different
\* ones unless it is alone.
LEMMA ForksAroundTheTable ==
  /\ \A p \in Philos : Left(p) \in Philos /\ Right(p) \in Philos
  /\ \A p, q \in Philos : Left(p) = Left(q) => p = q
  /\ \A p, q \in Philos : Right(p) = Right(q) => p = q
  /\ N # 1 => \A p \in Philos : Left(p) # Right(p)
BY PhiloAssumption DEF Philos, Left, Right

\* A fork stays with the thread whose position owns it.
LEMMA ForksOfNext ==
  ASSUME TypeOK, ForksInv, [Next]_vars
  PROVE  ForksInv'
<1> USE PhiloAssumption DEF HasLeft, HasRight, Nobody
<1>1. ASSUME NEW p \in Philos, PhiloStep(p) PROVE ForksInv'
  <2>1. CASE \/ LoopTest(p) \/ SpinTest(p) \/ LeftTest(p) \/ RightTest(p)
             \/ AfterEatTest(p) \/ AwakeTest(p)
    BY <2>1 DEF TypeOK, ForksInv, LeftHeld, RightHeld, HeldByUser, AloneHoldsNone,
                LoopTest, SpinTest, LeftTest, RightTest, AfterEatTest, AwakeTest,
                TestEnd, Goto, table
  <2>2. CASE \/ LogAlone(p) \/ LogFirst(p) \/ LogSecond(p) \/ LogEating(p)
             \/ LogSleeping(p) \/ LogThinking(p)
    BY <2>2 DEF TypeOK, ForksInv, LeftHeld, RightHeld, HeldByUser, AloneHoldsNone,
                LogAlone, LogFirst, LogSecond, LogEating, LogSleeping, LogThinking,
                Log, Goto, table
  <2>3. CASE TakeLeft(p)
    <3>1. /\ pc[p] = "left" /\ pc'[p] = "hasLeft" /\ holder[Left(p)] = Nobody
          /\ \A q \in Philos : q # p => pc'[q] = pc[q]
          /\ \A f \in Philos : holder'[f] = IF f = Left(p) THEN p ELSE holder[f]
      BY <2>3, ForksAroundTheTable DEF TakeLeft, LockFork, Goto, TypeOK
    <3>2. N # 1
      BY <3>1 DEF ForksInv, AloneHoldsNone
    <3>3. LeftHeld'
      BY <3>1, <3>2, ForksAroundTheTable DEF ForksInv, LeftHeld, Philos
    <3>4. RightHeld'
      BY <3>1, <3>2, ForksAroundTheTable DEF ForksInv, RightHeld, Philos
    <3>5. HeldByUser'
      <4>1. SUFFICES ASSUME NEW f \in Philos, NEW q \in Philos, holder'[f] = q
                     PROVE  \/ f = Left(q) /\ pc'[q] \in HasLeft
                            \/ f = Right(q) /\ pc'[q] \in HasRight
        BY DEF HeldByUser
      <4>2. \/ f = Left(q) /\ holder[f] = q /\ pc[q] \in HasLeft
            \/ f = Right(q) /\ holder[f] = q /\ pc[q] \in HasRight
            \/ q = p /\ f = Left(p)
        BY <3>1, <4>1 DEF ForksInv, HeldByUser, Philos
      <4> QED BY <3>1, <3>2, <4>1, <4>2, ForksAroundTheTable DEF Philos
    <3> QED BY <3>2, <3>3, <3>4, <3>5 DEF ForksInv, AloneHoldsNone
  <2>4. CASE TakeRight(p)
    <3>1. /\ pc[p] = "right" /\ pc'[p] = "hasRight" /\ holder[Right(p)] = Nobody
          /\ \A q \in Philos : q # p => pc'[q] = pc[q]
          /\ \A f \in Philos : holder'[f] = IF f = Right(p) THEN p ELSE holder[f]
      BY <2>4, ForksAroundTheTable DEF TakeRight, LockFork, Goto, TypeOK
    <3>2. N # 1
      BY <3>1 DEF ForksInv, AloneHoldsNone
    <3>3. LeftHeld'
      BY <3>1, <3>2, ForksAroundTheTable DEF ForksInv, LeftHeld, Philos
    <3>4. RightHeld'
      BY <3>1, <3>2, ForksAroundTheTable DEF ForksInv, RightHeld, Philos
    <3>5. HeldByUser'
      <4>1. SUFFICES ASSUME NEW f \in Philos, NEW q \in Philos, holder'[f] = q
                     PROVE  \/ f = Left(q) /\ pc'[q] \in HasLeft
                            \/ f = Right(q) /\ pc'[q] \in HasRight
        BY DEF HeldByUser
      <4>2. \/ f = Left(q) /\ holder[f] = q /\ pc[q] \in HasLeft
            \/ f = Right(q) /\ holder[f] = q /\ pc[q] \in HasRight
            \/ q = p /\ f = Right(p)
        BY <3>1, <4>1 DEF ForksInv, HeldByUser, Philos
      <4> QED BY <3>1, <3>2, <4>1, <4>2, ForksAroundTheTable DEF Philos
    <3> QED BY <3>2, <3>3, <3>4, <3>5 DEF ForksInv, AloneHoldsNone
  <2>5. CASE GiveUpLeft(p) \/ GiveUpBoth(p) \/ DropLeft(p)
    <3>1. /\ pc[p] \in HasLeft /\ pc'[p] \notin HasLeft \cup {"left"}
          /\ (pc[p] \in HasRight) <=> (pc'[p] \in HasRight)
          /\ \A q \in Philos : q # p => pc'[q] = pc[q]
          /\ \A f \in Philos : holder'[f] = IF f = Left(p) THEN Nobody ELSE holder[f]
      BY <2>5, ForksAroundTheTable DEF GiveUpLeft, GiveUpBoth, DropLeft, UnlockFork, Goto, TypeOK
    <3>2. N # 1
      BY <3>1 DEF ForksInv, AloneHoldsNone
    <3>3. LeftHeld'
      BY <3>1, <3>2, ForksAroundTheTable DEF ForksInv, LeftHeld, RightHeld
    <3>4. RightHeld'
      BY <3>1, <3>2, ForksAroundTheTable DEF ForksInv, LeftHeld, RightHeld
    <3>5. HeldByUser'
      <4>1. SUFFICES ASSUME NEW f \in Philos, NEW q \in Philos, holder'[f] = q
                     PROVE  \/ f = Left(q) /\ pc'[q] \in HasLeft
                            \/ f = Right(q) /\ pc'[q] \in HasRight
        BY DEF HeldByUser
      <4>2. \/ f = Left(q) /\ holder[f] = q /\ pc[q] \in HasLeft
            \/ f = Right(q) /\ holder[f] = q /\ pc[q] \in HasRight
        BY <3>1, <4>1 DEF ForksInv, HeldByUser, Philos
      <4> QED BY <3>1, <3>2, <4>1, <4>2, ForksAroundTheTable DEF Philos
    <3> QED BY <3>2, <3>3, <3>4, <3>5 DEF ForksInv, AloneHoldsNone
  <2>6. CASE GiveUpRight(p) \/ DropRight(p)
    <3>1. /\ pc[p] \in HasRight \ HasLeft
          /\ pc'[p] \notin HasLeft \cup HasRight \cup {"left"}
          /\ \A q \in Philos : q # p => pc'[q] = pc[q]
          /\ \A f \in Philos : holder'[f] = IF f = Right(p) THEN Nobody ELSE holder[f]
      BY <2>6, ForksAroundTheTable DEF GiveUpRight, DropRight, UnlockFork, Goto, TypeOK
    <3>2. N # 1
      BY <3>1 DEF ForksInv, AloneHoldsNone
    <3>3. LeftHeld'
      BY <3>1, <3>2, ForksAroundTheTable DEF ForksInv, LeftHeld, RightHeld
    <3>4. RightHeld'
      BY <3>1, <3>2, ForksAroundTheTable DEF ForksInv, LeftHeld, RightHeld
    <3>5. HeldByUser'
      <4>1. SUFFICES ASSUME NEW f \in Philos, NEW q \in Philos, holder'[f] = q
                     PROVE  \/ f = Left(q) /\ pc'[q] \in HasLeft
                            \/ f = Right(q) /\ pc'[q] \in HasRight
        BY DEF HeldByUser
      <4>2. \/ f = Left(q) /\ holder[f] = q /\ pc[q] \in HasLeft
            \/ f = Right(q) /\ holder[f] = q /\ pc[q] \in HasRight
        BY <3>1, <4>1 DEF ForksInv, HeldByUser, Philos
      <4> QED BY <3>1, <3>2, <4>1, <4>2, ForksAroundTheTable DEF Philos
    <3> QED BY <3>2, <3>3, <3>4, <3>5 DEF ForksInv, AloneHoldsNone
  <2>7. CASE RecordMeal(p)
    BY <2>7 DEF TypeOK, ForksInv, LeftHeld, RightHeld, HeldByUser, AloneHoldsNone,
                RecordMeal, Goto
  <2> QED BY <1>1, <2>1, <2>2, <2>3, <2>4, <2>5, <2>6, <2>7 DEF PhiloStep
<1> USE DEF ForksInv, LeftHeld, RightHeld, HeldByUser, AloneHoldsNone
<1>2. CASE SupStep
  BY <1>2 DEF SupStep, StartScan, DetectEnd, SetEnd, ReleaseMeals
<1>3. CASE MainStep
  BY <1>3 DEF TypeOK, MainStep, CreateSupervisor, CreatePhilo, JoinAndDestroy, Goto
<1>4. ASSUME NEW p \in Philos, TimeToDiePasses(p) PROVE ForksInv'
  BY <1>4 DEF TimeToDiePasses
<1>5. CASE UNCHANGED vars
  BY <1>5 DEF vars
<1> QED BY <1>1, <1>2, <1>3, <1>4, <1>5 DEF Next

\* A meal counter never goes down.
LEMMA EatenEnoughIsStable ==
  ASSUME TypeOK, NEW p \in Philos, RecordMeal(p), NEW q \in Philos, EatenEnough(q)
  PROVE  EatenEnough(q)'
BY PhiloAssumption DEF TypeOK, RecordMeal, EatenEnough

\* The supervisor counts right, and publishes a verdict it holds meal_mutex for.
LEMMA ScanOfNext ==
  ASSUME TypeOK, ScanInv, [Next]_vars
  PROVE  ScanInv'
<1> USE PhiloAssumption DEF Nobody
<1>1. ASSUME NEW p \in Philos, PhiloStep(p) PROVE ScanInv'
  <2>1. CASE RecordMeal(p)
    <3>1. UNCHANGED <<sup, scan, mealLock, end, dead, main>>
      BY <2>1 DEF RecordMeal
    <3>2. \A q \in Philos : EatenEnough(q) => EatenEnough(q)'
      BY <2>1, EatenEnoughIsStable
    <3> QED BY <3>1, <3>2 DEF ScanInv
  <2>2. CASE UNCHANGED <<meals, sup, scan, mealLock, end, dead>> /\ (main' = "start" => main = "start")
    BY <2>2 DEF ScanInv, EatenEnough
  <2> QED
    BY <1>1, <2>1, <2>2
    DEF PhiloStep, LoopTest, SpinTest, LeftTest, RightTest, AfterEatTest, AwakeTest,
        LogAlone, LogFirst, LogSecond, LogEating, LogSleeping, LogThinking, TakeLeft,
        TakeRight, GiveUpLeft, GiveUpBoth, GiveUpRight, DropLeft, DropRight, TestEnd,
        Log, LockFork, UnlockFork, table
<1>2. CASE StartScan
  BY <1>2 DEF TypeOK, ScanInv, StartScan, Philos
<1>3. CASE DetectEnd
  <2>1. /\ scan.i \in 0 .. N - 1 /\ scan.enough \in 0 .. scan.i
        /\ sup = "scan" /\ mealLock /\ dead = Nobody /\ ~end
    BY <1>3 DEF DetectEnd, TypeOK, ScanInv
  <2>2. /\ scan'.i = scan.i + 1 /\ scan'.enough = Enough
        /\ UNCHANGED <<meals, end, main>>
    BY <1>3 DEF DetectEnd
  <2>3. Enough \in 0 .. scan.i + 1
    BY <2>1 DEF Enough
  <2>4. ASSUME Enough = scan.i + 1, NEW q \in Philos, q < scan.i + 1
        PROVE  EatenEnough(q)
    <3>1. scan.enough = scan.i /\ EatenEnough(scan.i)
      BY <2>1, <2>4 DEF Enough
    <3>2. CASE q = scan.i
      BY <3>1, <3>2
    <3>3. CASE q < scan.i
      BY <2>1, <3>1, <3>3 DEF ScanInv
    <3> QED BY <2>1, <2>4, <3>2, <3>3 DEF Philos
  <2>5. CASE Enough = N
    <3>1. \A q \in Philos : EatenEnough(q)
      BY <2>1, <2>3, <2>4, <2>5 DEF Philos
    <3>2. sup' = "setEnd" /\ UNCHANGED <<mealLock, dead>>
      BY <1>3, <2>5 DEF DetectEnd
    <3> QED BY <2>1, <2>2, <3>1, <3>2 DEF ScanInv, EatenEnough
  <2>6. CASE Enough # N /\ overdue[scan.i]
    <3>1. sup' = "setEnd" /\ dead' = scan.i /\ UNCHANGED mealLock
      BY <1>3, <2>6 DEF DetectEnd
    <3> QED BY <2>1, <2>2, <3>1 DEF ScanInv
  <2>7. CASE Enough # N /\ ~overdue[scan.i] /\ scan.i + 1 < N
    <3>1. UNCHANGED <<sup, mealLock, dead>>
      <4>1. scan.i + 1 # N
        BY <2>1, <2>7
      <4> QED BY <1>3, <2>7, <4>1 DEF DetectEnd
    <3>2. Enough = scan.i + 1 => \A q \in Philos : q < scan.i + 1 => EatenEnough(q)
      BY <2>4
    <3> QED BY <2>1, <2>2, <2>3, <3>1, <3>2 DEF ScanInv, EatenEnough
  <2>8. CASE Enough # N /\ ~overdue[scan.i] /\ scan.i + 1 = N
    <3>1. sup' = "lock" /\ ~mealLock' /\ UNCHANGED dead
      BY <1>3, <2>8 DEF DetectEnd
    <3> QED BY <2>1, <2>2, <3>1 DEF ScanInv
  <2> QED BY <1>3, <2>5, <2>6, <2>7, <2>8 DEF DetectEnd
<1>4. CASE SetEnd
  BY <1>4 DEF ScanInv, SetEnd, EatenEnough
<1>5. CASE ReleaseMeals
  BY <1>5 DEF ScanInv, ReleaseMeals, EatenEnough
<1>6. CASE CreateSupervisor
  BY <1>6 DEF ScanInv, CreateSupervisor, EatenEnough
<1>7. CASE UNCHANGED <<meals, sup, scan, mealLock, end, dead>> /\ (main' = "start" => main = "start")
  BY <1>7 DEF ScanInv, EatenEnough
<1> QED
  BY <1>1, <1>2, <1>3, <1>4, <1>5, <1>6, <1>7
  DEF Next, SupStep, MainStep, CreatePhilo, JoinAndDestroy, TimeToDiePasses, vars

\* A thread prints at most one line between two tests of the end flag, except
\* that its second fork is followed by its meal.
LEMMA LateOfNext ==
  ASSUME TypeOK, LateInv, ScanInv, JoinInv, [Next]_vars
  PROVE  LateInv'
<1> USE PhiloAssumption DEF Silent, OneLine
<1>1. ASSUME NEW p \in Philos, PhiloStep(p) PROVE LateInv'
  <2>1. CASE \/ LogAlone(p) \/ LogFirst(p) \/ LogSecond(p) \/ LogEating(p)
             \/ LogSleeping(p) \/ LogThinking(p)
    BY <2>1 DEF TypeOK, LateInv, LogAlone, LogFirst, LogSecond, LogEating,
                LogSleeping, LogThinking, Log, Goto, table
  <2>2. CASE \/ LoopTest(p) \/ SpinTest(p) \/ LeftTest(p) \/ RightTest(p)
             \/ AfterEatTest(p) \/ AwakeTest(p)
    BY <2>2 DEF TypeOK, LateInv, LoopTest, SpinTest, LeftTest, RightTest,
                AfterEatTest, AwakeTest, TestEnd, Goto, table
  <2>3. CASE \/ TakeLeft(p) \/ TakeRight(p) \/ GiveUpLeft(p) \/ GiveUpBoth(p)
             \/ GiveUpRight(p) \/ DropLeft(p) \/ DropRight(p)
    BY <2>3 DEF TypeOK, LateInv, TakeLeft, TakeRight, GiveUpLeft, GiveUpBoth,
                GiveUpRight, DropLeft, DropRight, LockFork, UnlockFork, Goto
  <2>4. CASE RecordMeal(p)
    BY <2>4 DEF TypeOK, LateInv, RecordMeal, Goto
  <2> QED BY <1>1, <2>1, <2>2, <2>3, <2>4 DEF PhiloStep
<1>2. CASE SupStep
  BY <1>2 DEF LateInv, SupStep, StartScan, DetectEnd, SetEnd, ReleaseMeals
<1>3. CASE MainStep
  BY <1>3 DEF TypeOK, LateInv, MainStep, CreateSupervisor, CreatePhilo,
              JoinAndDestroy, Goto
<1>4. ASSUME NEW p \in Philos, TimeToDiePasses(p) PROVE LateInv'
  BY <1>4 DEF LateInv, TimeToDiePasses
<1>5. CASE UNCHANGED vars
  BY <1>5 DEF LateInv, vars
<1> QED BY <1>1, <1>2, <1>3, <1>4, <1>5 DEF Next

\* No thread moves once main has joined them all.
LEMMA JoinOfNext ==
  ASSUME TypeOK, JoinInv, [Next]_vars
  PROVE  JoinInv'
<1>1. ASSUME NEW p \in Philos, PhiloStep(p) PROVE JoinInv'
  <2>1. pc[p] # "done" /\ main' = main
    BY <1>1
    DEF PhiloStep, LoopTest, SpinTest, LeftTest, RightTest, AfterEatTest, AwakeTest,
        LogAlone, LogFirst, LogSecond, LogEating, LogSleeping, LogThinking, TakeLeft,
        TakeRight, GiveUpLeft, GiveUpBoth, GiveUpRight, DropLeft, DropRight, TestEnd,
        Log, LockFork, UnlockFork, RecordMeal, Goto, table
  <2> QED BY <2>1 DEF JoinInv
<1>2. CASE SupStep
  BY <1>2 DEF JoinInv, SupStep, StartScan, DetectEnd, SetEnd, ReleaseMeals
<1>3. CASE MainStep
  BY <1>3 DEF JoinInv, MainStep, CreateSupervisor, CreatePhilo, JoinAndDestroy
<1>4. ASSUME NEW p \in Philos, TimeToDiePasses(p) PROVE JoinInv'
  BY <1>4 DEF JoinInv, TimeToDiePasses
<1>5. CASE UNCHANGED vars
  BY <1>5 DEF JoinInv, vars
<1> QED BY <1>1, <1>2, <1>3, <1>4, <1>5 DEF Next

\* What the supervisor found stays true until it lets go of meal_mutex.
LEMMA VerdictOfNext ==
  ASSUME TypeOK, ScanInv, VerdictNotStale, [Next]_vars
  PROVE  VerdictNotStale'
<1> USE PhiloAssumption DEF Nobody
<1>1. ASSUME NEW p \in Philos, RecordMeal(p) PROVE VerdictNotStale'
  <2>1. sup' = sup /\ sup \notin {"setEnd", "unlock"}
    BY <1>1 DEF RecordMeal, ScanInv
  <2> QED BY <2>1 DEF VerdictNotStale
<1>2. CASE DetectEnd
  <2>1. ASSUME Enough = N PROVE VerdictNotStale'
    <3>1. sup' = "setEnd" /\ dead' = Nobody
      BY <1>2, <2>1 DEF DetectEnd, ScanInv
    <3>2. \A q \in Philos : EatenEnough(q)'
      BY <1>2, <3>1, ScanOfNext DEF ScanInv
    <3> QED BY <3>1, <3>2 DEF VerdictNotStale
  <2>2. ASSUME Enough # N, overdue[scan.i] PROVE VerdictNotStale'
    <3>1. dead' = scan.i /\ overdue' = overdue
      BY <1>2, <2>2 DEF DetectEnd
    <3>2. dead' # Nobody
      BY <1>2, <3>1 DEF DetectEnd, TypeOK
    <3> QED BY <2>2, <3>1, <3>2 DEF VerdictNotStale
  <2>3. ASSUME Enough # N, ~overdue[scan.i] PROVE VerdictNotStale'
    <3>1. sup' \in {"scan", "lock"}
      BY <1>2, <2>3 DEF DetectEnd
    <3> QED BY <3>1 DEF VerdictNotStale
  <2> QED BY <2>1, <2>2, <2>3
<1>3. ASSUME NEW p \in Philos, TimeToDiePasses(p) PROVE VerdictNotStale'
  <2>1. /\ UNCHANGED <<sup, dead, meals>>
        /\ \A q \in Philos : overdue[q] => overdue'[q]
    BY <1>3, Zenon DEF TimeToDiePasses, TypeOK
  <2> QED BY <2>1 DEF VerdictNotStale, EatenEnough, TypeOK
<1>4. CASE StartScan \/ CreateSupervisor
  BY <1>4 DEF VerdictNotStale, StartScan, CreateSupervisor
<1>5. CASE SetEnd \/ ReleaseMeals
  BY <1>5 DEF VerdictNotStale, SetEnd, ReleaseMeals, EatenEnough
<1>6. CASE UNCHANGED <<meals, overdue, sup, dead>>
  BY <1>6 DEF VerdictNotStale, EatenEnough
<1> QED
  BY <1>1, <1>2, <1>3, <1>4, <1>5, <1>6
  DEF Next, PhiloStep, LoopTest, SpinTest, LeftTest, RightTest, AfterEatTest,
      AwakeTest, LogAlone, LogFirst, LogSecond, LogEating, LogSleeping, LogThinking,
      TakeLeft, TakeRight, GiveUpLeft, GiveUpBoth, GiveUpRight, DropLeft, DropRight,
      TestEnd, Log, LockFork, UnlockFork, table, SupStep, MainStep, CreatePhilo,
      JoinAndDestroy, vars

-----------------------------------------------------------------------------

IInv == TypeOK /\ ForksInv /\ ScanInv /\ VerdictNotStale /\ LateInv /\ JoinInv

\* The invariant holds in every reachable state.
LEMMA Inductive == Spec => []IInv
<1>1. Init => IInv
  <2> SUFFICES ASSUME Init PROVE IInv
    OBVIOUS
  <2> USE PhiloAssumption DEF Init
  <2>1. TypeOK
    <3>1. overdue \in [Philos -> BOOLEAN]
      BY Zenon
    <3>2. scan \in [i : 0 .. N, enough : 0 .. N] /\ meals \in [Philos -> 0 .. MealCap]
      OBVIOUS
    <3> QED BY <3>1, <3>2 DEF TypeOK, PhiloPC, SupPC, MainPC
  <2>2. ForksInv
    BY DEF ForksInv, LeftHeld, RightHeld, HeldByUser, AloneHoldsNone, HasLeft,
           HasRight, Philos, Nobody
  <2>3. ScanInv /\ VerdictNotStale /\ LateInv /\ JoinInv
    BY DEF ScanInv, VerdictNotStale, LateInv, JoinInv
  <2> QED BY <2>1, <2>2, <2>3 DEF IInv
<1>2. IInv /\ [Next]_vars => IInv'
  BY TypeOfNext, ForksOfNext, ScanOfNext, VerdictOfNext, LateOfNext,
     JoinOfNext DEF IInv
<1> QED BY <1>1, <1>2, PTL DEF Spec

\* Every variable keeps its type; the supervisor's index stays inside the table.
THEOREM TypeCorrect == Spec => []TypeOK
BY Inductive, PTL DEF IInv

\* However many philosophers sit at the table, two neighbours never eat at the
\* same time: take_forks locks both forks, and a fork has one holder.
THEOREM MutualExclusion == Spec => []NeighboursNeverEatTogether
<1>1. IInv => NeighboursNeverEatTogether
  <2> SUFFICES ASSUME IInv, NEW p \in Philos, Right(p) # p,
                      pc[p] \in Eating, pc[Right(p)] \in Eating
               PROVE  FALSE
    BY DEF NeighboursNeverEatTogether
  <2>1. holder[Right(p)] = p
    BY DEF IInv, ForksInv, RightHeld, HasRight, Eating
  <2>2. Right(p) \in Philos /\ Left(Right(p)) = Right(p)
    BY ForksAroundTheTable DEF Left
  <2>3. holder[Right(p)] = Right(p)
    BY <2>2 DEF IInv, ForksInv, LeftHeld, HasLeft, Eating
  <2> QED BY <2>1, <2>3
<1> QED BY <1>1, Inductive, PTL

\* What the end flag publishes is still true when it is published: the whole scan
\* and the flag are under meal_mutex, and so is every recorded meal.
THEOREM VerdictHolds == Spec => []VerdictNotStale
BY Inductive, PTL DEF IInv

\* The simulation never ends without a death or without everybody having eaten
\* enough, however the scans and the meals interleave.
THEOREM EndIsJustified == Spec => []EndJustified
<1>1. IInv => EndJustified
  BY DEF IInv, ScanInv, EndJustified
<1> QED BY <1>1, Inductive, PTL

\* After the end flag is set no philosopher prints more than two lines.
THEOREM LinesAfterEnd == Spec => []AtMostTwoLinesAfterEnd
<1>1. IInv => AtMostTwoLinesAfterEnd
  BY DEF IInv, LateInv, AtMostTwoLinesAfterEnd
<1> QED BY <1>1, Inductive, PTL

\* destroy_free runs when every fork and meal_mutex are free.
THEOREM DestroyedUnlocked == Spec => []NothingLockedAtDestroy
<1>1. IInv => NothingLockedAtDestroy
  <2> SUFFICES ASSUME IInv, main = "done"
               PROVE  ~mealLock /\ \A f \in Philos : holder[f] = Nobody
    BY DEF NothingLockedAtDestroy
  <2>1. sup = "done" /\ \A p \in Philos : pc[p] = "done"
    BY DEF IInv, JoinInv
  <2>2. ~mealLock
    BY <2>1 DEF IInv, ScanInv
  <2>3. ASSUME NEW f \in Philos PROVE holder[f] = Nobody
    <3>1. \A p \in Philos : holder[f] # p
      BY <2>1 DEF IInv, ForksInv, HeldByUser, HasLeft, HasRight
    <3> QED BY <3>1 DEF IInv, TypeOK
  <2> QED BY <2>2, <2>3
<1> QED BY <1>1, Inductive, PTL

\* Only the cycle around the table blocks the philosophers: a fork is held by
\* one of its two neighbours, and each of those waits for the next (take_forks).
THEOREM CircleIsTheOnlyWait == Spec => []OnlyTheCircleBlocks
<1>1. IInv => OnlyTheCircleBlocks
  <2> SUFFICES ASSUME IInv,
                      \A p \in Philos : pc[p] \notin {"unborn", "done"} => Blocked(p),
                      \A p \in Philos : pc[p] # "unborn",
                      \E p \in Philos : pc[p] # "done"
               PROVE  CircularWait
    BY DEF OnlyTheCircleBlocks
  <2> USE PhiloAssumption
  <2> DEFINE Waiting == { p \in Philos : pc[p] = "right" }
  <2>1. \A p \in Philos : pc[p] \in {"left", "right", "done"}
    BY DEF Blocked
  \* Nobody waits for its left fork: who held it would not be waiting
  <2>2. ASSUME NEW p \in Philos, pc[p] = "left"
        PROVE  FALSE
    <3>1. holder[p] # Nobody
      BY <2>2 DEF Blocked, Left
    <3>2. PICK q \in Philos : holder[p] = q
      BY <3>1 DEF IInv, TypeOK
    <3>3. pc[q] \in HasRight \/ (p = Left(q) /\ pc[q] \in HasLeft)
      BY <3>2 DEF IInv, ForksInv, HeldByUser
    <3> QED
      BY <2>1, <2>2, <3>3 DEF HasLeft, HasRight, Left
  \* Whoever waits for its right fork waits for a neighbour that waits too
  <2>3. ASSUME NEW p \in Waiting
        PROVE  Right(p) \in Waiting
    <3>1. Right(p) \in Philos /\ holder[Right(p)] # Nobody
      BY ForksAroundTheTable DEF Blocked
    <3>2. PICK q \in Philos : holder[Right(p)] = q
      BY <3>1 DEF IInv, TypeOK
    <3>3. pc[q] \in HasRight \/ (Right(p) = Left(q) /\ pc[q] \in HasLeft)
      BY <3>1, <3>2 DEF IInv, ForksInv, HeldByUser
    <3>4. Right(p) = q /\ pc[q] \in HasLeft
      BY <2>1, <3>3 DEF HasRight, Left
    <3> QED
      BY <2>1, <3>4 DEF HasLeft
  <2>4. Waiting # {}
    BY <2>1, <2>2
  \* So the last of them is at the end of the table, and the first at its start
  <2>5. N - 1 \in Waiting
    <3>1. Waiting \subseteq 0 .. N - 1 /\ N - 1 \in Nat
      BY DEF Philos
    <3>2. PICK m \in Waiting : \A n \in Waiting : n <= m
      <4> HIDE DEF Waiting
      <4> QED BY <2>4, <3>1, Greatest
    <3>3. m = N - 1 \/ Right(m) = m + 1
      BY DEF Right
    <3> QED
      BY <2>3, <3>1, <3>2, <3>3
  <2>6. 0 \in Waiting
    BY <2>3, <2>5 DEF Right
  <2>7. Philos \subseteq Waiting
    <3> SUFFICES ASSUME Philos \ Waiting # {}
                 PROVE  FALSE
      OBVIOUS
    <3> DEFINE Others == Philos \ Waiting
    <3>1. Others \subseteq Nat /\ Others # {}
      BY DEF Philos
    <3>2. PICK m \in Others : \A n \in Others : m <= n
      <4> HIDE DEF Others
      <4> QED BY <3>1, Least
    <3>3. m \in Philos /\ m # 0
      BY <2>6
    <3>4. m - 1 \in Philos /\ Right(m - 1) = m
      BY <3>3 DEF Philos, Right
    <3>5. m - 1 \in Waiting
      BY <3>2, <3>4 DEF Philos
    <3> QED
      BY <2>3, <3>4, <3>5
  <2> QED
    BY <2>7 DEF CircularWait, IInv, ForksInv, LeftHeld, HasLeft, Left
<1> QED BY <1>1, Inductive, PTL

=============================================================================
