---------------------------- MODULE MCPhiloTables ----------------------------
(***************************************************************************)
(* Philo under fairness at three small tables, the three shapes of command *)
(* line the program distinguishes: one philosopher alone, two philosophers *)
(* with a number of meals to reach, two philosophers without one.          *)
(***************************************************************************)
EXTENDS Integers

VARIABLES arguments, pc, holder, meals, overdue, sup, scan, mealLock, end, dead,
          late, main

alone     == INSTANCE Philo WITH N <- 1, MustEat <- 1, MealCap <- 1
counted   == INSTANCE Philo WITH N <- 2, MustEat <- 2, MealCap <- 2
unlimited == INSTANCE Philo WITH N <- 2, MustEat <- -1, MealCap <- 1

mcvars == <<arguments, pc, holder, meals, overdue, sup, scan, mealLock, end,
            dead, late, main>>

MCInit ==
  \/ arguments = "alone" /\ alone!Init
  \/ arguments = "counted" /\ counted!Init
  \/ arguments = "unlimited" /\ unlimited!Init

MCNext ==
  /\ UNCHANGED arguments
  /\ \/ arguments = "alone" /\ alone!Next
     \/ arguments = "counted" /\ counted!Next
     \/ arguments = "unlimited" /\ unlimited!Next

PhiloStep(p) ==
  /\ UNCHANGED arguments
  /\ \/ arguments = "alone" /\ p \in alone!Philos /\ alone!PhiloStep(p)
     \/ arguments = "counted" /\ counted!PhiloStep(p)
     \/ arguments = "unlimited" /\ unlimited!PhiloStep(p)

SupStep ==
  /\ UNCHANGED arguments
  /\ \/ arguments = "alone" /\ alone!SupStep
     \/ arguments = "counted" /\ counted!SupStep
     \/ arguments = "unlimited" /\ unlimited!SupStep

MainStep ==
  /\ UNCHANGED arguments
  /\ \/ arguments = "alone" /\ alone!MainStep
     \/ arguments = "counted" /\ counted!MainStep
     \/ arguments = "unlimited" /\ unlimited!MainStep

\* Every thread keeps running when its next step stays possible.  A mutex that
\* is free only now and then may be denied for ever: no strong fairness is
\* assumed of pthread mutexes.
MCFairSpec ==
  /\ MCInit /\ [][MCNext]_mcvars
  /\ \A p \in 0 .. 1 : WF_mcvars(PhiloStep(p))
  /\ WF_mcvars(SupStep)
  /\ WF_mcvars(MainStep)

Overdue(p) == p \in DOMAIN overdue /\ overdue[p]

\* A philosopher that goes too long without a meal is noticed by the supervisor
\* (supervisor_routine, detect_end): it eats, or the simulation ends.
StarvationNoticed ==
  \A p \in 0 .. 1 : Overdue(p) ~> (end \/ ~Overdue(p))

\* Once the end flag is set the program returns from main (start_simulation
\* joins every thread), unless each philosopher sits on its left fork and waits
\* for the right one.  A philosopher alone always gets out.
EndLeadsToExit ==
  end ~> (main = "done" \/ (arguments # "alone" /\ counted!CircularWait))

=============================================================================
