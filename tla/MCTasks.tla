------------------------------- MODULE MCTasks -------------------------------
(***************************************************************************)
(* The instances TLC checks of tasks on either store, whose modules this    *)
(* one extends: two engines on one sqlite database (Scheduler) and two on   *)
(* one Mongo database (MongoTasks).  A behaviour is one part's; the         *)
(* variables of the other stay as they began.                               *)
(***************************************************************************)
EXTENDS Scheduler, MongoTasks, TLC

CONSTANTS Parts,        \* the instances a configuration checks
          r, o, w, e1, e2, e3

(* r is a recurring task, o a one-shot, w a watch.                          *)
MCPeriod == [t \in Tasks |-> (r :> 2 @@ o :> 0 @@ w :> 2)[t]]
MCAt == [t \in Tasks |-> (r :> 0 @@ o :> 1 @@ w :> 0)[t]]
MCGrace == [t \in Tasks |-> (r :> 1 @@ o :> 3 @@ w :> 1)[t]]
MCExpires == [t \in Tasks |-> (r :> 0 @@ o :> 0 @@ w :> 4)[t]]
NoJitter == [t \in Tasks |-> 0]
Smeared == [t \in Tasks |-> IF t = r THEN 2 ELSE 0]

(* A period of six ticks, a smear of two, and time to catch up. *)
Slow == [t \in Tasks |-> 6]
Generous == [t \in Tasks |-> 3]

(* A start is a start. *)
AnyStart == Permutations(Engines)

VARIABLE part

all == <<part, vars, mVars>>

TasksInit == part \in Parts /\ Init /\ MongoInit

TasksNext ==
    \/ part = "sqlite" /\ Next /\ UNCHANGED <<part, mVars>>
    \/ part = "mongo" /\ MongoNext /\ UNCHANGED <<part, vars>>

TasksSpec == TasksInit /\ [][TasksNext]_all

(* With the scheduler's fairness, for configurations of the sqlite part.    *)
FairTasksSpec == TasksSpec /\ Fairness

-----------------------------------------------------------------------------
(* What each part promises, of the properties its module states: the sqlite *)
(* part Scheduler's DecidedOnce, the Mongo part MongoDecidesOnce.           *)

(* A watch fires once and a run gets a verdict (service.py _tick_watch,    *)
(* _execute).                                                               *)
WatchIsSettled == [](NothingFiresTwice /\ RunningHasOneRow /\ WatchFiresOnce) /\ EveryRunGetsAVerdict

=============================================================================
