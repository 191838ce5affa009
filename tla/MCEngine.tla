------------------------------ MODULE MCEngine ------------------------------
(***************************************************************************)
(* The instances TLC checks of what goes on in one engine around a turn,    *)
(* and between engines: the queue before a turn and the gateways that run   *)
(* under a lease (Coalescer and LeasedGateway, which this module extends),  *)
(* the trace of a turn's tools, the start and the stop of the process,      *)
(* tasks handed between agents, and conversations owned by one of several   *)
(* replicas.  A behaviour is one part's; the variables of the others stay   *)
(* as they began.                                                           *)
(***************************************************************************)
EXTENDS Coalescer, LeasedGateway, TLC

CONSTANTS Parts,     \* the instances a configuration checks
          c1, c2, s1, s2, s3, s4, i1, i2, i3, i4

(* Two conversations, and four submissions of which three are of one.       *)
MCConvOf == s1 :> c1 @@ s2 :> c1 @@ s3 :> c1 @@ s4 :> c2
MCIdOf == s1 :> i1 @@ s2 :> i2 @@ s3 :> i3 @@ s4 :> i4

(* The same, s2 being the platform's redelivery of the message s1 brought.  *)
MCRedelivered == s1 :> i1 @@ s2 :> i1 @@ s3 :> i3 @@ s4 :> i4

VARIABLE part
VARIABLES after, calls, remark, awaiting, dirty, closed, dead, redraws, drawing, message, ending, record, remarks,
          fails, crashes, clicks
VARIABLES main, up, turn, process, row, heart, beacon, late, terms, faults
VARIABLES entry, runner, asked, busyKeys, ended, answer, asker, awaited, stops, replica, told
VARIABLES hop, owner, beats, alive, processed, ranAt

(* A turn that leaves its button or nothing behind: two calls and a remark, *)
(* a draw that fails, a crash, two clicks.                                  *)
T == INSTANCE ToolTrace WITH
       Tools <- {"x"}, Afters <- {"button", "nothing"}, PageSize <- 1, MaxCalls <- 2, MaxRemarks <- 1,
       MaxFails <- 1, MaxCrashes <- 1, MaxClicks <- 2, task <- redraws

(* A process with a turn of every kind, told to stop up to twice.           *)
P == INSTANCE Lifecycle WITH
       Turns <- {"c1", "c2", "h", "s"},
       KindOf <- "c1" :> "chat" @@ "c2" :> "chat" @@ "h" :> "http" @@ "s" :> "task",
       MaxFaults <- 1, MaxTerms <- 2, lease <- beacon

(* One task and three turns of the asker's, over two starts of the engine:  *)
(* one process after the other,                                             *)
D == INSTANCE Delegation WITH
       Starts <- {"s1", "s2"}, Registry <- FALSE, Handed <- {"x1"}, KeyOf <- [t \in {"x1"} |-> "k1"], MaxAskerTurns <- 3,
       record <- entry, turn <- asked

(* or two replicas side by side, and two turns.                             *)
B == INSTANCE Delegation WITH
       Starts <- {"s1", "s2"}, Registry <- TRUE, Handed <- {"x1"}, KeyOf <- [t \in {"x1"} |-> "k1"], MaxAskerTurns <- 2,
       record <- entry, turn <- asked

(* Two batches of a conversation, one of them of a gateway that cannot pass *)
(* its messages on, two replicas, up to three hops.                         *)
R == INSTANCE Replicas WITH
       Replica <- {"r1", "r2"}, Batches <- {"m1", "m2"}, Pinned <- {"m2"}, MaxHops <- 3, NoOne <- Nobody

trace == <<after, calls, remark, awaiting, dirty, closed, dead, redraws, drawing, message, ending, record, remarks,
           fails, crashes, clicks>>
life == <<main, up, turn, process, row, heart, beacon, late, terms, faults>>
delegation == <<entry, runner, asked, busyKeys, ended, answer, asker, awaited, stops, replica, told>>
owners == <<hop, owner, beats, alive, processed, ranAt>>
all == <<part, vars, trace, life, delegation, lgVars, owners>>

EngineInit ==
    /\ part \in Parts
    /\ Init /\ T!TraceInit /\ P!LifeInit
    /\ LeaseInit /\ R!OwnersInit /\ (IF part = "side by side" THEN B!Init ELSE D!Init)
    /\ part # "trace" => after = "nothing"
    /\ part # "owner" => owner = Nobody

EngineNext ==
    \/ part = "queue" /\ Next /\ UNCHANGED <<part, trace, life, delegation, lgVars, owners>>
    \/ part = "trace" /\ T!TraceNext /\ UNCHANGED <<part, vars, life, delegation, lgVars, owners>>
    \/ part = "life" /\ P!LifeNext /\ UNCHANGED <<part, vars, trace, delegation, lgVars, owners>>
    \/ part = "one after another" /\ D!Next /\ UNCHANGED <<part, vars, trace, life, lgVars, owners>>
    \/ part = "side by side" /\ B!Next /\ UNCHANGED <<part, vars, trace, life, lgVars, owners>>
    \/ part = "lease" /\ LeaseNext /\ UNCHANGED <<part, vars, trace, life, delegation, owners>>
    \/ part = "owner" /\ R!OwnersNext /\ UNCHANGED <<part, vars, trace, life, delegation, lgVars>>

(* The fairness of the parts of one engine, in their own behaviours.  A     *)
(* part that is not on has nothing to do: its queue is empty, its turn made *)
(* no call, nobody told it to stop.                                         *)
EngineSpec ==
    /\ EngineInit /\ [][EngineNext]_all
    /\ Fairness
    /\ WF_trace(part = "trace" /\ (T!Redraws \/ T!Drawn \/ T!Wakes))
    /\ WF_life(part = "life" /\ P!Stops)

(* The fairness of the parts between engines.                               *)
ReplicasSpec ==
    /\ EngineInit /\ [][EngineNext]_all
    /\ \A t \in {"x1"} : /\ WF_delegation(part = "one after another" /\ D!Runs(t))
                         /\ WF_delegation(part = "side by side" /\ B!Runs(t))
    /\ \A r \in {"s1", "s2"} :
         /\ WF_delegation(part = "one after another" /\ D!Start(r))
         /\ WF_delegation(part = "one after another" /\ D!Recovers(r))
         /\ WF_delegation(part = "side by side" /\ B!Start(r))
         /\ WF_delegation(part = "side by side" /\ B!LeaseLapses(r))
         /\ WF_delegation(part = "side by side" /\ B!Recovers(r))
    /\ \A p \in Procs : WF_lgVars(part = "lease" /\ Works(p))
    /\ WF_lgVars(part = "lease" /\ Tick)
    /\ \A m \in {"m1", "m2"}, h \in 1..3 : WF_owners(part = "owner" /\ R!Works(m, h))

-----------------------------------------------------------------------------
(* What each part promises, of the properties its module states; that of    *)
(* the queue's order, QueueIsKept, is Coalescer's own, and that a gateway's *)
(* connection is one process's, OneConnection, LeasedGateway's.             *)

(* Whoever waits for a message's outcome hears one ending, of the batch the *)
(* message was in, and hears it (coalescer.py submit_tracked, _settle,      *)
(* _abandon).                                                               *)
WaitersHearOnce == OneEndingPerBatch /\ EndedFuturesStay /\ EveryWaiterAnswered

(* What is drawn of a turn's calls is true of it: nothing is drawn over the *)
(* reply, a button opens the calls of its turn, a call that waits for a     *)
(* person is unfinished, an opened row is on the page shown, and the screen *)
(* catches up with the turn (tooltrace.py).                                 *)
TraceIsTrue ==
    /\ [](T!ReplyStandsAlone /\ T!ButtonHasItsCalls /\ T!AwaitedRuns /\ T!OpenRowIsShown)
    /\ T!ScreenCatchesUp

(* A process told to stop ends, an http turn under way is let finish, and   *)
(* the chain of closings closes the rows it leaves (app.py run,             *)
(* http/hub.py drain).                                                      *)
StopsInOrder == [](part = "life" => P!RowsAreClosed) /\ P!StopEnds /\ P!LetFinish

(* A task another agent was given ends once, whoever ends it; its asker     *)
(* hears of it at most once, and not of one it ended itself; what the       *)
(* asker's turn waited for is in when it goes on; a trusted task goes with  *)
(* the turn that asked; and a lost one is ended by a recovery               *)
(* (delegation.py _run, _answer, await_answers, _watched, recover;          *)
(* delegations.py end_delegation).                                          *)
TasksEndOnce ==
    /\ [](part \in {"one after another", "side by side"} => D!ToldOnceIfAtAll)
    /\ [][(part \in {"one after another", "side by side"}) => D!StaysEnded]_all
    /\ D!AnswersAreIn /\ D!TrustedEndWithTheirTurn
    /\ D!LostTasksEnd

(* A leased gateway is taken over when its holder ends (leased.py run).     *)
SomebodyServes == part = "lease" => HolderIsFollowed

(* A batch makes one turn, no replica waits on a batch it has itself in     *)
(* hand, and every batch is done where it came in (flows/owned.py           *)
(* handle_batch).                                                           *)
BatchesRunOnce == [](R!OneTurnPerBatch /\ R!NeverSentBack) /\ R!EveryBatchEnds

-----------------------------------------------------------------------------
(* What the code does not keep; the README says where TLC shows it.         *)

(* The counter goes with its turn (tooltrace.py end).                       *)
CounterGoes == T!CounterGoes

(* A replica is known as alive before a turn reaches it (app.py run).       *)
AliveBeforeReached == P!AliveBeforeReached

(* A ready answer means the agents are up (http/hub.py, app.py run).        *)
ReadyMeansStarted == P!ReadyMeansStarted

(* One beat that failed is bridged (app.py heartbeat).                      *)
OneMissIsBridged == P!OneMissIsBridged

(* A clean stop hands over at once (app.py run).                            *)
CleanStopHandsOver == P!CleanStopHandsOver

(* A clean stop leaves no child process (app.py run).                       *)
NoChildLeft == P!NoChildLeft

(* A recovery ends lost tasks only (delegation.py recover).                 *)
LiveTasksAreLeft == B!LiveTasksAreLeft
=============================================================================
