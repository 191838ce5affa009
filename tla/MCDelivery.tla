----------------------------- MODULE MCDelivery -----------------------------
(***************************************************************************)
(* The instances TLC checks of what carries an answer to whoever waits for  *)
(* it: the notices of scheduled runs (Notices, which this module extends),  *)
(* the turns of the http gateway and the relay that runs a process for the  *)
(* engine.  A behaviour is one part's; the variables of the others stay as  *)
(* they began.                                                              *)
(***************************************************************************)
EXTENDS Notices, TLC

CONSTANTS r1, r2, r3, None, Sessions, MaxLines

VARIABLE part
VARIABLES post, turn, journal, active, byMessage, served, card, click, follower, draining
VARIABLES engine, link, toHost, toEngine, host, process, pipe, wrote, scratch

(* A request and its retry, a turn the engine begins, two questions and one *)
(* click, two message ids remembered.                                       *)
H == INSTANCE HttpHub WITH
       Posts <- {"a1", "a2"}, MsgOf <- [p \in {"a1", "a2"} |-> "m1"], Slow <- {"a1"}, Engine <- {"e1"},
       ConvOf <- [m \in {"m1", "e1"} |-> "k1"], Turns <- {"t1", "t2"}, Cards <- {"c1", "c2"},
       Blocks <- {"c1", "c2"}, Clicks <- {"x1"}, Remembered <- 2, MaxEvents <- 2

(* A session whose process writes two lines (or two sessions and one line). *)
R == INSTANCE Relay

http == <<post, turn, journal, active, byMessage, served, card, click, follower, draining>>
relay == <<engine, link, toHost, toEngine, host, process, pipe, wrote, scratch>>
all == <<part, vars, http, relay>>

DeliveryInit == part \in {"notices", "http", "relay"} /\ Init /\ H!HInit /\ R!RelayInit

DeliveryNext ==
    \/ part = "notices" /\ Next /\ UNCHANGED <<part, http, relay>>
    \/ part = "http" /\ H!HNext /\ UNCHANGED <<part, vars, relay>>
    \/ part = "relay" /\ R!RelayNext /\ UNCHANGED <<part, vars, http>>

(* The fairness of each part (its Fairness), in its own behaviours.         *)
DeliverySpec ==
    /\ DeliveryInit /\ [][DeliveryNext]_all
    /\ \A p \in Passes : WF_vars(part = "notices" /\ (PassReads(p) \/ AnnounceFails(p) \/ Marks(p)))
    /\ \A r \in Runs \ (Silent \cup Deaf) :
         SF_vars(part = "notices" /\ pass[Ticker] # <<>> /\ Head(pass[Ticker]) = r /\ Announces(Ticker))
    /\ \A t \in {"t1", "t2"} : WF_http(part = "http" /\ H!FlowEnds(t))
    /\ \A k \in {"c1", "c2"} : WF_http(part = "http" /\ H!GivesUp(k))
    /\ WF_http(part = "http" /\ H!Poll)
    /\ \A s \in Sessions : /\ WF_relay(part = "relay" /\ R!HostStep(s))
                           /\ WF_relay(part = "relay" /\ R!EngineStep(s))

-----------------------------------------------------------------------------
(* What each part promises, of the properties its module states.            *)

(* A failure of a task is told to its owner, sooner or later, and marked as *)
(* told only when it was (scheduler/service.py _deliver_notices).          *)
FailuresAreTold == [](TypeOK /\ MarkedWasSaid) /\ EveryFailureIsTold

(* A turn over http is what its client is told: a retry is answered with    *)
(* the turn its first try began, a turn waits for input exactly while a     *)
(* question of it is open, its journal ends with it and whoever follows it  *)
(* reads that end, and a draining hub that is idle stays so (http/hub.py    *)
(* _post_message, drain, turns.py begin, finish, journal.py read).          *)
HttpTurnsAreTrue ==
    /\ [](H!HTypeOK /\ H!RetryIsTheSameTurn /\ H!StatusTellsQuestions /\ H!NothingAfterTheEnd)
    /\ H!IdleIsFinal
    /\ H!FollowerReadsTheEnd

(* The relay passes a process on: its lines after ready and before its      *)
(* exit, all of them up to one too long to be read; and a session that is   *)
(* being served when its engine goes leaves neither process nor scratch     *)
(* directory (runtime-relay server.py _serve, _pump_stdout).                *)
RelaysWhole ==
    /\ [](R!RelayTypeOK /\ R!LinesBeforeExit /\ R!NothingBeforeReady)
    /\ R!ServedIsCleanedUp

-----------------------------------------------------------------------------
(* What the code does not keep; the README says where TLC shows it.         *)

(* A relay handler that is over leaves no process (server.py _serve).       *)
NoOrphanBehindSocket == R!NoOrphanBehindSocket

(* The relay says exit of a process that ended (server.py _serve).          *)
ExitMeansEnded == R!ExitMeansEnded

(* One process writes a conversation's memory at a time (hosts/remote.py).  *)
OneProcessPerMemory == R!OneProcessPerMemory
=============================================================================
