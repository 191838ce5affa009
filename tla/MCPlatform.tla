----------------------------- MODULE MCPlatform -----------------------------
(***************************************************************************)
(* The instances TLC checks of what happens to a message: an agent's turns  *)
(* (AgentFlow) and what a memory that was away is told (CatchUp), whose     *)
(* modules this one extends, who is answered in a channel, who is admitted  *)
(* and with which tools, and the files that came with it.                   *)
(* A behaviour is one part's; the variables of the others stay as they      *)
(* began.                                                                   *)
(***************************************************************************)
EXTENDS AgentFlow, CatchUp, Sequences, TLC

CONSTANTS Parts,        \* the instances a configuration checks
          Toolset,      \* the tools by which an agent of the channel posts
          NoLookup,     \* whether its members' accounts cannot be looked up
          All,
          m1, m2, m3, m4, t1, t2, d, x

(* Two threads t1, t2 under messages of one direct message d, or one key x  *)
(* for both of them.                                                        *)
Thread == [m \in Msgs |-> (m1 :> t1 @@ m2 :> t2 @@ m3 :> t1 @@ m4 :> t1)[m]]
Joined == [m \in Msgs |-> x]
InDM == [m \in Msgs |-> {Thread[m], d}]

VARIABLE part
VARIABLES disk, record, msg, kept, remembered, sweep, hand, handed, lost, edits, sweeps
VARIABLES said, members, seen, cache, window, waiting, clock, moves, reactions, aloneAt, let
VARIABLES answer, withdrawn, asking, entry, process, ledger, day, changes, takings, told, spent

(* Three messages' files in a directory of two, one of them delivered       *)
(* again;                                                                   *)
F == INSTANCE Files WITH
       Messages <- {"f", "g", "h"}, FileOf <- "f" :> "f1" @@ "g" :> "f2" @@ "h" :> "f1", Again <- {"h"},
       Gate <- "c", Conv <- "c", Before <- <<"x", "y">>, Cap <- 2, Hands <- {}, MaxEdits <- 1, MaxSweeps <- 1,
       row <- kept, memory <- remembered

(* two, put away under another name than the conversation's, and a person   *)
(* who purges or deletes;                                                   *)
G == INSTANCE Files WITH
       Messages <- {"f", "g"}, FileOf <- "f" :> "f1" @@ "g" :> "f2", Again <- {},
       Gate <- "g", Conv <- "c", Before <- <<"x">>, Cap <- 0, Hands <- {"h"}, MaxEdits <- 1, MaxSweeps <- 1,
       row <- kept, memory <- remembered

(* and the same with a cap.                                                 *)
H == INSTANCE Files WITH
       Messages <- {"f", "g"}, FileOf <- "f" :> "f1" @@ "g" :> "f2", Again <- {},
       Gate <- "g", Conv <- "c", Before <- <<"x">>, Cap <- 1, Hands <- {"h"}, MaxEdits <- 1, MaxSweeps <- 1,
       row <- kept, memory <- remembered

Post(who, names) == [by |-> who, mentions |-> names]

(* Two agents that may answer each other; *)
K == INSTANCE Channel WITH
       Agents <- {"a", "b"}, Person <- "p", Bot <- "x", First <- {"a", "b"}, Stamps <- TRUE, Resident <- FALSE,
       Tools <- Toolset, LookupFails <- FALSE, FetchFails <- FALSE, MaxHops <- 2, MaxTurns <- 2, Window <- 1, Ttl <- 2,
       MaxPosts <- 5, MaxSaid <- 2, MaxMoves <- 0, MaxReactions <- 0, MaxNow <- 2,
       Says <- {Post("p", {"a", "b"})}, posts <- said, now <- clock

(* an agent that is alone in its channel, until another joins.              *)
R == INSTANCE Channel WITH
       Agents <- {"a", "b"}, Person <- "p", Bot <- "x", First <- {"a"}, Stamps <- TRUE, Resident <- TRUE,
       Tools <- {}, LookupFails <- NoLookup, FetchFails <- TRUE, MaxHops <- 2, MaxTurns <- 1, Window <- 1, Ttl <- 2,
       MaxPosts <- 2, MaxSaid <- 2, MaxMoves <- 1, MaxReactions <- 1, MaxNow <- 3,
       Says <- {Post("p", {}), Post("x", {"a"})}, posts <- said, now <- clock

Answered == {[tools |-> All, words |-> ""], [tools |-> {"x"}, words |-> "w"], [tools |-> {"y"}, words |-> "v"]}
Batch == "u" :> <<"a">> @@ "v" :> <<"b">> @@ "w" :> <<"a", "b">>
Where == "u" :> "c" @@ "v" :> "d" @@ "w" :> "c"

(* Three turns of two people in two conversations while the application     *)
(* changes its mind;                                                        *)
A == INSTANCE Admission WITH
       Tools <- {"x", "y"}, Answers <- Answered, Turns <- {"u", "v", "w"}, ConvOf <- Where, BatchOf <- Batch,
       PerDay <- 2, PerPerson <- 1, Quiet <- FALSE, MaxCost <- 1, MaxDay <- 1, MaxChanges <- 1, MaxMoves <- 0,
       turn <- asking, moves <- takings

(* two of them over midnight, with tools taken away and a platform that     *)
(* takes no notice.                                                         *)
B == INSTANCE Admission WITH
       Tools <- {"x", "y"}, Answers <- Answered, Turns <- {"u", "w"}, ConvOf <- Where, BatchOf <- Batch,
       PerDay <- 2, PerPerson <- 1, Quiet <- TRUE, MaxCost <- 1, MaxDay <- 2, MaxChanges <- 0, MaxMoves <- 1,
       turn <- asking, moves <- takings

files == <<disk, record, msg, kept, remembered, sweep, hand, handed, lost, edits, sweeps>>
channel == <<said, members, seen, cache, window, waiting, clock, moves, reactions, aloneAt, let>>
admission == <<answer, withdrawn, asking, entry, process, ledger, day, changes, takings, told, spent>>
all == <<part, vars, upVars, files, channel, admission>>

PlatformInit ==
    /\ part \in Parts
    /\ Init /\ UpInit
    /\ CASE part = "files" -> F!FilesInit [] part = "capped" -> H!FilesInit [] OTHER -> G!FilesInit
    /\ IF part = "alone" THEN R!ChannelInit ELSE K!ChannelInit
    /\ IF part = "midnight" THEN B!AdmissionInit ELSE A!AdmissionInit
    /\ part \notin {"admission", "midnight"} => \A who \in DOMAIN answer : answer[who].tools = All
    /\ part \notin {"files", "purges", "capped"} => kept = "none"

PlatformNext ==
    \/ part = "flow" /\ Next /\ UNCHANGED <<part, upVars, files, channel, admission>>
    \/ part = "catch up" /\ UpNext /\ UNCHANGED <<part, vars, files, channel, admission>>
    \/ part = "files" /\ F!FilesNext /\ UNCHANGED <<part, vars, upVars, channel, admission>>
    \/ part = "purges" /\ G!FilesNext /\ UNCHANGED <<part, vars, upVars, channel, admission>>
    \/ part = "capped" /\ H!FilesNext /\ UNCHANGED <<part, vars, upVars, channel, admission>>
    \/ part = "cascade" /\ K!ChannelNext /\ UNCHANGED <<part, vars, upVars, files, admission>>
    \/ part = "alone" /\ R!ChannelNext /\ UNCHANGED <<part, vars, upVars, files, admission>>
    \/ part = "admission" /\ A!AdmissionNext /\ UNCHANGED <<part, vars, upVars, files, channel>>
    \/ part = "midnight" /\ B!AdmissionNext /\ UNCHANGED <<part, vars, upVars, files, channel>>

PlatformSpec == PlatformInit /\ [][PlatformNext]_all

-----------------------------------------------------------------------------
(* What each part promises, of the properties its module states; those of   *)
(* the flow, TurnsAreAccounted and ToldOfTheLastOnly, are AgentFlow's own,  *)
(* and CaughtUp is CatchUp's.                                               *)

(* What a tool hands on as a person's file is what arrived, and a directory *)
(* stays within its cap but for the files of messages that were left out    *)
(* (attachments.py).                                                        *)
FilesAreKept ==
    /\ CASE part = "files" -> F!ReadIsWhatArrived [] part = "capped" -> H!ReadIsWhatArrived
         [] OTHER -> G!ReadIsWhatArrived
    /\ part = "files" => F!WithinCap

(* Agents in a channel stay in bounds: a person's post leads to so many     *)
(* hops, the turns of a conversation share one window, a post that names    *)
(* nobody is answered only where the agent was alone lately, a reaction or  *)
(* a stranger's bot starts nothing (loopguard.py, residency).               *)
ChannelStaysInBounds ==
    IF part = "alone"
      THEN R!CascadesEnd /\ R!RateIsGlobal /\ R!UnaddressedOnlyWhereAlone /\ R!NobodyElseIsAnswered
      ELSE K!CascadesEnd /\ K!RateIsGlobal

(* People answered together are admitted together: the turn has the tools   *)
(* all of them may use, nobody whose budget is spent has one, and everybody *)
(* refused is told (agent_flow.py _turn_profile, _first_not_admitted,       *)
(* budget.py admit).                                                        *)
AdmittedTogether ==
    IF part = "midnight" THEN B!JointlyEntitled /\ B!SpentMeansNoTurn /\ B!EachRefusedIsTold
                         ELSE A!JointlyEntitled /\ A!SpentMeansNoTurn /\ A!EachRefusedIsTold

-----------------------------------------------------------------------------
(* What the code does not keep; the README says where TLC shows it.         *)

(* A conversation's files stay within the cap (attachments.py).             *)
ConversationWithinCap == H!ConversationWithinCap

(* They stay within it where its messages save at once (attachments.py).    *)
CapKeptAtOnce == F!ConversationWithinCap

(* Every file that arrived has a line (attachments.py).                     *)
EveryFileHasALine == F!EveryFileHasALine

(* The files of a conversation in use stay (attachment_retention.py).       *)
LiveFilesStay == G!LiveFilesStay

(* Nothing is left of a deleted conversation (session_retention.py).        *)
NothingOrphaned == G!NothingOrphaned

(* An agent alone in its channel answers every post (residency).            *)
SoleAnswersEveryPost == R!SoleAnswersEveryPost

(* In a channel an agent must be named (residency).                         *)
MentionRequired == R!MentionRequired

(* A reaction belongs to the conversation a post does.                      *)
OneConversationRule == R!OneConversationRule

(* The ledger has what every turn cost (agent_flow.py _keep_usage).         *)
LedgerHasEveryTurn == A!LedgerHasEveryTurn

(* Everybody who was answered pays (agent_flow.py _keep_usage).             *)
EveryonePays == A!EveryonePays

(* What a process offers is what the server runs (tools/wiring.py).         *)
OffersWhatRuns == B!OffersWhatRuns
=============================================================================
