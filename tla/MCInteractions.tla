--------------------------- MODULE MCInteractions ---------------------------
(***************************************************************************)
(* The instances TLC checks of the parts where a person answers the engine  *)
(* or lets it act: the tool gate, the websocket gateway, the widgets and    *)
(* forms, whose modules this one extends, and the session a turn runs in.   *)
(* A behaviour is one part's: which one is chosen by the initial state, and *)
(* the variables of the others stay as they began.                          *)
(***************************************************************************)
EXTENDS ToolGate, WsHub, Widgets, TLC

VARIABLE part
VARIABLES clock, closed, poisoned, turn, turnFuture, prompting, canceller, ending, reader, wait, holds, proc, pipe,
          asks, quiet, hush, verdict

(* Two prompts of a session, one after the other; *)
P == INSTANCE PiSession WITH
       Prompts <- 2, Big <- {}, Tools <- {}, Timeout <- 2, IdleTimeout <- 1, WrapUpAfter <- 1, TokensPerTurn <- 1,
       UiTimeout <- 1, Bridged <- FALSE, MaxAsks <- 0, MaxPipe <- 1, MaxTokens <- 1, Horizon <- 2, None <- Nobody,
       now <- clock, future <- turnFuture, call <- prompting, closing <- ending

(* one during which people are asked twice.                                 *)
A == INSTANCE PiSession WITH
       Prompts <- 1, Big <- {}, Tools <- {"c1"}, Timeout <- 1, IdleTimeout <- 0, WrapUpAfter <- 0, TokensPerTurn <- 0,
       UiTimeout <- 1, Bridged <- TRUE, MaxAsks <- 2, MaxPipe <- 1, MaxTokens <- 0, Horizon <- 3, None <- Nobody,
       now <- clock, future <- turnFuture, call <- prompting, closing <- ending

(* Two calls on two replicas, a conversation shown in two gateways and one  *)
(* shown nowhere.                                                           *)
MCHostOf == "c1" :> "r1" @@ "c2" :> "r2"
MCAskerOf == "k1" :> "p1" @@ "k2" :> "p2"
MCShownIn == "k1" :> {"g1", "g2"} @@ "k2" :> {}

(* A question (with a widget, two forms of which the application answers    *)
(* one, two dialogs).                                                       *)
MCConvOfQ == "q1" :> "k1"

session == <<clock, closed, poisoned, turn, turnFuture, prompting, canceller, ending, reader, wait, holds, proc, pipe,
             asks, quiet, hush, verdict>>
allVars == <<part, session, gateVars, wVars, wsVars>>

AllInit ==
    /\ part \in {"prompts", "asks", "gate", "widgets", "ws"}
    /\ IF part = "prompts" THEN P!Init ELSE A!Init
    /\ Init /\ WidgetsInit /\ WsInit

AllNext ==
    \/ part = "prompts" /\ P!Next /\ UNCHANGED <<part, gateVars, wVars, wsVars>>
    \/ part = "asks" /\ A!Next /\ UNCHANGED <<part, gateVars, wVars, wsVars>>
    \/ part = "gate" /\ Next /\ UNCHANGED <<part, session, wVars, wsVars>>
    \/ part = "widgets" /\ WidgetsNext /\ UNCHANGED <<part, session, gateVars, wsVars>>
    \/ part = "ws" /\ WsNext /\ UNCHANGED <<part, session, gateVars, wVars>>

AllSpec == AllInit /\ [][AllNext]_allVars

-----------------------------------------------------------------------------
(* What each part promises, of the properties its module states; what the  *)
(* gate, the hub and the widgets promise, CallsRunOnAnswers, FramesAreKept  *)
(* and WidgetsAnswerOnce, their modules state.                              *)

(* What a prompt returns is of its own run: an answer was made of its own   *)
(* events, and a timeout never counts the time people took (session.py      *)
(* _await_turn, human_wait).                                                *)
PromptsAreTrue ==
    IF part = "prompts" THEN P!TypeOK /\ P!AnsweredByOwnRun
                        ELSE A!TypeOK /\ A!AnsweredByOwnRun /\ A!TimeoutExcludesHumans
=============================================================================
