-------------------------------- MODULE HttpHub --------------------------------
(***************************************************************************)
(* The http gateway (gateways/http): turns opened by posted messages or by  *)
(* the engine, their journals, the controls they put up, clicks on them,    *)
(* polls, and the drain before a shutdown.                                  *)
(*                                                                         *)
(* A request is a task: what it does between two awaits is one action.  The *)
(* flow behind the sink is its outcome, and that a message served before is *)
(* answered "duplicate" (AgentFlow).  Texts, files and captions are left    *)
(* out; callers are told apart by what they own (OwnerOf).                  *)
(***************************************************************************)
EXTENDS Naturals, Sequences, FiniteSets, SequencesExt

CONSTANTS
    Posts,          \* POST .../messages requests, retries among them
    MsgOf,          \* the client message id each carries
    Slow,           \* those with files: saving them is an await
    Engine,         \* messages the engine itself starts a turn with
    ConvOf,         \* the conversation of a message id
    Turns,          \* turn ids (uuid4)
    Cards,          \* posts with controls
    Blocks,         \* those that are questions; the others are cards drawn and left
    Clicks,         \* POST /turns/{turn}/actions requests
    Remembered,     \* how many message ids are remembered
    MaxEvents,      \* a bound: the length of a journal
    None

Msgs == {MsgOf[p] : p \in Posts} \cup Engine
Convs == {ConvOf[m] : m \in Msgs}

VARIABLES
    post,           \* per request: how far it is and what it was answered
    turn,           \* Turn: its message, status, controls, what blocks, whether it is still kept
    journal,        \* TurnJournal._events, by type
    active,         \* HttpTurns._active
    byMessage,      \* HttpTurns._by_message, oldest first
    served,         \* message ids the engine has processed
    card,           \* the question behind a control: nobody waits / waits / is answered
    click,          \* per click: its answer
    follower,       \* a client that follows a turn: the turn and its cursor
    draining        \* HttpHub._draining

hVars == <<post, turn, journal, active, byMessage, served, card, click, follower, draining>>

NoTurn == [msg |-> None, st |-> "none", status |-> "running", posted |-> {}, blocking |-> {}, kept |-> FALSE]

HInit ==
    /\ post = [p \in Posts |-> [pc |-> "none", told |-> None]]
    /\ turn = [t \in Turns |-> NoTurn]
    /\ journal = [t \in Turns |-> <<>>]
    /\ active = [v \in Convs |-> None]
    /\ byMessage = <<>> /\ served = {}
    /\ card = [k \in Cards |-> "none"]
    /\ click = [c \in Clicks |-> "none"]
    /\ follower = [at |-> None, cursor |-> 0]
    /\ draining = FALSE

-----------------------------------------------------------------------------
(* HttpTurns *)

(* Bug: a message is remembered only while its turn runs. *)
KnownRunning(m) == LET t == active[ConvOf[m]] IN IF t # None /\ turn[t].msg = m THEN t ELSE None

(* known: the turn this message started, if it is still remembered and kept. *)
Known(m) ==
    LET hits == {i \in DOMAIN byMessage : byMessage[i][1] = m /\ turn[byMessage[i][2]].kept} IN
    IF hits = {} THEN None ELSE byMessage[CHOOSE i \in hits : TRUE][2]

Remember(m, t) ==
    LET all == Append(SelectSeq(byMessage, LAMBDA e : e[1] # m), <<m, t>>) IN
    IF Len(all) > Remembered THEN Tail(all) ELSE all

Fresh == CHOOSE t \in Turns : turn[t].st = "none"
Left == \E t \in Turns : turn[t].st = "none"

(* start, for a message not known in a conversation with no turn: the turn  *)
(* and its first event.                                                     *)
Opened(m, t) ==
    /\ Left
    /\ turn' = [turn EXCEPT ![t] = [NoTurn EXCEPT !.msg = m, !.st = "running", !.kept = TRUE]]
    /\ journal' = [journal EXCEPT ![t] = <<"started">>]
    /\ active' = [active EXCEPT ![ConvOf[m]] = t]
    /\ byMessage' = Remember(m, t)

(* finish: no control of the turn is live any more, its last event, and the *)
(* conversation is free.  Done or failed is not told apart; abandon is the  *)
(* same.                                                                    *)
Finish(t) ==
    /\ turn' = [turn EXCEPT ![t].st = "finished", ![t].posted = {}, ![t].blocking = {}, ![t].status = "ended"]
    /\ journal' = [journal EXCEPT ![t] = Append(@, "finished")]
    /\ active' = [v \in Convs |-> IF active[v] = t THEN None ELSE active[v]]

(* sweep: finished turns past their retention are forgotten. *)
Sweep(t) ==
    /\ turn[t].st = "finished" /\ turn[t].kept /\ follower.at # t
    /\ turn' = [turn EXCEPT ![t].kept = FALSE]
    /\ UNCHANGED <<post, journal, active, byMessage, served, card, click, follower, draining>>

-----------------------------------------------------------------------------
(* POST .../messages *)

Answer(p, pc, told) == post' = [post EXCEPT ![p] = [pc |-> pc, told |-> told]]
Refused(m) == draining /\ Known(m) = None

(* Up to the only await: draining refuses a new message, another message's  *)
(* turn in the conversation refuses this one.                               *)
Received(p) ==
    LET m == MsgOf[p]
        running == active[ConvOf[m]] IN
    /\ post[p].pc = "none"
    /\ IF Refused(m) THEN Answer(p, "draining", None)
       ELSE IF running # None /\ turn[running].msg # m THEN Answer(p, "busy", running)
       ELSE Answer(p, IF p \in Slow THEN "saving" ELSE "saved", None)
    /\ UNCHANGED <<turn, journal, active, byMessage, served, card, click, follower, draining>>

Saved(p) ==
    /\ post[p].pc = "saving"
    /\ Answer(p, "saved", None)
    /\ UNCHANGED <<turn, journal, active, byMessage, served, card, click, follower, draining>>

(* Past it, in one step: the drain is looked at again, then the message is  *)
(* a retry, meets a turn that won the race, or opens a turn and is handed   *)
(* to the sink.                                                             *)
Accepted(p) ==
    LET m == MsgOf[p]
        t == Fresh
        running == active[ConvOf[m]] IN
    /\ post[p].pc = "saved"
    /\ \/ Refused(m) /\ Answer(p, "draining", None) /\ UNCHANGED <<turn, journal, active, byMessage>>
       \/ Known(m) # None /\ Answer(p, "same", Known(m)) /\ UNCHANGED <<turn, journal, active, byMessage>>
       \/ /\ ~Refused(m) /\ Known(m) = None /\ running # None
          /\ Answer(p, "busy", running) /\ UNCHANGED <<turn, journal, active, byMessage>>
       \/ /\ ~Refused(m) /\ Known(m) = None /\ running = None
          /\ Opened(m, t) /\ Answer(p, "accepted", t)
    /\ UNCHANGED <<served, card, click, follower, draining>>

(* run_turn: a turn the engine starts; a busy conversation or a draining    *)
(* engine is an error to whoever asked.                                     *)
RunTurn(m) ==
    /\ m \in Engine /\ ~draining /\ Known(m) = None /\ active[ConvOf[m]] = None
    /\ m \notin served
    /\ Opened(m, Fresh)
    /\ UNCHANGED <<post, served, card, click, follower, draining>>

-----------------------------------------------------------------------------
(* The flow, through the agent's HttpChatClient.  It writes to the turn     *)
(* that runs in the conversation; with none, what it says is dropped.       *)

Emit(t, event) == journal' = [journal EXCEPT ![t] = Append(@, event)]
Waits(u, t) == [u EXCEPT ![t].status = IF u[t].blocking # {} THEN "awaiting_input" ELSE "running"]

Says(t) ==
    /\ turn[t].st = "running" /\ Len(journal[t]) < MaxEvents
    /\ Emit(t, "message")
    /\ UNCHANGED <<post, turn, active, byMessage, served, card, click, follower, draining>>

(* post_actions, post_confirmation, post_cards: a question blocks the turn. *)
Asks(t, k) ==
    /\ turn[t].st = "running" /\ card[k] = "none" /\ Len(journal[t]) < MaxEvents
    /\ turn[t].msg \notin served
    /\ card' = [card EXCEPT ![k] = IF k \in Blocks THEN "waiting" ELSE "drawn"]
    /\ turn' = IF k \in Blocks
                 THEN Waits([turn EXCEPT ![t].posted = @ \cup {k}, ![t].blocking = @ \cup {k}], t)
                 ELSE [turn EXCEPT ![t].posted = @ \cup {k}]
    /\ Emit(t, "actions")
    /\ UNCHANGED <<post, active, byMessage, served, click, follower, draining>>

(* The controls of one post are gone: retract, delete_post and _retire. *)
Without(u, t, k) ==
    LET v == [u EXCEPT ![t].posted = @ \ {k}, ![t].blocking = @ \ {k}] IN
    IF u[t].st = "running" THEN Waits(v, t) ELSE v

(* The asker has its answer, or waits no longer, and takes the card down.   *)
TakesDown(t, k) ==
    /\ k \in turn[t].posted /\ card[k] \in {"waiting", "answered"}
    /\ card' = [card EXCEPT ![k] = "over"]
    /\ turn' = Without(turn, t, k)
    /\ Emit(t, "retired")
    /\ UNCHANGED <<post, active, byMessage, served, click, follower, draining>>

(* The wait on a question ends without an answer; its card is rewritten     *)
(* after that.                                                              *)
GivesUp(k) ==
    /\ card[k] = "waiting"
    /\ card' = [card EXCEPT ![k] = "over"]
    /\ UNCHANGED <<post, turn, journal, active, byMessage, served, click, follower, draining>>

(* The flow is through with the turn's message; _settle tells.  A message   *)
(* the engine answered before is a duplicate.                               *)
FlowEnds(t) ==
    /\ turn[t].st = "running" /\ \A k \in turn[t].blocking : card[k] # "waiting"
    /\ served' = served \cup {turn[t].msg}
    /\ Finish(t)
    /\ UNCHANGED <<post, byMessage, card, click, follower, draining>>

-----------------------------------------------------------------------------
(* Clicks and polls *)

(* _action: the control must be up in a turn of the caller's.  A question   *)
(* that waits takes the answer, one that does not is gone; either way its   *)
(* controls are retired.  The token is this process's own, so there is no   *)
(* await on the way.                                                        *)
Clicked(c, t, k) ==
    /\ click[c] = "none" /\ turn[t].kept /\ k \in Blocks
    /\ IF k \in turn[t].posted
         THEN /\ click' = [click EXCEPT ![c] = IF card[k] = "waiting" THEN "resolved" ELSE "404"]
              /\ card' = [card EXCEPT ![k] = IF @ = "waiting" THEN "answered" ELSE @]
              /\ turn' = Without(turn, t, k)
              /\ Emit(t, "retired")
         ELSE click' = [click EXCEPT ![c] = "404"] /\ UNCHANGED <<turn, journal, card>>
    /\ UNCHANGED <<post, active, byMessage, served, follower, draining>>

Follows(t) ==
    /\ follower.at = None /\ turn[t].kept
    /\ follower' = [follower EXCEPT !.at = t]
    /\ UNCHANGED <<post, turn, journal, active, byMessage, served, card, click, draining>>

(* GET .../events: what is newer than the cursor, if anything. *)
Poll ==
    /\ follower.at # None /\ Len(journal[follower.at]) > follower.cursor
    /\ follower' = [follower EXCEPT !.cursor = Len(journal[follower.at])]
    /\ UNCHANGED <<post, turn, journal, active, byMessage, served, card, click, draining>>

-----------------------------------------------------------------------------
(* drain, and stop: the turns still running are abandoned. *)
Drain ==
    /\ ~draining
    /\ draining' = TRUE
    /\ UNCHANGED <<post, turn, journal, active, byMessage, served, card, click, follower>>

Abandon(t) ==
    /\ draining /\ turn[t].st = "running"
    /\ Finish(t)
    /\ UNCHANGED <<post, byMessage, served, card, click, follower, draining>>

-----------------------------------------------------------------------------
HNext ==
    \/ \E p \in Posts : Received(p) \/ Saved(p) \/ Accepted(p)
    \/ \E m \in Engine : RunTurn(m)
    \/ \E t \in Turns : \/ Says(t) \/ Sweep(t) \/ Follows(t) \/ Abandon(t)
                        \/ FlowEnds(t)
                        \/ \E k \in Cards : Asks(t, k) \/ TakesDown(t, k) \/ \E c \in Clicks : Clicked(c, t, k)
    \/ \E k \in Cards : GivesUp(k)
    \/ Poll \/ Drain

HSpec == HInit /\ [][HNext]_hVars

(* The flow ends its turns, a question is answered or given up, and the     *)
(* client goes on polling.                                                  *)
Fairness ==
    /\ \A t \in Turns : WF_hVars(FlowEnds(t))
    /\ \A k \in Cards : WF_hVars(GivesUp(k))
    /\ WF_hVars(Poll)

-----------------------------------------------------------------------------
HTypeOK ==
    /\ \A t \in Turns : turn[t].posted \subseteq Cards /\ turn[t].st \in {"none", "running", "finished"}
    /\ \A v \in Convs : active[v] \in Turns \cup {None}
    /\ Len(byMessage) <= Remembered

(* A posted message has one turn whose journal can be read: a retry is      *)
(* answered with it however the requests, the drain and the sweep fall,     *)
(* for as long as the message id is remembered.                             *)
RetryIsTheSameTurn ==
    \A m \in Msgs : Cardinality({t \in Turns : turn[t].msg = m /\ turn[t].kept}) <= 1

(* "awaiting_input" means exactly that a question of the turn is up: a      *)
(* client neither shows a question that is gone nor waits silently on one,  *)
(* with several questions up and clicks, take-downs and the end in any      *)
(* order.                                                                   *)
StatusTellsQuestions ==
    \A t \in Turns :
        /\ turn[t].st = "running" => (turn[t].status = "awaiting_input" <=> turn[t].posted \cap Blocks # {})
        /\ turn[t].st = "finished" => turn[t].status = "ended"

(* Once a draining hub is idle it stays so: no turn begins that the wait    *)
(* for idle never saw ("Checked again past the only await").                *)
IdleIsFinal ==
    [][draining /\ (\A v \in Convs : active[v] = None) => \A v \in Convs : active'[v] = None]_hVars

(* A client that follows a turn reads its end: every turn that was opened   *)
(* ends, whoever answers or does not, and the journal is kept for it.       *)
FollowerReadsTheEnd ==
    \A t \in Turns : (follower.at = t) ~> (\E i \in DOMAIN journal[t] : i <= follower.cursor /\ journal[t][i] = "finished")

(* Nothing is written into a journal after turn.finished: no late click,    *)
(* take-down or reply (a client stops reading there).                       *)
NothingAfterTheEnd == \A t \in Turns : turn[t].st = "finished" => Last(journal[t]) = "finished"
================================================================================
