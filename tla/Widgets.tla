------------------------------- MODULE Widgets -------------------------------
(***************************************************************************)
(* What an agent shows to be clicked: the blocking question of a turn       *)
(* (interactions/ui_bridge.py, pending_ui.py), the widget whose click is a  *)
(* message (InteractionService.ask, consume_action), and the form           *)
(* (open_form, load_form, submit_form), with the routing of a callback      *)
(* (interactions/server.py, gateways/slack/interactions.py) and the two     *)
(* tables behind them (store/sqlite/sessions.py).  Clicks are delivered     *)
(* late, twice and side by side.  Texts, pickers and layout are left out.   *)
(***************************************************************************)
EXTENDS Naturals, FiniteSets

CONSTANTS
    Questions, ConvOfQ,     \* blocking questions, and the conversation each is asked in
    Keyed,          \* conversations the application keys itself: their record's id is not the platform's
    Shown,          \* fire-and-forget widgets
    Forms, Handled, \* forms, and those the application answers itself (FormRecord.handler)
    Submits         \* submissions of a dialog that may be under way at once

VARIABLES
    question,   \* each request(): where it stands, the outcome of its future, whether it came too late
    waitingOn,  \* PendingUiRequests._by_token
    buttons,    \* questions whose buttons people see
    widget,     \* each ask(): where it stands
    rows,       \* pending_interactions and pending_forms: the rows there
    fed,        \* messages submitted to the sink, and turns they made (the flow keeps one of an id)
    form,       \* each open_form(): where it stands, whether its button is up, and (history) clicked too early
    submit,     \* each dialog: the form it was opened for, where its submission stands
    handledBy   \* history: calls of an application's form handler

wVars == <<question, waitingOn, buttons, widget, rows, fed, form, submit, handledBy>>

NotAsked == "none"

(* Ids are drawn anew for every widget and form.                            *)
ASSUME WidgetAssumption == Shown \cap Forms = {} /\ NotAsked \notin Forms

WidgetsInit ==
    /\ question = [q \in Questions |-> [pc |-> "idle", future |-> "none", late |-> FALSE]]
    /\ waitingOn = {} /\ buttons = {}
    /\ widget = [w \in Shown |-> "idle"]
    /\ rows = {}
    /\ fed = [x \in Shown \cup Forms |-> 0]
    /\ form = [f \in Forms |-> [pc |-> "idle", button |-> FALSE, early |-> FALSE]]
    /\ submit = [s \in Submits |-> [pc |-> "closed", form |-> NotAsked]]
    /\ handledBy = [f \in Handled |-> 0]

-----------------------------------------------------------------------------
(* WidgetUiBridge.request: registered, then posted, then waited for. *)

Ask(q) ==
    /\ question[q].pc = "idle"
    /\ question' = [question EXCEPT ![q].pc = "posting"]
    /\ waitingOn' = waitingOn \cup {q}
    /\ UNCHANGED <<buttons, widget, rows, fed, form, submit, handledBy>>

(* The platform shows the buttons, while the post is still under way ...    *)
Appears(q) ==
    /\ question[q].pc = "posting"
    /\ question' = [question EXCEPT ![q].pc = "shown"]
    /\ buttons' = buttons \cup {q}
    /\ UNCHANGED <<waitingOn, widget, rows, fed, form, submit, handledBy>>

(* ... which returns, or fails, with the buttons up or not.                 *)
Posts(q, ok) ==
    /\ question[q].pc = "shown" \/ (question[q].pc = "posting" /\ ~ok)
    /\ question' = [question EXCEPT ![q].pc = IF ok THEN "waiting" ELSE "declined"]
    /\ waitingOn' = IF ok THEN waitingOn ELSE waitingOn \ {q}
    /\ UNCHANGED <<buttons, widget, rows, fed, form, submit, handledBy>>

(* The timer, which may fire as an answer comes in, and then it wins. *)
QuestionTimesOut(q) ==
    /\ question[q].pc = "waiting"
    /\ question' = [question EXCEPT ![q].pc = "retracting"]
    /\ waitingOn' = waitingOn \ {q}
    /\ UNCHANGED <<buttons, widget, rows, fed, form, submit, handledBy>>

(* The turn goes on with the outcome; a click's buttons are replaced by the *)
(* answer to the click, a cancelled question's are retracted here.          *)
GoesOn(q) ==
    /\ question[q].pc = "waiting" /\ question[q].future # "none"
    /\ question' = [question EXCEPT ![q].pc = IF question[q].future = "cancelled" THEN "retracting" ELSE "answered"]
    /\ UNCHANGED <<waitingOn, buttons, widget, rows, fed, form, submit, handledBy>>

(* _retract, which may fail. *)
Retract(q) ==
    /\ question[q].pc = "retracting"
    /\ question' = [question EXCEPT ![q].pc = "declined"]
    /\ buttons' \in {buttons, buttons \ {q}}
    /\ UNCHANGED <<waitingOn, widget, rows, fed, form, submit, handledBy>>

(* The turn is called off: the token and the buttons stay.  A wait that is  *)
(* called off cancels its future; one not begun leaves it to be resolved.   *)
CalledOff(q) ==
    /\ question[q].pc \in {"posting", "shown", "waiting"}
    /\ question' = [question EXCEPT ![q].pc = "gone",
                                    ![q].future = IF question[q].pc = "waiting" /\ @ = "none" THEN "off" ELSE @]
    /\ buttons' \in IF question[q].pc = "posting" THEN {buttons, buttons \cup {q}} ELSE {buttons}
    /\ UNCHANGED <<waitingOn, widget, rows, fed, form, submit, handledBy>>

(* A future that is done is left alone. *)
Resolved(q, how) ==
    [question EXCEPT ![q].future = IF @ = "none" THEN how ELSE @,
                     ![q].late = question[q].future = "none" /\ question[q].pc \notin {"posting", "shown", "waiting"}]

(* resolve: a click on the buttons, however late, finds the token or not;   *)
(* the receiver then replaces the buttons by what was chosen, or by a       *)
(* notice that they are retired.                                            *)
ClickAnswers(q) ==
    /\ q \in buttons
    /\ buttons' = buttons \ {q}
    /\ IF q \in waitingOn
         THEN waitingOn' = waitingOn \ {q} /\ question' = Resolved(q, "clicked")
         ELSE UNCHANGED <<waitingOn, question>>
    /\ UNCHANGED <<widget, rows, fed, form, submit, handledBy>>

(* cancel_for_conversation, called with the message's own conversation id:  *)
(* the person typed instead of clicking.                                    *)
Typed(k) ==
    LET hit == {q \in waitingOn : ConvOfQ[q] = k /\ k \notin Keyed} IN
    /\ hit # {}
    /\ waitingOn' = waitingOn \ hit
    /\ question' = [q \in Questions |-> IF q \in hit /\ question[q].future = "none"
                                        THEN [question[q] EXCEPT !.future = "cancelled"] ELSE question[q]]
    /\ UNCHANGED <<buttons, widget, rows, fed, form, submit, handledBy>>

-----------------------------------------------------------------------------
(* InteractionService.ask: "Register BEFORE posting so an instant click     *)
(* always finds the interaction."                                           *)

Register(w) ==
    /\ widget[w] = "idle"
    /\ rows' = rows \cup {w}
    /\ widget' = [widget EXCEPT ![w] = "registered"]
    /\ UNCHANGED <<question, waitingOn, buttons, fed, form, submit, handledBy>>

ShowWidget(w) ==
    /\ widget[w] = "registered"
    /\ widget' = [widget EXCEPT ![w] = "shown"]
    /\ UNCHANGED <<question, waitingOn, buttons, rows, fed, form, submit, handledBy>>

(* Bug: the row is read, and deleted by nobody. *)
TakeReading(w) == UNCHANGED rows

(* take_interaction: fetched and deleted under the lock. *)
Take(w) == rows' = rows \ {w}

(* consume_action: a click on the widget, on a platform that shows it still *)
(* (Mattermost replaces it with the response, Slack strips it after).       *)
ClickWidget(w) ==
    /\ widget[w] \in {"shown", "clicked"} /\ w \in rows
    /\ Take(w)
    /\ fed' = [fed EXCEPT ![w] = @ + 1]
    /\ widget' = [widget EXCEPT ![w] = "clicked"]
    /\ UNCHANGED <<question, waitingOn, buttons, form, submit, handledBy>>

(* ... a click that finds nothing: its person is told the buttons retired. *)
ClickInVain(w) ==
    /\ widget[w] = "shown" /\ w \notin rows
    /\ widget' = [widget EXCEPT ![w] = "refused"]
    /\ UNCHANGED <<question, waitingOn, buttons, rows, fed, form, submit, handledBy>>

-----------------------------------------------------------------------------
(* open_form posts its button first and registers once the post is back.    *)
ShowForm(f) ==
    /\ form[f].pc = "idle"
    /\ form' = [form EXCEPT ![f] = [pc |-> "posted", button |-> TRUE, early |-> FALSE]]
    /\ UNCHANGED <<question, waitingOn, buttons, widget, rows, fed, submit, handledBy>>

RegisterForm(f) ==
    /\ form[f].pc = "posted"
    /\ rows' = rows \cup {f}
    /\ form' = [form EXCEPT ![f].pc = "open"]
    /\ UNCHANGED <<question, waitingOn, buttons, widget, fed, submit, handledBy>>

(* load_form: a click opens a dialog, *)
OpenDialog(f, s) ==
    /\ form[f].button /\ f \in rows /\ submit[s].pc = "closed"
    /\ submit' = [submit EXCEPT ![s] = [pc |-> "filling", form |-> f]]
    /\ UNCHANGED <<question, waitingOn, buttons, widget, rows, fed, form, handledBy>>

(* ... or finds no row, not there yet or gone, and the button goes.         *)
ClickRetires(f) ==
    /\ form[f].button /\ f \notin rows
    /\ form' = [form EXCEPT ![f].button = FALSE, ![f].early = @ \/ form[f].pc = "posted"]
    /\ UNCHANGED <<question, waitingOn, buttons, widget, rows, fed, submit, handledBy>>

(* A cancelled dialog leaves the form and its button. *)
CloseDialog(s) ==
    /\ submit[s].pc = "filling"
    /\ submit' = [submit EXCEPT ![s] = [pc |-> "closed", form |-> NotAsked]]
    /\ UNCHANGED <<question, waitingOn, buttons, widget, rows, fed, form, handledBy>>

(* submit_form reads the row and deletes it in two steps; the values go to  *)
(* the handler the form names, or into the conversation.                    *)
SubmitReads(s) ==
    /\ submit[s].pc = "filling"
    /\ submit' = [submit EXCEPT ![s].pc = IF submit[s].form \in rows THEN "found" ELSE "over"]
    /\ UNCHANGED <<question, waitingOn, buttons, widget, rows, fed, form, handledBy>>

SubmitDeletes(s) ==
    /\ submit[s].pc = "found"
    /\ rows' = rows \ {submit[s].form}
    /\ submit' = [submit EXCEPT ![s].pc = "deleted"]
    /\ UNCHANGED <<question, waitingOn, buttons, widget, fed, form, handledBy>>

SubmitHandsOn(s) ==
    /\ submit[s].pc = "deleted"
    /\ LET f == submit[s].form IN
       IF f \in Handled
         THEN handledBy' = [handledBy EXCEPT ![f] = @ + 1] /\ UNCHANGED <<fed, form>>
         ELSE /\ fed' = [fed EXCEPT ![f] = @ + 1]
              /\ form' = [form EXCEPT ![f].button = FALSE]     \* _retire_button
              /\ UNCHANGED handledBy
    /\ submit' = [submit EXCEPT ![s].pc = "over"]
    /\ UNCHANGED <<question, waitingOn, buttons, widget, rows>>

-----------------------------------------------------------------------------
Blocked(q) == Appears(q) \/ Posts(q, TRUE) \/ Posts(q, FALSE) \/ QuestionTimesOut(q) \/ GoesOn(q) \/ Retract(q)

WidgetsNext ==
    \/ \E q \in Questions : Ask(q) \/ Blocked(q) \/ CalledOff(q) \/ ClickAnswers(q)
    \/ \E q \in Questions : Typed(ConvOfQ[q])
    \/ \E w \in Shown : Register(w) \/ ShowWidget(w) \/ ClickWidget(w) \/ ClickInVain(w)
    \/ \E f \in Forms : ShowForm(f) \/ RegisterForm(f) \/ ClickRetires(f) \/ \E s \in Submits : OpenDialog(f, s)
    \/ \E s \in Submits : CloseDialog(s) \/ SubmitReads(s) \/ SubmitDeletes(s) \/ SubmitHandsOn(s)

WidgetsSpec == WidgetsInit /\ [][WidgetsNext]_wVars

-----------------------------------------------------------------------------
(* No answer is taken for a question nobody waits on any more, by a click   *)
(* on buttons the timer or a typed message left standing: but for a         *)
(* question whose turn was called off before it began to wait.              *)
NoLateAnswer == \A q \in Questions : question[q].late => question[q].pc = "gone"

(* The message a widget's click makes is made once, however many clicks     *)
(* arrive and however close together.                                       *)
OneMessagePerWidget == \A w \in Shown : fed[w] <= 1

(* The first click on a widget is never told that the buttons are retired.  *)
FirstClickCounts == \A w \in Shown : widget[w] # "refused"

(* A form nobody clicked too early can be answered until a submission of it *)
(* has taken its row: its button is up, and a click on it opens a dialog,   *)
(* whatever was opened, left open and closed.                               *)
FormStaysAnswerable ==
    \A f \in Forms :
        /\ form[f].pc = "open" /\ ~form[f].early
        /\ \A s \in Submits : submit[s].form = f => submit[s].pc \in {"filling", "found"}
        => form[f].button /\ f \in rows

(* A question that is over leaves no token behind. *)
NoTokenLeft == \A q \in waitingOn : question[q].pc \in {"posting", "waiting"}

(* "one-shot: answered" (submit_form): an application's handler is given a  *)
(* form's values once.                                                      *)
HandledOnce == \A f \in Handled : handledBy[f] <= 1

(* resolve "returns False when token is not a live blocking request": a     *)
(* person is told that their click counted only where a turn hears it.      *)
NobodyAnswersInVain == \A q \in Questions : ~question[q].late

(* "A click can't outrace this" (open_form, of the registration).           *)
NoClickTooEarly == \A f \in Forms : ~form[f].early

(* What is shown is answered once: no answer reaches a question that is     *)
(* over, unless its turn was called off while it was posted; a widget's     *)
(* clicks make one message, from its first click on; a form that was not    *)
(* clicked before it was registered can be answered until somebody did      *)
(* (ui_bridge.py request, dispatcher.py consume_action, load_form,          *)
(* service.py ask, open_form).                                              *)
WidgetsAnswerOnce == NoLateAnswer /\ OneMessagePerWidget /\ FirstClickCounts /\ FormStaysAnswerable
=============================================================================
