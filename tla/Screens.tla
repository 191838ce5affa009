------------------------------ MODULE Screens ------------------------------
(***************************************************************************)
(* Screens: the commands the engine answers itself, and the clicks that    *)
(* redraw them (interactions/screens.py, the screen half of                *)
(* interactions/dispatcher.py, and the two receivers that feed it: the     *)
(* http one, interactions/server.py, and gateways/slack/interactions.py).  *)
(* Three screens are registered: "tasks", open to everybody, "connections",*)
(* a person's own accounts, and "ward", the operator's surface, whose      *)
(* modals come back to a handler.                                          *)
(*                                                                         *)
(* A command or a click is a coroutine: it is asked about, it acts, it     *)
(* captures what the screen shows, and later the platform gets it.  What   *)
(* it captured may be old by then.  A crash forgets the coroutines and     *)
(* which modal a token is; form rows and messages stay.  The list of       *)
(* operators is read once per process.                                     *)
(***************************************************************************)
EXTENDS Naturals, Sequences, FiniteSets

CONSTANTS
    People,        \* who types and clicks
    Places,        \* the conversations
    Readers,       \* [Places -> SUBSET People]: who reads a message there
    Owner,         \* [Places -> People \cup {Nobody}]: whose DM with the agent
    Threads,       \* the places that are threads
    Directs,       \* the places whose payload says "a direct message"
    Lists,         \* the operator lists a process may be started with
    Windows,       \* approval windows open in the broker
    Tasks,         \* scheduled tasks
    Words,         \* the commands typed: screens' words, "stop", "other"
    Shortcuts,     \* the words that are also message shortcuts
    Ops,           \* coroutines in flight at once
    MaxTyped, MaxClicks, MaxCrashes,
    Nobody

VARIABLES
    operators,     \* Approvers.ids of this process
    windows,       \* the windows still open
    connected,     \* whose account is connected
    tasks,         \* [Tasks -> state]
    links,         \* consent links a person holds: whose, from which message
    posts,         \* the messages screens are drawn in
    forms,         \* the FormStore's rows
    pending,       \* PendingOperatorForms: the tokens whose verb is known
    dialogs,       \* modals open in front of somebody
    op,            \* [Ops -> the coroutine's frame]
    running,       \* the conversations with a turn in flight
    kinds,         \* [Places -> the kind its session row was begun with]
    fed,           \* what went on to an agent as a message
    stored,        \* how often each form's values were acted on
    ledger,        \* operator rows of the broker's ledger
    minted,        \* the modal tokens made so far
    typed, clicks, crashes

scVars == <<operators, windows, connected, tasks, links, posts, forms, pending,
            dialogs, op, running, kinds, fed, stored, ledger, minted, typed, clicks, crashes>>

Screen == {"tasks", "connections", "ward"}
Private == {"connections", "ward"}

\* The modals' tokens: one ordinary form of the agent's, and one per drawing
\* of the operator's menu.
Ordinary == 0
Tokens == 0 .. (MaxTyped + MaxClicks)
Nowhere == "nowhere"

NoView == [screen |-> "", of |-> Nobody, part |-> "", shows |-> {}, token |-> Ordinary]
Idle == [at |-> "idle", kind |-> "", by |-> Nobody, place |-> Nowhere, post |-> 0,
         screen |-> "", verb |-> "", arg |-> "", view |-> NoView]

\* ScreenRegistry.get: the word names the screen.
Owned(word) == word \in Screen

ScreensInit ==
    /\ operators \in Lists
    /\ windows = Windows
    /\ connected = {}
    /\ tasks = [t \in Tasks |-> "waiting"]
    /\ links = {}
    /\ posts = <<>>
    /\ forms = {[token |-> Ordinary, handler |-> FALSE]}
    /\ pending = {}
    /\ dialogs = {<<who, Ordinary>> : who \in People}
    /\ op = [o \in Ops |-> Idle]
    /\ running = {} /\ kinds = [place \in Places |-> ""]
    /\ fed = {}
    /\ stored = [k \in Tokens |-> 0]
    /\ ledger = {}
    /\ minted = 0 /\ typed = 0 /\ clicks = 0 /\ crashes = 0

\* The payload says only that it is a direct message; the platform is asked
\* whether it is the agent's own with the person who typed.
DirectWithAgent(place, who) == Owner[place] = who

Kind(place, who) ==
    CASE place \in Threads -> "thread"
      [] place \in Directs /\ DirectWithAgent(place, who) -> "dm"
      [] OTHER -> "channel"

\* A shortcut's payload says nothing: any direct message's id will do.
ShortcutKind(place) == IF place \in Directs \ Threads THEN "dm" ELSE "thread"

\* get_or_create: the first turn's kind stays with the conversation.
Begins(place, kind) == kinds' = [kinds EXCEPT ![place] = IF @ = "" THEN kind ELSE @]

\* refusal(): a direct_only screen opens in a direct message; the rest is the
\* screen's own admits.  A click has neither a place nor a kind.
Refusal(screen, who, place, kind) ==
    \/ screen = "connections" /\ kind \notin {"", "dm"}
    \/ /\ screen = "ward"
       /\ \/ who \notin operators
          \/ place # Nowhere /\ Owner[place] # who

\* redraw_screen asks again, for whoever clicked.
MayDrive(screen, who) == ~Refusal(screen, who, Nowhere, "")

world == <<operators, windows, connected, tasks, links, forms, pending, dialogs, stored,
           ledger, minted>>

Opening(o, who, place, word, kind) ==
    op' = [op EXCEPT ![o] = [Idle EXCEPT !.at = "asked", !.kind = kind, !.by = who,
                             !.place = place, !.screen = word]]

(***************************************************************************)
(* A command is typed.  The stop word acts and draws nothing; a screen's   *)
(* word opens it; any other is a turn of the agent.                        *)
(***************************************************************************)
Typing(who, place) ==
    /\ typed < MaxTyped
    /\ who \in Readers[place]
    /\ typed' = typed + 1

TypesStop(who, place) ==
    /\ "stop" \in Words
    /\ Typing(who, place)
    /\ running' = running \ {place}
    /\ UNCHANGED <<world, posts, op, kinds, fed, clicks, crashes>>

TypesScreen(o, who, place, word) ==
    /\ op[o] = Idle
    /\ Owned(word)
    /\ Typing(who, place)
    /\ Opening(o, who, place, word, "open")
    /\ UNCHANGED <<world, posts, running, kinds, fed, clicks, crashes>>

TypesCommand(who, place, word) ==
    /\ ~Owned(word) /\ word # "stop"
    /\ Typing(who, place)
    /\ Begins(place, Kind(place, who))
    /\ fed' = fed \cup {word}
    /\ running' = running \cup {place}
    /\ UNCHANGED <<world, posts, op, clicks, crashes>>

\* A message shortcut goes to the agent without asking the registry.
Shortcut(who, place, word) ==
    /\ word \in Shortcuts
    /\ Typing(who, place)
    /\ Begins(place, ShortcutKind(place))
    /\ fed' = fed \cup {word}
    /\ running' = running \cup {place}
    /\ UNCHANGED <<world, posts, op, clicks, crashes>>

TurnEnds(place) ==
    /\ place \in running
    /\ running' = running \ {place}
    /\ UNCHANGED <<world, posts, op, kinds, fed, typed, clicks, crashes>>

\* The agent opens a screen in its turn, under the same refusal, with the
\* kind its row has.
AgentOpens(o, who, place, word) ==
    /\ op[o] = Idle
    /\ place \in running
    /\ Owned(word)
    /\ Typing(who, place)
    /\ Opening(o, who, place, word, "agent")
    /\ UNCHANGED <<world, posts, running, kinds, fed, clicks, crashes>>

\* A tool acts as the person's account, in a direct message only: with none
\* connected it posts the offer to connect.
ToolOffers(o, who, place) ==
    /\ op[o] = Idle
    /\ place \in running
    /\ Typing(who, place)
    /\ kinds[place] = "dm"
    /\ who \notin connected
    /\ Opening(o, who, place, "connections", "agent")
    /\ UNCHANGED <<world, posts, running, kinds, fed, clicks, crashes>>

\* The provider answers 401: the connection is forgotten, no message redrawn.
ToolForgets(who, place) ==
    /\ place \in running
    /\ kinds[place] = "dm"
    /\ who \in connected
    /\ connected' = connected \ {who}
    /\ UNCHANGED <<operators, windows, tasks, links, posts, forms, pending, dialogs,
                   op, running, kinds, fed, stored, ledger, minted, typed, clicks, crashes>>

(***************************************************************************)
(* Admission.                                                              *)
(***************************************************************************)
Goes(o, at) == op' = [op EXCEPT ![o].at = at]
Ends(o) == op' = [op EXCEPT ![o] = Idle]

\* A refused opening posts nothing and stays with the engine: its reason is
\* for whoever asked, alone.
Refuses(o) == Ends(o) /\ UNCHANGED fed

KindOf(o) == IF op[o].kind = "agent" THEN kinds[op[o].place] ELSE Kind(op[o].place, op[o].by)

AnswersCommand(o) ==
    /\ op[o].at = "asked" /\ op[o].kind \in {"open", "agent"}
    /\ IF Refusal(op[o].screen, op[o].by, op[o].place, KindOf(o))
       THEN Refuses(o)
       ELSE Goes(o, "draw") /\ UNCHANGED fed
    /\ UNCHANGED <<world, posts, running, kinds, typed, clicks, crashes>>

\* The platform does not say which direct message it is: not this one.
LookupFails(o) ==
    /\ op[o].at = "asked" /\ op[o].kind \in {"open", "agent"} /\ op[o].screen = "ward"
    /\ Refuses(o)
    /\ UNCHANGED <<world, posts, running, kinds, typed, clicks, crashes>>

AnswersClick(o) ==
    /\ op[o].at = "asked" /\ op[o].kind = "click"
    /\ IF MayDrive(op[o].screen, op[o].by) THEN Goes(o, "act") ELSE Ends(o)
    /\ UNCHANGED <<world, posts, running, kinds, fed, typed, clicks, crashes>>

(***************************************************************************)
(* Clicks: what a message shows says which controls it has.                *)
(***************************************************************************)
Control(verb, arg) == [verb |-> verb, arg |-> arg]

WardControls(view) ==
    IF view.part = "menu" THEN {Control(page, "") : page \in {"windows", "secrets", "ledger"}}
    ELSE {Control("menu", "")} \cup {Control("revoke", w) : w \in view.shows}

ConnectionControls(view) ==
    {Control(IF view.shows = {} THEN "connect" ELSE "disconnect", "")}

\* The list opens a task, its page deletes it; both pause and resume it.
TaskControls(view) ==
    IF view.part = "task"
    THEN {Control("back", "")} \cup {Control(verb, row[1]) :
                                     verb \in {"toggle", "delete"}, row \in view.shows}
    ELSE {Control(verb, row[1]) : verb \in {"open", "toggle"}, row \in view.shows}

Controls(view) == CASE view.screen = "ward" -> WardControls(view)
                    [] view.screen = "connections" -> ConnectionControls(view)
                    [] view.screen = "tasks" -> TaskControls(view)

Clicks(o, who, p, control) ==
    /\ op[o] = Idle
    /\ clicks < MaxClicks
    /\ who \in Readers[posts[p].place]
    /\ control \in Controls(posts[p].view)
    /\ clicks' = clicks + 1
    /\ op' = [op EXCEPT ![o] = [Idle EXCEPT !.at = "asked", !.kind = "click", !.by = who,
                                !.post = p, !.screen = posts[p].view.screen,
                                !.verb = control.verb, !.arg = control.arg,
                                !.view = posts[p].view]]
    /\ UNCHANGED <<world, posts, running, kinds, fed, typed, crashes>>

\* The label said which way: a paused task was drawn with Resume.
Toggled(o) ==
    IF <<op[o].arg, "paused">> \in op[o].view.shows THEN "waiting" ELSE "paused"

\* TaskScreen._apply: a task that is gone is left alone.
Applied(o, t) ==
    CASE op[o].arg # t \/ tasks[t] = "gone" -> tasks[t]
      [] op[o].verb = "toggle" -> Toggled(o)
      [] op[o].verb = "delete" -> "gone"
      [] OTHER -> tasks[t]

\* Whose connections the screen and the tools use: the person's who asked.
AccountOf(o) == op[o].by

\* render() acts before it draws.
Acts(o) ==
    /\ op[o].at = "act"
    /\ Goes(o, IF op[o].verb = "revoke" THEN "record" ELSE "draw")
    /\ windows' = IF op[o].verb = "revoke" THEN windows \ {op[o].arg} ELSE windows
    /\ connected' = IF op[o].verb = "disconnect" THEN connected \ {AccountOf(o)} ELSE connected
    /\ tasks' = [t \in Tasks |-> Applied(o, t)]
    /\ UNCHANGED <<operators, links, posts, forms, pending, dialogs, running, kinds, fed,
                   stored, ledger, minted, typed, clicks, crashes>>

\* One ledger row per operator action taken from chat, after the action.
Records(o) ==
    /\ op[o].at = "record"
    /\ ledger' = ledger \cup {<<op[o].by, op[o].verb, op[o].arg>>}
    /\ IF op[o].kind = "form" THEN Ends(o) ELSE Goes(o, "draw")
    /\ UNCHANGED <<operators, windows, connected, tasks, links, posts, forms, pending,
                   dialogs, running, kinds, fed, stored, minted, typed, clicks, crashes>>

(***************************************************************************)
(* Drawing: the view is captured now, and sent later.                      *)
(***************************************************************************)
WardPart(o) == CASE op[o].verb = "revoke" -> "windows"
                 [] op[o].verb \in {"windows", "secrets", "ledger"} -> op[o].verb
                 [] OTHER -> "menu"
WardShows(part) == IF part = "windows" THEN windows ELSE {}

TaskPart(o) == IF op[o].verb \in {"open", "toggle"} /\ \E t \in Tasks : op[o].arg = t /\ tasks[t] # "gone"
               THEN "task" ELSE "list"
TaskShows(o, part) ==
    {<<t, tasks[t]>> : t \in {u \in Tasks : tasks[u] # "gone" /\ (part = "task" => u = op[o].arg)}}

ConnectionShows(o) == connected \cap {AccountOf(o)}

\* The pages of the operator's card with a modal behind a button: unlock,
\* unseal and store on the menu, a policy beside each secret.
WithModal(screen, part) == screen = "ward" /\ part \in {"menu", "secrets"}

\* The modal is written down for the handler, and what the token is for is
\* remembered in memory.
ModalRow(token) == [token |-> token, handler |-> TRUE]

Drawing(o) ==
    LET part == CASE op[o].screen = "ward" -> WardPart(o)
                  [] op[o].screen = "tasks" -> TaskPart(o)
                  [] OTHER -> ""
    IN [screen |-> op[o].screen, of |-> op[o].by, part |-> part,
        shows |-> CASE op[o].screen = "ward" -> WardShows(part)
                    [] op[o].screen = "tasks" -> TaskShows(o, part)
                    [] OTHER -> ConnectionShows(o),
        token |-> IF WithModal(op[o].screen, part) THEN minted + 1 ELSE Ordinary]

Draws(o) ==
    /\ op[o].at = "draw"
    /\ LET view == Drawing(o)
           made == {view.token} \ {Ordinary}
       IN /\ op' = [op EXCEPT ![o].at = "send", ![o].view = view]
          /\ forms' = forms \cup {ModalRow(token) : token \in made}
          /\ pending' = pending \cup made
          /\ minted' = minted + Cardinality(made)
    /\ UNCHANGED <<operators, windows, connected, tasks, links, posts, dialogs, running, kinds,
                   fed, stored, ledger, typed, clicks, crashes>>

\* What a consent link keeps: whose it is, and the message it was asked from.
Return(o) == [owner |-> AccountOf(o), post |-> op[o].post]

\* post_cards for an opening; update_cards for a click, and then the private
\* note: the consent link, to the clicker alone.
Sends(o) ==
    /\ op[o].at = "send"
    /\ posts' = IF op[o].kind \in {"open", "agent"}
                THEN Append(posts, [place |-> op[o].place, by |-> op[o].kind, view |-> op[o].view])
                ELSE [posts EXCEPT ![op[o].post].view = op[o].view]
    /\ links' = IF op[o].verb = "connect"
                THEN links \cup {Return(o)} ELSE links
    /\ Ends(o)
    /\ UNCHANGED <<operators, windows, connected, tasks, forms, pending, dialogs, running, kinds,
                   fed, stored, ledger, minted, typed, clicks, crashes>>

(***************************************************************************)
(* A connect finishes at the callback page: RedrawOnConnect draws the      *)
(* message it was started from again, for its owner.  The e-mail policy    *)
(* may refuse; the link is spent either way.                               *)
(***************************************************************************)
Finishes(o, l) ==
    /\ op[o] = Idle
    /\ links' = links \ {l}
    /\ connected' = connected \cup {l.owner}
    /\ op' = [op EXCEPT ![o] = [Idle EXCEPT !.at = "asked", !.kind = "click", !.by = l.owner,
                                !.post = l.post, !.screen = "connections", !.verb = "connected"]]
    /\ UNCHANGED <<operators, windows, tasks, posts, forms, pending, dialogs, running, kinds, fed,
                   stored, ledger, minted, typed, clicks, crashes>>

PolicyRefuses(l) ==
    /\ links' = links \ {l}
    /\ UNCHANGED <<operators, windows, connected, tasks, posts, forms, pending, dialogs, op,
                   running, kinds, fed, stored, ledger, minted, typed, clicks, crashes>>

(***************************************************************************)
(* Modals.  The button opens a dialog while the row is there; a cancelled  *)
(* dialog changes nothing; a submission reads the row, deletes it, and     *)
(* goes where the row says.                                                *)
(***************************************************************************)
Row(token) == {r \in forms : r.token = token}

OpensForm(who, p) ==
    /\ clicks < MaxClicks
    /\ who \in Readers[posts[p].place]
    /\ posts[p].view.token # Ordinary
    /\ Row(posts[p].view.token) # {}
    /\ clicks' = clicks + 1
    /\ dialogs' = dialogs \cup {<<who, posts[p].view.token>>}
    /\ UNCHANGED <<operators, windows, connected, tasks, links, posts, forms, pending, op,
                   running, kinds, fed, stored, ledger, minted, typed, crashes>>

Submits(o, d) ==
    /\ op[o] = Idle
    /\ clicks < MaxClicks
    /\ Row(d[2]) # {}
    /\ clicks' = clicks + 1
    /\ op' = [op EXCEPT ![o] = [Idle EXCEPT !.at = "delete", !.kind = "form", !.by = d[1],
                                !.post = d[2],
                                !.verb = IF \E r \in Row(d[2]) : r.handler THEN "handler" ELSE ""]]
    /\ UNCHANGED <<world, posts, running, kinds, fed, typed, crashes>>

\* Routed by what the form was written with, not by asking the handler
\* whether the token is its own.
Routed(o) == op[o].verb = "handler"

Deletes(o) ==
    /\ op[o].at = "delete"
    /\ forms' = forms \ Row(op[o].post)
    /\ IF Routed(o) THEN Goes(o, "take") /\ UNCHANGED fed
       ELSE /\ Ends(o)
            /\ fed' = fed \cup {IF op[o].post = Ordinary THEN "answers" ELSE "secret"}
    /\ UNCHANGED <<operators, windows, connected, tasks, links, posts, pending, dialogs,
                   running, kinds, stored, ledger, minted, typed, clicks, crashes>>

\* PendingOperatorForms.take: who takes the verb first has it.
TakeReading(o) == UNCHANGED pending
Take(o) == pending' = pending \ {op[o].post}

Handles(o) ==
    /\ op[o].at = "take"
    /\ Take(o)
    /\ IF op[o].post \in pending /\ op[o].by \in operators THEN Goes(o, "perform") ELSE Ends(o)
    /\ UNCHANGED <<operators, windows, connected, tasks, links, posts, forms, dialogs,
                   running, kinds, fed, stored, ledger, minted, typed, clicks, crashes>>

\* The values are acted on: the store opened, a secret or a policy written.
Performs(o) ==
    /\ op[o].at = "perform"
    /\ stored' = [stored EXCEPT ![op[o].post] = @ + 1]
    /\ Goes(o, "record")
    /\ UNCHANGED <<operators, windows, connected, tasks, links, posts, forms, pending,
                   dialogs, running, kinds, fed, ledger, minted, typed, clicks, crashes>>

\* The process dies and comes back, perhaps with another list of operators.
Crash ==
    /\ crashes < MaxCrashes
    /\ crashes' = crashes + 1
    /\ operators' \in Lists
    /\ pending' = {}
    /\ op' = [o \in Ops |-> Idle]
    /\ running' = {}
    /\ UNCHANGED <<windows, connected, tasks, links, posts, forms, dialogs, kinds, fed, stored,
                   ledger, minted, typed, clicks>>

ScreensNext ==
    \/ \E who \in People, place \in Places :
          \/ TypesStop(who, place)
          \/ ToolForgets(who, place)
          \/ \E word \in Words : TypesCommand(who, place, word) \/ Shortcut(who, place, word)
          \/ \E o \in Ops : ToolOffers(o, who, place)
          \/ \E o \in Ops, word \in Words :
                TypesScreen(o, who, place, word) \/ AgentOpens(o, who, place, word)
    \/ \E place \in Places : TurnEnds(place)
    \/ \E o \in Ops :
          \/ AnswersCommand(o) \/ LookupFails(o) \/ AnswersClick(o)
          \/ Acts(o) \/ Records(o) \/ Draws(o) \/ Sends(o)
          \/ Deletes(o) \/ Handles(o) \/ Performs(o)
          \/ \E l \in links : Finishes(o, l)
          \/ \E d \in dialogs : Submits(o, d)
    \/ \E l \in links : PolicyRefuses(l)
    \/ \E who \in People, p \in DOMAIN posts :
          \/ OpensForm(who, p)
          \/ \E o \in Ops : \E c \in Controls(posts[p].view) : Clicks(o, who, p, c)
    \/ Crash

ScreensSpec == ScreensInit /\ [][ScreensNext]_scVars

(***************************************************************************)
(* Properties.                                                             *)
(***************************************************************************)

\* A conversation a shortcut began in a direct message that is not the
\* agent's own: its row says "a direct message" all the same.
Mistaken(place) == kinds[place] = "dm" /\ Owner[place] = Nobody

\* What a personal screen shows is read by the person it is about and by
\* nobody else, whoever opened it (a command, a tool, the agent) and however
\* often it was redrawn since (direct_only, WardScreen.admits); but for what
\* the agent opens of a person's own accounts where a shortcut began.
PrivateStaysPrivate ==
    \A p \in DOMAIN posts :
        posts[p].view.screen \in Private =>
            \/ Readers[posts[p].place] \subseteq {posts[p].view.of}
            \/ posts[p].by = "agent" /\ posts[p].view.screen = "connections" /\ Mistaken(posts[p].place)

\* Deviation: and there too.  A shortcut takes any direct message's id for
\* one of the agent's own.
PrivateEverywhere ==
    \A p \in DOMAIN posts :
        posts[p].view.screen \in Private => Readers[posts[p].place] \subseteq {posts[p].view.of}

\* A window closes and a modal's values are acted on only for somebody on the
\* operator list of the process that does it: a card or a modal that outlived
\* the list it was drawn under gives nothing (redraw_screen and
\* OperatorForms.handle ask again).
OnlyOperatorsAct ==
    [][/\ windows' # windows => \E o \in Ops : op[o].at = "act" /\ op[o].by \in operators
       /\ stored' # stored => \E o \in Ops : op[o].at = "perform" /\ op[o].by \in operators]_scVars

\* The values of an operator's modal never become a message in a
\* conversation, a restart between opening it and answering it included.
SecretsNeverSaid == "secret" \notin fed

\* A modal submitted twice, from two devices at once, is acted on once:
\* deleting the row does not decide it, taking the verb does.
FormActsOnce == \A k \in Tokens : stored[k] <= 1

\* A word a screen owns never reaches an agent, the refused ones included.
\* A message shortcut named like a screen breaks it.
OwnedWordsStay == fed \cap Screen = {}

\* Deviation: the card shows the state after the act once nothing is in
\* flight.  Two clicks on one message overtake each other.
CardShowsTheState ==
    (\A o \in Ops : op[o] = Idle) =>
        \A p \in DOMAIN posts : posts[p].view.part = "windows" => posts[p].view.shows \subseteq windows

\* Deviation: every operator action taken from chat has its ledger row.
\* A crash between the two leaves none.
EveryActHasItsRow ==
    (\A o \in Ops : op[o] = Idle) =>
        \A w \in Windows \ windows : \E who \in People : <<who, "revoke", w>> \in ledger
=============================================================================
