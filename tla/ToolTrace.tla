------------------------------ MODULE ToolTrace ------------------------------
(***************************************************************************)
(* The message that says what tools a turn runs (interactions/tooltrace.py, *)
(* ports/traces.py): a counter that a task of its own redraws while the     *)
(* runtime's events come in, taken away when the turn ends or settled into  *)
(* a button, behind which a screen shows the calls from a stored record.    *)
(*                                                                          *)
(* Between two awaits the code is one step; the chat platform and the store *)
(* may fail, and the engine may die.                                        *)
(***************************************************************************)
EXTENDS Naturals, Sequences

CONSTANTS
    Tools,
    Afters,         \* what may become of the message: "nothing", "button"
    PageSize,
    MaxCalls, MaxRemarks, MaxFails, MaxCrashes, MaxClicks    \* bounds

VARIABLES
    after,      \* what becomes of it
    calls,      \* TurnCalls: [tool, state, remark] in the order they began
    remark,     \* the model's remark since the last call; 0: none
    awaiting,   \* the call put to the person; 0: none
    dirty, closed, dead,    \* TurnTrace's flags
    task,       \* its redraws: "none", "loop", "drawing" or "waiting"
    drawing,    \* the view on its way to the platform
    message,    \* [at, shows]: the post, and what is drawn in it
    ending,     \* where end() is
    record,     \* the stored trace: present, and its calls
    remarks, fails, crashes, clicks

tVars == <<after, calls, remark, awaiting, dirty, closed, dead, task, drawing, message, ending, record, remarks, fails, crashes, clicks>>
turn == <<after, calls, remark, awaiting>>
marks == <<dirty, closed, dead>>
counts == <<remarks, fails, crashes, clicks>>

Blank == [kind |-> "blank", calls |-> <<>>, awaiting |-> 0, word |-> 0, page |-> 0, open |-> 0]

TraceInit ==
    /\ after \in Afters /\ calls = <<>> /\ remark = 0 /\ awaiting = 0
    /\ dirty = FALSE /\ closed = FALSE /\ dead = FALSE /\ task = "none" /\ drawing = Blank
    /\ message = [at |-> "none", shows |-> Blank] /\ ending = "no"
    /\ record = [kept |-> FALSE, calls |-> <<>>]
    /\ remarks = 0 /\ fails = 0 /\ crashes = 0 /\ clicks = 0

Running == {i \in DOMAIN calls : calls[i].state = "unfinished"}

(* TurnCalls.latest: the remark since, else what led to the newest call     *)
(* while one runs.                                                          *)
Latest == IF remark # 0 THEN remark ELSE IF Running = {} THEN 0 ELSE calls[Len(calls)].remark

(* render_counter and steps_of. *)
Counter == [Blank EXCEPT !.kind = "counter", !.calls = calls, !.awaiting = awaiting, !.word = Latest]

-----------------------------------------------------------------------------
(* TurnTrace.on_event: noted, and the redraws are begun where there are     *)
(* none.  A closed trace takes nothing.                                     *)
Marks ==
    /\ dirty' = TRUE /\ task' = IF task = "none" THEN "loop" ELSE task
    /\ UNCHANGED <<closed, dead>>

Begins(x) ==
    /\ ending = "no" /\ ~closed /\ Len(calls) < MaxCalls
    /\ calls' = Append(calls, [tool |-> x, state |-> "unfinished", remark |-> remark])
    /\ remark' = 0 /\ UNCHANGED <<after, awaiting>>
    /\ Marks
    /\ UNCHANGED <<drawing, message, ending, record, counts>>

(* A remark before any call changes no view. *)
Remarks ==
    /\ ending = "no" /\ ~closed /\ remarks < MaxRemarks
    /\ remarks' = remarks + 1 /\ remark' = remarks + 1
    /\ IF calls = <<>> THEN UNCHANGED <<marks, task>> ELSE Marks
    /\ UNCHANGED <<after, calls, awaiting, drawing, message, ending, record, fails, crashes, clicks>>

Finishes(i) ==
    /\ ending = "no" /\ ~closed /\ i \in Running
    /\ \E how \in {"ok", "failed"} : calls' = [calls EXCEPT ![i].state = how]
    /\ awaiting' = IF awaiting = i THEN 0 ELSE awaiting
    /\ Marks
    /\ UNCHANGED <<after, remark, drawing, message, ending, record, counts>>

(* The gate names the tool; the newest call of it that runs is meant. *)
Awaits(x) ==
    /\ ending = "no" /\ ~closed
    /\ LET of == {i \in Running : calls[i].tool = x} IN
       /\ of # {}
       /\ awaiting' = CHOOSE i \in of : \A j \in of : j <= i
    /\ Marks
    /\ UNCHANGED <<after, calls, remark, drawing, message, ending, record, counts>>

-----------------------------------------------------------------------------
(* _redraws: the mark is taken off before the view is made. *)
Redraws ==
    /\ task = "loop"
    /\ IF dirty /\ ~closed /\ ~dead
         THEN dirty' = FALSE /\ task' = "drawing" /\ drawing' = Counter
         ELSE task' = "none" /\ UNCHANGED <<dirty, drawing>>
    /\ UNCHANGED <<turn, closed, dead, message, ending, record, counts>>

(* _draw: posted the first time, then rewritten. *)
Drawn ==
    /\ task = "drawing"
    /\ message' = [at |-> "up", shows |-> drawing]
    /\ task' = IF closed THEN "none" ELSE "waiting"
    /\ drawing' = Blank
    /\ UNCHANGED <<turn, marks, ending, record, counts>>

Fails == fails < MaxFails /\ fails' = fails + 1

DrawFails ==
    /\ task = "drawing" /\ Fails
    /\ dead' = TRUE /\ task' = IF closed THEN "none" ELSE "waiting"
    /\ UNCHANGED <<turn, dirty, closed, drawing, message, ending, record, remarks, crashes, clicks>>

(* A second is over, or end() wakes it. *)
Wakes ==
    /\ task = "waiting" /\ task' = "loop"
    /\ UNCHANGED <<turn, marks, drawing, message, ending, record, counts>>

-----------------------------------------------------------------------------
(* end *)
Ends ==
    /\ ending = "no" /\ ending' = "awaits"
    /\ closed' = TRUE
    /\ UNCHANGED <<turn, dirty, dead, task, drawing, message, record, counts>>

Onwards ==
    ending' = IF calls = <<>> \/ dead THEN "done" ELSE IF after = "nothing" THEN "delete" ELSE "record"

(* Mutant: a draw on its way is left to itself. *)
SettlesAtOnce ==
    /\ ending = "awaits" /\ Onwards
    /\ UNCHANGED <<turn, marks, task, drawing, message, record, counts>>

(* The redraws are waited for first. *)
Settles ==
    /\ ending = "awaits" /\ task = "none" /\ Onwards
    /\ UNCHANGED <<turn, marks, task, drawing, message, record, counts>>

Deletes ==
    /\ ending = "delete" /\ ending' = "done"
    /\ message' = IF message.at = "up" THEN [at |-> "gone", shows |-> Blank] ELSE message
    /\ UNCHANGED <<turn, marks, task, drawing, record, counts>>

(* The record is written before the button appears. *)
Keeps ==
    /\ ending = "record" /\ ending' = "button"
    /\ record' = [kept |-> TRUE, calls |-> calls]
    /\ UNCHANGED <<turn, marks, task, drawing, message, counts>>

ShowsButton ==
    /\ ending = "button" /\ ending' = "done"
    /\ message' = [at |-> "up", shows |-> [Blank EXCEPT !.kind = "button"]]
    /\ UNCHANGED <<turn, marks, task, drawing, record, counts>>

(* The store or the platform does not do it: it is logged. *)
EndFails ==
    /\ ending \in {"delete", "record", "button"} /\ Fails /\ ending' = "done"
    /\ UNCHANGED <<turn, marks, task, drawing, message, record, remarks, crashes, clicks>>

(* The engine dies; at its next start the traces past the retention go.     *)
Crashes ==
    /\ crashes < MaxCrashes /\ crashes' = crashes + 1
    /\ ending' = IF ending = "done" THEN "done" ELSE "crashed"
    /\ task' = "none" /\ closed' = TRUE
    /\ record' \in {record, [record EXCEPT !.kept = FALSE]}
    /\ UNCHANGED <<turn, dirty, dead, drawing, message, remarks, fails, clicks>>

-----------------------------------------------------------------------------
(* TraceScreen.render: a click's value, on the position the message carries *)
PageOf(i) == (i - 1) \div PageSize
Pages(cs) == IF cs = <<>> THEN 1 ELSE PageOf(Len(cs)) + 1
Listed(cs, page, open) == [Blank EXCEPT !.kind = "list", !.calls = cs, !.page = page, !.open = open]

(* The failed call is what it is opened for. *)
Opened(cs) ==
    LET bad == {i \in DOMAIN cs : cs[i].state = "failed"} IN
    IF bad = {} THEN Listed(cs, 0, 0)
    ELSE LET i == CHOOSE i \in bad : \A j \in bad : i <= j IN Listed(cs, PageOf(i), i)

RowOf(cs, v, i) == Listed(cs, PageOf(i), IF v.open = i THEN 0 ELSE i)

(* A click comes from what a person sees, which may be the message before   *)
(* its last redraw: any row and any page of the calls.                      *)
Clicks ==
    /\ message.shows.kind \in {"button", "list"} /\ clicks < MaxClicks /\ clicks' = clicks + 1
    /\ LET cs == record.calls
           v == message.shows IN
       \E next \in IF ~record.kept THEN {[Blank EXCEPT !.kind = "expired"]}
                   ELSE IF v.kind = "button" THEN {Opened(cs)}
                   ELSE {[Blank EXCEPT !.kind = "button"]}
                        \cup {RowOf(cs, v, i) : i \in DOMAIN cs}
                        \cup {Listed(cs, p, 0) : p \in {q \in {v.page - 1, v.page + 1} : q \in 0 .. (Pages(cs) - 1)}} :
         message' = [message EXCEPT !.shows = next]
    /\ UNCHANGED <<turn, marks, task, drawing, ending, record, remarks, fails, crashes>>

TraceNext ==
    \/ \E x \in Tools : Begins(x) \/ Awaits(x)
    \/ \E i \in 1 .. MaxCalls : Finishes(i)
    \/ Remarks \/ Redraws \/ Drawn \/ DrawFails \/ Wakes
    \/ Ends \/ Settles \/ Deletes \/ Keeps \/ ShowsButton \/ EndFails \/ Crashes \/ Clicks

TraceSpec == TraceInit /\ [][TraceNext]_tVars

(* The redraws are a task the event loop runs. *)
TraceFairness == WF_tVars(Redraws \/ Drawn \/ Wakes)

-----------------------------------------------------------------------------
Behind == ending = "no" /\ ~dead /\ calls # <<>> /\ message.shows # Counter

(* What is on the screen comes to be what the turn is on, whatever happened *)
(* while a view was drawn (_redraws, "The loop redraws once per interval    *)
(* while there is something new").                                          *)
ScreenCatchesUp == Behind ~> ~Behind

(* A turn that is over leaves no counter behind, a draw under way when it   *)
(* ended included (end).                                                    *)
ReplyStandsAlone ==
    (ending = "done" /\ fails = 0) => message.shows.kind # "counter" /\ (after = "nothing" => message.at # "up")

(* A button has the turn's calls behind it, across a crash, until they are  *)
(* swept (end, "so a click can never find nothing behind it").              *)
ButtonHasItsCalls ==
    message.shows.kind = "button" => record.calls = calls

(* The call shown as waiting for the person is one that runs. *)
AwaitedRuns == awaiting # 0 => awaiting \in Running

(* A row that is open is on the page that is shown. *)
OpenRowIsShown ==
    message.shows.kind = "list" =>
      /\ message.shows.page < Pages(record.calls)
      /\ message.shows.open # 0 => PageOf(message.shows.open) = message.shows.page

-----------------------------------------------------------------------------
(* What the code does not keep *)

(* "When the turn ends it is deleted and the reply stands alone".           *)
CounterGoes == ending = "done" => message.shows.kind # "counter"
=============================================================================
