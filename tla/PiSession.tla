------------------------------- MODULE PiSession -------------------------------
(***************************************************************************)
(* PiRpcSession (crucible/runtimes/pi/session.py): one conversation's        *)
(* process and the turns its owner runs on it.  The owner's call writes a    *)
(* prompt and polls; the read loop applies what the process prints to        *)
(* whatever turn is in flight, for its events do not say which prompt they   *)
(* answer; a person asked by the process blocks the read loop, a person      *)
(* asked by the tool server does not; a cancel and a close come from other   *)
(* tasks at any moment.                                                      *)
(*                                                                           *)
(* An action is a stretch of code between two awaits.  An event carries the  *)
(* number of the prompt it was printed for, which only the properties read.  *)
(* The process is external: it is modelled by the protocol the code relies   *)
(* on.  Time is counted in polls; time between turns is left out, since      *)
(* every clock here starts with a turn.                                      *)
(***************************************************************************)
EXTENDS Integers, Sequences, FiniteSets

CONSTANTS
    Prompts,        \* how many prompts the owner sends (a bound)
    Big,            \* the prompts that do not fit the pipe's buffers
    Tools,          \* tool call ids
    Timeout, IdleTimeout, WrapUpAfter, TokensPerTurn,  \* as given to prompt()
    UiTimeout,      \* the longest a person is waited on
    Bridged,        \* whether a UiBridge is wired
    MaxAsks,        \* how often a person is asked (a bound)
    MaxPipe,        \* unread events (a bound)
    MaxTokens,      \* tokens of a turn are counted so far (a bound)
    Horizon,        \* the clock stops here (a bound)
    None

VARIABLES
    now,
    closed, poisoned,
    turn,       \* _turn
    future,     \* the future of each turn ever begun
    call,       \* the owner's prompt(): where it stands, the turn, when _await_turn began
    canceller,  \* a cancel(): where it stands and the turn it is about
    closing,    \* a close() waiting for the process
    reader,     \* the read loop
    wait,       \* _ui_wait_depth, _ui_wait_started, _ui_wait_total
    holds,      \* the people waited on: by the read loop or by a tool-server gate, and since when
    proc,       \* the process: alive, its unread input, the prompt it runs and how far
    pipe,       \* what it printed and nobody has read
    asks,       \* people asked so far
    quiet,      \* history: ticks of this turn with nobody waited on
    hush,       \* history: of these, the ticks since the last event with no tool running
    verdict     \* history: how each prompt ended

session == <<closed, poisoned, turn, future, wait, reader>>
tasks == <<call, canceller, closing, holds>>
history == <<quiet, hush, verdict>>
process == <<proc, pipe, asks>>
vars == <<now, session, tasks, process, history>>

NoTurn == [n |-> 0, ended |-> 0, heard |-> {}, tools |-> {}, last |-> 0,
           tokens |-> 0, wrapped |-> FALSE, told |-> FALSE]
Resting == [pc |-> "idle", n |-> 0, started |-> 0]

Event(kind, id) == [kind |-> kind, of |-> proc.run, id |-> id]
InFlight == turn.n # 0

Init ==
    /\ now = 0
    /\ closed = FALSE /\ poisoned = FALSE
    /\ turn = NoTurn
    /\ future = [n \in 1..Prompts |-> "none"]
    /\ call = Resting /\ canceller = Resting /\ closing = FALSE
    /\ reader = "reading"
    /\ wait = [depth |-> 0, started |-> None, total |-> 0]
    /\ holds = {}
    /\ proc = [alive |-> TRUE, inbox |-> <<>>, run |-> 0, phase |-> "idle", tools |-> {}, asking |-> FALSE]
    /\ pipe = <<>>
    /\ asks = 0
    /\ quiet = 0 /\ hush = 0
    /\ verdict = [n \in 1..Prompts |-> [how |-> "none", from |-> {}, quiet |-> 0, hush |-> 0]]

-----------------------------------------------------------------------------
(* pause_clock: overlapping waits count once, while any of them is open. *)

Enter(w) == [w EXCEPT !.depth = @ + 1, !.started = IF w.depth = 0 THEN now ELSE @]

(* Bug: the last wait to end leaves the pause open. *)
LeaveOpen(w) == [w EXCEPT !.depth = @ - 1]

(* Bug: the first wait to end stops the pause of the others. *)
LeaveEach(w) ==
    [depth |-> w.depth - 1, started |-> None,
     total |-> IF w.started # None THEN w.total + now - w.started ELSE w.total]

(* The code. *)
Leave(w) ==
    IF w.depth = 1 /\ w.started # None
      THEN [depth |-> 0, started |-> None, total |-> w.total + now - w.started]
      ELSE [w EXCEPT !.depth = @ - 1]

(* _run_turn: a wait already open counts from here. *)
Restarted(w) == [w EXCEPT !.total = 0, !.started = IF w.depth > 0 THEN now ELSE None]

Paused == wait.started # None

Hold(by) == [by |-> by, since |-> now]
Without(by) == {h \in holds : h.by # by}

-----------------------------------------------------------------------------
(* The transport: a line is written at once and drained when the process    *)
(* reads; a dead process cannot be written to.                              *)
Sent(command) == [proc EXCEPT !.inbox = Append(@, command)]
Command(kind, n) == [kind |-> kind, n |-> n]
Drained == \A i \in DOMAIN proc.inbox : proc.inbox[i].kind = "prompt" => proc.inbox[i].n \notin Big

(* _fail_turn and the end of _complete_turn: a future is set once. *)
Settle(n, how) == [future EXCEPT ![n] = IF @ = "pending" THEN how ELSE @]

(* _end_or_fail: answer with the run that had ended, if one had.  Whether   *)
(* that run carried an answer or the model's error is the model's choice.   *)
EndOrFail(t) ==
    IF t.n = 0 THEN UNCHANGED future
      ELSE \E how \in IF t.ended # 0 THEN {"answered", "failed"} ELSE {"failed"} :
             future' = Settle(t.n, how)

-----------------------------------------------------------------------------
(* The owner: prompt(), one at a time. *)

BeginPrompt(n) ==
    /\ call.pc = "idle"
    /\ verdict[n].how = "none" /\ \A m \in 1..(n - 1) : verdict[m].how # "none"
    /\ ~closed /\ ~poisoned
    /\ turn' = [NoTurn EXCEPT !.n = n, !.last = now]
    /\ future' = [future EXCEPT ![n] = "pending"]
    /\ wait' = Restarted(wait)
    /\ call' = [pc |-> "sending", n |-> n, started |-> now]
    /\ proc' = IF proc.alive THEN Sent(Command("prompt", n)) ELSE proc
    /\ quiet' = 0 /\ hush' = 0
    /\ UNCHANGED <<now, closed, poisoned, reader, canceller, closing, holds, pipe, asks, verdict>>

(* A closed or poisoned session refuses. *)
Refuses(n) ==
    /\ call.pc = "idle"
    /\ verdict[n].how = "none" /\ \A m \in 1..(n - 1) : verdict[m].how # "none"
    /\ closed \/ poisoned
    /\ verdict' = [verdict EXCEPT ![n].how = "refused"]
    /\ UNCHANGED <<now, session, tasks, process, quiet, hush>>

(* The call ends, its turn is no longer in flight. *)
Ends(how) ==
    /\ turn' = NoTurn
    /\ call' = Resting
    /\ verdict' = [verdict EXCEPT ![call.n].how = how, ![call.n].from = turn.heard]

PromptWritten ==
    /\ call.pc = "sending"
    /\ proc.alive /\ Drained
    /\ call' = [call EXCEPT !.pc = "waiting", !.started = now]
    /\ UNCHANGED <<now, session, canceller, closing, holds, process, history>>

(* A write to a dead process raises an OSError that nothing here catches. *)
WriteFails ==
    /\ call.pc = "sending"
    /\ ~proc.alive
    /\ Ends("broken pipe")
    /\ UNCHANGED <<now, closed, poisoned, future, wait, reader, canceller, closing, holds, process, quiet, hush>>

Returns ==
    /\ call.pc = "waiting"
    /\ future[call.n] # "pending"
    /\ Ends(future[call.n])
    /\ UNCHANGED <<now, closed, poisoned, future, wait, reader, canceller, closing, holds, process, quiet, hush>>

-----------------------------------------------------------------------------
(* _await_turn: one round of the poll, on a turn still open with nobody     *)
(* being waited on.  The conditions are tried in this order.                *)
Polls == call.pc = "waiting" /\ future[call.n] = "pending" /\ ~Paused

Active == (now - call.started) - wait.total
OutOfTime == Active >= Timeout
Stalled == IdleTimeout # 0 /\ turn.tools = {} /\ now - turn.last >= IdleTimeout
WrapsUp == WrapUpAfter # 0 /\ ~turn.wrapped /\ Active >= WrapUpAfter
OverBudget == TokensPerTurn # 0 /\ 4 * turn.tokens >= 5 * TokensPerTurn
TellsBudget == TokensPerTurn # 0 /\ ~turn.told /\ turn.tokens >= TokensPerTurn

(* Poisoned, then aborted. *)
Stops(how) ==
    /\ poisoned' = TRUE
    /\ call' = [call EXCEPT !.pc = how]
    /\ proc' = IF proc.alive THEN Sent(Command("abort", call.n)) ELSE proc
    /\ verdict' = [verdict EXCEPT ![call.n].quiet = quiet, ![call.n].hush = hush]
    /\ UNCHANGED <<now, closed, turn, future, wait, reader, canceller, closing, holds, pipe, asks, quiet, hush>>

TimesOut == Polls /\ OutOfTime /\ Stops("timeout")

Stalls == Polls /\ ~OutOfTime /\ Stalled /\ Stops("stalled")

(* The notes are steering lines; writing one to a dead process raises. *)
Notes ==
    /\ Polls /\ ~OutOfTime /\ ~Stalled
    /\ WrapsUp \/ (TellsBudget /\ ~OverBudget)
    /\ IF proc.alive
         THEN /\ turn' = [turn EXCEPT !.wrapped = @ \/ WrapsUp, !.told = @ \/ (TellsBudget /\ ~OverBudget)]
              /\ UNCHANGED <<call, verdict>>
         ELSE Ends("broken pipe")
    /\ UNCHANGED <<now, closed, poisoned, future, wait, reader, canceller, closing, holds, process, quiet, hush>>

GoesOver == Polls /\ ~OutOfTime /\ ~Stalled /\ ~WrapsUp /\ OverBudget /\ Stops("over budget")

(* The abort is written, or could not be. *)
Raises ==
    /\ call.pc \in {"timeout", "stalled", "over budget"}
    /\ Drained \/ ~proc.alive
    /\ Ends(call.pc)
    /\ UNCHANGED <<now, closed, poisoned, future, wait, reader, canceller, closing, holds, process, quiet, hush>>

-----------------------------------------------------------------------------
(***************************************************************************)
(* The read loop.  _dispatch applies an event to the turn in flight.        *)
(***************************************************************************)
Heard(e) ==
    [turn EXCEPT !.last = now, !.heard = @ \cup {e.of},
                 !.ended = IF e.kind = "agent_end" THEN e.of ELSE @,
                 !.tools = CASE e.kind = "tool_start" -> @ \cup {e.id}
                             [] e.kind = "tool_end" -> @ \ {e.id}
                             [] OTHER -> @,
                 !.tokens = IF e.kind = "turn_end" /\ @ < MaxTokens THEN @ + 1 ELSE @]

(* What settles the turn: a rejected or consumed prompt of its own, or the  *)
(* runtime's settling, answered with the run that ended before it.  An      *)
(* agent_end that will be retried answers nothing.                          *)
Outcomes(e) ==
    CASE e.kind = "rejected" /\ e.of = turn.n -> {"failed"}
      [] e.kind = "handled" /\ e.of = turn.n -> {"answered"}
      [] e.kind = "agent_settled" /\ turn.ended = 0 -> {"failed"}
      [] e.kind = "agent_settled" /\ turn.ended # 0 -> {"answered", "failed"}
      [] OTHER -> {}

Dispatch ==
    /\ reader = "reading"
    /\ pipe # <<>> /\ Head(pipe).kind # "ask"
    /\ pipe' = Tail(pipe)
    /\ hush' = 0
    /\ IF InFlight
         THEN /\ turn' = Heard(Head(pipe))
              /\ IF Outcomes(Head(pipe)) = {} THEN UNCHANGED future
                   ELSE \E how \in Outcomes(Head(pipe)) : future' = Settle(turn.n, how)
         ELSE UNCHANGED <<turn, future>>
    /\ UNCHANGED <<now, closed, poisoned, wait, reader, tasks, proc, asks, quiet, verdict>>

(* _handle_ui_request: with a bridge a person is asked, and until they have *)
(* answered nothing more is read; without one the backstop answers.         *)
AskPerson ==
    /\ reader = "reading"
    /\ pipe # <<>> /\ Head(pipe).kind = "ask"
    /\ pipe' = Tail(pipe)
    /\ turn' = IF InFlight THEN Heard(Head(pipe)) ELSE turn
    /\ hush' = 0
    /\ IF Bridged
         THEN /\ reader' = "asking" /\ wait' = Enter(wait) /\ holds' = holds \cup {Hold("ui")}
              /\ UNCHANGED proc
         ELSE /\ proc' = IF proc.alive THEN Sent(Command("reply", 0)) ELSE proc
              /\ UNCHANGED <<reader, wait, holds>>
    /\ UNCHANGED <<now, closed, poisoned, future, call, canceller, closing, asks, quiet, verdict>>

PersonAnswers ==
    /\ reader = "asking"
    /\ reader' = "reading"
    /\ wait' = Leave(wait)
    /\ holds' = Without("ui")
    /\ proc' = IF proc.alive THEN Sent(Command("reply", 0)) ELSE proc
    /\ UNCHANGED <<now, closed, poisoned, turn, future, call, canceller, closing, pipe, asks, history>>

(* End of file, and the exit detail is waited for; or a line too long for   *)
(* the reader's buffer takes the loop down under a live process.            *)
ReadEnds ==
    /\ reader = "reading"
    /\ (~proc.alive /\ pipe = <<>>) \/ pipe # <<>>
    /\ reader' = "dying"
    /\ UNCHANGED <<now, closed, poisoned, turn, future, wait, tasks, process, history>>

ReaderDies ==
    /\ reader = "dying"
    /\ reader' = "gone"
    /\ EndOrFail(turn)
    /\ UNCHANGED <<now, closed, poisoned, turn, wait, tasks, process, history>>

-----------------------------------------------------------------------------
(* A tool-server gate takes a pause while it waits on a person: human_wait. *)
HoldBegins ==
    /\ turn.tools # {} /\ asks < MaxAsks /\ Without("gate") = holds
    /\ holds' = holds \cup {Hold("gate")}
    /\ asks' = asks + 1
    /\ wait' = Enter(wait)
    /\ UNCHANGED <<now, closed, poisoned, turn, future, reader, call, canceller, closing, proc, pipe, history>>

HoldEnds ==
    /\ Without("gate") # holds
    /\ holds' = Without("gate")
    /\ wait' = Leave(wait)
    /\ UNCHANGED <<now, closed, poisoned, turn, future, reader, call, canceller, closing, process, history>>

(* cancel(): abort, then wait for the turn's end or the grace to pass.  One *)
(* cancel in a behaviour: a bound.                                          *)
CancelTells ==
    /\ canceller.pc = "idle" /\ InFlight
    /\ canceller' = [pc |-> "telling", n |-> turn.n, started |-> now]
    /\ proc' = IF proc.alive THEN Sent(Command("abort", turn.n)) ELSE proc
    /\ UNCHANGED <<now, session, call, closing, holds, pipe, asks, history>>

CancelReturns ==
    /\ \/ canceller.pc = "telling" /\ (Drained \/ ~proc.alive) /\ canceller' = [canceller EXCEPT !.pc = "waiting"]
       \/ canceller.pc = "waiting" /\ canceller' = [Resting EXCEPT !.pc = "done"]
    /\ UNCHANGED <<now, session, call, closing, holds, process, history>>

(* close(): the process is ended first, then the read loop and the turn. *)
CloseBegins ==
    /\ ~closed
    /\ closed' = TRUE /\ closing' = TRUE
    /\ UNCHANGED <<now, poisoned, turn, future, wait, reader, call, canceller, holds, process, history>>

CloseEnds ==
    /\ closing
    /\ closing' = FALSE
    /\ proc' = [proc EXCEPT !.alive = FALSE, !.inbox = <<>>]
    /\ pipe' = <<>>
    /\ reader' = "gone"
    /\ wait' = IF reader = "asking" THEN Leave(wait) ELSE wait
    /\ holds' = Without("ui")
    /\ EndOrFail(turn)
    /\ UNCHANGED <<now, closed, poisoned, turn, call, canceller, asks, history>>

-----------------------------------------------------------------------------
(***************************************************************************)
(* The process (external).  It reads its input in order, runs one prompt at *)
(* a time, and after a run's end may go on by itself before it settles.     *)
(* Text and reasoning are a sign of life as the end of a retried run is.    *)
(***************************************************************************)
Free == proc.alive /\ Len(pipe) < MaxPipe

Says(kind, id) == pipe' = Append(pipe, Event(kind, id))
Rest == <<now, session, tasks, history>>

TakesPrompt ==
    /\ Free /\ proc.inbox # <<>> /\ Head(proc.inbox).kind = "prompt" /\ proc.phase = "idle"
    /\ \/ proc' = [proc EXCEPT !.inbox = Tail(@), !.run = Head(proc.inbox).n, !.phase = "running"] /\ UNCHANGED pipe
       \/ \E kind \in {"rejected", "handled"} :
            /\ proc' = [proc EXCEPT !.inbox = Tail(@)]
            /\ pipe' = Append(pipe, [kind |-> kind, of |-> Head(proc.inbox).n, id |-> None])
    /\ UNCHANGED <<Rest, asks>>

TakesAbort ==
    /\ Free /\ proc.inbox # <<>> /\ Head(proc.inbox).kind = "abort"
    /\ IF proc.phase = "running"
         THEN /\ proc' = [proc EXCEPT !.inbox = Tail(@), !.phase = "ended", !.tools = {}, !.asking = FALSE]
              /\ Says("agent_end", None)
         ELSE proc' = [proc EXCEPT !.inbox = Tail(@)] /\ UNCHANGED pipe
    /\ UNCHANGED <<Rest, asks>>

TakesReply ==
    /\ proc.alive /\ proc.inbox # <<>> /\ Head(proc.inbox).kind = "reply"
    /\ proc' = [proc EXCEPT !.inbox = Tail(@), !.asking = FALSE]
    /\ UNCHANGED <<Rest, pipe, asks>>

Works ==
    /\ Free /\ proc.phase = "running" /\ ~proc.asking
    /\ \/ Says("retried_end", None) /\ UNCHANGED proc
       \/ TokensPerTurn # 0 /\ Says("turn_end", None) /\ UNCHANGED proc
       \/ \E c \in Tools \ proc.tools : Says("tool_start", c) /\ proc' = [proc EXCEPT !.tools = @ \cup {c}]
       \/ \E c \in proc.tools : Says("tool_end", c) /\ proc' = [proc EXCEPT !.tools = @ \ {c}]
    /\ UNCHANGED <<Rest, asks>>

Asks ==
    /\ Free /\ proc.phase = "running" /\ ~proc.asking /\ asks < MaxAsks
    /\ Says("ask", None)
    /\ proc' = [proc EXCEPT !.asking = TRUE]
    /\ asks' = asks + 1
    /\ UNCHANGED Rest

Finishes ==
    /\ Free
    /\ \/ /\ proc.phase = "running" /\ proc.tools = {} /\ ~proc.asking
          /\ Says("agent_end", None)
          /\ proc' = [proc EXCEPT !.phase = "ended"]
       \/ /\ proc.phase = "ended"
          /\ proc' = [proc EXCEPT !.phase = "running"]
          /\ UNCHANGED pipe
       \/ /\ proc.phase = "ended" \/ (proc.phase = "running" /\ proc.tools = {} /\ ~proc.asking)
          /\ Says("agent_settled", None)
          /\ proc' = [proc EXCEPT !.phase = "idle", !.run = 0]
    /\ UNCHANGED <<Rest, asks>>

Exits ==
    /\ proc.alive
    /\ proc' = [proc EXCEPT !.alive = FALSE, !.inbox = <<>>]
    /\ UNCHANGED <<Rest, pipe, asks>>

(* A tick is longer than a poll: none passes while a poll has something to  *)
(* do.  No person is waited on longer than the bridge's or the gate's limit. *)
PollIsDue ==
    \/ call.pc \notin {"idle", "waiting"} /\ (Drained \/ ~proc.alive)
    \/ call.pc = "waiting" /\ future[call.n] # "pending"
    \/ Polls /\ (OutOfTime \/ Stalled \/ WrapsUp \/ OverBudget \/ TellsBudget)

Clock ==
    /\ now < Horizon
    /\ call.pc # "idle" /\ ~PollIsDue
    /\ \A h \in holds : now - h.since < UiTimeout
    /\ now' = now + 1
    /\ quiet' = IF wait.depth = 0 THEN quiet + 1 ELSE quiet
    /\ hush' = IF wait.depth = 0 /\ turn.tools = {} THEN hush + 1 ELSE hush
    /\ UNCHANGED <<session, tasks, process, verdict>>

-----------------------------------------------------------------------------
Owner == \E n \in 1..Prompts : BeginPrompt(n) \/ Refuses(n)

Poll == TimesOut \/ Stalls \/ Notes \/ GoesOver \/ Raises \/ Returns \/ PromptWritten \/ WriteFails

Reader == Dispatch \/ AskPerson \/ PersonAnswers \/ ReadEnds \/ ReaderDies

Others == HoldBegins \/ HoldEnds \/ CancelTells \/ CancelReturns \/ CloseBegins \/ CloseEnds

Process == TakesPrompt \/ TakesAbort \/ TakesReply \/ Works \/ Asks \/ Finishes \/ Exits

Next == Owner \/ Poll \/ Reader \/ Others \/ Process \/ Clock

Spec == Init /\ [][Next]_vars

(***************************************************************************)
(* Fairness is the engine's own: the event loop runs the owner's call, the  *)
(* read loop and the clock, and a person is waited on for a bounded time.   *)
(* The process owes nothing.                                                *)
(***************************************************************************)
Fairness ==
    /\ WF_vars(Poll) /\ WF_vars(Clock)
    /\ WF_vars(PersonAnswers) /\ WF_vars(HoldEnds) /\ WF_vars(ReaderDies)
    /\ WF_vars(CloseEnds) /\ WF_vars(CancelReturns)

FairSpec == Spec /\ Fairness

-----------------------------------------------------------------------------
Pending == {"sending", "waiting", "timeout", "stalled", "over budget"}

TypeOK ==
    /\ now \in 0..Horizon
    /\ closed \in BOOLEAN /\ poisoned \in BOOLEAN /\ closing \in BOOLEAN
    /\ turn.n \in 0..Prompts /\ turn.ended \in 0..Prompts /\ turn.tools \subseteq Tools
    /\ turn.n = (IF call.pc \in Pending THEN call.n ELSE 0)
    /\ future \in [1..Prompts -> {"none", "pending", "answered", "failed"}]
    /\ call.pc \in Pending \cup {"idle"}
    /\ reader \in {"reading", "asking", "dying", "gone"}
    /\ wait.depth = Cardinality(holds)
    /\ wait.depth > 0 <=> Paused
    /\ Len(pipe) <= MaxPipe

(***************************************************************************)
(* "A late agent_settled from the aborted turn could otherwise complete the *)
(* next turn": what a prompt returns was made of its own events only.       *)
(***************************************************************************)
AnsweredByOwnRun ==
    \A n \in 1..Prompts :
        verdict[n].how \in {"answered", "failed"} => verdict[n].from \subseteq {n}

(***************************************************************************)
(* "A slow approver never poisons the session": a turn that ran out of time *)
(* had its whole timeout with nobody being waited on, however the waits of  *)
(* the bridge and of the tool server overlapped.                            *)
(***************************************************************************)
TimeoutExcludesHumans ==
    \A n \in 1..Prompts : verdict[n].how = "timeout" => verdict[n].quiet >= Timeout

(***************************************************************************)
(* The watchdog stops a process that "has said nothing for idle_timeout     *)
(* while no tool is running and nobody is waited on".                       *)
(***************************************************************************)
StalledMeansHung ==
    \A n \in 1..Prompts : verdict[n].how = "stalled" => verdict[n].hush >= IdleTimeout

(***************************************************************************)
(* "A genuinely stuck turn still times out": a call of prompt() returns or  *)
(* raises, whatever the process does.                                       *)
(***************************************************************************)
EveryPromptEnds == call.pc # "idle" ~> call.pc = "idle"
=============================================================================
