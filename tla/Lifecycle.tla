------------------------------ MODULE Lifecycle ------------------------------
(***************************************************************************)
(* One engine process from its first step to its last (impi app.py run,     *)
(* _supervise, stop_on_sigterm; replica_heartbeat.py; the start, drain and  *)
(* stop of http/hub.py; Scheduler.stop; PiRuntime.close).                   *)
(*                                                                          *)
(* What is started is started one thing after another, and stopped in       *)
(* another order by a chain nothing guards: the first stop that raises ends *)
(* it.  Turns come in by three doors while the process starts, serves and   *)
(* stops.  A turn owes nothing: it may wait for a person for ever.          *)
(***************************************************************************)
EXTENDS Naturals, Sequences, SequencesExt

CONSTANTS
    Turns, KindOf,      \* "chat" (one conversation's), "http", "task"
    MaxFaults,          \* bound: steps that raise, beats that fail
    MaxTerms            \* bound: SIGTERMs

VARIABLES
    main,       \* where the main task is
    up,         \* what was started and not stopped
    turn,       \* per turn: none, queued (behind another of its conversation),
                \*   running, done, failed, or cut by the end of the process
    process,    \* per turn: its runtime process
    row,        \* per scheduled run: its row in the store
    heart,      \* the heartbeat's loop: off, beating, backing off
    lease,      \* the lease replica:<id>
    late,       \* the drain ran out
    terms, faults

lVars == <<main, up, turn, process, row, heart, lease, late, terms, faults>>

(* run, above its try ... *)
Opening == <<"runtime", "mcp", "tools", "cards", "ws", "http", "connect", "beat">>

(* ... inside it, before the loops: the logins, the recovery of lost tasks, *)
(* the signal handlers ...                                                  *)
Joining == <<"login", "recover", "handlers">>

ClosingOutOfOrder == <<"forwarder", "delegation", "ws", "drain", "http", "connect", "cards",
                       "tools", "mcp", "gateways", "runtime", "store", "scheduler">>

(* ... and its finally. *)
Closing == <<"forwarder", "scheduler", "delegation", "ws", "drain", "http", "connect", "cards",
             "tools", "mcp", "gateways", "runtime", "store">>

Starting == {<<"start", i>> : i \in DOMAIN (Opening \o Joining)}
Stopping == {<<"stop", i>> : i \in DOMAIN Closing}
Serving == <<"serve", 0>>
Gone == <<"gone", 0>>

Step == IF main \in Starting THEN (Opening \o Joining)[main[2]]
        ELSE IF main \in Stopping THEN Closing[main[2]] ELSE main[1]

Running(kind) == {t \in Turns : KindOf[t] = kind /\ turn[t] = "running"}

(* build_app: the store is open, nothing else is. *)
LifeInit ==
    /\ main = <<"start", 1>> /\ up = {"store"}
    /\ turn = [t \in Turns |-> "none"] /\ process = [t \in Turns |-> FALSE]
    /\ row = [t \in {u \in Turns : KindOf[u] = "task"} |-> "none"]
    /\ heart = "off" /\ lease = FALSE /\ late = FALSE /\ terms = 0 /\ faults = 0

-----------------------------------------------------------------------------
(* The end of the process: asyncio.run cancels every task that is left.     *)
Cut == [t \in Turns |-> IF turn[t] \in {"queued", "running"} THEN "cut" ELSE turn[t]]

Exit ==
    /\ main' = Gone /\ turn' = Cut /\ heart' = "off"

(* The next thing starts; a beat takes the lease, the handlers are the last *)
(* before the loops, one of them the heartbeat's.                           *)
Starts ==
    /\ main \in Starting
    /\ up' = up \cup {Step}
    /\ lease' = (lease \/ Step = "beat")
    /\ main' = IF main[2] = Len(Opening \o Joining) THEN Serving ELSE <<"start", main[2] + 1>>
    /\ heart' = IF main' = Serving THEN "beating" ELSE heart
    /\ UNCHANGED <<turn, process, row, late, terms, faults>>

(* It does not start: above the try the process ends as it is, inside it by *)
(* way of the finally.                                                      *)
StartRaises ==
    /\ main \in Starting /\ faults < MaxFaults /\ faults' = faults + 1
    /\ IF Step \in ToSet(Opening)
         THEN Exit /\ UNCHANGED <<up, process>>
         ELSE main' = <<"stop", 1>> /\ UNCHANGED <<up, turn, process, heart>>
    /\ UNCHANGED <<row, lease, late, terms>>

-----------------------------------------------------------------------------
(* Turns *)

Draining == main \in Stopping /\ \E i \in 1..main[2] : Closing[i] = "drain"

(* A message, or a task come due, by a door that is open: the http hub's    *)
(* until it drains, the gateways' and the scheduler's while their loops run.*)
Open(kind) ==
    IF kind = "http" THEN "http" \in up /\ ~Draining ELSE main = Serving

Spawns(t) ==
    /\ turn' = [turn EXCEPT ![t] = "running"]
    /\ process' = [process EXCEPT ![t] = TRUE]

Arrives(t) ==
    /\ turn[t] = "none" /\ Open(KindOf[t])
    /\ IF KindOf[t] = "chat" /\ Running("chat") # {}
         THEN turn' = [turn EXCEPT ![t] = "queued"] /\ UNCHANGED process
         ELSE Spawns(t)
    /\ row' = IF KindOf[t] = "task" THEN [row EXCEPT ![t] = "open"] ELSE row
    /\ UNCHANGED <<main, up, heart, lease, late, terms, faults>>

(* The coalescer's worker takes up what waited. *)
TakesUp(t) ==
    /\ turn[t] = "queued" /\ Running("chat") = {} /\ main # Gone
    /\ Spawns(t)
    /\ UNCHANGED <<main, up, row, heart, lease, late, terms, faults>>

Ends(t) ==
    /\ turn[t] = "running" /\ process[t] /\ main # Gone
    /\ turn' = [turn EXCEPT ![t] = "done"]
    /\ row' = IF KindOf[t] = "task" THEN [row EXCEPT ![t] = "closed"] ELSE row
    /\ UNCHANGED <<main, up, process, heart, lease, late, terms, faults>>

(* The runtime was closed under it. *)
Fails(t) ==
    /\ turn[t] = "running" /\ ~process[t] /\ main # Gone
    /\ turn' = [turn EXCEPT ![t] = "failed"]
    /\ UNCHANGED <<main, up, process, row, heart, lease, late, terms, faults>>

-----------------------------------------------------------------------------
(* ReplicaHeartbeat.run under _supervise *)

(* A beat that raises ends the loop, which lets the lease go on its way     *)
(* out; _supervise starts it again after a while.                           *)
BeatFails ==
    /\ heart = "beating" /\ main = Serving /\ faults < MaxFaults
    /\ heart' = "backing off" /\ lease' = FALSE /\ faults' = faults + 1
    /\ UNCHANGED <<main, up, turn, process, row, late, terms>>

BeatsAgain ==
    /\ heart = "backing off" /\ main = Serving
    /\ heart' = "beating" /\ lease' = TRUE
    /\ UNCHANGED <<main, up, turn, process, row, late, terms, faults>>

(* Nobody renews it. *)
Lapses ==
    /\ lease /\ main = Gone
    /\ lease' = FALSE
    /\ UNCHANGED <<main, up, turn, process, row, heart, late, terms, faults>>

-----------------------------------------------------------------------------
(* SIGTERM cancels the main task alone, and its loops with it: the          *)
(* heartbeat's lets the lease go before the finally begins.                 *)
TermMain ==
    /\ main' = <<"stop", 1>> /\ heart' = "off" /\ lease' = FALSE
    /\ UNCHANGED <<up, turn, process, row>>

(* Before the handler is there the signal kills; in the finally it cancels  *)
(* the step that is waited for and with it the rest of the chain.           *)
Term ==
    /\ main # Gone /\ terms < MaxTerms /\ terms' = terms + 1
    /\ IF main = Serving THEN TermMain ELSE Exit /\ UNCHANGED <<up, process, row, lease>>
    /\ UNCHANGED <<late, faults>>

StepsOn == main' = IF main[2] = Len(Closing) THEN Gone ELSE <<"stop", main[2] + 1>>

(* Scheduler.stop: what runs is cancelled, its row closed if it still can. *)
CancelsRuns ==
    /\ Step = "scheduler"
    /\ turn' = [t \in Turns |-> IF t \in Running("task") THEN "cut" ELSE turn[t]]
    /\ row' = [t \in DOMAIN row |-> IF t \in Running("task") /\ "store" \in up THEN "closed" ELSE row[t]]
    /\ UNCHANGED <<up, process, late>>

(* http_hub.drain, idle: until no turn runs ... *)
Drained ==
    /\ Step = "drain" /\ Running("http") = {}
    /\ UNCHANGED <<up, turn, process, row, late>>

(* ... or for HTTP_DRAIN_S seconds. *)
DrainedLate ==
    /\ Step = "drain" /\ Running("http") # {}
    /\ late' = TRUE
    /\ UNCHANGED <<up, turn, process, row>>

(* HttpHub.stop: a turn still running there is abandoned. *)
StopsHttp ==
    /\ Step = "http"
    /\ up' = up \ {"http"}
    /\ turn' = [t \in Turns |-> IF t \in Running("http") THEN "cut" ELSE turn[t]]
    /\ UNCHANGED <<process, row, late>>

(* PiRuntime.close: every process there is. *)
ClosesRuntime ==
    /\ Step = "runtime"
    /\ up' = up \ {"runtime"} /\ process' = [t \in Turns |-> FALSE]
    /\ UNCHANGED <<turn, row, late>>

StopsPlain ==
    /\ Step \notin {"scheduler", "drain", "http", "runtime"}
    /\ up' = up \ {Step}
    /\ turn' = IF Step = "store" THEN Cut ELSE turn
    /\ UNCHANGED <<process, row, late>>

(* After the last, the process is over. *)
Stops ==
    /\ main \in Stopping
    /\ CancelsRuns \/ Drained \/ DrainedLate \/ StopsHttp \/ ClosesRuntime \/ StopsPlain
    /\ StepsOn /\ UNCHANGED <<heart, lease, terms, faults>>

StopRaises ==
    /\ main \in Stopping /\ faults < MaxFaults /\ faults' = faults + 1
    /\ Exit
    /\ UNCHANGED <<up, process, row, lease, late, terms>>

-----------------------------------------------------------------------------
LifeNext ==
    \/ Starts \/ StartRaises \/ Stops \/ StopRaises \/ Term
    \/ BeatFails \/ BeatsAgain \/ Lapses
    \/ \E t \in Turns : Arrives(t) \/ TakesUp(t) \/ Ends(t) \/ Fails(t)

LifeSpec == LifeInit /\ [][LifeNext]_lVars

(* The event loop takes the main task on; nobody owes an end of a turn.     *)
LifeFairness == WF_lVars(Stops)

-----------------------------------------------------------------------------
(* A process told to stop ends, whatever its turns wait for (app.py run:    *)
(* the finally, HTTP_DRAIN_S).                                              *)
StopEnds == main \in Stopping ~> main = Gone

(* An http turn is cut short only when the drain ran out, when a step of    *)
(* the stop raised, or when the process was told twice, or before it had a  *)
(* handler (app.py run, "let the running ones finish"; stop_on_sigterm).    *)
LetFinish ==
    [][\A t \in Turns : (KindOf[t] = "http" /\ turn[t] = "running" /\ turn'[t] = "cut")
         => late \/ faults' > 0 \/ terms' > 1 \/ main \in Starting]_lVars

(* A process that stopped the way it is written to leaves no scheduled      *)
(* run's row open (app.py run: "wants its row closed rather than reclaimed  *)
(* later").                                                                 *)
RowsAreClosed == (main = Gone /\ terms = 1 /\ faults = 0 /\ "store" \notin up) => \A t \in DOMAIN row : row[t] # "open"

-----------------------------------------------------------------------------
(* What the code does not keep. *)

(* A turn of this process finds its lease when it starts: "Alive before     *)
(* anything reaches us" (app.py run).                                       *)
AliveBeforeReached == (main \in Starting /\ \E t \in Turns : turn[t] = "running") => lease

(* The hub says it is ready once the engine has started (http-gateway.md:   *)
(* "503 while the engine starts").                                          *)
ReadyMeansStarted == (main \in Starting) => "http" \notin up

(* A replica that serves is gone only after it missed two renewals          *)
(* (replica_heartbeat.py).                                                  *)
OneMissIsBridged == main = Serving => lease

(* A clean stop hands the lease over at once (replica_heartbeat.py).        *)
CleanStopHandsOver == (main = Gone /\ terms = 0 /\ "store" \notin up) => ~lease

(* A stop leaves no runtime process behind (troubleshooting.md: "so it can  *)
(* close its pi children").                                                 *)
NoChildLeft == (main = Gone /\ terms = 1 /\ faults = 0 /\ "store" \notin up) => \A t \in Turns : ~process[t]
=============================================================================
