--------------------------------- MODULE Relay ---------------------------------
(***************************************************************************)
(* An agent's runtime in a container of its own: the engine's end of a      *)
(* session (runtimes/pi/hosts/remote.py), the relay's handler for it        *)
(* (runtime_relay/server.py) and the process behind it, over a socket that  *)
(* can break.  The sessions are those of one conversation, one after the    *)
(* other on the engine's side: they share its memory directory.             *)
(*                                                                         *)
(* A frame is its kind, a line of the process one that fits STREAM_LIMIT or *)
(* a long one; what a spawn names (tools, skills, environment) is either    *)
(* accepted or refused.                                                     *)
(***************************************************************************)
EXTENDS Naturals, Sequences, FiniteSetsExt

CONSTANTS
    Sessions,       \* 1..n, in the order the engine opens them
    MaxLines        \* a bound: lines a process writes

VARIABLES
    engine,         \* RemoteHost.open and RemoteTransport: how far, lines read, why it ended
    link,           \* up, closed by the engine or the host (what is under way still arrives), or down
    toHost, toEngine,
    host,           \* RelayServer._session and _serve: how far
    process,        \* the runtime process
    pipe,           \* how many lines of its stdout are unread
    wrote,          \* its stdout: each line, or "long"
    scratch         \* its scratch directory exists

relayVars == <<engine, link, toHost, toEngine, host, process, pipe, wrote, scratch>>

RelayInit ==
    /\ engine = [s \in Sessions |-> [pc |-> "none", got |-> 0, why |-> ""]]
    /\ link = [s \in Sessions |-> "none"]
    /\ toHost = [s \in Sessions |-> <<>>] /\ toEngine = [s \in Sessions |-> <<>>]
    /\ host = [s \in Sessions |-> "none"] /\ process = [s \in Sessions |-> "none"]
    /\ pipe = [s \in Sessions |-> 0] /\ wrote = [s \in Sessions |-> <<>>]
    /\ scratch = [s \in Sessions |-> FALSE]

Send(queue, s, frame) == [queue EXCEPT ![s] = Append(@, frame)]
Rest(queue, s) == [queue EXCEPT ![s] = Tail(@)]
Ends(s, pc, why) == engine' = [engine EXCEPT ![s].pc = pc, ![s].why = why]
(* The host's end of the socket: frames still come until it is down. *)
Broken(s) == link[s] = "down"
HostSends(s, frame) == toEngine' = IF link[s] = "up" THEN Send(toEngine, s, frame) ELSE toEngine

-----------------------------------------------------------------------------
(* The engine *)

(* open: a socket, the spawn frame, and the wait for ready. *)
Open(s) ==
    /\ engine[s].pc = "none" /\ \A u \in 1..(s - 1) : engine[u].pc \in {"closed", "refused"}
    /\ Ends(s, "spawning", "") /\ link' = [link EXCEPT ![s] = "up"]
    /\ toHost' = Send(toHost, s, "spawn") /\ host' = [host EXCEPT ![s] = "accept"]
    /\ UNCHANGED <<toEngine, process, pipe, wrote, scratch>>

(* No socket: nothing runs there, or the token is refused. *)
OpenFails(s) ==
    /\ engine[s].pc = "none" /\ \A u \in 1..(s - 1) : engine[u].pc \in {"closed", "refused"}
    /\ Ends(s, "refused", "unreachable")
    /\ UNCHANGED <<link, toHost, toEngine, host, process, pipe, wrote, scratch>>

(* _await_ready: the first frame decides. *)
FirstFrame(s) ==
    /\ engine[s].pc = "spawning" /\ toEngine[s] # <<>>
    /\ toEngine' = Rest(toEngine, s)
    /\ CASE Head(toEngine[s]) = "ready" -> Ends(s, "open", "") /\ UNCHANGED link
         [] Head(toEngine[s]) = "error" -> Ends(s, "refused", "spawn") /\ link' = [link EXCEPT ![s] = "down"]
         [] OTHER -> Ends(s, "refused", "no process") /\ link' = [link EXCEPT ![s] = "down"]
    /\ UNCHANGED <<toHost, host, process, pipe, wrote, scratch>>

(* The wait times out, or the caller is cancelled: the socket is closed.    *)
GivesUp(s) ==
    /\ engine[s].pc = "spawning"
    /\ Ends(s, "closing", "timeout") /\ toHost' = Send(toHost, s, "close")
    /\ UNCHANGED <<link, toEngine, host, process, pipe, wrote, scratch>>

(* lines: up to exit, or the end of the socket. *)
ReadFrame(s) ==
    /\ engine[s].pc = "open" /\ toEngine[s] # <<>>
    /\ toEngine' = Rest(toEngine, s)
    /\ IF Head(toEngine[s]) = "line" THEN engine' = [engine EXCEPT ![s].got = @ + 1] /\ UNCHANGED toHost
       ELSE Ends(s, "closing", Head(toEngine[s])) /\ toHost' = Send(toHost, s, "close")
    /\ UNCHANGED <<link, host, process, pipe, wrote, scratch>>

SocketEnds(s) ==
    /\ engine[s].pc \in {"spawning", "open"} /\ link[s] # "up" /\ toEngine[s] = <<>>
    /\ Ends(s, IF engine[s].pc = "open" THEN "closed" ELSE "refused", "unexpected")
    /\ link' = [link EXCEPT ![s] = "down"]
    /\ UNCHANGED <<toHost, toEngine, host, process, pipe, wrote, scratch>>

(* aclose: the session is done with its process. *)
Close(s) ==
    /\ engine[s].pc = "open"
    /\ Ends(s, "closing", "done") /\ toHost' = Send(toHost, s, "close")
    /\ UNCHANGED <<link, toEngine, host, process, pipe, wrote, scratch>>

(* The close was answered, or waited for long enough. *)
Closed(s) ==
    /\ engine[s].pc = "closing"
    /\ engine' = [engine EXCEPT ![s].pc = "closed"]
    /\ link' = [link EXCEPT ![s] = "down"]
    /\ UNCHANGED <<toHost, toEngine, host, process, pipe, wrote, scratch>>

(* The network or a container goes; the frames under way with it. *)
Breaks(s) ==
    /\ link[s] \in {"up", "host closed"}
    /\ link' = [link EXCEPT ![s] = "down"]
    /\ toHost' = [toHost EXCEPT ![s] = <<>>] /\ toEngine' = [toEngine EXCEPT ![s] = <<>>]
    /\ UNCHANGED <<engine, host, process, pipe, wrote, scratch>>

-----------------------------------------------------------------------------
(* The relay *)

Goes(s, pc) == host' = [host EXCEPT ![s] = pc]

(* _accept and parse: the process is asked for, refused, or nobody is there *)
(* any more.                                                                *)
Accept(s) ==
    /\ host[s] = "accept" /\ (toHost[s] # <<>> \/ Broken(s))
    /\ \/ /\ toHost[s] = <<>> /\ Goes(s, "over") /\ UNCHANGED <<link, toHost, toEngine>>
       \/ /\ toHost[s] # <<>> /\ toHost' = Rest(toHost, s)
          /\ \/ Goes(s, "start") /\ UNCHANGED <<link, toEngine>>
             \/ Goes(s, "over") /\ HostSends(s, "error") /\ link' = [link EXCEPT ![s] = IF @ = "up" THEN "host closed" ELSE @]
    /\ UNCHANGED <<engine, process, pipe, wrote, scratch>>

(* _start: the scratch directory, then the process. *)
Start(s) ==
    /\ host[s] = "start"
    /\ \/ /\ Goes(s, "started") /\ process' = [process EXCEPT ![s] = "running"]
          /\ scratch' = [scratch EXCEPT ![s] = TRUE] /\ UNCHANGED <<link, toEngine>>
       \/ /\ Goes(s, "over") /\ HostSends(s, "error") /\ scratch' = [scratch EXCEPT ![s] = Broken(s)]
          /\ link' = [link EXCEPT ![s] = IF @ = "up" THEN "host closed" ELSE @] /\ UNCHANGED process
    /\ UNCHANGED <<engine, toHost, pipe, wrote>>

(* ready; over a socket that is gone by now it raises, before anything is   *)
(* there to stop the process, or is lost.                                   *)
SendReady(s) ==
    /\ host[s] = "started"
    /\ \/ Broken(s) /\ Goes(s, "over") /\ UNCHANGED toEngine
       \/ Goes(s, "serving") /\ HostSends(s, "ready")
    /\ UNCHANGED <<engine, link, toHost, process, pipe, wrote, scratch>>

NextLine(s) == wrote[s][Len(wrote[s]) - pipe[s] + 1]

(* _pump_stdout: a line is sent, and lost or raises where the socket is     *)
(* gone; readline raises at one over STREAM_LIMIT, which ends the output.   *)
PumpOut(s) ==
    /\ host[s] = "serving" /\ pipe[s] > 0
    /\ pipe' = [pipe EXCEPT ![s] = @ - 1]
    /\ \/ (Broken(s) \/ NextLine(s) = "long") /\ Goes(s, "telling") /\ UNCHANGED toEngine
       \/ NextLine(s) = "line" /\ HostSends(s, "line") /\ UNCHANGED host
    /\ UNCHANGED <<engine, link, toHost, process, wrote, scratch>>

(* _pump_stdin ends: the engine closed, the socket is gone, or what it sent *)
(* found no process.                                                        *)
PumpIn(s) ==
    /\ host[s] = "serving"
    /\ \/ toHost[s] # <<>> /\ toHost' = Rest(toHost, s)
       \/ (Broken(s) \/ process[s] = "exited") /\ UNCHANGED toHost
    /\ Goes(s, "ending")
    /\ UNCHANGED <<engine, link, toEngine, process, pipe, wrote, scratch>>

(* Bug: the end of the process is looked for, not the end of its output. *)
OutputEndsEarly(s) ==
    /\ host[s] = "serving" /\ process[s] = "exited"
    /\ Goes(s, "telling")
    /\ UNCHANGED <<engine, link, toHost, toEngine, process, pipe, wrote, scratch>>

(* The process closed its stdout and everything it said was passed on. *)
OutputEnds(s) ==
    /\ host[s] = "serving" /\ process[s] = "exited" /\ pipe[s] = 0
    /\ Goes(s, "telling")
    /\ UNCHANGED <<engine, link, toHost, toEngine, process, pipe, wrote, scratch>>

(* _exit_detail and _say_exit. *)
SayExit(s) ==
    /\ host[s] = "telling"
    /\ Goes(s, "ending") /\ HostSends(s, "exit")
    /\ UNCHANGED <<engine, link, toHost, process, pipe, wrote, scratch>>

(* The finally of _serve: the pumps are cancelled, the process is           *)
(* terminated and after its grace killed, its scratch removed, the socket   *)
(* closed.                                                                  *)
Stop(s) ==
    /\ host[s] = "ending"
    /\ Goes(s, "over") /\ process' = [process EXCEPT ![s] = "gone"] /\ scratch' = [scratch EXCEPT ![s] = FALSE]
    /\ link' = [link EXCEPT ![s] = IF @ = "up" THEN "host closed" ELSE @]
    /\ UNCHANGED <<engine, toHost, toEngine, pipe, wrote>>

-----------------------------------------------------------------------------
(* The process, external: writes lines, ends when it likes. *)
Writes(s) ==
    /\ process[s] = "running" /\ Len(wrote[s]) < MaxLines
    /\ \E line \in {"line", "long"} : wrote' = [wrote EXCEPT ![s] = Append(@, line)]
    /\ pipe' = [pipe EXCEPT ![s] = @ + 1]
    /\ UNCHANGED <<engine, link, toHost, toEngine, host, process, scratch>>

Exits(s) ==
    /\ process[s] = "running"
    /\ process' = [process EXCEPT ![s] = "exited"]
    /\ UNCHANGED <<engine, link, toHost, toEngine, host, pipe, wrote, scratch>>

-----------------------------------------------------------------------------
HostStep(s) ==
    Accept(s) \/ Start(s) \/ SendReady(s) \/ PumpOut(s) \/ PumpIn(s) \/ OutputEnds(s) \/ SayExit(s) \/ Stop(s)

EngineStep(s) == FirstFrame(s) \/ ReadFrame(s) \/ SocketEnds(s) \/ Closed(s)

RelayNext ==
    \E s \in Sessions : \/ Open(s) \/ OpenFails(s) \/ GivesUp(s) \/ Close(s) \/ Breaks(s)
                        \/ HostStep(s) \/ EngineStep(s) \/ Writes(s) \/ Exits(s)

RelaySpec == RelayInit /\ [][RelayNext]_relayVars

(* The handlers and pumps of both sides go on. *)
Fairness == \A s \in Sessions : WF_relayVars(HostStep(s)) /\ WF_relayVars(EngineStep(s))

-----------------------------------------------------------------------------
RelayTypeOK ==
    \A s \in Sessions : /\ link[s] \in {"none", "up", "host closed", "down"}
                        /\ process[s] \in {"none", "running", "exited", "gone"}
                        /\ pipe[s] <= Len(wrote[s])

(* The lines ahead of the first that is too long. *)
Readable(s) == Min({i \in DOMAIN wrote[s] : wrote[s][i] = "long"} \cup {Len(wrote[s]) + 1}) - 1

(* What a process said is read before its end is: an engine that is told    *)
(* the process exited has every line it wrote, or every line ahead of one   *)
(* that was too long to be read (the exit follows the end of the output, on *)
(* the same socket).                                                        *)
LinesBeforeExit == \A s \in Sessions : engine[s].why = "exit" => engine[s].got = Readable(s)

(* No line overtakes ready: a session is never given up because the first   *)
(* frame it saw was the process's own.                                      *)
NothingBeforeReady == \A s \in Sessions : engine[s].why # "no process"

(* A session being served whose engine is gone ends with its process and    *)
(* its scratch directory gone, wherever it broke.                           *)
ServedIsCleanedUp ==
    \A s \in Sessions : (host[s] = "serving" /\ engine[s].pc \in {"closed", "refused"})
                        ~> (process[s] = "gone" /\ ~scratch[s])

-----------------------------------------------------------------------------
(* What the code does not keep *)

(* "when the socket ends first, the process is stopped" (server.py): a      *)
(* handler that is over leaves no process.                                  *)
NoOrphanBehindSocket == \A s \in Sessions : host[s] = "over" => process[s] # "running"

(* "The process closed its stdout: it is ending. Say why." (server.py): an  *)
(* engine that is told of the exit is told of a process that ended.         *)
ExitMeansEnded == \A s \in Sessions : engine[s].why = "exit" => process[s] # "running"

(* "nothing above this line can tell them apart" (RemoteTransport): as with *)
(* a local transport, whose close waits for its process, a conversation has *)
(* one process at a time.                                                   *)
OneProcessPerMemory == \A s, u \in Sessions : process[s] = "running" /\ process[u] = "running" => s = u
================================================================================
