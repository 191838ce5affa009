--------------------------------- MODULE WsHub ---------------------------------
(***************************************************************************)
(* The websocket gateway (gateways/ws): one service with one token, the     *)
(* sockets it opens, and the frames its agents send it: over the registered *)
(* socket, else into a bounded buffer that the next connection flushes.     *)
(* Frames in from the service go to an agent's sink and leave nothing       *)
(* behind here.  A service may open a socket while earlier ones are open,   *)
(* and its end of any may go: until that is noticed (a write that fails,    *)
(* the heartbeat) a send returns although nobody reads.  The hub's stop is  *)
(* the engine's end and left out.                                           *)
(***************************************************************************)
EXTENDS Naturals, Sequences, SequencesExt, FiniteSets

CONSTANTS
    Frames,         \* reply, notice and file frames, in the order the agents send them: 1..n
    Sockets,
    Limit,          \* _BUFFER_LIMIT
    NoSocket

VARIABLES
    conn,           \* _conns[service]
    socket,         \* per socket: its handler, whether the service's end is there, and ws.closed
    buffer,         \* _buffers[service]
    sending,        \* per frame: how far _deliver is, and on which socket
    received,       \* history: what the service got, in order
    dropped,        \* history: frames that fell out of the full buffer or died with a flush
    unsure          \* history: frames handed to a socket whose other end was gone

wsVars == <<conn, socket, buffer, sending, received, dropped, unsure>>

WsInit ==
    /\ conn = NoSocket
    /\ socket = [s \in Sockets |-> [st |-> "none", peer |-> FALSE, closed |-> FALSE]]
    /\ buffer = <<>>
    /\ sending = [f \in Frames |-> [pc |-> "none", on |-> NoSocket]]
    /\ received = <<>> /\ dropped = {} /\ unsure = {}

(* A write to s fails: it was closed, or its handler is through. *)
Closed(s) == socket[s].closed \/ socket[s].st \in {"none", "over"}

(* What is written to s is read. *)
Live(s) == socket[s].peer /\ ~Closed(s)

-----------------------------------------------------------------------------
(* _handle, up to its first await: the new socket is registered, and an old *)
(* one that is open is closed.                                              *)
Connect(s) ==
    /\ socket[s].st = "none"
    /\ LET supersedes == conn # NoSocket /\ ~socket[conn].closed IN
       socket' = [z \in Sockets |->
                    IF z = s THEN [st |-> IF supersedes THEN "superseding" ELSE "flushing", peer |-> TRUE, closed |-> FALSE]
                    ELSE IF z = conn THEN [socket[z] EXCEPT !.closed = TRUE]
                    ELSE socket[z]]
    /\ conn' = s
    /\ UNCHANGED <<buffer, sending, received, dropped, unsure>>

(* old.close() returned: its peer answered, or took too long. *)
Supersede(s) ==
    /\ socket[s].st = "superseding"
    /\ socket' = [socket EXCEPT ![s].st = "flushing"]
    /\ UNCHANGED <<conn, buffer, sending, received, dropped, unsure>>

(* Bug: whoever leaves takes the registration along. *)
GoneAll(s) == NoSocket

(* A handler's finally. *)
Gone(s) == IF conn = s THEN NoSocket ELSE conn

(* One round of the flush: the frame is out of the buffer before it is      *)
(* sent.  A failure ends the handler ahead of its try, which leaves the     *)
(* socket registered.                                                       *)
FlushSends(s) ==
    /\ IF Live(s) THEN received' = Append(received, Head(buffer)) /\ UNCHANGED unsure
                  ELSE ~Closed(s) /\ unsure' = unsure \cup {Head(buffer)} /\ UNCHANGED received
    /\ UNCHANGED <<socket, dropped>>

FlushRaises(s) ==
    /\ ~Live(s)
    /\ dropped' = dropped \cup {Head(buffer)}
    /\ socket' = [socket EXCEPT ![s].st = "over"]
    /\ UNCHANGED <<received, unsure>>

Flush(s) ==
    /\ socket[s].st = "flushing" /\ buffer # <<>>
    /\ buffer' = Tail(buffer)
    /\ FlushSends(s) \/ FlushRaises(s)
    /\ UNCHANGED <<conn, sending>>

Flushed(s) ==
    /\ socket[s].st = "flushing" /\ buffer = <<>>
    /\ socket' = [socket EXCEPT ![s].st = "open"]
    /\ UNCHANGED <<conn, buffer, sending, received, dropped, unsure>>

(* The message loop ends: the socket was closed, or its peer found gone.    *)
Leave(s) ==
    /\ socket[s].st = "open" /\ ~Live(s)
    /\ socket' = [socket EXCEPT ![s].st = "over"]
    /\ conn' = Gone(s)
    /\ UNCHANGED <<buffer, sending, received, dropped, unsure>>

PeerGoes(s) ==
    /\ socket[s].peer
    /\ socket' = [socket EXCEPT ![s].peer = FALSE]
    /\ UNCHANGED <<conn, buffer, sending, received, dropped, unsure>>

-----------------------------------------------------------------------------
(* The bounded deque drops its oldest frame. *)
Buffered(f) ==
    /\ buffer' = IF Len(buffer) = Limit THEN Append(Tail(buffer), f) ELSE Append(buffer, f)
    /\ dropped' = dropped \cup (IF Len(buffer) = Limit THEN {Head(buffer)} ELSE {})

(* send / send_file, up to the await of the send. *)
Deliver(f) ==
    /\ sending[f].pc = "none" /\ \A g \in 1..(f - 1) : sending[g].pc # "none"
    /\ IF conn # NoSocket /\ ~socket[conn].closed
         THEN sending' = [sending EXCEPT ![f] = [pc |-> "sending", on |-> conn]] /\ UNCHANGED <<buffer, dropped>>
         ELSE sending' = [sending EXCEPT ![f].pc = "done"] /\ Buffered(f)
    /\ UNCHANGED <<conn, socket, received, unsure>>

(* ... the peer has it; *)
SendArrives(f, s) ==
    /\ Live(s)
    /\ received' = Append(received, f)
    /\ UNCHANGED <<buffer, dropped, unsure>>

(* ... the connection failed: the frame is buffered;                        *)
SendFails(f, s) ==
    /\ ~Live(s)
    /\ Buffered(f)
    /\ UNCHANGED <<received, unsure>>

(* ... or the peer is gone and nothing said so, or it went as it read.      *)
GoesNowhere(f, s) ==
    /\ ~socket[s].peer
    /\ unsure' = unsure \cup {f}
    /\ \/ ~Closed(s) /\ UNCHANGED <<received, buffer, dropped>>
       \/ received' = Append(received, f) /\ Buffered(f)

SendEnds(f) ==
    /\ sending[f].pc = "sending"
    /\ sending' = [sending EXCEPT ![f].pc = "done"]
    /\ LET s == sending[f].on IN SendArrives(f, s) \/ SendFails(f, s) \/ GoesNowhere(f, s)
    /\ UNCHANGED <<conn, socket>>

-----------------------------------------------------------------------------
WsNext ==
    \/ \E s \in Sockets : Connect(s) \/ Supersede(s) \/ Flush(s) \/ Flushed(s) \/ Leave(s) \/ PeerGoes(s)
    \/ \E f \in Frames : Deliver(f) \/ SendEnds(f)

WsSpec == WsInit /\ [][WsNext]_wsVars

-----------------------------------------------------------------------------
WsTypeOK ==
    /\ conn \in Sockets \cup {NoSocket}
    /\ \A s \in Sockets : socket[s].st \in {"none", "superseding", "flushing", "open", "over"}
    /\ Len(buffer) <= Limit

(* A service that is connected is reached: a socket whose handler serves it *)
(* and that no later one closed is the registered one, whatever the         *)
(* handlers of the other sockets do when they end.                          *)
ConnectedIsReached ==
    \A s \in Sockets : socket[s].st \in {"superseding", "flushing", "open"} /\ ~socket[s].closed => conn = s

(* No frame reaches the service twice, through a flush, a failing send and  *)
(* a reconnect between them, but one whose reader went while it was sent.   *)
NoFrameTwice == \A i, j \in DOMAIN received : i # j => received[i] # received[j] \/ received[i] \in unsure

(* A frame whose delivery is over was received, waits in the buffer, fell   *)
(* out of the full one or with a flush, or was handed to a socket whose     *)
(* peer was gone: a send that fails loses none, nor does a reconnect.       *)
FramesAreAccounted ==
    \A f \in Frames : sending[f].pc = "done" => f \in ToSet(received) \cup ToSet(buffer) \cup dropped \cup unsure

(* Frames go to the latest socket of a service, are received once, and are  *)
(* received, wait, or are lost in one of three ways: out of the full        *)
(* buffer, with a flush that fails, to a peer that had gone (ws/hub.py      *)
(* _handle, _deliver).                                                      *)
FramesAreKept == WsTypeOK /\ ConnectedIsReached /\ NoFrameTwice /\ FramesAreAccounted

(* Frames are received in the order they were sent. *)
FramesInOrder == \A i, j \in DOMAIN received : i < j => received[i] < received[j]

(* The buffer is for a service that is offline ("flushed on reconnect").    *)
NothingWaitsWhileConnected ==
    (\E s \in Sockets : socket[s].st = "open" /\ Live(s) /\ conn = s) => buffer = <<>>

(* A frame sent while the service's end of the socket is down goes to the   *)
(* buffer (docs/ws-gateway.md, "Offline services").                         *)
OfflineIsBuffered == unsure = {}
================================================================================
