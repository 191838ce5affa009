------------------------------ MODULE McpCalls ------------------------------
(* A call of a tool of an MCP server: crucible/mcp/tools.py (McpTool), service.py *)
(* (McpServers.call, client, _drop), protocol.py (McpClient, its transports).     *)
(* The server's standing client is shared by every call and by the listings of   *)
(* the recheck; a client speaks to one child process over stdio, or by POSTs     *)
(* over http.  Everything between two awaits is one step.                         *)
EXTENDS Integers, FiniteSets

CONSTANTS Callers,     \* the calls and listings made of the one server
          Lists,       \* those that are a listing of the recheck
          Personal,    \* those that carry a person's token: a connection each
          Http,        \* the binding: streamable http, else stdio
          Legacy,      \* the server needs the initialize handshake
          MaxClients,  \* bound: clients ever built
          MaxProcs,    \* bound: child processes ever started
          MaxDeaths    \* bound: processes that die, connections that fail

Clients == 1 .. MaxClients
Procs == 1 .. MaxProcs
Purposes == {"discover", "initialize", "notify", "call"}
Futures == {"nothing", "ok", "refused", "status", "version", "exited"}
Told == {"none", "ok", "refused", "unanswered", "unreachable"}

VARIABLES clients,   \* clients built so far
          standing,  \* McpServers._clients[name]; 0 for none
          client,    \* client[c]: the client and its transport
          procs,     \* procs[p]: "none", "up", "dead" (returncode unset), "gone"
          startedBy, \* startedBy[p]: the client whose transport started the process
          greeted,   \* the processes whose handshake was made
          at,        \* at[k]: where the call stands
          asked,     \* asked[k]: the request it awaits, or awaits to send
          got,       \* got[k]: what its future holds
          box,       \* box[p]: the requests a process (0: the http server) holds
          runs,      \* how often the server ran the tool for the call
          answered,  \* the calls whose tools/call the server answered
          told,      \* what the model is told
          deaths

cvars == <<clients, standing, client, procs, startedBy, greeted, at, asked, got, box,
           runs, answered, told, deaths>>

NoRequest == [purpose |-> "call", id |-> 0, on |-> 0, try |-> 1]
NewClient == [version |-> "modern", probed |-> FALSE, initialized |-> FALSE,
              proc |-> 0, next |-> 0, waiting |-> {}]

CallsTypeOK ==
    /\ clients \in 0 .. MaxClients /\ standing \in 0 .. clients
    /\ \A c \in Clients : client[c].proc \in 0 .. MaxProcs
    /\ procs \in [Procs -> {"none", "up", "dead", "gone"}]
    /\ startedBy \in [Procs -> 0 .. MaxClients] /\ greeted \subseteq Procs
    /\ \A k \in Callers : asked[k].purpose \in Purposes
    /\ at \in [Callers -> {"idle", "again", "spawning", "waiting", "closing", "done"}]
    /\ got \in [Callers -> Futures]
    /\ told \in [Callers -> Told]

CallsInit == /\ clients = 0 /\ standing = 0
             /\ client = [c \in Clients |-> NewClient]
             /\ procs = [p \in Procs |-> "none"]
             /\ startedBy = [p \in Procs |-> 0] /\ greeted = {}
             /\ at = [k \in Callers |-> "idle"]
             /\ asked = [k \in Callers |-> NoRequest]
             /\ got = [k \in Callers |-> "nothing"]
             /\ box = [p \in 0 .. MaxProcs |-> {}]
             /\ runs = [k \in Callers |-> 0] /\ answered = {}
             /\ told = [k \in Callers |-> "none"] /\ deaths = 0

-----------------------------------------------------------------------------
(* What a client does first for a call: the era, then the handshake.  A call made *)
(* while another's probe is out finds _probed set and does not wait for it.        *)
Opening(v) ==
    CASE v.version = "legacy" /\ v.initialized -> "call"
      [] v.version = "legacy" /\ ~v.initialized -> "initialize"
      [] v.version = "modern" /\ ~Http /\ ~v.probed -> "discover"
      [] OTHER -> "call"

(* The request is written: the next id, a future among the waiting, the line out.  *)
Written(k, r, v, p) ==
    LET s == [r EXCEPT !.id = v.next + 1]
    IN  /\ client' = [client EXCEPT ![r.on] =
                        [v EXCEPT !.next = @ + 1,
                                  !.waiting = @ \cup {[id |-> v.next + 1, call |-> k]}]]
        /\ box' = [box EXCEPT ![p] = @ \cup
                     {[call |-> k, id |-> s.id, on |-> r.on, modern |-> v.version = "modern",
                       purpose |-> IF k \in Lists /\ s.purpose = "call" THEN "list" ELSE s.purpose]}]
        /\ asked' = [asked EXCEPT ![k] = s]
        /\ at' = [at EXCEPT ![k] = "waiting"]
        /\ got' = [got EXCEPT ![k] = "nothing"]
        /\ UNCHANGED told

(* McpTool._run words the error for the model: a call that may have run is said   *)
(* to be so, one that never left may be repeated.                                  *)
Word(sent, refused) ==
    IF refused THEN "refused" ELSE IF sent THEN "unanswered" ELSE "unreachable"

(* Mutant: any unreachable server is worth a second try.                            *)
AgainAlways(k, r, sent) == k \notin Personal /\ (k \in Lists \/ r.try = 1)

(* An error of call k, whose client stands at v, reaches McpServers.call.  One     *)
(* that never left is tried once more, after the client that stands under the name *)
(* - whichever it is by now - is dropped and closed; a listing that failed drops   *)
(* it whatever the error was; any other error is the end of the call.              *)
Again(k, r, sent) == k \notin Personal /\ (k \in Lists \/ (~sent /\ r.try = 1))

Raises(k, r, v, st, sent, refused) ==
    LET cs == [client EXCEPT ![r.on] = v] IN
    /\ IF Again(k, r, sent \/ refused)
       THEN /\ at' = [at EXCEPT ![k] = IF st # 0 THEN "closing" ELSE
                                       IF k \in Lists THEN "done" ELSE "again"]
            /\ asked' = [asked EXCEPT ![k] = [r EXCEPT !.try = 2,
                                               !.id = IF st # 0 THEN cs[st].proc ELSE 0,
                                               !.on = st]]
            /\ standing' = 0
            /\ client' = IF st = 0 THEN cs
                         ELSE [cs EXCEPT ![st].proc = 0, ![st].initialized = FALSE]
            /\ told' = IF st = 0 /\ k \in Lists
                       THEN [told EXCEPT ![k] = Word(sent, refused)] ELSE told
       ELSE /\ at' = [at EXCEPT ![k] = "done"]
            /\ told' = [told EXCEPT ![k] = Word(sent, refused)]
            /\ standing' = st /\ client' = cs /\ UNCHANGED asked
    /\ UNCHANGED <<got, box>>

(* Transport.request up to its first await: a missing process is to be started, a  *)
(* process that exited is an error that never left, and so is a closed pipe.       *)
Request(k, r, v, st) ==
    \/ /\ Http \/ (v.proc # 0 /\ procs[v.proc] = "up")
       /\ Written(k, r, v, IF Http THEN 0 ELSE v.proc)
       /\ standing' = st
    \/ /\ ~Http /\ v.proc = 0
       /\ at' = [at EXCEPT ![k] = "spawning"]
       /\ asked' = [asked EXCEPT ![k] = r]
       /\ client' = [client EXCEPT ![r.on] = v]
       /\ standing' = st
       /\ UNCHANGED <<got, box, told>>
    \/ /\ ~Http /\ v.proc # 0 /\ procs[v.proc] # "up"
       /\ Raises(k, r, v, st, FALSE, FALSE)

(* McpServers.call, _list: the standing client, or a new one in its place; a       *)
(* person's token rides a client of its own.                                       *)
Begin(k) ==
    LET own == k \in Personal
        new == own \/ standing = 0
        c == IF new THEN clients + 1 ELSE standing
        v == IF new THEN NewClient ELSE client[c]
        what == Opening(v)
    IN  /\ at[k] \in {"idle", "again"}
        /\ c <= MaxClients
        /\ clients' = IF new THEN c ELSE clients
        /\ Request(k, [purpose |-> what, id |-> 0, on |-> c, try |-> asked[k].try],
                   [v EXCEPT !.probed = @ \/ what # "call"], IF own THEN standing ELSE c)
        /\ UNCHANGED <<procs, startedBy, greeted, runs, answered, deaths>>

(* StdioTransport._ensure after its await: the process is up and the transport's,  *)
(* whatever it held by then; or it could not be started, and nothing left.  The    *)
(* handshake's notification is written at once and the call follows it.            *)
Sends(r, v) == IF r.purpose = "notify"
               THEN <<[r EXCEPT !.purpose = "call"], [v EXCEPT !.initialized = TRUE]>>
               ELSE <<r, v>>

Spawned(k) ==
    LET r == asked[k] IN
    /\ at[k] = "spawning"
    /\ \/ \E p \in Procs :
            LET s == Sends(r, [client[r.on] EXCEPT !.proc = p]) IN
            /\ procs[p] = "none" /\ \A q \in Procs : q < p => procs[q] # "none"
            /\ procs' = [procs EXCEPT ![p] = "up"]
            /\ startedBy' = [startedBy EXCEPT ![p] = r.on]
            /\ Written(k, s[1], s[2], p)
            /\ UNCHANGED <<standing, deaths>>
       \/ /\ deaths < MaxDeaths /\ deaths' = deaths + 1
          /\ Raises(k, r, client[r.on], standing, FALSE, FALSE)
          /\ UNCHANGED <<procs, startedBy>>
    /\ UNCHANGED <<clients, greeted, runs, answered>>

(* McpClient past an answer or an error of request r: the era and the handshake    *)
(* move on, a result ends the call, an error is raised.                            *)
Goes(k, r, v, st) ==
    LET what == Opening(v) IN Request(k, [r EXCEPT !.purpose = what],
                                      [v EXCEPT !.probed = TRUE], st)

Resume(k) ==
    LET r == asked[k]
        v == client[r.on]
        old == [v EXCEPT !.version = "legacy", !.probed = TRUE]
    IN  /\ at[k] = "waiting" /\ got[k] # "nothing"
        /\ \/ /\ r.purpose = "discover" /\ got[k] = "ok"
              /\ Request(k, [r EXCEPT !.purpose = "call"], v, standing)
           \/ /\ r.purpose = "discover" /\ got[k] # "ok"
              /\ Goes(k, r, old, standing)
           \/ /\ r.purpose = "initialize" /\ got[k] = "ok"
              /\ IF Http \/ (v.proc # 0 /\ procs[v.proc] = "up")
                 THEN Request(k, [r EXCEPT !.purpose = "call"],
                              [v EXCEPT !.initialized = TRUE], standing)
                 ELSE Request(k, [r EXCEPT !.purpose = "notify"], v, standing)
           \/ /\ r.purpose = "call" /\ got[k] = "ok"
              /\ at' = [at EXCEPT ![k] = "done"] /\ told' = [told EXCEPT ![k] = "ok"]
              /\ UNCHANGED <<standing, client, asked, got, box>>
           \/ /\ r.purpose = "call" /\ got[k] \in {"status", "version"}
              /\ Goes(k, r, old, standing)
           \/ /\ r.purpose # "discover" /\ got[k] \in {"refused", "exited"}
              /\ Raises(k, r, v, standing, got[k] = "exited", got[k] = "refused")
        /\ UNCHANGED <<clients, procs, startedBy, greeted, runs, answered, deaths>>

(* No answer in time.  The future taken out of the waiting is the one under the    *)
(* transport's latest id, which another request may have taken since.              *)
Forgotten(k, v) == IF Http THEN asked[k].id ELSE v.next
Unanswered(k) ==
    LET r == asked[k]
        v == client[r.on]
        left == [v EXCEPT !.waiting = {w \in @ : w.id # Forgotten(k, v)}]
    IN  /\ at[k] = "waiting" /\ got[k] = "nothing"
        /\ IF r.purpose = "discover"
           THEN Goes(k, r, [left EXCEPT !.version = "legacy"], standing)
           ELSE Raises(k, r, left, standing, TRUE, FALSE)
        /\ UNCHANGED <<clients, procs, startedBy, greeted, runs, answered, deaths>>

(* A POST that never connected: the request did not leave.                         *)
ConnectFails(k, q) ==
    LET r == asked[k] IN
    /\ Http /\ at[k] = "waiting" /\ got[k] = "nothing" /\ deaths < MaxDeaths
    /\ q \in box[0] /\ q.call = k /\ q.on = r.on /\ q.id = r.id /\ q.purpose # "ran"
    /\ deaths' = deaths + 1
    /\ box' = [box EXCEPT ![0] = @ \ {q}]
    /\ LET v == [client[r.on] EXCEPT !.waiting = {w \in @ : w.id # r.id}]
           again == Again(k, r, FALSE)
       IN  /\ client' = [client EXCEPT ![r.on] = v]
           /\ standing' = IF again THEN 0 ELSE standing
           /\ at' = [at EXCEPT ![k] = IF again /\ k \notin Lists THEN "again" ELSE "done"]
           /\ asked' = [asked EXCEPT ![k].try = 2]
           /\ told' = IF again /\ k \notin Lists THEN told
                      ELSE [told EXCEPT ![k] = "unreachable"]
    /\ UNCHANGED <<clients, procs, startedBy, greeted, got, runs, answered>>

(* The reader of a process ends: every request waiting on its transport fails.     *)
Exited(c) ==
    /\ got' = [k \in Callers |->
                 IF /\ at[k] = "waiting" /\ got[k] = "nothing"
                    /\ asked[k].on = c /\ [id |-> asked[k].id, call |-> k] \in client[c].waiting
                 THEN "exited" ELSE got[k]]
    /\ client' = [client EXCEPT ![c].waiting = {}]

(* close: the process the transport held is ended and waited for, then its reader. *)
ClientClosed(k) ==
    LET r == asked[k] IN
    /\ at[k] = "closing"
    /\ at' = [at EXCEPT ![k] = IF k \in Lists THEN "done" ELSE "again"]
    /\ told' = IF k \in Lists THEN [told EXCEPT ![k] = "unreachable"] ELSE told
    /\ procs' = [p \in Procs |-> IF p = r.id THEN "gone" ELSE procs[p]]
    /\ IF r.id # 0 THEN Exited(r.on) ELSE UNCHANGED <<client, got>>
    /\ UNCHANGED <<clients, standing, startedBy, greeted, asked, box, runs, answered, deaths>>

-----------------------------------------------------------------------------
(* The server, which is not this repository's: it runs a tool, answers a request   *)
(* in its own time and order, turns down what its era does not know, or dies.      *)
Understands(p, q) ==
    ~Legacy \/ q.purpose = "initialize" \/ (~q.modern /\ (Http \/ p \in greeted))
Held(p, q) == q \in box[p] /\ (IF p = 0 THEN TRUE ELSE procs[p] = "up")

ServerRuns(p, q) ==
    /\ Held(p, q) /\ q.purpose = "call" /\ Understands(p, q)
    /\ runs' = [runs EXCEPT ![q.call] = @ + 1]
    /\ box' = [box EXCEPT ![p] = (@ \ {q}) \cup {[q EXCEPT !.purpose = "ran"]}]
    /\ UNCHANGED <<clients, standing, client, procs, startedBy, greeted, at, asked, got, answered,
                   told, deaths>>

TurnsDown(q) == IF ~q.modern THEN {"refused"}
                ELSE IF Http THEN {"status", "version"} ELSE {"refused", "version"}

(* The future waiting under an answer's id.                                         *)
WaitingFor(q) == {x \in client[q.on].waiting : x.id = q.id}

(* StdioTransport._read and _answer_of: the future waiting under the answer's id   *)
(* gets it, and nobody when none waits.                                            *)
ServerAnswers(p, q) ==
    /\ Held(p, q) /\ (q.purpose = "call" => ~Understands(p, q))
    /\ box' = [box EXCEPT ![p] = @ \ {q}]
    /\ greeted' = IF q.purpose = "initialize" /\ p # 0 THEN greeted \cup {p} ELSE greeted
    /\ LET w == WaitingFor(q) IN
       /\ client' = [client EXCEPT ![q.on].waiting = @ \ w]
       /\ \E a \in IF q.purpose = "ran" \/ Understands(p, q) THEN {"ok"} ELSE TurnsDown(q) :
            got' = [k \in Callers |-> IF at[k] = "waiting" /\ asked[k].on = q.on
                                       /\ [id |-> asked[k].id, call |-> k] \in w
                                    THEN a ELSE got[k]]
    /\ answered' = IF /\ q.purpose = "ran" /\ at[q.call] = "waiting"
                      /\ asked[q.call].on = q.on /\ asked[q.call].id = q.id
                   THEN answered \cup {q.call} ELSE answered
    /\ UNCHANGED <<clients, standing, procs, startedBy, at, asked, runs, told, deaths>>

ProcessDies(p) == /\ procs[p] = "up" /\ deaths < MaxDeaths
                  /\ procs' = [procs EXCEPT ![p] = "dead"] /\ deaths' = deaths + 1
                  /\ box' = [box EXCEPT ![p] = {}]
                  /\ UNCHANGED <<clients, standing, client, startedBy, greeted, at, asked, got, runs,
                                 answered, told>>

ReaderEnds(p) ==
    /\ procs[p] = "dead"
    /\ procs' = [procs EXCEPT ![p] = "gone"]
    /\ Exited(startedBy[p])
    /\ UNCHANGED <<clients, standing, startedBy, greeted, at, asked, box, runs, answered, told, deaths>>

CallsNext == \/ \E k \in Callers : Begin(k) \/ Spawned(k) \/ Resume(k) \/ Unanswered(k) \/ ClientClosed(k)
             \/ \E k \in Callers, q \in box[0] : ConnectFails(k, q)
             \/ \E p \in 0 .. MaxProcs : \E q \in box[p] : ServerRuns(p, q) \/ ServerAnswers(p, q)
             \/ \E p \in Procs : ProcessDies(p) \/ ReaderEnds(p)

CallsSpec == CallsInit /\ [][CallsNext]_cvars

-----------------------------------------------------------------------------
(* A tool runs at most once for a call: a request that left is never sent again,   *)
(* whatever the era, the handshake and the retry do (McpServers.call: "a second    *)
(* run under one card is a second action nobody confirmed").                        *)
RunsAtMostOnce == \A k \in Callers : runs[k] <= 1

(* The model is told a call could not be made - and may be made again - only when  *)
(* the server did not run it; otherwise it is told that it may have run.            *)
UnreachableDidNotRun ==
    \A k \in Callers \ Lists : told[k] \in {"unreachable", "refused"} => runs[k] = 0

(* A result the model is given is the result of its own call.                       *)
OkMeansItRan == \A k \in Callers \ Lists : told[k] = "ok" => runs[k] = 1

-----------------------------------------------------------------------------
(* Not kept.  A request awaits its answer (Transport): what the server answered    *)
(* in time is what the call gets.  A time-out takes the future of the latest       *)
(* request out of the waiting, not its own.                                         *)
AnswerArrives == \A k \in Callers : k \in answered => told[k] # "unanswered"

(* Not kept.  The transport starts no process "the client thinks it already        *)
(* greeted": every process that is up is one a client in use can reach and end.     *)
NoStrayProcess ==
    \A p \in Procs : procs[p] = "up" =>
        \/ \E k \in Callers : at[k] \in {"closing", "waiting", "spawning"}
        \/ standing # 0 /\ client[standing].proc = p

(* Not kept.  A legacy server is greeted before it is asked for a tool.             *)
GreetedFirst ==
    \A p \in Procs : \A q \in box[p] :
        Legacy /\ q.purpose \in {"call", "list"} => p \in greeted
=============================================================================
