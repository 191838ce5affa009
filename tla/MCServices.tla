----------------------------- MODULE MCServices -----------------------------
(***************************************************************************)
(* The instances TLC checks of what gives an agent its secrets and tools:   *)
(* the door tool calls come in by, whose module this one extends, the       *)
(* broker and its vault, the MCP servers and the pins of their tools, the   *)
(* accounts people connect.                                                 *)
(* A behaviour is one part's; the variables of the others stay as they      *)
(* began.                                                                   *)
(***************************************************************************)
EXTENDS ToolDoor, Sequences, TLC

CONSTANTS
    Parts,      \* the instances a configuration checks
    Keep, NoPolicy, NoGrant, Newest, NoId, None, Nobody

VARIABLE part
VARIABLES policy, stored, grants, ledger, cards, lease, edit, deletion, overtaken, notices, posts, now, restarts
VARIABLES vault, token, secretId, handed, keyKept, op, expiries, disturbed, crossed
VARIABLES clients, standing, client, procs, startedBy, greeted, at, waiting, got, box, runs, answered, told, deaths
VARIABLES live, disk, reviewed, digests, defn, pulled, hidden, manifest, changed, fresh, check, holder,
          late, shifts, edits, ticks
VARIABLES link, record, moved, provider, connect, refresh, ender, lost, unseen

Policy(subjects, max, rules) == [subjects |-> subjects, approval |-> "always", max |-> max, rules |-> rules]

(* Two requests, one for both secrets, and a deletion; *)
A == INSTANCE Ward WITH
       Secrets <- {"s1", "s2"}, Leases <- {"l1", "l2"},
       NamesOf <- [l \in {"l1", "l2"} |-> IF l = "l1" THEN <<"s1", "s2">> ELSE <<"s1">>],
       AgentOf <- [l \in {"l1", "l2"} |-> IF l = "l1" THEN "a1" ELSE "a2"],
       CommandOf <- [l \in {"l1", "l2"} |-> <<"run", "x">>],
       Edits <- {}, EditOf <- <<>>, Chat <- {}, Deletes <- {"d1"}, NameOfDelete <- [d \in {"d1"} |-> "s1"],
       FirstPolicy <- [s \in {"s1", "s2"} |-> IF s = "s1" THEN Policy({"a1", "a2"}, 1, {})
                                                          ELSE Policy({"a1"}, 2, {<<"run", "*">>})],
       Ladder <- {1, 2}, MaxGrantS <- 2, MaxNow <- 1, MaxRestarts <- 1, Rest <- "*"

(* two requests of one agent while its policy is edited in two places; *)
E == INSTANCE Ward WITH
       Secrets <- {"s1"}, Leases <- {"l1", "l2"}, NamesOf <- [l \in {"l1", "l2"} |-> <<"s1">>],
       AgentOf <- [l \in {"l1", "l2"} |-> "a1"], CommandOf <- [l \in {"l1", "l2"} |-> <<"run", "x">>],
       Edits <- {"e1", "e2"},
       EditOf <- [e \in {"e1", "e2"} |->
                    [name |-> "s1", set |-> [subjects |-> IF e = "e1" THEN Keep ELSE {}, approval |-> Keep,
                                             max |-> IF e = "e1" THEN 0 ELSE Keep, rules |-> Keep]]],
       Chat <- {"e1"}, Deletes <- {}, NameOfDelete <- <<>>, FirstPolicy <- [s \in {"s1"} |-> Policy({"a1"}, 1, {})],
       Ladder <- {1, 2}, MaxGrantS <- 2, MaxNow <- 0, MaxRestarts <- 0, Rest <- "*"

(* three requests a rule grants, told in one post.                          *)
F == INSTANCE Ward WITH
       Secrets <- {"s1"}, Leases <- {"l1", "l2", "l3"}, NamesOf <- [l \in {"l1", "l2", "l3"} |-> <<"s1">>],
       AgentOf <- [l \in {"l1", "l2", "l3"} |-> "a1"], CommandOf <- [l \in {"l1", "l2", "l3"} |-> <<"run", "x">>],
       Edits <- {}, EditOf <- <<>>, Chat <- {}, Deletes <- {}, NameOfDelete <- <<>>,
       FirstPolicy <- [s \in {"s1"} |-> Policy({"a1"}, 1, {<<"run", "*">>})],
       Ladder <- {1, 2}, MaxGrantS <- 2, MaxNow <- 0, MaxRestarts <- 0, Rest <- "*"

(* An operator who unlocks and one who is wrong, a rotation, two values     *)
(* asked for;                                                               *)
V == INSTANCE WardVault WITH
       Setups <- {}, Kvs <- {"k1", "k2"}, Unlocks <- {"u1", "u2"},
       GivenId <- [u \in {"u1", "u2"} |-> IF u = "u1" THEN Newest ELSE 0],
       Rotations <- {"o1"}, MaxIds <- 2, MaxExpiries <- 1, Faults <- FALSE

(* two rotations where requests fail and the store seals;                   *)
W == INSTANCE WardVault WITH
       Setups <- {}, Kvs <- {}, Unlocks <- {"u1"}, GivenId <- [u \in {"u1"} |-> Newest],
       Rotations <- {"o1", "o2"}, MaxIds <- 3, MaxExpiries <- 1, Faults <- TRUE

(* a setup that may fail, and the next.                                     *)
I == INSTANCE WardVault WITH
       Setups <- {"i1", "i2"}, Kvs <- {"k1", "k2"}, Unlocks <- {"u1"}, GivenId <- [u \in {"u1"} |-> Newest],
       Rotations <- {}, MaxIds <- 2, MaxExpiries <- 1, Faults <- TRUE

(* Two calls of a server behind a pipe, which must be greeted first; *)
C == INSTANCE McpCalls WITH
       Callers <- {"k1", "k2"}, Lists <- {}, Personal <- {}, Http <- FALSE, Legacy <- TRUE,
       MaxClients <- 3, MaxProcs <- 3, MaxDeaths <- 1, asked <- waiting

(* a person's call and a listing of one behind http.                        *)
H == INSTANCE McpCalls WITH
       Callers <- {"k1", "k2"}, Lists <- {"k2"}, Personal <- {"k1"}, Http <- TRUE, Legacy <- TRUE,
       MaxClients <- 3, MaxProcs <- 3, MaxDeaths <- 1, asked <- waiting

(* A server whose tools a person must review, the check and a reload;       *)
P == INSTANCE McpPins WITH
       Servers <- {"u"}, Trusted <- {}, Order <- <<"u">>, Versions <- {"v1", "v2", "v0"}, Lacks <- {"v0"},
       Reloads <- {"r1"}, MaxMoves <- 1, MaxEdits <- 2, MaxTicks <- 1, DiskFails <- FALSE,
       withdrawn <- pulled, moves <- shifts

(* one that is trusted;                                                     *)
Q == INSTANCE McpPins WITH
       Servers <- {"u"}, Trusted <- {"u"}, Order <- <<"u">>, Versions <- {"v1", "v0"}, Lacks <- {"v0"},
       Reloads <- {"r1"}, MaxMoves <- 1, MaxEdits <- 1, MaxTicks <- 1, DiskFails <- FALSE,
       withdrawn <- pulled, moves <- shifts

(* two reloads between checks; one of each server, and a full disk.         *)
R == INSTANCE McpPins WITH
       Servers <- {"u"}, Trusted <- {}, Order <- <<"u">>, Versions <- {"v1", "v0"}, Lacks <- {"v0"},
       Reloads <- {"r1", "r2"}, MaxMoves <- 1, MaxEdits <- 2, MaxTicks <- 0, DiskFails <- FALSE,
       withdrawn <- pulled, moves <- shifts
S == INSTANCE McpPins WITH
       Servers <- {"u", "t"}, Trusted <- {"t"}, Order <- <<"u", "t">>, Versions <- {"v1", "v0"}, Lacks <- {"v0"},
       Reloads <- {}, MaxMoves <- 1, MaxEdits <- 2, MaxTicks <- 1, DiskFails <- TRUE,
       withdrawn <- pulled, moves <- shifts

(* two servers, a check and a reload.                                       *)
T == INSTANCE McpPins WITH
       Servers <- {"u", "w"}, Trusted <- {}, Order <- <<"u", "w">>, Versions <- {"v1", "v2"}, Lacks <- {},
       Reloads <- {"r1"}, MaxMoves <- 2, MaxEdits <- 0, MaxTicks <- 2, DiskFails <- FALSE,
       withdrawn <- pulled, moves <- shifts

(* Two connects and a refresh against a disconnect and a forget;            *)
K == INSTANCE Connections WITH
       Connects <- {"k1", "k2"}, Refreshers <- {"r1"}, ReplicaOf <- [r \in {"r1"} |-> "p1"],
       Enders <- {"x1", "x2"}, Forgets <- {"x1"}, MaxGen <- 1, Moving <- FALSE

(* one connect, moved, and two refreshes on two replicas against the same.  *)
M == INSTANCE Connections WITH
       Connects <- {"k1"}, Refreshers <- {"r1", "r2"},
       ReplicaOf <- [r \in {"r1", "r2"} |-> IF r = "r1" THEN "p1" ELSE "p2"],
       Enders <- {"x1", "x2"}, Forgets <- {"x1"}, MaxGen <- 2, Moving <- TRUE

(* A conversation a card can be shown in, one it cannot, and a call of the  *)
(* second that names the first; and the first of a gateway there no more.   *)
MCNeeds == "t" :> {} @@ "u" :> {"files"}
MCGatewayOf == "s1" :> "chat" @@ "s2" :> "task"
MCCaps == "chat" :> {"files", "confirmation"} @@ "task" :> {"files"}
MCSets == {{"t"}, All}
MCFrom == "k1" :> "s1" @@ "k2" :> "s2" @@ "k3" :> "s2"
MCNamed == "k1" :> "s1" @@ "k2" :> "s2" @@ "k3" :> "s1"
MCToolOf == "k1" :> "u" @@ "k2" :> "u" @@ "k3" :> "t"
D == INSTANCE ToolDoor WITH GatewayOf <- [MCGatewayOf EXCEPT !["s1"] = "old"]

ward == <<policy, stored, grants, ledger, cards, lease, edit, deletion, overtaken, notices, posts, now, restarts>>
safe == <<vault, token, secretId, handed, keyKept, op, expiries, disturbed, crossed>>
mcp == <<clients, standing, client, procs, startedBy, greeted, at, waiting, got, box, runs, answered, told, deaths>>
pins == <<live, disk, reviewed, digests, defn, pulled, hidden, manifest, changed, fresh, check, holder,
          late, shifts, edits, ticks>>
connections == <<link, record, moved, provider, connect, refresh, ender, lost, unseen>>
allVars == <<part, ward, safe, mcp, pins, connections, dvars>>

Pinned == {"pins", "trusted", "reloads", "full disk", "two servers"}

AllInit ==
    /\ part \in Parts
    /\ CASE part = "edits" -> E!WardInit [] part = "folds" -> F!WardInit [] OTHER -> A!WardInit
    /\ CASE part = "setup" -> I!VInit [] part = "rotations" -> W!VInit [] OTHER -> V!VInit
    /\ IF part = "http" THEN H!CallsInit ELSE C!CallsInit
    /\ CASE part = "trusted" -> Q!Init [] part = "reloads" -> R!Init [] part = "full disk" -> S!Init
         [] part = "two servers" -> T!Init /\ live = [s \in {"u", "w"} |-> "v1"] /\ disk = live
         [] OTHER -> P!Init /\ (part \notin Pinned => live["u"] = "v1" /\ disk["u"] = "v1")
    /\ IF part = "moves" THEN M!CInit ELSE K!CInit
    /\ Init

AllNext ==
    \/ part = "ward" /\ A!WardNext /\ UNCHANGED <<part, safe, mcp, pins, connections, dvars>>
    \/ part = "edits" /\ E!WardNext /\ UNCHANGED <<part, safe, mcp, pins, connections, dvars>>
    \/ part = "folds" /\ F!WardNext /\ UNCHANGED <<part, safe, mcp, pins, connections, dvars>>
    \/ part = "vault" /\ V!VNext /\ UNCHANGED <<part, ward, mcp, pins, connections, dvars>>
    \/ part = "rotations" /\ W!VNext /\ UNCHANGED <<part, ward, mcp, pins, connections, dvars>>
    \/ part = "setup" /\ I!VNext /\ UNCHANGED <<part, ward, mcp, pins, connections, dvars>>
    \/ part = "stdio" /\ C!CallsNext /\ UNCHANGED <<part, ward, safe, pins, connections, dvars>>
    \/ part = "http" /\ H!CallsNext /\ UNCHANGED <<part, ward, safe, pins, connections, dvars>>
    \/ part = "pins" /\ P!Next /\ UNCHANGED <<part, ward, safe, mcp, connections, dvars>>
    \/ part = "trusted" /\ Q!Next /\ UNCHANGED <<part, ward, safe, mcp, connections, dvars>>
    \/ part = "reloads" /\ R!Next /\ UNCHANGED <<part, ward, safe, mcp, connections, dvars>>
    \/ part = "full disk" /\ S!Next /\ UNCHANGED <<part, ward, safe, mcp, connections, dvars>>
    \/ part = "two servers" /\ T!Next /\ UNCHANGED <<part, ward, safe, mcp, connections, dvars>>
    \/ part = "connections" /\ K!CNext /\ UNCHANGED <<part, ward, safe, mcp, pins, dvars>>
    \/ part = "moves" /\ M!CNext /\ UNCHANGED <<part, ward, safe, mcp, pins, dvars>>
    \/ part = "old door" /\ D!Next /\ UNCHANGED <<part, ward, safe, mcp, pins, connections>>
    \/ part = "door" /\ Next /\ UNCHANGED <<part, ward, safe, mcp, pins, connections>>

AllSpec == AllInit /\ [][AllNext]_allVars

-----------------------------------------------------------------------------
(* What each part promises, of the properties its module states; what the  *)
(* door promises, DoorIsKept, its module states.                            *)

(* A secret is served on a person's authority: a request gets every secret  *)
(* it names or none, one served because a window was open has a person's    *)
(* yes for this agent behind it, the ledger names every window, and a       *)
(* secret removed leaves none (broker.py lease, _ask, _open_window,         *)
(* _refuse; server.py delete_secret).                                       *)
SecretsByAuthority ==
    CASE part = "edits" -> E!WardTypeOK /\ E!AllOrNothing /\ E!ServedOnAuthority /\ E!WindowsAreLedgered
      [] part = "folds" -> F!WardTypeOK /\ F!AllOrNothing /\ F!ServedOnAuthority /\ F!WindowsAreLedgered
      [] part = "ward" -> /\ A!WardTypeOK /\ A!AllOrNothing /\ A!ServedOnAuthority /\ A!WindowsAreLedgered
                          /\ A!DeletedLeavesNoWindow
      [] OTHER -> TRUE

(* The vault stays open: an id it accepts is in somebody's hands as long as *)
(* no rotation fails among its destructions and no two see each other, and  *)
(* nobody who asks for a value notices that a token expired (vault.py       *)
(* rotate, _kv).                                                            *)
VaultStaysOpen ==
    /\ [](CASE part = "vault" -> V!VTypeOK /\ V!SomebodyCanLogIn
            [] part = "rotations" -> W!VTypeOK /\ W!SomebodyCanLogIn
            [] OTHER -> TRUE)
    /\ [][part = "vault" => V!Unnoticed]_allVars

(* A tool of an MCP server runs once for a call: never twice, never after   *)
(* the model was told it did not, and a result is its own call's            *)
(* (mcp/service.py call, tools.py _run, protocol.py StdioTransport).        *)
CallsRunOnce ==
    IF part = "http" THEN H!CallsTypeOK /\ H!RunsAtMostOnce /\ H!UnreachableDidNotRun /\ H!OkMeansItRan
                     ELSE C!CallsTypeOK /\ C!RunsAtMostOnce /\ C!UnreachableDidNotRun /\ C!OkMeansItRan

(* What the model is shown of an untrusted server was reviewed, withdrawn   *)
(* tools are hidden and come back by a person's reload, and the agents are  *)
(* shown the definitions the tools have (mcp/service.py recheck, _adopt,    *)
(* impi/app.py _apply_mcp_check, tools/registry.py write_manifest).         *)
ToolsAreReviewed ==
    /\ [](CASE part = "trusted" -> Q!PinsTypeOK /\ Q!WithdrawnIsHidden /\ Q!ManifestIsCurrent
            [] part = "full disk" -> S!ShownWasReviewed
            [] part = "reloads" -> R!ShownWasReviewed /\ R!WithdrawnIsHidden
            [] part = "two servers" -> T!PinsTypeOK /\ T!ShownWasReviewed /\ T!WithdrawnIsHidden /\ T!ManifestIsCurrent
            [] part = "pins" -> P!PinsTypeOK /\ P!ShownWasReviewed /\ P!WithdrawnIsHidden /\ P!ManifestIsCurrent
            [] OTHER -> TRUE)
    /\ [][CASE part = "trusted" -> Q!BackByReview [] part = "full disk" -> S!BackByReview [] part = "reloads" -> R!BackByReview
         [] part = "two servers" -> T!BackByReview
            [] OTHER -> P!BackByReview]_allVars

(* A person's grant is kept: one replica refreshes it at a time, the stored *)
(* token is the one the provider takes, no live grant is unknown to the     *)
(* store, and a connect stands against what began before it (connections    *)
(* service.py _refresh, _rotate, finish, disconnect, forget; store          *)
(* replace_connection, delete_connection).                                  *)
GrantsAreKept ==
    /\ [](CASE part = "moves" -> M!CTypeOK /\ M!OneRefreshAtOnce /\ M!StoredTokenWorks /\ M!NoStrayGrant
            [] part = "connections" -> K!CTypeOK /\ K!OneRefreshAtOnce /\ K!StoredTokenWorks /\ K!NoStrayGrant
            [] OTHER -> TRUE)
    /\ [][part = "connections" => K!RowGoesByRight]_allVars

-----------------------------------------------------------------------------
(* What the code does not keep; the README says where TLC shows it.         *)

(* A deletion closes every window (ward server.py delete_secret).           *)
DeleteClosesEveryWindow == A!DeleteClosesEveryWindow

(* A window of 0 means every use is asked about (broker.py lease).          *)
ZeroMeansAsked == E!ZeroMeansAsked

(* A form leaves alone what it does not set (ward chatops.py).              *)
LeavesTheRest == E!LeavesTheRest

(* A folded post counts every grant (broker.py _tell).                      *)
FoldCounts == F!FoldCounts

(* Unlocking twice is harmless (vault.py unlock).                           *)
UnlockIsANoOp == V!UnlockIsANoOp

(* A rotation interrupts nothing (vault.py rotate_credential).              *)
RotationInterruptsNothing == V!RotationInterruptsNothing

(* A rotation leaves somebody who can log in (vault.py rotate).             *)
RotationLeavesALogin == W!RotationLeavesALogin

(* A setup that failed can be run again (vault.py setup).                   *)
SetupCanBeRerun == I!SetupCanBeRerun

(* An answer in time arrives (mcp/protocol.py StdioTransport.request).      *)
AnswerArrives == C!AnswerArrives

(* No server process is left behind (mcp/service.py _drop).                 *)
NoStrayProcess == C!NoStrayProcess

(* A legacy server is greeted first (mcp/protocol.py).                      *)
GreetedFirst == C!GreetedFirst

(* What is withdrawn stays hidden (impi/app.py _reload).                    *)
WithdrawnStaysHidden == T!WithdrawnStaysHidden

(* What is hidden is what is withdrawn (impi/app.py _reload).               *)
HiddenIsWithdrawn == R!HiddenIsWithdrawn

(* Withdrawn tools are hidden though a disk is full (mcp/service.py         *)
(* recheck).                                                                *)
HiddenOnAFullDisk == part = "full disk" => S!WithdrawnIsHidden

(* A connect revokes the grant it replaces (service.py finish).             *)
ReplacesWhatItRead == part = "connections" => K!ReplacesWhatItRead

(* A moved connection works (service.py move).                              *)
MovedWorks == part = "moves" => M!MovedWorks
=============================================================================
