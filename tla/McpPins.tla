------------------------------- MODULE McpPins -------------------------------
(* The tools of the MCP servers, compared with their reviewed snapshots:          *)
(* crucible/mcp/service.py (McpServers.recheck, run, _adopt, _pin, _follow), the  *)
(* library's snapshots, and what a check does to the agents' manifests            *)
(* (impi/app.py _apply_mcp_check, _reload; crucible/tools/wiring.py).  A server   *)
(* has one tool here, whose definition is the version of the server's listing.    *)
EXTENDS Integers, FiniteSets

CONSTANTS Servers, Trusted,   \* the declared servers, the trusted ones among them
          Order,              \* Servers as the library lists them
          Versions,           \* definitions a server may give its tool
          Lacks,              \* versions of a listing that the tool is missing from
          Reloads,            \* the operator's reloads (SIGHUP), each a task
          None,               \* no snapshot, no tool, no listing
          MaxMoves,           \* bound: changes of a server's tools
          MaxEdits,           \* bound: snapshots the operator pins or removes
          MaxTicks,           \* bound: checks of the loop
          DiskFails           \* a snapshot may fail to be written

Loop == "loop"
Checks == Reloads \cup {Loop}
Versioned == [Servers -> Versions \cup {None}]

VARIABLES live,        \* what each server would list now
          disk,        \* the snapshot on disk
          reviewed,    \* reviewed[s]: the snapshots a person pinned
          digests,     \* McpServers._digests
          defn,        \* the definition the registry's tool carries
          withdrawn,   \* McpServers._withdrawn
          hidden,      \* ToolWiring.withdrawn
          manifest,    \* what the agents are shown
          changed,     \* McpServers._changed, and the nudge with it
          fresh,       \* servers still fresh by the ttl of their last listing
          check,       \* check[c]: a check under way
          holder,      \* the check that has the event loop; None
          late,        \* history: servers handed back to the agents after another check withdrew them
          moves, edits, ticks

pvars == <<live, disk, reviewed, digests, defn, withdrawn, hidden, manifest, changed,
           fresh, check, holder, late, moves, edits, ticks>>

Idle == [at |-> "idle", due |-> {}, got |-> [s \in Servers |-> None],
         drop |-> {}, back |-> {}, moved |-> FALSE]

PinsTypeOK ==
    /\ live \in [Servers -> Versions] /\ {disk, digests, defn, manifest} \subseteq Versioned
    /\ reviewed \in [Servers -> SUBSET Versions]
    /\ {withdrawn, hidden, changed, fresh} \subseteq SUBSET Servers
    /\ \A c \in Checks : check[c].at \in {"idle", "listing", "comparing", "profiles", "done"}
                         /\ check[c].due \subseteq Servers
    /\ holder \in Checks \cup {None}

(* The manifest as ToolWiring writes it: the tools not withdrawn, as defined now.   *)
Shown(h, d) == [s \in Servers |-> IF s \in h THEN None ELSE d[s]]
InTool(v) == IF v \in Lacks THEN None ELSE v

(* McpServers.__init__: the tools are the snapshots', whatever the servers say now. *)
Init == /\ live \in [Servers -> Versions]
        /\ disk \in Versioned
        /\ reviewed = [s \in Servers |-> IF disk[s] = None THEN {} ELSE {disk[s]}]
        /\ digests = disk
        /\ defn = [s \in Servers |-> InTool(disk[s])]
        /\ withdrawn = {} /\ hidden = {}
        /\ manifest = Shown({}, defn)
        /\ changed = {} /\ fresh = {}
        /\ check = [c \in Checks |-> Idle]
        /\ holder = None /\ late = {} /\ moves = 0 /\ edits = 0 /\ ticks = 0

(* _follow: the tool takes the definition, if it exists and the listing has it.     *)
Follow(s, v) == [defn EXCEPT ![s] = IF @ # None /\ v \notin Lacks THEN v ELSE @]

-----------------------------------------------------------------------------
(* The servers and the operator, at any time: a server's tools change, and it may   *)
(* say so; a person reviews what it offers and pins it, or removes the snapshot.    *)
Moves(s) == /\ moves < MaxMoves /\ moves' = moves + 1 /\ holder = None
            /\ \E v \in Versions \ {live[s]} : live' = [live EXCEPT ![s] = v]
            /\ \E says \in BOOLEAN : changed' = IF says THEN changed \cup {s} ELSE changed
            /\ UNCHANGED <<late, disk, reviewed, digests, defn, withdrawn, hidden, manifest,
                           fresh, check, holder, edits, ticks>>

Pins(s) == /\ edits < MaxEdits /\ edits' = edits + 1 /\ holder = None
           /\ \E v \in {live[s], None} \ {disk[s]} :
                /\ disk' = [disk EXCEPT ![s] = v]
                /\ reviewed' = [reviewed EXCEPT ![s] = @ \cup ({v} \ {None})]
           /\ UNCHANGED <<late, live, digests, defn, withdrawn, hidden, manifest, changed,
                          fresh, check, holder, moves, ticks>>

TtlEnds(s) == /\ s \in fresh /\ holder = None /\ fresh' = fresh \ {s}
              /\ UNCHANGED <<late, live, disk, reviewed, digests, defn, withdrawn, hidden,
                             manifest, changed, check, holder, moves, edits, ticks>>

(* run: a nudge or the timer starts a check of the servers that said they changed,  *)
(* or of every server that is not fresh.                                            *)
Ticks ==
    /\ check[Loop].at = "idle" /\ holder = None /\ ticks < MaxTicks
    /\ ticks' = ticks + 1 /\ changed' = {}
    /\ LET due == IF changed # {} THEN changed ELSE Servers \ fresh
       IN  check' = [check EXCEPT ![Loop] = [Idle EXCEPT !.at = "listing", !.due = due]]
    /\ UNCHANGED <<late, live, disk, reviewed, digests, defn, withdrawn, hidden, manifest,
                   fresh, holder, moves, edits>>

(* _adopt, for every server of a reviewed check: another snapshot than the tools    *)
(* stand on is followed, a missing one takes an untrusted server's tools with it.   *)
Gone == {s \in Servers \ Trusted : disk[s] = None /\ digests[s] # None /\ s \notin withdrawn}
Adopted == {s \in Servers : disk[s] # None /\ disk[s] # digests[s]}

Reload(c) ==
    /\ c \in Reloads /\ check[c].at = "idle" /\ holder = None
    /\ digests' = disk
    /\ defn' = [s \in Servers |-> IF s \in Adopted THEN Follow(s, disk[s])[s] ELSE defn[s]]
    /\ withdrawn' = withdrawn \cup Gone
    /\ check' = [check EXCEPT ![c] = [Idle EXCEPT !.at = "listing", !.due = Servers,
                                                  !.drop = Gone, !.moved = Adopted # {}]]
    /\ UNCHANGED <<late, live, disk, reviewed, hidden, manifest, changed, fresh, holder, moves,
                   edits, ticks>>

(* _list: the server's answer as it was when it answered, or it was not reached.    *)
Lists(c, s) ==
    /\ check[c].at = "listing" /\ holder = None
    /\ s \in check[c].due /\ check[c].got[s] = None
    /\ \E answer \in {live[s], "unreached"} : check' = [check EXCEPT ![c].got[s] = answer]
    /\ UNCHANGED <<late, live, disk, reviewed, digests, defn, withdrawn, hidden, manifest,
                   changed, fresh, holder, moves, edits, ticks>>

(* gather is done: the check takes the loop and compares, server after server,      *)
(* giving it up only to close the connection of one that was not reached.           *)
Gathered(c) ==
    /\ holder = None
    /\ \/ check[c].at = "listing" /\ \A s \in check[c].due : check[c].got[s] # None
       \/ check[c].at = "comparing"
    /\ check' = [check EXCEPT ![c].at = "comparing"]
    /\ holder' = c
    /\ UNCHANGED <<late, live, disk, reviewed, digests, defn, withdrawn, hidden, manifest,
                   changed, fresh, moves, edits, ticks>>

Turn(c, s) == /\ holder = c /\ s \in check[c].due
              /\ \A i, j \in DOMAIN Order :
                    Order[i] = s /\ j < i => Order[j] \notin check[c].due

Reached(c, s) == Turn(c, s) /\ check[c].got[s] # "unreached"
Next1(c, s) == [check EXCEPT ![c].due = @ \ {s}]

NotReached(c, s) ==
    /\ Turn(c, s) /\ check[c].got[s] = "unreached"
    /\ check' = Next1(c, s) /\ holder' = None
    /\ UNCHANGED <<late, live, disk, reviewed, digests, defn, withdrawn, hidden, manifest,
                   changed, fresh, moves, edits, ticks>>

(* Whose word is taken for what its tools are.                                      *)
TakesWord(s) == s \in Trusted

(* A trusted server that moved, or was never pinned: the snapshot is written and    *)
(* the tools follow.  A write that fails ends the check, and its report with it.    *)
PinTrusted(c, s) ==
    /\ Reached(c, s) /\ TakesWord(s) /\ check[c].got[s] # digests[s]
    /\ \/ /\ disk' = [disk EXCEPT ![s] = check[c].got[s]]
          /\ digests' = [digests EXCEPT ![s] = check[c].got[s]]
          /\ defn' = Follow(s, check[c].got[s])
          /\ check' = [Next1(c, s) EXCEPT ![c].moved = TRUE]
          /\ UNCHANGED holder
       \/ /\ DiskFails
          /\ check' = [check EXCEPT ![c] = IF c = Loop THEN Idle ELSE [Idle EXCEPT !.at = "done"]]
          /\ holder' = None
          /\ UNCHANGED <<disk, digests, defn>>
    /\ fresh' \in {fresh, fresh \cup {s}}
    /\ UNCHANGED <<late, live, reviewed, withdrawn, hidden, manifest, changed, moves, edits, ticks>>

(* A listing that is what the tools stand on: a reviewed check hands a withdrawn    *)
(* server back.                                                                     *)
HandBack(c, s) == c \in Reloads /\ s \in withdrawn

Same(c, s) ==
    /\ Reached(c, s) /\ digests[s] # None /\ check[c].got[s] = digests[s]
    /\ withdrawn' = IF HandBack(c, s) THEN withdrawn \ {s} ELSE withdrawn
    /\ check' = [Next1(c, s) EXCEPT ![c].back = IF HandBack(c, s) THEN @ \cup {s} ELSE @]
    /\ fresh' \in {fresh, fresh \cup {s}}
    /\ UNCHANGED <<late, live, disk, reviewed, digests, defn, hidden, manifest, changed, holder,
                   moves, edits, ticks>>

(* A listing of an untrusted server that is not: its tools are withdrawn, once; one *)
(* that nobody pinned has nothing to withdraw.                                      *)
Differs(c, s) ==
    /\ Reached(c, s) /\ ~TakesWord(s) /\ check[c].got[s] # digests[s]
    /\ LET news == digests[s] # None /\ s \notin withdrawn IN
       /\ withdrawn' = IF news THEN withdrawn \cup {s} ELSE withdrawn
       /\ check' = [Next1(c, s) EXCEPT ![c].drop = IF news THEN @ \cup {s} ELSE @]
    /\ fresh' \in {fresh, fresh \cup {s}}
    /\ UNCHANGED <<late, live, disk, reviewed, digests, defn, hidden, manifest, changed, holder,
                   moves, edits, ticks>>

(* Mutant: what a check took away is given back to the agents first.                *)
HiddenFirst(r) == hidden \ r.back

Hidden(r) == (hidden \cup r.drop) \ r.back
Written(r) == r.moved \/ r.back # {} \/ ~(r.drop \subseteq hidden)
Applies(c) ==
    LET r == check[c] IN
    /\ holder = c /\ r.due = {}
    /\ hidden' = Hidden(r)
    /\ late' = late \cup (r.back \cap withdrawn)
    /\ manifest' = IF Written(r) THEN Shown(hidden', defn) ELSE manifest
    /\ check' = [check EXCEPT ![c] = IF c = Loop THEN Idle ELSE [Idle EXCEPT !.at = "profiles"]]
    /\ holder' = None
    /\ UNCHANGED <<live, disk, reviewed, digests, defn, withdrawn, changed, fresh, moves,
                   edits, ticks>>

(* ProfileReloader.reload, behind its lock: every profile is built again, and its   *)
(* manifest written as the registry and the withdrawn tools stand by then.          *)
Profiles(c) ==
    /\ check[c].at = "profiles" /\ holder = None
    /\ manifest' = Shown(hidden, defn)
    /\ check' = [check EXCEPT ![c].at = "done"]
    /\ UNCHANGED <<late, live, disk, reviewed, digests, defn, withdrawn, hidden, changed, fresh,
                   holder, moves, edits, ticks>>

Next == \/ \E s \in Servers : Moves(s) \/ Pins(s) \/ TtlEnds(s)
        \/ Ticks
        \/ \E c \in Checks : Reload(c) \/ Gathered(c) \/ Applies(c) \/ Profiles(c)
        \/ \E c \in Checks, s \in Servers :
              \/ Lists(c, s) \/ NotReached(c, s)
              \/ PinTrusted(c, s) \/ Same(c, s) \/ Differs(c, s)

Spec == Init /\ [][Next]_pvars

-----------------------------------------------------------------------------
Quiet == \A c \in Checks : check[c].at \in {"idle", "profiles", "done"}

(* The model is shown no definition of an untrusted server that no person reviewed, *)
(* whatever the server lists, when, and to whom.                                    *)
ShownWasReviewed ==
    \A s \in Servers \ Trusted : manifest[s] # None => manifest[s] \in reviewed[s]

(* A server whose tools the service holds withdrawn is hidden from the agents as    *)
(* soon as no check is under way, for the service will not report it a second time: *)
(* but one that a reload had already counted as handed back when another check      *)
(* withdrew it.                                                                     *)
WithdrawnIsHidden == Quiet => withdrawn \ late \subseteq hidden

(* When no check is under way the agents are shown the definitions the tools have.  *)
ManifestIsCurrent == Quiet => manifest = Shown(hidden, defn)

(* Tools come back only from a check a person asked for.                            *)
BackByReview ==
    \A s \in hidden \ hidden' :
       \E c \in Reloads : check[c].at = "comparing" /\ check'[c].at = "profiles"

-----------------------------------------------------------------------------
(* Not kept when a check withdraws what a reload is about to hand back: "withdrawn  *)
(* until they are reviewed and pinned again".                                       *)
WithdrawnStaysHidden == Quiet => withdrawn \subseteq hidden

(* Not kept by two reloads at once, or when a snapshot cannot be written: what is   *)
(* hidden is what the service holds withdrawn, so that a later review can hand it   *)
(* back ("a server reviewed back in is handed back").                               *)
HiddenIsWithdrawn == Quiet => hidden \subseteq withdrawn
=============================================================================
