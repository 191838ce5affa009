------------------------------ MODULE ToolDoor ------------------------------
(* The tool server: crucible/tools/server.py (_serve), wiring.py (what an agent,  *)
(* a gateway and a conversation may call), proofs.py (whose session a call is).   *)
(* A call passes the door, waits for its conversation to be looked up, perhaps    *)
(* for a person, and runs; around it processes are replaced, turns begin with     *)
(* other entitlements, tools are withdrawn and callers hang up.                   *)
EXTENDS Integers, FiniteSets, TLAPS

CONSTANTS Sessions,    \* the conversations' runtime sessions, of one agent
          Tools,
          Confirmed,   \* tools a person must confirm
          Needs,       \* Needs[t]: capabilities the tool requires
          GatewayOf,   \* GatewayOf[s]: the gateway the conversation is in
          Caps,        \* Caps[g]: what the gateway provides, of those the agent has
          Sets,        \* entitlements a turn may have: sets of tools, or All
          All,         \* no entry: the agent's own allowlist
          Calls,
          From,        \* From[k]: the session whose process makes the call
          Named,       \* Named[k]: the session the call names
          ToolOf,      \* ToolOf[k]: the tool it calls
          MaxSpawns, MaxTurns, MaxMoves   \* bounds

VARIABLES proof,       \* SessionProofBook: the proof current for a session; 0 none
          spawned,     \* processes started so far, per session
          entry,       \* ToolWiring.session_allowlists
          withdrawn,   \* ToolWiring.withdrawn
          allowed,     \* ToolWiring.allowlists of the agent
          call,        \* call[k]: where the call stands
          gone,        \* the calls whose caller hung up
          asked,       \* the calls a card was shown for, and answered yes
          ran,         \* the calls that ran, with the tools withdrawn at the time
          turns, moves

dvars == <<proof, spawned, entry, withdrawn, allowed, call, gone, asked, ran, turns, moves>>
book == <<proof, spawned>>
wiring == <<entry, withdrawn, allowed>>

Confirmation == "confirmation"
Required(t) == Needs[t] \cup (IF t \in Confirmed THEN {Confirmation} ELSE {})

(* enroll, _gate_tools: an agent has the tools some gateway of its can serve.       *)
AgentCaps == UNION {Caps[g] : g \in DOMAIN Caps}
Gated(w) == {t \in Tools \ w : Required(t) \subseteq AgentCaps}

Init == /\ proof = [s \in Sessions |-> 0] /\ spawned = [s \in Sessions |-> 0]
        /\ entry = [s \in Sessions |-> All] /\ withdrawn = {} /\ allowed = Gated({})
        /\ call = [k \in Calls |-> "none"]
        /\ gone = {} /\ asked = {} /\ ran = {} /\ turns = 0 /\ moves = 0

DoorTypeOK == /\ call \in [Calls -> {"none", "resolving", "asking", "running", "done",
                                     "refused", "abandoned", "cancelled"}]
              /\ withdrawn \subseteq Tools /\ allowed \subseteq Tools
              /\ \A s \in Sessions : proof[s] \in 0 .. spawned[s]

-----------------------------------------------------------------------------
(* The runtime starts a process for a session, with a proof of its own, and drops   *)
(* one; a turn begins, and says what the conversation may call.                     *)
Spawn(s) == /\ spawned[s] < MaxSpawns
            /\ spawned' = [spawned EXCEPT ![s] = @ + 1]
            /\ proof' = [proof EXCEPT ![s] = spawned[s] + 1]
            /\ UNCHANGED <<wiring, call, gone, asked, ran, turns, moves>>
Drop(s) == /\ proof[s] # 0
           /\ proof' = [proof EXCEPT ![s] = 0]
           /\ UNCHANGED <<spawned, wiring, call, gone, asked, ran, turns, moves>>

SessionEnv(s) == /\ turns < MaxTurns /\ turns' = turns + 1
                 /\ \E set \in Sets : entry' = [entry EXCEPT ![s] =
                                         IF set = All THEN All ELSE set \cap allowed]
                 /\ UNCHANGED <<book, withdrawn, allowed, call, gone, asked, ran, moves>>

Withdraw(t) == /\ t \notin withdrawn /\ moves < MaxMoves /\ moves' = moves + 1
               /\ withdrawn' = withdrawn \cup {t} /\ allowed' = allowed \ {t}
               /\ UNCHANGED <<book, entry, call, gone, asked, ran, turns>>
Restore(t) == /\ t \in withdrawn
              /\ withdrawn' = withdrawn \ {t} /\ allowed' = Gated(withdrawn')
              /\ UNCHANGED <<book, entry, call, gone, asked, ran, turns, moves>>

-----------------------------------------------------------------------------
(* Mutant: a proof that was issued to the agent at all is good enough.              *)
VerifyAny(k, g) == Named[k] # From[k] \/ proof[Named[k]] # 0

(* SessionProofBook.verify: the proof of the process that calls is the one current  *)
(* for the session it names.  Secrets do not collide.                               *)
Verify(k, g) == Named[k] = From[k] /\ proof[Named[k]] = g

(* _serve until the conversation is looked up: the agent's allowlist, the session's *)
(* proof, the conversation's set (the body, which came with the request, is read in *)
(* between).  The process that calls is one started for its session, which may have *)
(* been replaced since.                                                             *)
InSet(k) == LET e == entry[Named[k]] IN IF e = All THEN TRUE ELSE ToolOf[k] \in e

Arrives(k) ==
    /\ call[k] = "none"
    /\ \E g \in 1 .. spawned[From[k]] :
         call' = [call EXCEPT ![k] =
                    IF ToolOf[k] \in allowed /\ Verify(k, g) /\ InSet(k)
                    THEN "resolving" ELSE "refused"]
    /\ UNCHANGED <<book, wiring, gone, asked, ran, turns, moves>>

(* The gateway the conversation is in decides what the call may do, where it is one *)
(* the agent has: a conversation may be of one that is configured no more.          *)
Knows(k) == GatewayOf[Named[k]] \in DOMAIN Caps
CapsOf(k) == Caps[GatewayOf[Named[k]]]

Start(k) == [call |-> [call EXCEPT ![k] = "running"], ran |-> ran \cup {[call |-> k, without |-> withdrawn]}]

(* The conversation is known: refused through this gateway, put to a person, or run.*)
Resolved(k) ==
    /\ call[k] = "resolving"
    /\ IF Knows(k) /\ ~(Required(ToolOf[k]) \subseteq CapsOf(k))
       THEN call' = [call EXCEPT ![k] = "refused"] /\ ran' = ran
       ELSE IF ToolOf[k] \in Confirmed
       THEN call' = [call EXCEPT ![k] = "asking"] /\ ran' = ran
       ELSE call' = Start(k).call /\ ran' = Start(k).ran
    /\ UNCHANGED <<book, wiring, gone, asked, turns, moves>>

(* The transport of the request, looked at once more after the yes.                 *)
StillThere(k) == k \notin gone

(* The gate's answer: anything but a yes refuses; a yes for a caller that left is   *)
(* for nobody.                                                                      *)
Answered(k) ==
    /\ call[k] = "asking"
    /\ \/ call' = [call EXCEPT ![k] = "refused"] /\ UNCHANGED <<asked, ran>>
       \/ /\ asked' = asked \cup {k}
          /\ IF StillThere(k) THEN call' = Start(k).call /\ ran' = Start(k).ran
             ELSE call' = [call EXCEPT ![k] = "abandoned"] /\ UNCHANGED ran
    /\ UNCHANGED <<book, wiring, gone, turns, moves>>

(* The caller hangs up; the handler is cancelled some time after, unless the tool   *)
(* is running, which is shielded.                                                   *)
HangsUp(k) == /\ call[k] \in {"resolving", "asking", "running"} /\ k \notin gone
              /\ gone' = gone \cup {k}
              /\ UNCHANGED <<book, wiring, call, asked, ran, turns, moves>>
Cancelled(k) == /\ k \in gone /\ call[k] \in {"resolving", "asking"}
                /\ call' = [call EXCEPT ![k] = "cancelled"]
                /\ UNCHANGED <<book, wiring, gone, asked, ran, turns, moves>>
Ends(k) == /\ call[k] = "running"
           /\ call' = [call EXCEPT ![k] = "done"]
           /\ UNCHANGED <<book, wiring, gone, asked, ran, turns, moves>>

Next == \/ \E s \in Sessions : Spawn(s) \/ Drop(s) \/ SessionEnv(s)
        \/ \E t \in Tools : Withdraw(t) \/ Restore(t)
        \/ \E k \in Calls : \/ Arrives(k) \/ Resolved(k) \/ Answered(k)
                            \/ HangsUp(k) \/ Cancelled(k) \/ Ends(k)

Spec == Init /\ [][Next]_dvars

-----------------------------------------------------------------------------
Ran == {r.call : r \in ran}

(* A call acts in the conversation of the process that made it, whatever session it *)
(* names, and however many processes the session has had.                           *)
ActsInItsOwnConversation == \A k \in Ran : From[k] = Named[k]

(* A tool that must be confirmed runs after a yes, given on a card of a gateway     *)
(* that can show one, also when another gateway of the agent could.  Of a gateway   *)
(* the agent does not have, what it shows is not known.                             *)
ConfirmedWhereACardFits ==
    /\ \A k \in Ran : ToolOf[k] \in Confirmed => k \in asked
    /\ \A k \in Calls : call[k] = "asking" /\ Knows(k) => Confirmation \in Caps[GatewayOf[Named[k]]]

(* A yes that comes after the caller left starts nothing: what waited for a person  *)
(* is not run for a turn that is gone.                                              *)
NothingStartsForNobody ==
    [][\A k \in Calls : call[k] = "asking" /\ call'[k] = "running" => k \notin gone]_dvars

(* A call of a tool acts in its own process's conversation, runs confirmed on a     *)
(* card of its own gateway if it must be, and does not start for a caller that left *)
(* (tools/server.py _serve).                                                        *)
DoorIsKept ==
    /\ [](DoorTypeOK /\ ActsInItsOwnConversation /\ ConfirmedWhereACardFits)
    /\ NothingStartsForNobody

-----------------------------------------------------------------------------
(* Not kept: the tools withdraw takes "away from every agent that had them" are     *)
(* still run for the calls that had passed the door.                                *)
WithdrawnDoesNotRun == \A r \in ran : ToolOf[r.call] \notin r.without
-----------------------------------------------------------------------------
(***************************************************************************)
(* For any sessions, tools, gateways and calls: a call that runs acts in    *)
(* its own process's conversation, was confirmed on a card of a gateway     *)
(* that can show one if it had to be, and does not start for a caller that  *)
(* left.                                                                    *)
(***************************************************************************)

(* Where a call stands that was let in. *)
PastTheDoor == {"resolving", "asking", "running", "done", "abandoned", "cancelled"}

(* The tables have their types. *)
Types ==
    /\ proof \in [Sessions -> Nat] /\ spawned \in [Sessions -> Nat]
    /\ \A s \in Sessions : proof[s] <= spawned[s]
    /\ withdrawn \subseteq Tools /\ allowed \subseteq Tools
    /\ call \in [Calls -> {"none", "resolving", "asking", "running", "done", "refused", "abandoned", "cancelled"}]
    /\ \A r \in ran : r.call \in Calls

(* A call past the door names its own session, and one that ran is past     *)
(* every question.                                                          *)
DoorInv ==
    /\ Types
    /\ \A k \in Calls : call[k] \in PastTheDoor => Named[k] = From[k]
    /\ \A k \in Ran : call[k] \in {"running", "done"}
    /\ ConfirmedWhereACardFits

LEMMA DoorInit == Init => DoorInv
  BY DEF Init, DoorInv, Types, PastTheDoor, ConfirmedWhereACardFits, Ran, Gated

(* A call that starts is past the door, and was answered if it had to be. *)
LEMMA Started ==
    ASSUME DoorInv, NEW k \in Calls, call[k] \in PastTheDoor,
           call' = Start(k).call, ran' = Start(k).ran, asked \subseteq asked',
           ToolOf[k] \in Confirmed => k \in asked', UNCHANGED <<book, wiring>>
    PROVE  DoorInv'
  <1> DEFINE r == [call |-> k, without |-> withdrawn]
  <1>1. call' = [call EXCEPT ![k] = "running"] /\ ran' = ran \cup {r} /\ r.call = k
    BY DEF Start
  <1> HIDE DEF r
  <1>2. Ran' = Ran \cup {k}
    BY <1>1 DEF Ran
  <1>3. Types'
    BY <1>1 DEF DoorInv, Types, book, wiring
  <1>4. ConfirmedWhereACardFits'
    BY <1>1, <1>2 DEF DoorInv, Types, ConfirmedWhereACardFits
  <1> QED
    BY <1>1, <1>2, <1>3, <1>4 DEF DoorInv, Types, PastTheDoor

LEMMA DoorStep == ASSUME DoorInv, [Next]_dvars PROVE DoorInv'
  <1> USE DEF DoorInv, PastTheDoor
  <1>1. ASSUME NEW s \in Sessions, Spawn(s) \/ Drop(s) \/ SessionEnv(s) PROVE DoorInv'
    <2>1. Types'
      BY <1>1 DEF Types, Spawn, Drop, SessionEnv, wiring, book
    <2> QED
      BY <1>1, <2>1 DEF Types, Spawn, Drop, SessionEnv, wiring, book, ConfirmedWhereACardFits, Ran
  <1>2. ASSUME NEW t \in Tools, Withdraw(t) \/ Restore(t) PROVE DoorInv'
    <2>1. Types'
      BY <1>2 DEF Types, Withdraw, Restore, Gated, wiring, book
    <2> QED
      BY <1>2, <2>1 DEF Withdraw, Restore, book, ConfirmedWhereACardFits, Ran
  <1>3. ASSUME NEW k \in Calls, Arrives(k) PROVE DoorInv'
    BY <1>3 DEF Types, Arrives, Verify, wiring, book, ConfirmedWhereACardFits, Ran
  <1>4. ASSUME NEW k \in Calls, Resolved(k) PROVE DoorInv'
    <2>1. CASE call' = [call EXCEPT ![k] = "refused"] /\ ran' = ran
      BY <1>4, <2>1 DEF Types, Resolved, wiring, book, ConfirmedWhereACardFits, Ran
    <2>2. CASE /\ call' = [call EXCEPT ![k] = "asking"] /\ ran' = ran
               /\ ToolOf[k] \in Confirmed /\ (Knows(k) => Required(ToolOf[k]) \subseteq CapsOf(k))
      <3>1. Knows(k) => Confirmation \in Caps[GatewayOf[Named[k]]]
        BY <2>2 DEF Required, CapsOf
      <3> QED
        BY <1>4, <2>2, <3>1 DEF Types, Resolved, wiring, book, ConfirmedWhereACardFits, Ran
    <2>3. CASE ToolOf[k] \notin Confirmed /\ call' = Start(k).call /\ ran' = Start(k).ran
      BY <1>4, <2>3, Started DEF Resolved
    <2> QED
      BY <1>4, <2>1, <2>2, <2>3 DEF Resolved
  <1>5. ASSUME NEW k \in Calls, Answered(k) PROVE DoorInv'
    <2>1. CASE call' = [call EXCEPT ![k] = "refused"] /\ UNCHANGED <<asked, ran>>
      BY <1>5, <2>1 DEF Types, Answered, wiring, book, ConfirmedWhereACardFits, Ran
    <2>2. CASE asked' = asked \cup {k} /\ call' = Start(k).call /\ ran' = Start(k).ran
      BY <1>5, <2>2, Started DEF Answered
    <2>3. CASE asked' = asked \cup {k} /\ call' = [call EXCEPT ![k] = "abandoned"] /\ ran' = ran
      BY <1>5, <2>3 DEF Types, Answered, wiring, book, ConfirmedWhereACardFits, Ran
    <2> QED
      BY <1>5, <2>1, <2>2, <2>3 DEF Answered
  <1>6. ASSUME NEW k \in Calls, HangsUp(k) \/ Cancelled(k) \/ Ends(k) PROVE DoorInv'
    BY <1>6 DEF Types, HangsUp, Cancelled, Ends, wiring, book, ConfirmedWhereACardFits, Ran
  <1>7. CASE UNCHANGED dvars
    BY <1>7 DEF Types, dvars, ConfirmedWhereACardFits, Ran
  <1> QED
    BY <1>1, <1>2, <1>3, <1>4, <1>5, <1>6, <1>7 DEF Next

(* The door's promise (tools/server.py _serve), for any sessions, tools,    *)
(* gateways and calls, over processes replaced, entitlements changed, tools *)
(* withdrawn and callers that hang up at any moment.                        *)
THEOREM DoorIsKeptAlways == Spec => DoorIsKept
  <1>1. Init => DoorInv
    BY DoorInit
  <1>2. DoorInv /\ [Next]_dvars => DoorInv'
    BY DoorStep
  <1>3. DoorInv => DoorTypeOK /\ ActsInItsOwnConversation /\ ConfirmedWhereACardFits
    BY DEF DoorInv, Types, PastTheDoor, DoorTypeOK, ActsInItsOwnConversation, Ran
  <1>4. DoorInv /\ [Next]_dvars => [\A k \in Calls : call[k] = "asking" /\ call'[k] = "running" => k \notin gone]_dvars
    <2> SUFFICES ASSUME DoorInv, Next, NEW k \in Calls, call[k] = "asking", call'[k] = "running" PROVE k \notin gone
      OBVIOUS
    <2> QED
      BY DEF DoorInv, Types, Next, Spawn, Drop, SessionEnv, Withdraw, Restore, Arrives, Resolved, Answered, StillThere,
             Start, HangsUp, Cancelled, Ends
  <1> QED
    BY <1>1, <1>2, <1>3, <1>4, PTL DEF Spec, DoorIsKept, NothingStartsForNobody
=============================================================================
