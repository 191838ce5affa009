------------------------------ MODULE Profiles ------------------------------
(***************************************************************************)
(* How an edited profile reaches an agent (profiles/loader.py, composite.py,*)
(* reloader.py, impi app.py ProfileBuilder and _build_unit, registry.py,    *)
(* PiRuntime.run_stateful and drop_agent_sessions, process_scopes.py).      *)
(*                                                                          *)
(* What an agent.yaml says lives on in several places, each written at a    *)
(* time of its own: the store's spec, the flow's profile, the unit's spec,  *)
(* the directory's row, what the unit was built with, and the process a     *)
(* conversation runs in.  A version of a profile is told apart by what is   *)
(* baked into a process by way of the profile, by what is by way of the     *)
(* scope, by what narrows a gateway, and by whether it can be read at all.  *)
(***************************************************************************)
EXTENDS Naturals, Sequences, FiniteSets, Functions

CONSTANTS
    Order,              \* the units, in their order
    Engine,             \* the agents that come with the engine
    Convs, OwnerOf,     \* the conversations and whose each is
    Versions, First,    \* what an agent.yaml may say; what each says at the start
    Baked, Scoped,      \* per version: what the fingerprint tells apart, and what the scope does
    Narrowed,           \* per version: what tools_by_gateway leaves a conversation
    Bad,                \* versions the loader refuses
    Doubles,            \* versions beside which the directory holds an agent of the engine's name
    Reloads, MaxEdited, MaxBegun,
    Absent

(* A reload is somebody's.                                                  *)
ASSUME ReloadAssumption == Absent \notin Reloads

VARIABLES
    disk,       \* per agent: its agent.yaml
    store,      \* per agent: FsProfileStore._specs
    flow,       \* per agent: AgentFlow's profile
    unit,       \* per agent: AgentUnit.spec
    listed,     \* per agent: its row in the directory
    process,    \* per conversation: what its process was started with
    turnOf,     \* per conversation: the turn's step and the profile it was given
    reload,     \* per reload: its step, the unit it is at, the sessions it drops
    holder,     \* who holds ProfileReloader._lock
    spoiled,    \* history, per reload: a profile could not be read
    edits, turns

pVars == <<disk, store, flow, unit, listed, process, turnOf, reload, holder, spoiled, edits, turns>>
engineSide == <<store, flow, unit, listed, reload, holder, spoiled>>

Units == Range(Order)
Idle == [pc |-> "idle", profile |-> Absent]
Rest == [pc |-> "none", at |-> 0, drops |-> {}]

(* build_app: every place holds what the store read. *)
ProfilesInit ==
    /\ disk = First /\ store = First /\ flow = First /\ unit = First /\ listed = First
    /\ process = [c \in Convs |-> Absent] /\ turnOf = [c \in Convs |-> Idle]
    /\ reload = [r \in Reloads |-> Rest] /\ holder = Absent /\ spoiled = [r \in Reloads |-> FALSE]
    /\ edits = 0 /\ turns = 0

(* An operator, an agent that builds agents, a skill assigned from chat. *)
Edit(a, v) ==
    /\ edits < MaxEdited /\ disk[a] # v
    /\ disk' = [disk EXCEPT ![a] = v] /\ edits' = edits + 1
    /\ UNCHANGED <<engineSide, process, turnOf, turns>>

-----------------------------------------------------------------------------
(* A reload *)

(* FsProfileStore.reload: all of a directory's profiles or none. *)
Refused(agents) == \E a \in agents : disk[a] \in Bad

Read(agents) ==
    [a \in Units |-> IF a \in agents THEN disk[a] ELSE store[a]]

(* CompositeProfileStore: the user's directory, the engine's, and only then *)
(* whether a name is in both.                                               *)
Doubled == \E a \in Units \ Engine : disk[a] \in Doubles

Signals(r) ==
    /\ reload[r].pc = "none"
    /\ reload' = [reload EXCEPT ![r].pc = "waiting"]
    /\ UNCHANGED <<disk, store, flow, unit, listed, process, turnOf, holder, spoiled, edits, turns>>

Reads(r) ==
    /\ reload[r].pc = "waiting" /\ holder = Absent
    /\ spoiled' = [spoiled EXCEPT ![r] = \E a \in Units : disk[a] \in Bad]
    /\ LET own == Units \ Engine
           failed == Refused(own) \/ Refused(Engine) \/ Doubled
       IN /\ store' = IF Refused(own) THEN store ELSE IF Refused(Engine) THEN Read(own) ELSE Read(Units)
          /\ reload' = [reload EXCEPT ![r] = IF failed THEN [Rest EXCEPT !.pc = "done"]
                                                       ELSE [Rest EXCEPT !.pc = "swaps", !.at = 1]]
          /\ holder' = IF failed THEN Absent ELSE r
    /\ UNCHANGED <<disk, flow, unit, listed, process, turnOf, edits, turns>>

(* One unit: its flow's profile and its spec, then its idle sessions ... *)
SwapsFlow(r) ==
    LET a == Order[reload[r].at] IN
    /\ flow' = [flow EXCEPT ![a] = store[a]] /\ UNCHANGED unit

SwapsBoth(r) ==
    LET a == Order[reload[r].at] IN
    /\ flow' = [flow EXCEPT ![a] = store[a]] /\ unit' = [unit EXCEPT ![a] = store[a]]

Swaps(r) ==
    /\ reload[r].pc = "swaps" /\ reload[r].at <= Len(Order)
    /\ SwapsBoth(r)
    /\ reload' = [reload EXCEPT ![r].pc = "drops",
                    ![r].drops = {c \in Convs : OwnerOf[c] = Order[reload[r].at] /\ process[c] # Absent
                                                /\ turnOf[c].pc # "running"}]
    /\ UNCHANGED <<disk, store, listed, process, turnOf, holder, spoiled, edits, turns>>

(* ... one at a time (drop_agent_sessions); a session a turn took up        *)
(* meanwhile goes all the same, and the turn with it.                       *)
DropsSession(r, c) ==
    /\ reload[r].pc = "drops" /\ c \in reload[r].drops
    /\ process' = [process EXCEPT ![c] = Absent]
    /\ turnOf' = [turnOf EXCEPT ![c] = IF @.pc = "running" THEN Idle ELSE @]
    /\ reload' = [reload EXCEPT ![r].drops = @ \ {c}]
    /\ UNCHANGED <<disk, store, flow, unit, listed, holder, spoiled, edits, turns>>

NextUnit(r) ==
    /\ reload[r].pc = "drops" /\ reload[r].drops = {}
    /\ reload' = [reload EXCEPT ![r].pc = "swaps", ![r].at = @ + 1]
    /\ UNCHANGED <<disk, store, flow, unit, listed, process, turnOf, holder, spoiled, edits, turns>>

(* RegistryService.sync. *)
SyncsDirectory(r) ==
    /\ reload[r].pc = "swaps" /\ reload[r].at > Len(Order)
    /\ listed' = unit /\ holder' = Absent
    /\ reload' = [reload EXCEPT ![r] = [Rest EXCEPT !.pc = "done"]]
    /\ UNCHANGED <<disk, store, flow, unit, process, turnOf, spoiled, edits, turns>>

-----------------------------------------------------------------------------
(* A turn *)

(* AgentFlow._turn: the flow's profile, when the turn begins. *)
TurnBegins(c) ==
    /\ turnOf[c].pc = "idle" /\ turns < MaxBegun
    /\ turnOf' = [turnOf EXCEPT ![c] = [pc |-> "given", profile |-> flow[OwnerOf[c]]]]
    /\ turns' = turns + 1
    /\ UNCHANGED <<disk, engineSide, process, edits>>

(* spawn_fingerprint. *)
Matches(c) == process[c] # Absent /\ process[c].baked = Baked[turnOf[c].profile]

(* run_stateful: the process there is, if it was started with this profile; *)
(* else a new one, whose scope is asked of the store's spec (scope_for).    *)
TurnRunsIn(c) ==
    /\ turnOf[c].pc = "given"
    /\ process' = [process EXCEPT ![c] = IF Matches(c) THEN @ ELSE
                     [baked |-> Baked[turnOf[c].profile], scope |-> Scoped[store[OwnerOf[c]]]]]
    /\ turnOf' = [turnOf EXCEPT ![c].pc = "running"]
    /\ UNCHANGED <<disk, engineSide, edits, turns>>

(* _build_unit: what a gateway's conversation may use is read off the spec  *)
(* the unit was built with.                                                 *)
ToolsOf(c) == Narrowed[First[OwnerOf[c]]]

TurnEnds(c) ==
    /\ turnOf[c].pc = "running"
    /\ turnOf' = [turnOf EXCEPT ![c] = Idle]
    /\ UNCHANGED <<disk, engineSide, process, edits, turns>>

-----------------------------------------------------------------------------
ProfilesNext ==
    \/ \E a \in Units, v \in Versions : Edit(a, v)
    \/ \E r \in Reloads : Signals(r) \/ Reads(r) \/ Swaps(r) \/ NextUnit(r) \/ SyncsDirectory(r)
    \/ \E r \in Reloads, c \in Convs : DropsSession(r, c)
    \/ \E c \in Convs : TurnBegins(c) \/ TurnRunsIn(c) \/ TurnEnds(c)

ProfilesSpec == ProfilesInit /\ [][ProfilesNext]_pVars

-----------------------------------------------------------------------------
(* A turn runs in a process that was started with the profile the turn was  *)
(* given, however many reloads came between (spawn_fingerprint).            *)
RunsWithItsProfile ==
    \A c \in Convs : turnOf[c].pc = "running" => process[c].baked = Baked[turnOf[c].profile]

(* Between reloads an agent runs with what it is listed and budgeted by     *)
(* (reloader.py: the flow's profile, the unit's spec, the directory).       *)
OneProfilePerAgent == holder = Absent => flow = unit /\ unit = listed

(* A reload that could not read every profile changed no agent (reloader.py:*)
(* "A bad edit leaves the running config untouched").                       *)
AllOrNone == [][\A r \in Reloads : (reload[r].pc = "swaps" /\ flow' # flow /\ holder = r) => ~spoiled[r]]_pVars

(* A turn runs in a process of its profile, an agent has one profile        *)
(* wherever it is looked up, and a reload takes every profile or none       *)
(* (pi/runtime.py, reloader.py, profiles/composite.py).                     *)
ProfilesAreWhole == [](RunsWithItsProfile /\ OneProfilePerAgent) /\ AllOrNone

-----------------------------------------------------------------------------
(* What the code does not keep. *)

(* A reload that failed changes nothing a process is started with.          *)
BadEditChangesNothing ==
    [][\A c \in Convs : (holder = Absent /\ process'[c] # Absent /\ process'[c] # process[c])
         => process'[c].scope = Scoped[unit[OwnerOf[c]]]]_pVars

(* After a reload a turn runs with the whole of the new profile             *)
(* (architecture.md: "gets the new profile on its next turn").              *)
NextTurnHasItAll ==
    \A c \in Convs : (turnOf[c].pc = "running" /\ holder = Absent /\ turnOf[c].profile = unit[OwnerOf[c]])
                       => process[c].scope = Scoped[unit[OwnerOf[c]]]

(* After a reload a conversation may use what the profile says of its       *)
(* gateway now (creating-agents.md: editing agent.yaml "applies with a      *)
(* reload").                                                                *)
GatewayListIsCurrent == holder = Absent => \A c \in Convs : ToolsOf(c) = Narrowed[unit[OwnerOf[c]]]
=============================================================================
