------------------------------- MODULE AgentFlow -------------------------------
(***************************************************************************)
(* AgentFlow (crucible/flows/agent_flow.py): one agent's turns.  A batch of  *)
(* a conversation's messages becomes a turn: replays are dropped, the        *)
(* session row of the conversation's key is read, the application admits,    *)
(* the prompt is rendered with the note about a turn that was cut short, the *)
(* runtime runs it and its ending is told.  The coalescer runs one batch of  *)
(* a key at a time; turns of different keys overlap.  A person stops a turn  *)
(* by any name the gateway knows its conversation by.                        *)
(*                                                                           *)
(* An action is a stretch of handle_batch between two awaits that somebody   *)
(* else's step can come between.  A turn is a number; a note is the number   *)
(* of the turn it is about, 0 for none.  A cancelled turn has ended by the   *)
(* time stop() learns of it, so facts.stopped is set with the cancel.        *)
(***************************************************************************)
EXTENDS Naturals, FiniteSets, TLAPS

CONSTANTS
    Keys,           \* the keys sessions are kept under
    Msgs,           \* messages
    KeyOf,          \* ConversationKey.key
    ConvOf,         \* conversation_id, as the platform has it
    NamesOf,        \* the names a stop may use: conversation, thread, message, a direct message's channel
    MaxTurns, MaxDeliveries, MaxCrashes,   \* bounds
    None

Ids == Keys \cup {ConvOf[m] : m \in Msgs}
Names == UNION {NamesOf[m] : m \in Msgs}

ASSUME MessageAssumption ==
    /\ KeyOf \in [Msgs -> Keys]
    /\ ConvOf \in [Msgs -> Ids] /\ NamesOf \in [Msgs -> SUBSET Names]
    /\ \A m \in Msgs : ConvOf[m] \in NamesOf[m]
ASSUME BoundAssumption == MaxTurns \in Nat /\ MaxDeliveries \in Nat /\ MaxCrashes \in Nat

VARIABLES
    processed,  \* message ids the store has marked
    row,        \* the session row of an id: whether it exists and its cut_short
    worker,     \* what the key's worker is doing with which batch
    activeAt,   \* _active_at: a name to the turn in flight there
    count,      \* turns so far
    delivered,  \* how often each message was handed over
    crashes,
    ran,        \* history: how many turns each message was put to the runtime in
    owed        \* history: the last turn that ran in a key, if it was cut short

vars == <<processed, row, worker, activeAt, count, delivered, crashes, ran, owed>>

Resting == [pc |-> "idle", turn |-> 0, batch |-> {}, anchor |-> None, note |-> 0, stopped |-> FALSE]

Init ==
    /\ processed = {}
    /\ row = [i \in Ids |-> [exists |-> FALSE, cutShort |-> 0]]
    /\ worker = [k \in Keys |-> Resting]
    /\ activeAt = [n \in Names |-> 0]
    /\ count = 0
    /\ delivered = [m \in Msgs |-> 0]
    /\ crashes = 0
    /\ ran = [m \in Msgs |-> 0]
    /\ owed = [k \in Keys |-> 0]

(* set_cut_short updates the row of an id, where there is one. *)
SetCutShort(i, note) == [row EXCEPT ![i].cutShort = IF row[i].exists THEN note ELSE @]

-----------------------------------------------------------------------------
(* mark_processed: the first time a message is seen, in any process. *)

(* Bug: a message that is still in some turn counts as seen, no other. *)
FreshOnlyInFlight(batch) == {m \in batch : \A k \in Keys : m \notin worker[k].batch}

(* The code. *)
Fresh(batch) == batch \ processed

(* A batch that is all replays ends at once. *)
Duplicate(batch) ==
    /\ Fresh(batch) = {}
    /\ delivered' = [m \in Msgs |-> IF m \in batch THEN delivered[m] + 1 ELSE delivered[m]]
    /\ UNCHANGED <<processed, row, worker, activeAt, count, crashes, ran, owed>>

(* The newest surviving message anchors the turn; its key's row is read,    *)
(* or made.                                                                 *)
BeginTurn(k, batch, anchor) ==
    /\ anchor \in Fresh(batch)
    /\ KeyOf[anchor] = k
    /\ count < MaxTurns
    /\ count' = count + 1
    /\ processed' = processed \cup batch
    /\ delivered' = [m \in Msgs |-> IF m \in batch THEN delivered[m] + 1 ELSE delivered[m]]
    /\ row' = [row EXCEPT ![k].exists = TRUE]
    /\ worker' = [worker EXCEPT ![k] = [pc |-> "admitting", turn |-> count + 1, batch |-> Fresh(batch),
                                        anchor |-> anchor, note |-> row[k].cutShort, stopped |-> FALSE]]
    /\ UNCHANGED <<activeAt, crashes, ran, owed>>

(* _first_not_admitted: nothing ran, the people concerned were told. *)
NotAdmitted(k) ==
    /\ worker[k].pc = "admitting"
    /\ worker' = [worker EXCEPT ![k] = Resting]
    /\ UNCHANGED <<processed, row, activeAt, count, delivered, crashes, ran, owed>>

(* Registered under every name nobody else is registered under. *)
Admitted(k) ==
    /\ worker[k].pc = "admitting"
    /\ activeAt' = [n \in Names |-> IF n \in NamesOf[worker[k].anchor] /\ activeAt[n] = 0
                                      THEN worker[k].turn ELSE activeAt[n]]
    /\ worker' = [worker EXCEPT ![k].pc = "rendering"]
    /\ UNCHANGED <<processed, row, count, delivered, crashes, ran, owed>>

(* Bug: the note is rendered and left in the row. *)
RenderedKeeping(k) ==
    /\ worker[k].pc = "rendering"
    /\ worker' = [worker EXCEPT ![k].pc = "starting"]
    /\ UNCHANGED <<processed, row, activeAt, count, delivered, crashes, ran, owed>>

(* The code: the note goes into the prompt and is cleared. *)
Rendered(k) ==
    /\ worker[k].pc = "rendering"
    /\ row' = IF worker[k].note # 0 THEN SetCutShort(ConvOf[worker[k].anchor], 0) ELSE row
    /\ worker' = [worker EXCEPT ![k].pc = "starting"]
    /\ UNCHANGED <<processed, activeAt, count, delivered, crashes, ran, owed>>

(* run_stateful: the engine is full and nothing ran, *)
Busy(k) ==
    /\ worker[k].pc = "starting"
    /\ worker' = [worker EXCEPT ![k].pc = "telling"]
    /\ UNCHANGED <<processed, row, activeAt, count, delivered, crashes, ran, owed>>

(* or the prompt is with the runtime. *)
Runs(k) ==
    /\ worker[k].pc = "starting"
    /\ worker' = [worker EXCEPT ![k].pc = "running"]
    /\ ran' = [m \in Msgs |-> IF m \in worker[k].batch THEN ran[m] + 1 ELSE ran[m]]
    /\ UNCHANGED <<processed, row, activeAt, count, delivered, crashes, owed>>

(* A turn a person stopped, or one that ran out (of time, of tokens, of     *)
(* signs of life), leaves a note for the next.                              *)
CutShort(k) ==
    /\ worker[k].pc = "running"
    /\ row' = SetCutShort(ConvOf[worker[k].anchor], worker[k].turn)
    /\ owed' = [owed EXCEPT ![k] = worker[k].turn]
    /\ worker' = [worker EXCEPT ![k].pc = "telling"]
    /\ UNCHANGED <<processed, activeAt, count, delivered, crashes, ran>>

(* Answered, silent, failed, or raised something the flow does not catch. *)
RunsOut(k) ==
    /\ worker[k].pc = "running"
    /\ ~worker[k].stopped
    /\ owed' = [owed EXCEPT ![k] = 0]
    /\ worker' = [worker EXCEPT ![k].pc = "telling"]
    /\ UNCHANGED <<processed, row, activeAt, count, delivered, crashes, ran>>

(* The ending is posted, and every name that is this turn's goes. *)
TurnEnds(k) ==
    /\ worker[k].pc = "telling"
    /\ activeAt' = [n \in Names |-> IF activeAt[n] = worker[k].turn THEN 0 ELSE activeAt[n]]
    /\ worker' = [worker EXCEPT ![k] = Resting]
    /\ UNCHANGED <<processed, row, count, delivered, crashes, ran, owed>>

(* stop: the turn found by key or by name is interrupted if it is running.  *)
(* One that has not begun or is over runs on.                               *)
Active(k) == worker[k].pc \in {"rendering", "starting", "running", "telling"}

Found(n) ==
    {k \in Keys : Active(k) /\ (k = n \/ ((n \in Keys => ~Active(n)) /\ activeAt[n] = worker[k].turn))}

Stop(n) ==
    /\ \E k \in Found(n) :
         /\ worker[k].pc = "running" /\ ~worker[k].stopped
         /\ worker' = [worker EXCEPT ![k].stopped = TRUE]
    /\ UNCHANGED <<processed, row, activeAt, count, delivered, crashes, ran, owed>>

(* The process dies: the turns go, the rows stay. *)
Crash ==
    /\ crashes < MaxCrashes
    /\ crashes' = crashes + 1
    /\ worker' = [k \in Keys |-> Resting]
    /\ activeAt' = [n \in Names |-> 0]
    /\ owed' = [k \in Keys |-> IF worker[k].pc = "running" THEN 0 ELSE owed[k]]
    /\ UNCHANGED <<processed, row, count, delivered, ran>>

(* A batch is messages of one key, each handed over a bounded number of times. *)
Batches(k) ==
    {b \in SUBSET {m \in Msgs : KeyOf[m] = k /\ delivered[m] < MaxDeliveries} : b # {}}

HandleBatch(k, b) == worker[k].pc = "idle" /\ (Duplicate(b) \/ \E m \in b : BeginTurn(k, b, m))

TurnStep(k) ==
    \/ NotAdmitted(k) \/ Admitted(k) \/ Rendered(k) \/ Busy(k) \/ Runs(k)
    \/ CutShort(k) \/ RunsOut(k) \/ TurnEnds(k)

Next ==
    \/ \E k \in Keys : TurnStep(k) \/ \E b \in Batches(k) : HandleBatch(k, b)
    \/ \E n \in Names : Stop(n)
    \/ Crash

Spec == Init /\ [][Next]_vars

-----------------------------------------------------------------------------
(* The values the flow's tables take. *)
TypeOK ==
    /\ processed \subseteq Msgs
    /\ row \in [Ids -> [exists : BOOLEAN, cutShort : 0..MaxTurns]]
    /\ \A k \in Keys :
         /\ worker[k].pc \in {"idle", "admitting", "rendering", "starting", "running", "telling"}
         /\ worker[k].turn \in 0..count /\ worker[k].note \in 0..MaxTurns
         /\ worker[k].batch \subseteq processed
         /\ worker[k].pc = "idle" \/ KeyOf[worker[k].anchor] = k
    /\ activeAt \in [Names -> 0..MaxTurns]
    /\ ran \in [Msgs -> Nat] /\ owed \in [Keys -> 0..MaxTurns]

(* A message is put to the runtime in at most one turn, however often the   *)
(* gateway hands it over and whichever process gets it.                     *)
OneTurnPerMessage == \A m \in Msgs : ran[m] <= 1

(* A name leads to a turn in flight: a stop never takes a turn that is over *)
(* for the one that is running, nor finds the place taken by a dead one.    *)
NamesLeadToTurns ==
    \A n \in Names : activeAt[n] # 0 => \E k \in Keys : Active(k) /\ worker[k].turn = activeAt[n]

(* The turns an agent has are accounted for: each message to at most one,   *)
(* each name to one in flight, each worker's batch marked and of its key    *)
(* (agent_flow.py handle_batch, _active_at; store mark_processed).          *)
TurnsAreAccounted == TypeOK /\ OneTurnPerMessage /\ NamesLeadToTurns

Starts(k) == worker[k].pc = "starting" /\ worker'[k].pc = "running"

(* "Said once": a turn is told of the turn before it or of nothing, never   *)
(* of an older one, and never of one that another turn was told of.         *)
ToldOfTheLastOnly ==
    [][\A k \in Keys : Starts(k) => worker[k].note \in {0, owed[k]}]_vars

(* "The next turn is told the previous one did not finish." *)
NextTurnIsTold ==
    [][\A k \in Keys : Starts(k) => worker[k].note = owed[k]]_vars

(* "A stop that names any of them finds the turn." *)
StopFindsTurn ==
    \A k \in Keys : Active(k) => \A n \in NamesOf[worker[k].anchor] : Found(n) # {}
-----------------------------------------------------------------------------
(***************************************************************************)
(* For any keys, messages, names and numbers of turns, redeliveries and      *)
(* crashes: no message is put to the runtime twice, and a name leads to a    *)
(* turn in flight.                                                           *)
(***************************************************************************)
Pcs == {"idle", "admitting", "rendering", "starting", "running", "telling"}
Unstarted == {"admitting", "rendering", "starting"}

Workers == [pc : Pcs, turn : 0..MaxTurns, batch : SUBSET Msgs, anchor : Msgs \cup {None},
            note : 0..MaxTurns, stopped : BOOLEAN]

(* The variables a turn is made of have their types. *)
Types ==
    /\ processed \in SUBSET Msgs
    /\ row \in [Ids -> [exists : BOOLEAN, cutShort : 0..MaxTurns]]
    /\ worker \in [Keys -> Workers]
    /\ activeAt \in [Names -> 0..MaxTurns]
    /\ count \in 0..MaxTurns
    /\ ran \in [Msgs -> Nat]
    /\ owed \in [Keys -> 0..MaxTurns]

(* What a worker holds was marked, is of its key, and is unrun until its    *)
(* own turn runs it.                                                        *)
BatchIsMarked ==
    /\ \A k \in Keys : worker[k].batch \subseteq processed
    /\ \A k \in Keys : \A m \in worker[k].batch : KeyOf[m] = k
    /\ \A k \in Keys : worker[k].pc # "idle" => worker[k].anchor \in worker[k].batch

UnrunUntilItsTurn ==
    /\ \A m \in Msgs : m \notin processed => ran[m] = 0
    /\ \A k \in Keys : worker[k].pc \in Unstarted => \A m \in worker[k].batch : ran[m] = 0

(* A worker at work has a turn of its own. *)
TurnsAreDistinct ==
    /\ \A k \in Keys : worker[k].turn <= count
    /\ \A k \in Keys : worker[k].pc # "idle" => worker[k].turn > 0
    /\ \A k, l \in Keys : (worker[k].pc # "idle" /\ worker[l].pc # "idle" /\ worker[k].turn = worker[l].turn)
                             => k = l

FlowInv ==
    /\ Types /\ BatchIsMarked /\ UnrunUntilItsTurn /\ TurnsAreDistinct
    /\ OneTurnPerMessage /\ NamesLeadToTurns

USE DEF Pcs, Unstarted

LEMMA InitHolds == Init => FlowInv
<1> SUFFICES ASSUME Init PROVE FlowInv
    OBVIOUS
<1> USE DEF Init
<1>1. Types
    BY BoundAssumption DEF Types, Workers, Resting
<1>2. BatchIsMarked /\ UnrunUntilItsTurn /\ TurnsAreDistinct
    BY DEF BatchIsMarked, UnrunUntilItsTurn, TurnsAreDistinct, Resting
<1>3. OneTurnPerMessage /\ NamesLeadToTurns
    BY DEF OneTurnPerMessage, NamesLeadToTurns
<1> QED
    BY <1>1, <1>2, <1>3 DEF FlowInv

(* Writing or clearing a note keeps the rows rows. *)
LEMMA NoteKeepsRows ==
    ASSUME NEW i, NEW note \in 0..MaxTurns, row \in [Ids -> [exists : BOOLEAN, cutShort : 0..MaxTurns]]
    PROVE  SetCutShort(i, note) \in [Ids -> [exists : BOOLEAN, cutShort : 0..MaxTurns]]
<1> DEFINE v == IF row[i].exists THEN note ELSE row[i].cutShort
<1>1. SetCutShort(i, note) = [row EXCEPT ![i] = [row[i] EXCEPT !.cutShort = v]]
    BY DEF SetCutShort
<1>2. ASSUME i \in Ids PROVE v \in 0..MaxTurns
    BY <1>2
<1> HIDE DEF v
<1>3. ASSUME i \in Ids PROVE [row[i] EXCEPT !.cutShort = v] \in [exists : BOOLEAN, cutShort : 0..MaxTurns]
    BY <1>2, <1>3
<1> QED
    BY <1>1, <1>3

(* A batch of replays changes no turn. *)
LEMMA DuplicateKeeps ==
    ASSUME NEW b \in SUBSET Msgs, FlowInv, Duplicate(b) PROVE FlowInv'
<1> USE DEF FlowInv, Duplicate
<1> QED
    BY DEF Types, BatchIsMarked, UnrunUntilItsTurn, TurnsAreDistinct, OneTurnPerMessage, NamesLeadToTurns, Active

(* A turn begins on marked messages that never ran, under a new number. *)
LEMMA BeginKeeps ==
    ASSUME NEW k \in Keys, NEW b \in SUBSET Msgs, NEW a \in b, FlowInv, worker[k].pc = "idle",
           \A m \in b : KeyOf[m] = k, BeginTurn(k, b, a)
    PROVE  FlowInv'
<1> USE DEF FlowInv, BeginTurn
<1>1. Types'
  <2>1. row' \in [Ids -> [exists : BOOLEAN, cutShort : 0..MaxTurns]]
      BY DEF Types, Ids
  <2>2. worker' \in [Keys -> Workers]
    <3>1. row[k].cutShort \in 0..MaxTurns /\ count + 1 \in 0..MaxTurns
        BY BoundAssumption DEF Types, Ids
    <3> QED
        BY <3>1 DEF Types, Workers, Fresh
  <2>3. processed' \in SUBSET Msgs /\ count' \in 0..MaxTurns
      BY BoundAssumption DEF Types
  <2> QED
      BY <2>1, <2>2, <2>3 DEF Types
<1>2. BatchIsMarked'
    BY DEF Types, Workers, BatchIsMarked, Fresh
<1>3. UnrunUntilItsTurn'
    BY DEF Types, Workers, BatchIsMarked, UnrunUntilItsTurn, Fresh
<1>4. TurnsAreDistinct'
    BY DEF Types, Workers, TurnsAreDistinct
<1>5. NamesLeadToTurns'
    BY DEF Types, Workers, NamesLeadToTurns, Active
<1> QED
    BY <1>1, <1>2, <1>3, <1>4, <1>5 DEF OneTurnPerMessage

(* A turn that was not admitted was under no name. *)
LEMMA NotAdmittedKeeps ==
    ASSUME NEW k \in Keys, FlowInv, NotAdmitted(k) PROVE FlowInv'
<1> USE DEF FlowInv, NotAdmitted
<1>1. Types'
    BY BoundAssumption DEF Types, Workers, Resting
<1>2. BatchIsMarked' /\ UnrunUntilItsTurn'
    BY DEF Types, Workers, Resting, BatchIsMarked, UnrunUntilItsTurn
<1>3. TurnsAreDistinct'
    BY DEF Types, Workers, Resting, TurnsAreDistinct
<1>4. NamesLeadToTurns'
    BY DEF Types, Workers, Resting, NamesLeadToTurns, Active, TurnsAreDistinct
<1> QED
    BY <1>1, <1>2, <1>3, <1>4 DEF OneTurnPerMessage

(* An admitted turn takes the free names. *)
LEMMA AdmittedKeeps ==
    ASSUME NEW k \in Keys, FlowInv, Admitted(k) PROVE FlowInv'
<1> USE DEF FlowInv, Admitted
<1>1. Types'
    BY BoundAssumption DEF Types, Workers, Resting
<1>2. BatchIsMarked' /\ UnrunUntilItsTurn'
    BY DEF Types, Workers, Resting, BatchIsMarked, UnrunUntilItsTurn
<1>3. TurnsAreDistinct'
    BY DEF Types, Workers, Resting, TurnsAreDistinct
<1>4. NamesLeadToTurns'
    BY DEF Types, Workers, Resting, NamesLeadToTurns, Active, TurnsAreDistinct
<1> QED
    BY <1>1, <1>2, <1>3, <1>4 DEF OneTurnPerMessage

(* Rendering clears a note and nothing else. *)
LEMMA RenderedKeeps ==
    ASSUME NEW k \in Keys, FlowInv, Rendered(k) PROVE FlowInv'
<1> USE DEF FlowInv, Rendered
<1>1. Types'
  <2>1. row' \in [Ids -> [exists : BOOLEAN, cutShort : 0..MaxTurns]]
    <3>1. row \in [Ids -> [exists : BOOLEAN, cutShort : 0..MaxTurns]] /\ 0 \in 0..MaxTurns
        BY BoundAssumption DEF Types
    <3>2. SetCutShort(ConvOf[worker[k].anchor], 0) \in [Ids -> [exists : BOOLEAN, cutShort : 0..MaxTurns]]
        BY <3>1, NoteKeepsRows
    <3> QED
        BY <3>1, <3>2
  <2>2. worker' \in [Keys -> Workers]
      BY DEF Types, Workers
  <2> QED
      BY <2>1, <2>2 DEF Types
<1>2. BatchIsMarked' /\ UnrunUntilItsTurn'
    BY DEF Types, Workers, Resting, BatchIsMarked, UnrunUntilItsTurn
<1>3. TurnsAreDistinct'
    BY DEF Types, Workers, Resting, TurnsAreDistinct
<1>4. NamesLeadToTurns'
    BY DEF Types, Workers, Resting, NamesLeadToTurns, Active, TurnsAreDistinct
<1> QED
    BY <1>1, <1>2, <1>3, <1>4 DEF OneTurnPerMessage

(* A full engine runs nothing. *)
LEMMA BusyKeeps ==
    ASSUME NEW k \in Keys, FlowInv, Busy(k) PROVE FlowInv'
<1> USE DEF FlowInv, Busy
<1>1. Types'
    BY BoundAssumption DEF Types, Workers, Resting
<1>2. BatchIsMarked' /\ UnrunUntilItsTurn'
    BY DEF Types, Workers, Resting, BatchIsMarked, UnrunUntilItsTurn
<1>3. TurnsAreDistinct'
    BY DEF Types, Workers, Resting, TurnsAreDistinct
<1>4. NamesLeadToTurns'
    BY DEF Types, Workers, Resting, NamesLeadToTurns, Active, TurnsAreDistinct
<1> QED
    BY <1>1, <1>2, <1>3, <1>4 DEF OneTurnPerMessage

(* A batch that runs had not run, and no other worker holds its messages. *)
LEMMA RunsKeeps ==
    ASSUME NEW k \in Keys, FlowInv, Runs(k) PROVE FlowInv'
<1> USE DEF FlowInv, Runs
<1>1. Types'
  <2>1. worker' \in [Keys -> Workers]
      BY DEF Types, Workers
  <2>2. ran' \in [Msgs -> Nat]
      BY DEF Types
  <2> QED
      BY <2>1, <2>2 DEF Types
<1>2. BatchIsMarked'
    BY DEF Types, Workers, BatchIsMarked
<1>3. UnrunUntilItsTurn'
  <2>1. \A l \in Keys : worker'[l].batch = worker[l].batch /\ (worker'[l].pc \in Unstarted => l # k /\ worker[l].pc \in Unstarted)
      BY DEF Types, Workers
  <2>2. \A m \in Msgs : m \notin worker[k].batch => ran'[m] = ran[m]
      OBVIOUS
  <2>3. \A l \in Keys : l # k => \A m \in worker[l].batch : m \in Msgs /\ m \notin worker[k].batch
      BY DEF Types, Workers, BatchIsMarked
  <2>4. \A m \in Msgs : m \notin processed' => ran'[m] = 0
      BY <2>2 DEF BatchIsMarked, UnrunUntilItsTurn
  <2>5. ASSUME NEW l \in Keys, worker'[l].pc \in Unstarted, NEW m \in worker'[l].batch PROVE ran'[m] = 0
      BY <2>1, <2>2, <2>3, <2>5, Zenon DEF UnrunUntilItsTurn
  <2> QED
      BY <2>4, <2>5 DEF UnrunUntilItsTurn
<1>4. OneTurnPerMessage'
    BY DEF Types, Workers, UnrunUntilItsTurn, OneTurnPerMessage
<1>5. TurnsAreDistinct' /\ NamesLeadToTurns'
    BY DEF Types, Workers, TurnsAreDistinct, NamesLeadToTurns, Active
<1> QED
    BY <1>1, <1>2, <1>3, <1>4, <1>5

(* A turn cut short leaves a note. *)
LEMMA CutShortKeeps ==
    ASSUME NEW k \in Keys, FlowInv, CutShort(k) PROVE FlowInv'
<1> USE DEF FlowInv, CutShort
<1>1. Types'
  <2>1. row' \in [Ids -> [exists : BOOLEAN, cutShort : 0..MaxTurns]]
    <3>1. row \in [Ids -> [exists : BOOLEAN, cutShort : 0..MaxTurns]] /\ worker[k].turn \in 0..MaxTurns
        BY DEF Types, Workers
    <3> QED
        BY <3>1, NoteKeepsRows
  <2>2. worker' \in [Keys -> Workers]
      BY DEF Types, Workers
  <2>3. owed' \in [Keys -> 0..MaxTurns]
      BY DEF Types, Workers
  <2> QED
      BY <2>1, <2>2, <2>3 DEF Types
<1>2. BatchIsMarked' /\ UnrunUntilItsTurn'
    BY DEF Types, Workers, Resting, BatchIsMarked, UnrunUntilItsTurn
<1>3. TurnsAreDistinct'
    BY DEF Types, Workers, Resting, TurnsAreDistinct
<1>4. NamesLeadToTurns'
    BY DEF Types, Workers, Resting, NamesLeadToTurns, Active, TurnsAreDistinct
<1> QED
    BY <1>1, <1>2, <1>3, <1>4 DEF OneTurnPerMessage

(* A turn that ran out by itself. *)
LEMMA RunsOutKeeps ==
    ASSUME NEW k \in Keys, FlowInv, RunsOut(k) PROVE FlowInv'
<1> USE DEF FlowInv, RunsOut
<1>1. Types'
  <2>1. worker' \in [Keys -> Workers]
      BY DEF Types, Workers
  <2>2. owed' \in [Keys -> 0..MaxTurns]
      BY BoundAssumption DEF Types
  <2> QED
      BY <2>1, <2>2 DEF Types
<1>2. BatchIsMarked' /\ UnrunUntilItsTurn'
    BY DEF Types, Workers, Resting, BatchIsMarked, UnrunUntilItsTurn
<1>3. TurnsAreDistinct'
    BY DEF Types, Workers, Resting, TurnsAreDistinct
<1>4. NamesLeadToTurns'
    BY DEF Types, Workers, Resting, NamesLeadToTurns, Active, TurnsAreDistinct
<1> QED
    BY <1>1, <1>2, <1>3, <1>4 DEF OneTurnPerMessage

(* A turn that ends takes its names along, and only its own. *)
LEMMA TurnEndsKeeps ==
    ASSUME NEW k \in Keys, FlowInv, TurnEnds(k) PROVE FlowInv'
<1> USE DEF FlowInv, TurnEnds
<1>1. Types'
    BY BoundAssumption DEF Types, Workers, Resting
<1>2. BatchIsMarked' /\ UnrunUntilItsTurn'
    BY DEF Types, Workers, Resting, BatchIsMarked, UnrunUntilItsTurn
<1>3. TurnsAreDistinct'
    BY DEF Types, Workers, Resting, TurnsAreDistinct
<1>4. NamesLeadToTurns'
    BY DEF Types, Workers, Resting, NamesLeadToTurns, Active, TurnsAreDistinct
<1> QED
    BY <1>1, <1>2, <1>3, <1>4 DEF OneTurnPerMessage

(* A stop marks a turn. *)
LEMMA StopKeeps ==
    ASSUME NEW n \in Names, FlowInv, Stop(n) PROVE FlowInv'
<1> USE DEF FlowInv, Stop
<1> PICK k \in Keys : worker[k].pc = "running" /\ worker' = [worker EXCEPT ![k].stopped = TRUE]
    BY DEF Found
<1>1. Types'
  <2> DEFINE w == worker[k]
  <2>1. w \in Workers /\ worker' = [worker EXCEPT ![k] = [w EXCEPT !.stopped = TRUE]]
      BY DEF Types
  <2> HIDE DEF w
  <2>2. [w EXCEPT !.stopped = TRUE] \in Workers
      BY <2>1 DEF Workers
  <2>3. worker' \in [Keys -> Workers]
      BY <2>1, <2>2 DEF Types
  <2> QED
      BY <2>3 DEF Types
<1>2. BatchIsMarked' /\ UnrunUntilItsTurn'
    BY DEF Types, Workers, BatchIsMarked, UnrunUntilItsTurn
<1>3. TurnsAreDistinct' /\ NamesLeadToTurns'
    BY DEF Types, Workers, TurnsAreDistinct, NamesLeadToTurns, Active
<1> QED
    BY <1>1, <1>2, <1>3 DEF OneTurnPerMessage

(* A crash ends every turn and forgets every name. *)
LEMMA CrashKeeps == ASSUME FlowInv, Crash PROVE FlowInv'
<1> USE DEF FlowInv, Crash
<1>1. Types'
    BY BoundAssumption DEF Types, Workers, Resting
<1>2. BatchIsMarked' /\ UnrunUntilItsTurn'
    BY DEF Types, Workers, Resting, BatchIsMarked, UnrunUntilItsTurn
<1>3. TurnsAreDistinct' /\ NamesLeadToTurns'
    BY DEF Types, Workers, Resting, TurnsAreDistinct, NamesLeadToTurns, Active
<1> QED
    BY <1>1, <1>2, <1>3 DEF OneTurnPerMessage

LEMMA StepKeeps == FlowInv /\ [Next]_vars => FlowInv'
<1> SUFFICES ASSUME FlowInv, [Next]_vars PROVE FlowInv'
    OBVIOUS
<1>1. CASE UNCHANGED vars
    BY <1>1 DEF vars, FlowInv, Types, BatchIsMarked, UnrunUntilItsTurn, TurnsAreDistinct,
                OneTurnPerMessage, NamesLeadToTurns, Active
<1>2. ASSUME NEW k \in Keys, TurnStep(k) PROVE FlowInv'
    BY <1>2, NotAdmittedKeeps, AdmittedKeeps, RenderedKeeps, BusyKeeps, RunsKeeps, CutShortKeeps,
       RunsOutKeeps, TurnEndsKeeps DEF TurnStep
<1>3. ASSUME NEW k \in Keys, NEW b \in Batches(k), HandleBatch(k, b) PROVE FlowInv'
  <2>1. b \in SUBSET Msgs /\ \A m \in b : KeyOf[m] = k
      BY DEF Batches
  <2>2. CASE Duplicate(b)
      BY <2>1, <2>2, DuplicateKeeps
  <2>3. ASSUME NEW m \in b, BeginTurn(k, b, m) PROVE FlowInv'
      BY <1>3, <2>1, <2>3, BeginKeeps DEF HandleBatch
  <2> QED
      BY <1>3, <2>2, <2>3 DEF HandleBatch
<1>4. ASSUME NEW n \in Names, Stop(n) PROVE FlowInv'
    BY <1>4, StopKeeps
<1>5. CASE Crash
    BY <1>5, CrashKeeps
<1> QED
    BY <1>1, <1>2, <1>3, <1>4, <1>5 DEF Next

(* The flow's turns are accounted for, with any number of messages,         *)
(* redeliveries, stops and restarts: every worker's batch is marked and of  *)
(* its own key, every message runs at most once, and every name leads to a  *)
(* turn in flight (agent_flow.py handle_batch, _active_at).                 *)
THEOREM TurnsAreAccountedAlways == Spec => []TurnsAreAccounted
<1>1. FlowInv => TypeOK
    BY DEF FlowInv, Types, Workers, BatchIsMarked, TurnsAreDistinct, TypeOK
<1>2. FlowInv => TurnsAreAccounted
    BY <1>1 DEF FlowInv, TurnsAreAccounted
<1> QED
    BY InitHolds, StepKeeps, <1>2, PTL DEF Spec

(* A message is put to the runtime in at most one turn, over any number of  *)
(* redeliveries and restarts: it is marked before its turn, and a turn runs *)
(* only what it marked itself (handle_batch, mark_processed).               *)
THEOREM MessageRunsOnce == Spec => []OneTurnPerMessage
<1>1. FlowInv => OneTurnPerMessage
    BY DEF FlowInv
<1> QED
    BY InitHolds, StepKeeps, <1>1, PTL DEF Spec

(* A name in _active_at is the name of a turn in flight: what stop finds    *)
(* under it is never a turn that is over.                                   *)
THEOREM NamesAreLive == Spec => []NamesLeadToTurns
<1>1. FlowInv => NamesLeadToTurns
    BY DEF FlowInv
<1> QED
    BY InitHolds, StepKeeps, <1>1, PTL DEF Spec
-----------------------------------------------------------------------------
(* The note about a turn that was cut short is kept under the platform's id *)
(* of the conversation and read under the key of the session.               *)

(* A key that is a conversation's id is the key of that conversation and of *)
(* nothing else: PlatformKey, or keys of the application's own making.      *)
KeysAreApart ==
    \A m, l \in Msgs : KeyOf[l] = ConvOf[m] => ConvOf[l] = ConvOf[m] /\ KeyOf[m] = ConvOf[m]

(* What the row of a key says is about the last turn that ran there; a      *)
(* worker carries what it read, and from the start of its turn to the end   *)
(* the row says nothing.                                                    *)
NotesOf(k) ==
    /\ row[k].cutShort \in {0, owed[k]}
    /\ worker[k].pc # "idle" => row[k].exists
    /\ worker[k].pc \in Unstarted => worker[k].note \in {0, owed[k]}
    /\ worker[k].pc \in {"admitting", "rendering"} => worker[k].note = row[k].cutShort
    /\ worker[k].pc \in {"starting", "running"} => row[k].cutShort = 0

(* A key that is no conversation's id never gets a note. *)
Unwritten(k) == (\E m \in Msgs : KeyOf[m] = k /\ ConvOf[m] # k) => row[k].cutShort = 0

Notes == \A m \in Msgs : NotesOf(KeyOf[m]) /\ Unwritten(KeyOf[m])

(* A step leaves the notes of a key alone. *)
NotesAlone(k) == row'[k] = row[k] /\ worker'[k] = worker[k] /\ owed'[k] = owed[k]

LEMMA AloneKeeps ==
    ASSUME NEW k \in Keys, NotesOf(k), Unwritten(k), NotesAlone(k)
    PROVE  NotesOf(k)' /\ Unwritten(k)'
BY DEF NotesOf, Unwritten, NotesAlone

(* What a note is written to, and what not. *)
LEMMA NoteIsWritten ==
    ASSUME FlowInv, NEW i \in Ids, NEW note, row' = SetCutShort(i, note)
    PROVE  /\ \A j \in Ids : j # i => row'[j] = row[j]
           /\ row'[i].exists = row[i].exists
           /\ row'[i].cutShort = IF row[i].exists THEN note ELSE row[i].cutShort
<1>1. PICK z \in [exists : BOOLEAN, cutShort : 0..MaxTurns] : z = row[i]
    BY DEF FlowInv, Types
<1> DEFINE v == IF z.exists THEN note ELSE z.cutShort
           y == [z EXCEPT !.cutShort = v]
<1>2. row' = [row EXCEPT ![i] = y]
    BY <1>1 DEF SetCutShort, FlowInv, Types
<1>3. y.exists = z.exists /\ y.cutShort = v
    BY <1>1
<1> HIDE DEF y
<1>4. row'[i] = y /\ \A j \in Ids : j # i => row'[j] = row[j]
    BY <1>2 DEF FlowInv, Types
<1> QED
    BY <1>1, <1>3, <1>4

(* The row a worker's note goes to is its own key's or no key's. *)
LEMMA NoteStaysWithin ==
    ASSUME FlowInv, KeysAreApart, NEW k \in Keys, worker[k].pc # "idle"
    PROVE  LET i == ConvOf[worker[k].anchor] IN
           /\ worker[k].anchor \in Msgs /\ KeyOf[worker[k].anchor] = k /\ i \in Ids
           /\ \A l \in Msgs : KeyOf[l] = i => KeyOf[l] = k
<1>1. worker[k].anchor \in Msgs /\ KeyOf[worker[k].anchor] = k
    BY DEF FlowInv, BatchIsMarked, Types, Workers
<1> QED
    BY <1>1, MessageAssumption DEF KeysAreApart

(* The keys a step of k's worker is about are k and nobody else's. *)
LEMMA StepNotes ==
    ASSUME FlowInv, Notes, KeysAreApart, NEW k \in Keys,
           NotesOf(k) /\ Unwritten(k) => NotesOf(k)' /\ Unwritten(k)',
           \A l \in Msgs : KeyOf[l] # k => NotesAlone(KeyOf[l])
    PROVE  Notes'
<1> SUFFICES ASSUME NEW l \in Msgs PROVE NotesOf(KeyOf[l])' /\ Unwritten(KeyOf[l])'
    BY DEF Notes
<1>1. KeyOf[l] \in Keys /\ NotesOf(KeyOf[l]) /\ Unwritten(KeyOf[l])
    BY MessageAssumption DEF Notes
<1> QED
    BY <1>1, AloneKeeps

LEMMA BeginNotes ==
    ASSUME FlowInv, Notes, KeysAreApart, NEW k \in Keys, NEW b \in SUBSET Msgs, NEW a \in b, BeginTurn(k, b, a)
    PROVE  Notes'
<1> DEFINE w == [pc |-> "admitting", turn |-> count + 1, batch |-> Fresh(b),
                 anchor |-> a, note |-> row[k].cutShort, stopped |-> FALSE]
<1>1. PICK z \in [exists : BOOLEAN, cutShort : 0..MaxTurns] : z = row[k]
    BY DEF FlowInv, Types, Ids
<1> DEFINE y == [z EXCEPT !.exists = TRUE]
<1>2. y.exists /\ y.cutShort = row[k].cutShort
    BY <1>1
<1>3. row' = [row EXCEPT ![k] = y] /\ worker' = [worker EXCEPT ![k] = w] /\ owed' = owed
    BY <1>1 DEF BeginTurn, FlowInv, Types, Ids
<1>4. w.pc = "admitting" /\ w.note = row[k].cutShort
    OBVIOUS
<1> HIDE DEF w, y
<1>5. /\ row'[k] = y /\ worker'[k] = w
      /\ \A l \in Msgs : KeyOf[l] # k => NotesAlone(KeyOf[l])
    BY <1>3, MessageAssumption DEF FlowInv, Types, Ids, NotesAlone
<1>6. NotesOf(k) /\ Unwritten(k) => NotesOf(k)' /\ Unwritten(k)'
    BY <1>2, <1>3, <1>4, <1>5 DEF NotesOf, Unwritten
<1> QED
    BY <1>5, <1>6, StepNotes

(* Rendering takes the note out of the row it was read from. *)
LEMMA RenderedNotes ==
    ASSUME FlowInv, Notes, KeysAreApart, NEW k \in Keys, Rendered(k)
    PROVE  Notes'
<1> DEFINE i == ConvOf[worker[k].anchor]
<1>1. worker[k].pc = "rendering" /\ owed' = owed
    BY DEF Rendered
<1>2. worker[k].anchor \in Msgs /\ KeyOf[worker[k].anchor] = k /\ i \in Ids /\ \A l \in Msgs : KeyOf[l] = i => KeyOf[l] = k
    BY <1>1, NoteStaysWithin
<1>3. worker'[k].pc = "starting" /\ worker'[k].note = worker[k].note /\ \A j \in Keys : j # k => worker'[j] = worker[j]
    BY DEF Rendered, FlowInv, Types, Workers
<1>4. row' = row \/ (worker[k].note # 0 /\ row' = SetCutShort(i, 0))
    BY DEF Rendered
<1>5. worker[k].note = 0 \/ row' = SetCutShort(i, 0)
    BY DEF Rendered
<1> HIDE DEF i
<1>6. \A j \in Ids : j # i => row'[j] = row[j]
    BY <1>2, <1>4, NoteIsWritten
<1>7. \A l \in Msgs : KeyOf[l] # k => NotesAlone(KeyOf[l])
    BY <1>1, <1>2, <1>3, <1>6, MessageAssumption DEF NotesAlone, Ids
<1>8. NotesOf(k) /\ Unwritten(k)
    BY <1>2 DEF Notes
<1>9. row'[k].exists = row[k].exists /\ row'[k].cutShort = 0
  <2>1. CASE worker[k].note = 0
      BY <1>1, <1>4, <1>8, <2>1 DEF NotesOf
  <2>2. CASE worker[k].note # 0
    <3>1. row[k].cutShort # 0 /\ row[k].exists
        BY <1>1, <1>8, <2>2 DEF NotesOf
    <3>2. i = k
        BY <1>2, <1>8, <3>1 DEF Unwritten, i
    <3>3. row'[i].exists = row[i].exists /\ row'[i].cutShort = IF row[i].exists THEN 0 ELSE row[i].cutShort
        BY <1>2, <1>5, <2>2, NoteIsWritten
    <3> QED
        BY <3>1, <3>2, <3>3
  <2> QED
      BY <2>1, <2>2
<1>10. NotesOf(k)' /\ Unwritten(k)'
    BY <1>1, <1>3, <1>8, <1>9 DEF NotesOf, Unwritten
<1> QED
    BY <1>7, <1>10, StepNotes

(* A turn cut short leaves a note in a row that says nothing, or nowhere. *)
LEMMA CutShortNotes ==
    ASSUME FlowInv, Notes, KeysAreApart, NEW k \in Keys, CutShort(k)
    PROVE  Notes'
<1> DEFINE i == ConvOf[worker[k].anchor]
           n == worker[k].turn
<1>1. worker[k].pc = "running" /\ row' = SetCutShort(i, n)
    BY DEF CutShort
<1>2. worker[k].anchor \in Msgs /\ KeyOf[worker[k].anchor] = k /\ i \in Ids /\ \A l \in Msgs : KeyOf[l] = i => KeyOf[l] = k
    BY <1>1, NoteStaysWithin
<1>3. worker'[k].pc = "telling" /\ \A j \in Keys : j # k => worker'[j] = worker[j]
    BY DEF CutShort, FlowInv, Types, Workers
<1>4. owed'[k] = n /\ \A j \in Keys : j # k => owed'[j] = owed[j]
    BY DEF CutShort, FlowInv, Types
<1> HIDE DEF i, n
<1>5. /\ \A j \in Ids : j # i => row'[j] = row[j]
      /\ row'[i].exists = row[i].exists
      /\ row'[i].cutShort = IF row[i].exists THEN n ELSE row[i].cutShort
    BY <1>1, <1>2, NoteIsWritten
<1>6. \A l \in Msgs : KeyOf[l] # k => NotesAlone(KeyOf[l])
    BY <1>2, <1>3, <1>4, <1>5, MessageAssumption DEF NotesAlone, Ids
<1>7. NotesOf(k) /\ Unwritten(k) /\ k \in Ids
    BY <1>2 DEF Notes, Ids
<1>8. row'[k].exists /\ row'[k].cutShort \in {0, n}
    BY <1>1, <1>5, <1>7 DEF NotesOf
<1>9. Unwritten(k)'
  <2> SUFFICES ASSUME NEW m \in Msgs, KeyOf[m] = k, ConvOf[m] # k PROVE row'[k].cutShort = 0
      BY DEF Unwritten
  <2>1. i # k
      BY <1>2 DEF KeysAreApart, i
  <2> QED
      BY <1>1, <1>5, <1>7, <2>1 DEF NotesOf
<1>10. NotesOf(k)'
    BY <1>3, <1>4, <1>8 DEF NotesOf
<1> QED
    BY <1>6, <1>9, <1>10, StepNotes

(* The other steps write no note. *)
LEMMA UnnotedStep ==
    ASSUME FlowInv, Notes, KeysAreApart, NEW k \in Keys,
           \/ NotAdmitted(k) \/ Admitted(k) \/ Busy(k) \/ Runs(k) \/ RunsOut(k) \/ TurnEnds(k)
    PROVE  Notes'
<1>1. row' = row /\ \A j \in Keys : j # k => worker'[j] = worker[j] /\ owed'[j] = owed[j]
    BY DEF NotAdmitted, Admitted, Busy, Runs, RunsOut, TurnEnds, FlowInv, Types
<1>2. \A l \in Msgs : KeyOf[l] # k => NotesAlone(KeyOf[l])
    BY <1>1, MessageAssumption DEF NotesAlone
<1>3. ASSUME NotesOf(k), Unwritten(k) PROVE NotesOf(k)' /\ Unwritten(k)'
  <2>1. CASE NotAdmitted(k) \/ TurnEnds(k)
    <3>1. worker'[k].pc = "idle" /\ owed' = owed
        BY <2>1 DEF NotAdmitted, TurnEnds, FlowInv, Types, Resting
    <3> QED
        BY <1>1, <1>3, <3>1 DEF NotesOf, Unwritten
  <2>2. CASE Admitted(k)
    <3>1. /\ worker[k].pc = "admitting" /\ worker'[k].pc = "rendering" /\ worker'[k].note = worker[k].note
          /\ owed' = owed
        BY <2>2 DEF Admitted, FlowInv, Types, Workers
    <3> QED
        BY <1>1, <1>3, <3>1 DEF NotesOf, Unwritten
  <2>3. CASE Busy(k) \/ Runs(k)
    <3>1. worker[k].pc = "starting" /\ worker'[k].pc \in {"telling", "running"} /\ owed' = owed
        BY <2>3 DEF Busy, Runs, FlowInv, Types, Workers
    <3> QED
        BY <1>1, <1>3, <3>1 DEF NotesOf, Unwritten
  <2>4. CASE RunsOut(k)
    <3>1. worker[k].pc = "running" /\ worker'[k].pc = "telling" /\ owed'[k] = 0
        BY <2>4 DEF RunsOut, FlowInv, Types, Workers
    <3> QED
        BY <1>1, <1>3, <3>1 DEF NotesOf, Unwritten
  <2> QED
      BY <2>1, <2>2, <2>3, <2>4
<1> QED
    BY <1>2, <1>3, StepNotes

LEMMA NotesStep ==
    ASSUME KeysAreApart
    PROVE  FlowInv /\ Notes /\ [Next]_vars => Notes'
<1> SUFFICES ASSUME FlowInv, Notes, [Next]_vars PROVE Notes'
    OBVIOUS
<1>1. ASSUME \A l \in Msgs : NotesAlone(KeyOf[l]) PROVE Notes'
  <2> SUFFICES ASSUME NEW l \in Msgs PROVE NotesOf(KeyOf[l])' /\ Unwritten(KeyOf[l])'
      BY DEF Notes
  <2> QED
      BY <1>1, AloneKeeps, MessageAssumption DEF Notes
<1>2. CASE UNCHANGED vars
    BY <1>1, <1>2 DEF vars, NotesAlone
<1>3. ASSUME NEW k \in Keys, TurnStep(k) PROVE Notes'
    BY <1>3, UnnotedStep, RenderedNotes, CutShortNotes DEF TurnStep
<1>4. ASSUME NEW k \in Keys, NEW b \in Batches(k), HandleBatch(k, b) PROVE Notes'
  <2>1. b \in SUBSET Msgs
      BY DEF Batches
  <2>2. CASE Duplicate(b)
      BY <1>1, <2>2 DEF Duplicate, NotesAlone
  <2>3. ASSUME NEW m \in b, BeginTurn(k, b, m) PROVE Notes'
      BY <2>1, <2>3, BeginNotes
  <2> QED
      BY <1>4, <2>2, <2>3 DEF HandleBatch
<1>5. ASSUME NEW n \in Names, Stop(n) PROVE Notes'
  <2>1. PICK k \in Keys : worker[k].pc = "running" /\ worker' = [worker EXCEPT ![k].stopped = TRUE]
      BY <1>5 DEF Stop, Found
  <2>2. row' = row /\ owed' = owed
      BY <1>5 DEF Stop
  <2>3. worker'[k].pc = "running" /\ \A j \in Keys : j # k => worker'[j] = worker[j]
      BY <2>1 DEF FlowInv, Types, Workers
  <2>4. NotesOf(k) /\ Unwritten(k) => NotesOf(k)' /\ Unwritten(k)'
      BY <2>1, <2>2, <2>3 DEF NotesOf, Unwritten
  <2>5. \A l \in Msgs : KeyOf[l] # k => NotesAlone(KeyOf[l])
      BY <2>2, <2>3, MessageAssumption DEF NotesAlone
  <2> QED
      BY <2>4, <2>5, StepNotes
<1>6. CASE Crash
  <2> SUFFICES ASSUME NEW l \in Msgs PROVE NotesOf(KeyOf[l])' /\ Unwritten(KeyOf[l])'
      BY DEF Notes
  <2> DEFINE k == KeyOf[l]
  <2>1. k \in Keys /\ NotesOf(k) /\ Unwritten(k)
      BY MessageAssumption DEF Notes
  <2> HIDE DEF k
  <2>2. row' = row /\ worker'[k].pc = "idle" /\ owed'[k] = IF worker[k].pc = "running" THEN 0 ELSE owed[k]
      BY <1>6, <2>1 DEF Crash, Resting
  <2>3. NotesOf(k)' /\ Unwritten(k)'
      BY <2>1, <2>2 DEF NotesOf, Unwritten
  <2> QED
      BY <2>3 DEF k
<1> QED
    BY <1>2, <1>3, <1>4, <1>5, <1>6 DEF Next

(* "Said once": whatever is delivered, stopped, refused and restarted, a    *)
(* turn that starts is told of the last turn that ran in its conversation   *)
(* or of nothing, never of an older one (agent_flow.py _turn, cut_short;    *)
(* store set_cut_short).  A session kept under the platform's own id for    *)
(* some of a key's messages and not for others would be told twice.         *)
THEOREM ToldOfTheLastOnlyAlways ==
    ASSUME KeysAreApart
    PROVE  Spec => ToldOfTheLastOnly
<1> DEFINE Told == \A k \in Keys : Starts(k) => worker[k].note \in {0, owed[k]}
<1>1. Init => Notes
    BY MessageAssumption DEF Init, Notes, NotesOf, Unwritten, Resting, Ids
<1>2. FlowInv /\ Notes => Told
  <2> SUFFICES ASSUME FlowInv, Notes, NEW k \in Keys, Starts(k) PROVE worker[k].note \in {0, owed[k]}
      OBVIOUS
  <2>1. worker[k].pc = "starting"
      BY DEF Starts
  <2>2. worker[k].anchor \in Msgs /\ KeyOf[worker[k].anchor] = k
      BY <2>1, NoteStaysWithin
  <2> QED
      BY <2>1, <2>2 DEF Notes, NotesOf
<1>3. ToldOfTheLastOnly <=> [][Told]_vars
    BY DEF ToldOfTheLastOnly
<1> QED
    BY InitHolds, StepKeeps, NotesStep, <1>1, <1>2, <1>3, PTL DEF Spec
=============================================================================
