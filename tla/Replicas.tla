------------------------------- MODULE Replicas -------------------------------
(***************************************************************************)
(* Several engine processes over one store: which of them runs a            *)
(* conversation's turns (ports/replica.py).  The claim on the row of the    *)
(* owner (store/sqlite/replicas.py), the flow that forwards a batch to the  *)
(* owner or takes it over (flows/owned.py), the internal route that takes   *)
(* a forwarded batch in (gateways/http/internal.py), and the heartbeat      *)
(* (replica_heartbeat.py).  One conversation; a batch is one message.  The  *)
(* flow itself is its first step, marking the message processed, and a      *)
(* turn that ends; a replica's coalescer runs one batch of the              *)
(* conversation at a time.                                                  *)
(***************************************************************************)
EXTENDS Naturals, FiniteSets

CONSTANTS
    Replica,
    Batches,        \* batches of the conversation
    Pinned,         \* those that came through a gateway whose messages are not forwarded
    MaxHops,        \* a bound: how often one batch is passed on
    NoOne

Hops == 1..MaxHops

VARIABLES
    hop,        \* per batch and hop: the handle_batch there: where it runs, how far it is
    owner,      \* conversation_owners: the row
    beats,      \* replicas whose lease replica:<id> has not lapsed
    alive,      \* replicas that run; draining ones among them have let their lease go
    processed,  \* processed_posts
    ranAt       \* history: where a turn on the batch began

rVars == <<hop, owner, beats, alive, processed, ranAt>>

Idle == [pc |-> "none", at |-> NoOne]

OwnersInit ==
    /\ hop = [m \in Batches |-> [h \in Hops |-> Idle]]
    /\ owner \in Replica \cup {NoOne}     \* whoever had the conversation last
    /\ beats = Replica /\ alive = Replica
    /\ processed = {}
    /\ ranAt = [m \in Batches |-> {}]

Step(m, h, pc) == hop' = [hop EXCEPT ![m][h].pc = pc]
At(m, h, pc) == hop[m][h].pc = pc

(* What a replica's coalescer has in hand for the conversation. *)
InHand(r) == {x \in Batches \X Hops : hop[x[1]][x[2]].at = r
                /\ hop[x[1]][x[2]].pc \in {"claiming", "awaiting", "overtaking", "serving", "running"}}

-----------------------------------------------------------------------------
Arrives(m, r) ==
    /\ hop[m][1] = Idle /\ r \in alive
    /\ hop' = [hop EXCEPT ![m][1] = [pc |-> "queued", at |-> r]]
    /\ UNCHANGED <<owner, beats, alive, processed, ranAt>>

Begins(m, h) ==
    /\ At(m, h, "queued") /\ InHand(hop[m][h].at) = {}
    /\ Step(m, h, "claiming")
    /\ UNCHANGED <<owner, beats, alive, processed, ranAt>>

(* claim_conversation: who owns it afterwards. *)
OwnerAfter(r, take) == IF owner \in {NoOne, r} \/ take \/ owner \notin beats THEN r ELSE owner

(* handle_batch: served here by its owner; else handed to the owner, whose  *)
(* address the claim gave.  A pinned batch takes the conversation along; on *)
(* the owner's side a batch passed on through the internal route is claimed *)
(* like any other.                                                          *)
Claim(m, h) ==
    /\ At(m, h, "claiming")
    /\ LET r == hop[m][h].at
           o == OwnerAfter(r, m \in Pinned) IN
       /\ owner' = o
       /\ IF o = r THEN Step(m, h, "serving")
          ELSE IF h < MaxHops
            THEN hop' = [hop EXCEPT ![m][h].pc = "awaiting", ![m][h + 1] = [pc |-> "sent", at |-> o]]
            ELSE Step(m, h, "overtaking")       \* the bound: the last forwarding fails
    /\ UNCHANGED <<beats, alive, processed, ranAt>>

(* The owner's route submits the batch to its sink. *)
TakenIn(m, h) ==
    /\ At(m, h, "sent") /\ hop[m][h].at \in alive
    /\ Step(m, h, "queued")
    /\ UNCHANGED <<owner, beats, alive, processed, ranAt>>

(* Forwarding fails: the owner is not reached or does not answer within     *)
(* FORWARD_TIMEOUT_S, whether or not the batch is in its hands by then.     *)
ForwardFails(m, h) ==
    /\ At(m, h, "awaiting") /\ hop[m][h + 1].pc # "done"
    /\ hop' = [hop EXCEPT ![m][h].pc = "overtaking",
                          ![m][h + 1] = IF At(m, h + 1, "sent") THEN [pc |-> "failed", at |-> @.at] ELSE @]
    /\ UNCHANGED <<owner, beats, alive, processed, ranAt>>

(* ... and the batch is served here, the conversation taken along. *)
Overtake(m, h) ==
    /\ At(m, h, "overtaking")
    /\ owner' = hop[m][h].at
    /\ Step(m, h, "serving")
    /\ UNCHANGED <<beats, alive, processed, ranAt>>

ForwardAnswered(m, h) ==
    /\ At(m, h, "awaiting") /\ At(m, h + 1, "done")
    /\ Step(m, h, "done")
    /\ UNCHANGED <<owner, beats, alive, processed, ranAt>>

(* Bug: each replica knows only what it handled itself. *)
FreshHere(m, r) == r \notin ranAt[m]

(* mark_processed: one INSERT OR IGNORE in the shared store. *)
Fresh(m, r) == m \notin processed

(* AgentFlow.handle_batch: a message processed before is not served again.  *)
Serve(m, h) ==
    /\ At(m, h, "serving")
    /\ processed' = processed \cup {m}
    /\ IF Fresh(m, hop[m][h].at)
         THEN ranAt' = [ranAt EXCEPT ![m] = @ \cup {hop[m][h].at}] /\ Step(m, h, "running")
         ELSE Step(m, h, "done") /\ UNCHANGED ranAt
    /\ UNCHANGED <<owner, beats, alive>>

TurnEnds(m, h) ==
    /\ At(m, h, "running")
    /\ Step(m, h, "done")
    /\ UNCHANGED <<owner, beats, alive, processed, ranAt>>

-----------------------------------------------------------------------------
(* A replica that is told to stop lets its lease go first and then drains;  *)
(* one that dies keeps it until it lapses.                                  *)
LetsGo(r) ==
    /\ r \in beats /\ \E s \in alive \ {r} : s \in beats
    /\ beats' = beats \ {r}
    /\ UNCHANGED <<hop, owner, alive, processed, ranAt>>

Dies(r) ==
    /\ r \in alive /\ Cardinality(alive) > 1
    /\ alive' = alive \ {r}
    /\ hop' = [m \in Batches |-> [h \in Hops |->
                 IF hop[m][h].at = r /\ hop[m][h].pc \notin {"none", "sent", "done"} THEN [hop[m][h] EXCEPT !.pc = "failed"] ELSE hop[m][h]]]
    /\ UNCHANGED <<owner, beats, processed, ranAt>>

-----------------------------------------------------------------------------
Works(m, h) ==
    \/ Begins(m, h) \/ Claim(m, h) \/ TakenIn(m, h) \/ Overtake(m, h) \/ ForwardAnswered(m, h) \/ Serve(m, h) \/ TurnEnds(m, h)
    \/ h < MaxHops /\ ForwardFails(m, h)

OwnersNext ==
    \/ \E m \in Batches, r \in Replica : Arrives(m, r)
    \/ \E m \in Batches, h \in Hops : Works(m, h)
    \/ \E r \in Replica : LetsGo(r) \/ Dies(r)

OwnersSpec == OwnersInit /\ [][OwnersNext]_rVars

(* What is in hand goes on, turns end, and a caller stops waiting for an    *)
(* owner at the latest after FORWARD_TIMEOUT_S.                             *)
Fairness == \A m \in Batches, h \in Hops : WF_rVars(Works(m, h))

-----------------------------------------------------------------------------
(* A batch makes one turn, on whichever replica: not a second one where the *)
(* forwarding seemed to fail, on the way through several owners or after a  *)
(* takeover.                                                                *)
OneTurnPerBatch == \A m \in Batches : Cardinality(ranAt[m]) <= 1

(* No replica waits for a batch it has itself in hand: a batch that is      *)
(* passed on never comes back to one that still waits for its outcome.      *)
NeverSentBack ==
    \A m \in Batches : \A h \in Hops : h > 1 /\ hop[m][h].pc \in {"sent", "queued", "claiming", "awaiting", "overtaking", "serving", "running"} =>
        \A g \in 1..(h - 1) : At(m, g, "awaiting") => hop[m][g].at # hop[m][h].at

(* A batch is done at the replica it came to, as long as that one lives,    *)
(* whatever becomes of the owner, its lease and the way there.              *)
EveryBatchEnds == \A m \in Batches : (hop[m][1].pc = "queued") ~> (hop[m][1].pc \in {"done", "failed"})

(* A conversation's turns run on one replica at a time ("a turn runs where  *)
(* the conversation lives").                                                *)
OneReplicaAtATime ==
    Cardinality({r \in alive : \E m \in Batches, h \in Hops : At(m, h, "running") /\ hop[m][h].at = r}) <= 1
=============================================================================
