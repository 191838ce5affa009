------------------------------- MODULE Coalescer -------------------------------
(***************************************************************************)
(* MessageCoalescer (crucible/flows/coalescer.py): one worker task per      *)
(* conversation.  Messages that arrive while a conversation's turn runs are *)
(* buffered and become the next turn's batch; a caller that started a turn  *)
(* itself (submit_tracked) holds a future for the turn's outcome.           *)
(*                                                                          *)
(* An action is a stretch of code between two awaits.  The flow behind the  *)
(* coalescer (Flow.handle_batch) is the environment: a batch in flight ends *)
(* with any outcome, or the event loop cancels its worker at shutdown.      *)
(***************************************************************************)
EXTENDS Naturals, Sequences, SequenceTheorems, TLAPS

CONSTANTS
    Convs,      \* conversation keys (ConversationKey.key)
    Subs,       \* submissions: one delivery of one message each
    Ids,        \* platform message ids
    ConvOf,     \* the conversation of a submission
    IdOf,       \* the message id of a submission; a redelivery repeats it
    Tracked,    \* the submissions made through submit_tracked
    Outcomes,   \* TurnOutcome; a flow that raises is ERROR, one of them
    NoSub       \* "no future registered"

ASSUME ConvAssumption == ConvOf \in [Subs -> Convs]
ASSUME IdAssumption == IdOf \in [Subs -> Ids]
ASSUME TrackedAssumption == Tracked \subseteq Subs
ASSUME NoSubAssumption == NoSub \notin Subs
ASSUME OutcomeAssumption == Outcomes \cap {"none", "waiting", "cancelled"} = {}

VARIABLES
    pending,    \* _pending: the buffered submissions of each conversation
    worker,     \* _workers: "created" until the task first runs
    batch,      \* the batch the worker awaits handle_batch on
    tracked,    \* _tracked: message id -> the submission whose future it holds
    fut,        \* the state of each submission's future
    stopping,   \* the event loop is cancelling every task
    arrived,    \* history: submissions of each conversation in arrival order
    handed      \* history: submissions handed to the flow, in order

vars == <<pending, worker, batch, tracked, fut, stopping, arrived, handed>>

FutureStates == {"none", "waiting", "cancelled"} \cup Outcomes

SubsIn(seq) == {seq[i] : i \in 1..Len(seq)}

Init ==
    /\ pending = [c \in Convs |-> <<>>]
    /\ worker = [c \in Convs |-> "none"]
    /\ batch = [c \in Convs |-> <<>>]
    /\ tracked = [i \in Ids |-> NoSub]
    /\ fut = [s \in Subs |-> "none"]
    /\ stopping = FALSE
    /\ arrived = [c \in Convs |-> <<>>]
    /\ handed = [c \in Convs |-> <<>>]

(***************************************************************************)
(* submit and submit_tracked: synchronous, so one step.  The future is      *)
(* registered under the message id before the message is buffered, over     *)
(* whatever future an earlier submission of the same id left there.         *)
(***************************************************************************)
Register(s) ==
    IF s \in Tracked
      THEN /\ tracked' = [tracked EXCEPT ![IdOf[s]] = s]
           /\ fut' = [fut EXCEPT ![s] = "waiting"]
      ELSE UNCHANGED <<tracked, fut>>

Submit(s) ==
    LET c == ConvOf[s] IN
    /\ ~stopping
    /\ s \notin SubsIn(arrived[c])
    /\ Register(s)
    /\ pending' = [pending EXCEPT ![c] = Append(@, s)]
    /\ worker' = [worker EXCEPT ![c] = IF @ = "none" THEN "created" ELSE @]
    /\ arrived' = [arrived EXCEPT ![c] = Append(@, s)]
    /\ UNCHANGED <<batch, stopping, handed>>

(***************************************************************************)
(* The head of _run's loop: take everything buffered as one batch and hand  *)
(* it to the flow, or leave the loop, drop the worker.  There is no await   *)
(* between looking at the buffer and either.                                *)
(***************************************************************************)

TakeOrLeave(c) ==
    IF pending[c] # <<>>
      THEN /\ batch' = [batch EXCEPT ![c] = pending[c]]
           /\ pending' = [pending EXCEPT ![c] = <<>>]
           /\ worker' = [worker EXCEPT ![c] = "running"]
           /\ handed' = [handed EXCEPT ![c] = @ \o pending[c]]
      ELSE /\ batch' = [batch EXCEPT ![c] = <<>>]
           /\ worker' = [worker EXCEPT ![c] = "none"]
           /\ UNCHANGED <<pending, handed>>

WorkerStarts(c) ==
    /\ worker[c] = "created"
    /\ ~stopping
    /\ TakeOrLeave(c)
    /\ UNCHANGED <<tracked, fut, stopping, arrived>>

(***************************************************************************)
(* _settle and _abandon pop the future registered under each message's id   *)
(* and give it its ending, unless its waiter already gave up on it.         *)
(***************************************************************************)
Popped(seq) == {tracked[IdOf[s]] : s \in SubsIn(seq)} \ {NoSub}

(* Bug: only the newest message's waiter is settled. *)
EndNewestFuture(seq, ending) ==
    LET s == seq[Len(seq)] IN
    /\ tracked' = [tracked EXCEPT ![IdOf[s]] = NoSub]
    /\ fut' = [fut EXCEPT ![s] = IF @ = "waiting" THEN ending ELSE @]

EndFutures(seq, ending) ==
    /\ tracked' = [i \in Ids |-> IF \E s \in SubsIn(seq) : IdOf[s] = i
                                   THEN NoSub ELSE tracked[i]]
    /\ fut' = [s \in Subs |-> IF s \in Popped(seq) /\ fut[s] = "waiting"
                                THEN ending ELSE fut[s]]

(***************************************************************************)
(* handle_batch returned (or raised, which is ERROR): the batch's waiters   *)
(* are settled and the loop goes round in the same step.                    *)
(***************************************************************************)

(* Bug: the worker leaves after one batch without looking at the buffer again. *)
BatchEndsAndLeaves(c, outcome) ==
    /\ worker[c] = "running"
    /\ ~stopping
    /\ EndFutures(batch[c], outcome)
    /\ worker' = [worker EXCEPT ![c] = "none"]
    /\ batch' = [batch EXCEPT ![c] = <<>>]
    /\ UNCHANGED <<pending, handed, stopping, arrived>>

(* The code. *)
BatchEnds(c, outcome) ==
    /\ worker[c] = "running"
    /\ ~stopping
    /\ EndFutures(batch[c], outcome)
    /\ TakeOrLeave(c)
    /\ UNCHANGED <<stopping, arrived>>

(***************************************************************************)
(* A waiter stops waiting: its future is cancelled (a deadline in the       *)
(* scheduler or in a delegation).  The turn runs on.                        *)
(***************************************************************************)
WaiterGivesUp(s) ==
    /\ fut[s] = "waiting"
    /\ fut' = [fut EXCEPT ![s] = "cancelled"]
    /\ UNCHANGED <<pending, worker, batch, tracked, stopping, arrived, handed>>

(***************************************************************************)
(* Shutdown.  A running worker gets CancelledError at its await: its batch  *)
(* and then what is buffered are abandoned (the buffer itself stays).  A    *)
(* worker that never ran is discarded without entering its try.             *)
(***************************************************************************)
Shutdown ==
    /\ ~stopping
    /\ stopping' = TRUE
    /\ UNCHANGED <<pending, worker, batch, tracked, fut, arrived, handed>>

CancelWorker(c) ==
    /\ stopping
    /\ worker[c] = "running"
    /\ EndFutures(batch[c] \o pending[c], "cancelled")
    /\ worker' = [worker EXCEPT ![c] = "none"]
    /\ batch' = [batch EXCEPT ![c] = <<>>]
    /\ UNCHANGED <<pending, stopping, arrived, handed>>

Next ==
    \/ \E s \in Subs : Submit(s) \/ WaiterGivesUp(s)
    \/ \E c \in Convs : WorkerStarts(c) \/ CancelWorker(c)
    \/ \E c \in Convs, o \in Outcomes : BatchEnds(c, o)
    \/ Shutdown

(***************************************************************************)
(* Fairness.  The event loop runs a ready task, and every turn ends: the    *)
(* runtime bounds it by its own timeout.                                    *)
(***************************************************************************)
Fairness ==
    \A c \in Convs :
        /\ WF_vars(WorkerStarts(c))
        /\ WF_vars(\E o \in Outcomes : BatchEnds(c, o))
        /\ WF_vars(CancelWorker(c))

Spec == Init /\ [][Next]_vars
FairSpec == Spec /\ Fairness

-----------------------------------------------------------------------------
(* The values the coalescer's tables take. *)
TypeOK ==
    /\ pending \in [Convs -> Seq(Subs)]
    /\ worker \in [Convs -> {"none", "created", "running"}]
    /\ batch \in [Convs -> Seq(Subs)]
    /\ tracked \in [Ids -> Subs \cup {NoSub}]
    /\ fut \in [Subs -> FutureStates]
    /\ stopping \in BOOLEAN
    /\ arrived \in [Convs -> Seq(Subs)]
    /\ handed \in [Convs -> Seq(Subs)]

(* A buffered message always has a worker that will take it: submit cannot  *)
(* slip in between a worker's last look at the buffer and its removal.      *)
NoMessageStranded ==
    ~stopping => \A c \in Convs : pending[c] # <<>> => worker[c] # "none"

(* Whatever was submitted to a conversation reaches the flow once, in the   *)
(* order it arrived, through every worker the conversation ever had: what   *)
(* was handed over followed by what is buffered is exactly what arrived.    *)
HandedInArrivalOrder ==
    \A c \in Convs : arrived[c] = handed[c] \o pending[c]

(* The queue of a conversation is kept: what is buffered has a worker, and  *)
(* what was handed over and what is buffered are what arrived, in order     *)
(* (coalescer.py submit, _run).                                             *)
QueueIsKept == TypeOK /\ NoMessageStranded /\ HandedInArrivalOrder

(* Every batch's waiters are told the same ending in the step the batch     *)
(* ends, and none is left waiting: submit_tracked's promise.  A redelivery  *)
(* of a tracked message id breaks it (IdOf <- MCRedelivered).           *)
OneEndingPerBatch ==
    [][\A c \in Convs :
         (batch[c] # <<>> /\ batch'[c] # batch[c]) =>
            \E e \in Outcomes \cup {"cancelled"} :
               \A s \in SubsIn(batch[c]) : fut[s] = "waiting" => fut'[s] = e]_vars

(* A future that was resolved or cancelled keeps its ending, whatever the   *)
(* worker does to the batch its message is in.                              *)
EndedFuturesStay ==
    [][\A s \in Subs : fut[s] \notin {"none", "waiting"} => fut'[s] = fut[s]]_vars

(* Unless the engine shuts down, every caller of submit_tracked hears how   *)
(* its turn ended.                                                          *)
EveryWaiterAnswered ==
    \A s \in Subs : fut[s] = "waiting" ~> (fut[s] # "waiting" \/ stopping)

-----------------------------------------------------------------------------
(***************************************************************************)
(* Coalescer's safety properties for every set of conversations and          *)
(* submissions, by the inductive invariant CoalescerInv: no message is ever  *)
(* stranded, and a conversation's messages reach the flow once, in order.    *)
(***************************************************************************)

(* The workers' states and their buffers agree: only a running worker has a *)
(* batch in flight, and a worker is created only for a non-empty buffer.    *)
WorkerHoldsItsBatch ==
    \A c \in Convs :
        /\ worker[c] = "running" <=> batch[c] # <<>>
        /\ worker[c] = "created" => pending[c] # <<>>

CoalescerInv ==
    /\ TypeOK
    /\ NoMessageStranded
    /\ HandedInArrivalOrder
    /\ WorkerHoldsItsBatch

(* The empty sequence is a right unit of concatenation. *)
LEMMA ConcatEmpty ==
    ASSUME NEW S, NEW a \in Seq(S)
    PROVE  a \o <<>> = a
OBVIOUS

(* Dropping a worker's batch leaves a sequence of submissions. *)
LEMMA EmptyIsSeq == ASSUME NEW S PROVE <<>> \in Seq(S)
OBVIOUS

(* The initial state satisfies the invariant. *)
LEMMA InitEstablishes == Init => CoalescerInv
<1>. SUFFICES ASSUME Init PROVE CoalescerInv
  OBVIOUS
<1>1. TypeOK
  <2>1. \A T : <<>> \in Seq(T)
    BY EmptyIsSeq
  <2>2. /\ pending \in [Convs -> Seq(Subs)]
        /\ batch \in [Convs -> Seq(Subs)]
        /\ arrived \in [Convs -> Seq(Subs)]
        /\ handed \in [Convs -> Seq(Subs)]
    BY <2>1, Zenon DEF Init
  <2>3. /\ worker \in [Convs -> {"none", "created", "running"}]
        /\ tracked \in [Ids -> Subs \cup {NoSub}]
        /\ fut \in [Subs -> FutureStates]
        /\ stopping \in BOOLEAN
    BY Zenon DEF Init, FutureStates
  <2>. QED  BY <2>2, <2>3 DEF TypeOK
<1>2. NoMessageStranded /\ WorkerHoldsItsBatch
  BY DEF Init, NoMessageStranded, WorkerHoldsItsBatch
<1>3. HandedInArrivalOrder
  BY ConcatEmpty, EmptyIsSeq DEF Init, HandedInArrivalOrder
<1>. QED  BY <1>1, <1>2, <1>3 DEF CoalescerInv

(* Going round the worker's loop: the buffer is taken whole or the worker   *)
(* leaves with nothing buffered; either way the conversation's order and    *)
(* its worker's state stay consistent.                                      *)
LEMMA TakeOrLeavePreserves ==
    ASSUME CoalescerInv, NEW c \in Convs, TakeOrLeave(c),
           stopping' = stopping, arrived' = arrived
    PROVE  /\ pending' \in [Convs -> Seq(Subs)]
           /\ worker' \in [Convs -> {"none", "created", "running"}]
           /\ batch' \in [Convs -> Seq(Subs)]
           /\ handed' \in [Convs -> Seq(Subs)]
           /\ NoMessageStranded' /\ HandedInArrivalOrder' /\ WorkerHoldsItsBatch'
<1>. USE DEF CoalescerInv
<1>1. CASE pending[c] # <<>>
  <2>1. /\ batch' = [batch EXCEPT ![c] = pending[c]]
        /\ pending' = [pending EXCEPT ![c] = <<>>]
        /\ worker' = [worker EXCEPT ![c] = "running"]
        /\ handed' = [handed EXCEPT ![c] = handed[c] \o pending[c]]
    BY <1>1 DEF TakeOrLeave
  <2>2. pending[c] \in Seq(Subs) /\ handed[c] \o pending[c] \in Seq(Subs)
    BY DEF TypeOK
  <2>3. /\ pending' \in [Convs -> Seq(Subs)]
        /\ worker' \in [Convs -> {"none", "created", "running"}]
        /\ batch' \in [Convs -> Seq(Subs)]
        /\ handed' \in [Convs -> Seq(Subs)]
    BY <2>1, <2>2, EmptyIsSeq DEF TypeOK
  <2>4. NoMessageStranded' /\ WorkerHoldsItsBatch'
    BY <1>1, <2>1 DEF TypeOK, NoMessageStranded, WorkerHoldsItsBatch
  <2>5. (handed[c] \o pending[c]) \o <<>> = handed[c] \o pending[c]
    BY <2>2, ConcatEmpty
  <2>6. HandedInArrivalOrder'
    BY <2>1, <2>5 DEF TypeOK, HandedInArrivalOrder
  <2>. QED  BY <2>3, <2>4, <2>6
<1>2. CASE pending[c] = <<>>
  <2>1. /\ batch' = [batch EXCEPT ![c] = <<>>]
        /\ worker' = [worker EXCEPT ![c] = "none"]
        /\ pending' = pending /\ handed' = handed
    BY <1>2 DEF TakeOrLeave
  <2>2. batch' \in [Convs -> Seq(Subs)]
    BY <2>1, EmptyIsSeq DEF TypeOK
  <2>. QED  BY <1>2, <2>1, <2>2 DEF TypeOK, NoMessageStranded, HandedInArrivalOrder, WorkerHoldsItsBatch
<1>. QED  BY <1>1, <1>2

(* Settling or abandoning a batch leaves the futures well typed. *)
LEMMA EndFuturesTypes ==
    ASSUME TypeOK, NEW seq, NEW e \in FutureStates, EndFutures(seq, e)
    PROVE  tracked' \in [Ids -> Subs \cup {NoSub}] /\ fut' \in [Subs -> FutureStates]
BY DEF EndFutures, TypeOK

(* Every step preserves the invariant. *)
LEMMA NextPreserves == CoalescerInv /\ [Next]_vars => CoalescerInv'
<1>. SUFFICES ASSUME CoalescerInv, [Next]_vars PROVE CoalescerInv'
  OBVIOUS
<1>. USE DEF CoalescerInv
<1>1. ASSUME NEW s \in Subs, Submit(s) PROVE CoalescerInv'
  <2>. DEFINE c == ConvOf[s]
  <2>1. c \in Convs
    BY ConvAssumption
  <2>2. /\ pending' = [pending EXCEPT ![c] = Append(pending[c], s)]
        /\ worker' = [worker EXCEPT ![c] = IF worker[c] = "none" THEN "created" ELSE worker[c]]
        /\ arrived' = [arrived EXCEPT ![c] = Append(arrived[c], s)]
        /\ batch' = batch /\ stopping' = stopping /\ handed' = handed
    BY <1>1 DEF Submit
  <2>3. tracked' \in [Ids -> Subs \cup {NoSub}] /\ fut' \in [Subs -> FutureStates]
    BY <1>1, IdAssumption DEF Submit, Register, TypeOK, FutureStates
  <2>4. Append(pending[c], s) \in Seq(Subs) /\ Append(pending[c], s) # <<>>
        /\ Append(arrived[c], s) \in Seq(Subs)
    <3>1. pending[c] \in Seq(Subs) /\ arrived[c] \in Seq(Subs)
      BY <2>1, Zenon DEF TypeOK
    <3>. HIDE DEF c
    <3>. QED  BY <3>1, AppendProperties
  <2>5. TypeOK'
    BY <2>1, <2>2, <2>3, <2>4 DEF TypeOK
  <2>6. NoMessageStranded' /\ WorkerHoldsItsBatch'
    BY <2>1, <2>2, <2>4 DEF TypeOK, NoMessageStranded, WorkerHoldsItsBatch
  <2>7. Append(handed[c] \o pending[c], s) = handed[c] \o Append(pending[c], s)
    <3>1. pending[c] \in Seq(Subs) /\ handed[c] \in Seq(Subs)
      BY <2>1, Zenon DEF TypeOK
    <3>2. \A a, b \in Seq(Subs) : Append(a \o b, s) = a \o Append(b, s)
      OBVIOUS
    <3>. QED  BY <3>1, <3>2, Zenon
  <2>8. HandedInArrivalOrder'
    BY <2>1, <2>2, <2>7 DEF TypeOK, HandedInArrivalOrder
  <2>. QED  BY <2>5, <2>6, <2>8
<1>2. ASSUME NEW s \in Subs, WaiterGivesUp(s) PROVE CoalescerInv'
  <2>1. fut' \in [Subs -> FutureStates]
    BY <1>2 DEF WaiterGivesUp, TypeOK, FutureStates
  <2>. QED
    BY <1>2, <2>1 DEF WaiterGivesUp, TypeOK, NoMessageStranded, HandedInArrivalOrder, WorkerHoldsItsBatch
<1>3. ASSUME NEW c \in Convs, WorkerStarts(c) PROVE CoalescerInv'
  BY <1>3, TakeOrLeavePreserves DEF WorkerStarts, TypeOK
<1>4. ASSUME NEW c \in Convs, NEW o \in Outcomes, BatchEnds(c, o) PROVE CoalescerInv'
  <2>1. o \in FutureStates
    BY DEF FutureStates
  <2>2. tracked' \in [Ids -> Subs \cup {NoSub}] /\ fut' \in [Subs -> FutureStates]
    BY <1>4, <2>1, EndFuturesTypes DEF BatchEnds
  <2>. QED
    BY <1>4, <2>2, TakeOrLeavePreserves DEF BatchEnds, TypeOK
<1>5. ASSUME NEW c \in Convs, CancelWorker(c) PROVE CoalescerInv'
  <2>1. "cancelled" \in FutureStates
    BY DEF FutureStates
  <2>2. tracked' \in [Ids -> Subs \cup {NoSub}] /\ fut' \in [Subs -> FutureStates]
    BY <1>5, <2>1, EndFuturesTypes DEF CancelWorker
  <2>3. batch' \in [Convs -> Seq(Subs)]
    BY <1>5, EmptyIsSeq DEF CancelWorker, TypeOK
  <2>. QED
    BY <1>5, <2>2, <2>3 DEF CancelWorker, TypeOK, NoMessageStranded, HandedInArrivalOrder, WorkerHoldsItsBatch
<1>6. CASE Shutdown
  BY <1>6 DEF Shutdown, TypeOK, NoMessageStranded, HandedInArrivalOrder, WorkerHoldsItsBatch
<1>7. CASE UNCHANGED vars
  BY <1>7 DEF vars, TypeOK, NoMessageStranded, HandedInArrivalOrder, WorkerHoldsItsBatch
<1>. QED  BY <1>1, <1>2, <1>3, <1>4, <1>5, <1>6, <1>7 DEF Next

(* In every behaviour of the coalescer the inductive invariant holds. *)
THEOREM CoalescerSafe == Spec => []CoalescerInv
BY InitEstablishes, NextPreserves, PTL DEF Spec

(* submit (coalescer.py) never leaves a message in a buffer that no worker  *)
(* will look at: whatever the interleaving of submits with a worker ending. *)
THEOREM NoMessageStrandedAlways == Spec => []NoMessageStranded
<1>1. CoalescerInv => NoMessageStranded
  BY DEF CoalescerInv
<1>. QED  BY <1>1, CoalescerSafe, PTL

(* Messages of a conversation are handed to the flow exactly once and in    *)
(* the order they arrived, for any number of workers the conversation had.  *)
THEOREM HandedInArrivalOrderAlways == Spec => []HandedInArrivalOrder
<1>1. CoalescerInv => HandedInArrivalOrder
  BY DEF CoalescerInv
<1>. QED  BY <1>1, CoalescerSafe, PTL

(* Both, and the types of the coalescer's tables: the queue is kept in      *)
(* every behaviour, for any conversations and submissions.                  *)
THEOREM QueueIsKeptAlways == Spec => []QueueIsKept
<1>1. CoalescerInv => QueueIsKept
  BY DEF CoalescerInv, QueueIsKept
<1>. QED  BY <1>1, CoalescerSafe, PTL

(* What was appended is in the sequence, and what was in it stays. *)
LEMMA SubsInAppend ==
    ASSUME NEW S, NEW a \in Seq(S), NEW e \in S
    PROVE  SubsIn(Append(a, e)) = SubsIn(a) \cup {e}
<1>1. Len(Append(a, e)) = Len(a) + 1 /\ Len(a) \in Nat
  OBVIOUS
<1>2. \A i \in 1..Len(a) : Append(a, e)[i] = a[i]
  OBVIOUS
<1>3. Append(a, e)[Len(a) + 1] = e
  OBVIOUS
<1>. QED  BY <1>1, <1>2, <1>3 DEF SubsIn

(* Only a submission that arrived has a future. *)
FuturesArrived == \A s \in Subs : fut[s] # "none" => s \in SubsIn(arrived[ConvOf[s]])

(* A future is created in the step its message arrives. *)
LEMMA FuturesArrivedAlways == Spec => []FuturesArrived
<1>1. Init => FuturesArrived
  BY DEF Init, FuturesArrived
<1>2. TypeOK /\ FuturesArrived /\ [Next]_vars => FuturesArrived'
  <2>. SUFFICES ASSUME TypeOK, FuturesArrived, [Next]_vars PROVE FuturesArrived'
    OBVIOUS
  <2>1. ASSUME NEW t \in Subs, Submit(t) PROVE FuturesArrived'
    <3>. DEFINE c == ConvOf[t]
    <3>1. c \in Convs /\ arrived[c] \in Seq(Subs)
      BY ConvAssumption DEF TypeOK
    <3>2. SubsIn(Append(arrived[c], t)) = SubsIn(arrived[c]) \cup {t}
      BY <3>1, SubsInAppend
    <3>3. arrived' = [arrived EXCEPT ![c] = Append(arrived[c], t)]
      BY <2>1 DEF Submit
    <3>4. \A s \in Subs : s # t => fut'[s] = fut[s]
      BY <2>1 DEF Submit, Register, TypeOK
    <3>. QED  BY <3>1, <3>2, <3>3, <3>4, ConvAssumption DEF FuturesArrived, TypeOK
  <2>2. ASSUME NEW t \in Subs, WaiterGivesUp(t) PROVE FuturesArrived'
    BY <2>2 DEF WaiterGivesUp, TypeOK, FuturesArrived
  <2>3. ASSUME NEW c \in Convs, NEW o \in Outcomes, BatchEnds(c, o) PROVE FuturesArrived'
    BY <2>3 DEF BatchEnds, EndFutures, FuturesArrived
  <2>4. ASSUME NEW c \in Convs, CancelWorker(c) PROVE FuturesArrived'
    BY <2>4 DEF CancelWorker, EndFutures, FuturesArrived
  <2>5. ASSUME NEW c \in Convs, WorkerStarts(c) PROVE FuturesArrived'
    BY <2>5 DEF WorkerStarts, FuturesArrived
  <2>6. CASE Shutdown \/ UNCHANGED vars
    BY <2>6 DEF Shutdown, vars, FuturesArrived
  <2>. QED  BY <2>1, <2>2, <2>3, <2>4, <2>5, <2>6 DEF Next
<1>3. CoalescerInv => TypeOK
  BY DEF CoalescerInv
<1>. QED  BY <1>1, <1>2, <1>3, CoalescerSafe, PTL DEF Spec

(* No step changes a future that already has its ending: neither settling a *)
(* batch nor abandoning it touches a waiter that gave up.                   *)
THEOREM EndedFuturesStayAlways == Spec => EndedFuturesStay
<1>1. TypeOK /\ FuturesArrived /\ [Next]_vars =>
        [\A s \in Subs : fut[s] \notin {"none", "waiting"} => fut'[s] = fut[s]]_vars
  <2>. SUFFICES ASSUME TypeOK, FuturesArrived, Next, NEW s \in Subs, fut[s] \notin {"none", "waiting"}
                PROVE  fut'[s] = fut[s]
    OBVIOUS
  <2>1. ASSUME NEW t \in Subs, Submit(t) PROVE fut'[s] = fut[s]
    BY <2>1 DEF Submit, Register, TypeOK, FuturesArrived
  <2>2. ASSUME NEW t \in Subs, WaiterGivesUp(t) PROVE fut'[s] = fut[s]
    BY <2>2 DEF WaiterGivesUp, TypeOK
  <2>3. ASSUME NEW c \in Convs, NEW o \in Outcomes, BatchEnds(c, o) PROVE fut'[s] = fut[s]
    BY <2>3 DEF BatchEnds, EndFutures
  <2>4. ASSUME NEW c \in Convs, CancelWorker(c) \/ WorkerStarts(c) PROVE fut'[s] = fut[s]
    BY <2>4 DEF CancelWorker, WorkerStarts, EndFutures
  <2>5. CASE Shutdown
    BY <2>5 DEF Shutdown
  <2>. QED  BY <2>1, <2>2, <2>3, <2>4, <2>5 DEF Next
<1>2. CoalescerInv => TypeOK
  BY DEF CoalescerInv
<1>. QED  BY <1>1, <1>2, CoalescerSafe, FuturesArrivedAlways, PTL DEF Spec, EndedFuturesStay
=============================================================================
