------------------------------- MODULE PiRuntime -------------------------------
(***************************************************************************)
(* PiRuntime (crucible/runtimes/pi/runtime.py): the pool of runtime          *)
(* processes behind the conversations.  A turn takes its conversation's      *)
(* lock, finds or spawns the conversation's process (one permit of the       *)
(* agent's bound, then one of the global bound), runs its prompt and leaves   *)
(* the process registered for the next turn.  Beside the turns run the       *)
(* reaper, a profile reload, a person's stop, a reset and the final close:   *)
(* none of these but reset takes the lock.                                   *)
(*                                                                           *)
(* A task is an asyncio task inside one public operation; an action is a     *)
(* stretch of code between two awaits.  What the process itself does within  *)
(* a turn is module PiSession; here a turn in flight just ends well or badly. *)
(* A proof of session is named by the process it was issued to.              *)
(***************************************************************************)
EXTENDS Naturals, FiniteSets

CONSTANTS
    Agents, Keys,       \* agents; safe session ids
    AgentOf,            \* the agent a session id belongs to
    Tasks,              \* asyncio tasks calling into the runtime
    Procs,              \* processes that may ever be spawned (a bound)
    Capacity,           \* max_concurrent_sessions
    PerAgent,           \* max_sessions_per_agent, 0 = no separate bound
    EvictIdle,          \* evict_idle_on_pressure
    Offered,            \* the operations callers ask for in an instance
    None

ASSUME KeyAssumption == AgentOf \in [Keys -> Agents]
ASSUME BoundAssumption == Capacity \in Nat \ {0} /\ PerAgent \in Nat
ASSUME EvictAssumption == EvictIdle \in BOOLEAN
ASSUME NoneAssumption == None \notin Procs /\ None \notin Keys /\ None \notin Tasks /\ None \notin Agents

VARIABLES
    sessions,   \* _sessions: session id -> its registered process
    lock,       \* _locks: session id -> the task holding its lock
    proof,      \* SessionProofBook: session id -> the process whose proof is current
    older,      \* the order of last_used (or created_at): pairs of registered session ids, the less recently used first
    proc,       \* each process: its life, its session id (None = memoryless) and agent
    turn,       \* PiRpcSession._turn of each process and its future
    free,       \* _semaphore
    agentFree,  \* _agent_semaphores
    task        \* where each task stands

vars == <<sessions, lock, proof, older, proc, turn, free, agentFree, task>>

Ops == {"none", "turn", "oneshot", "cancel", "reset", "reap", "reload", "close"}
Steps == {"idle", "lock", "acquire", "agentWait", "globalWait", "open", "prompt", "abort",
          "closing", "grace", "sweep"}
Lives == {"unused", "opening", "live", "dead", "closing", "closed", "failed"}

ASSUME OfferedAssumption == Offered \subseteq Ops \ {"none"}

Resting == [op |-> "none", pc |-> "idle", key |-> None, agent |-> None, proc |-> None,
            closes |-> None, next |-> "idle", todo |-> {}, ended |-> FALSE]

Unused == [life |-> "unused", key |-> None, agent |-> None]

Init ==
    /\ sessions = [k \in Keys |-> None]
    /\ lock = [k \in Keys |-> None]
    /\ proof = [k \in Keys |-> None]
    /\ older = {}
    /\ proc = [p \in Procs |-> Unused]
    /\ turn = [p \in Procs |-> "none"]
    /\ free = Capacity
    /\ agentFree = [a \in Agents |-> PerAgent]
    /\ task = [t \in Tasks |-> Resting]

(* PiRpcSession.busy: a turn is in flight until its owner has seen it end. *)
Busy(p) == turn[p] # "none"

Registered == {k \in Keys : sessions[k] # None}

(* The order without k, and with k the one used last. *)
Without(k) == {pair \in older : k \notin {pair[1], pair[2]}}
UsedLast(k) == Without(k) \cup ((Registered \ {k}) \X {k})

-----------------------------------------------------------------------------
(***************************************************************************)
(* Small steps shared by the operations.  r is the task's record, step what *)
(* it does next; b is what the action has written so far, starting Here.    *)
(***************************************************************************)
Here == [proc |-> proc, proof |-> proof, free |-> free, agentFree |-> agentFree, task |-> task]

Write(b) ==
    /\ proc' = b.proc /\ proof' = b.proof
    /\ free' = b.free /\ agentFree' = b.agentFree
    /\ task' = b.task

Goto(b, t, r, step) ==
    /\ Write([b EXCEPT !.task[t] = [r EXCEPT !.pc = step]])
    /\ UNCHANGED <<sessions, older>>

(* The operation returns or raises; `async with lock` lets the lock go. *)
Return(b, t) ==
    /\ Write([b EXCEPT !.task[t] = Resting])
    /\ UNCHANGED <<sessions, older>>

Unlocked(t) == [k \in Keys |-> IF lock[k] = t THEN None ELSE lock[k]]

(***************************************************************************)
(* _drop_session up to the await in _close_session: the entry is popped,    *)
(* its proof revoked, and the process told to go.                           *)
(***************************************************************************)

Drop(b, t, r, k, step) ==
    LET p == sessions[k] IN
    /\ sessions' = [sessions EXCEPT ![k] = None]
    /\ older' = Without(k)
    /\ Write([b EXCEPT !.proof[k] = None,
                       !.proc[p].life = "closing",
                       !.task[t] = [r EXCEPT !.pc = "closing", !.closes = p, !.next = step]])

(***************************************************************************)
(* _make_room: drop the least recently used session nobody is using, of     *)
(* the agent whose bound is exhausted or of anyone, then wait for a permit. *)
(***************************************************************************)
Evictable(as) ==
    {k \in Registered : AgentOf[k] \in as /\ ~Busy(sessions[k]) /\ lock[k] = None}

MakeRoom(b, t, r, as, step) ==
    IF EvictIdle /\ Evictable(as) # {}
      THEN \E k \in Evictable(as) :
              /\ \A j \in Evictable(as) : <<j, k>> \notin older
              /\ Drop(b, t, r, k, step)
      ELSE Goto(b, t, r, step)

(* Semaphore.locked(): no permit left, or somebody is queued for one. *)
GlobalLocked(b) == b.free = 0 \/ \E u \in Tasks : b.task[u].pc = "globalWait"
AgentLocked(b, a) ==
    b.agentFree[a] = 0 \/ \E u \in Tasks : b.task[u].pc = "agentWait" /\ b.task[u].agent = a

EnterGlobal(b, t, r) ==
    IF GlobalLocked(b) THEN MakeRoom(b, t, r, Agents, "globalWait") ELSE Goto(b, t, r, "globalWait")

(* _acquire up to its first await. *)
EnterAcquire(b, t, r) ==
    CASE PerAgent = 0 -> EnterGlobal(b, t, r)
      [] PerAgent > 0 /\ AgentLocked(b, r.agent) -> MakeRoom(b, t, r, {r.agent}, "agentWait")
      [] OTHER -> Goto(b, t, r, "agentWait")

(* _release_permits *)
ReleasePermits(b, a) ==
    [b EXCEPT !.free = @ + 1, !.agentFree[a] = IF PerAgent = 0 THEN @ ELSE @ + 1]

(* The rest of a sweep: the next entry it saw that is still there. *)
SweepOn(b, t, r) ==
    LET left == {k \in r.todo : sessions[k] # None} IN
    \/ left = {} /\ Return(b, t)
    \/ \E k \in left : Drop(b, t, [r EXCEPT !.todo = @ \ {k}], k, "sweep")

(***************************************************************************)
(* PiRpcSession.cancel waits on the turn's future: a turn that ends well or *)
(* badly tells every task waiting on it; a turn that runs out tells nobody. *)
(***************************************************************************)
Tell(tasks, p) ==
    [u \in Tasks |-> IF tasks[u].pc = "grace" /\ tasks[u].proc = p
                       THEN [tasks[u] EXCEPT !.ended = TRUE] ELSE tasks[u]]

-----------------------------------------------------------------------------
(* run_stateful *)

BeginTurn(t, k) ==
    /\ task[t].pc = "idle"
    /\ Goto(Here, t, [Resting EXCEPT !.op = "turn", !.key = k, !.agent = AgentOf[k]], "lock")
    /\ UNCHANGED <<lock, turn>>

(* Bug: the lock objects are removed with their session. *)
GetsLockAnew(t, op) ==
    /\ task[t].pc = "lock" /\ task[t].op = op
    /\ lock[task[t].key] = None \/ sessions[task[t].key] = None

GetsLock(t, op) ==
    /\ task[t].pc = "lock" /\ task[t].op = op
    /\ lock[task[t].key] = None

(* The lock is free and the conversation's process answers: prompt it. *)
TurnReuses(t) ==
    LET k == task[t].key p == sessions[k] IN
    /\ GetsLock(t, "turn")
    /\ p # None
    /\ proc[p].life = "live"
    /\ lock' = [lock EXCEPT ![k] = t]
    /\ turn' = [turn EXCEPT ![p] = "running"]
    /\ Goto(Here, t, [task[t] EXCEPT !.proc = p], "prompt")

(***************************************************************************)
(* A process that died while idle refuses the prompt: its pipe's OSError is *)
(* neither PiTimeout nor PiProcessError, so the turn fails and the entry    *)
(* stays.                                                                   *)
(***************************************************************************)
TurnFindsDead(t) ==
    LET p == sessions[task[t].key] IN
    /\ GetsLock(t, "turn")
    /\ p # None
    /\ proc[p].life = "dead"
    /\ Return(Here, t)
    /\ UNCHANGED <<lock, turn>>

(* The profile's fingerprint changed: the process is dropped first. *)
TurnRestarts(t) ==
    LET k == task[t].key IN
    /\ GetsLock(t, "turn")
    /\ sessions[k] # None
    /\ lock' = [lock EXCEPT ![k] = t]
    /\ Drop(Here, t, task[t], k, "acquire")
    /\ UNCHANGED turn

TurnSpawns(t) ==
    LET k == task[t].key IN
    /\ GetsLock(t, "turn")
    /\ sessions[k] = None
    /\ lock' = [lock EXCEPT ![k] = t]
    /\ EnterAcquire(Here, t, task[t])
    /\ UNCHANGED turn

(* run_stateless: no lock, no registration. *)
BeginOneshot(t, a) ==
    /\ task[t].pc = "idle"
    /\ EnterAcquire(Here, t, [Resting EXCEPT !.op = "oneshot", !.agent = a])
    /\ UNCHANGED <<lock, turn>>

-----------------------------------------------------------------------------
(* _acquire's two waits and _create_session *)

TakeAgentPermit(t) ==
    LET a == task[t].agent IN
    /\ task[t].pc = "agentWait"
    /\ agentFree[a] > 0
    /\ EnterGlobal([Here EXCEPT !.agentFree[a] = @ - 1], t, task[t])
    /\ UNCHANGED <<lock, turn>>

(* The global permit is taken, the proof issued, and the host asked to open *)
(* the process p.                                                           *)
TakeGlobalPermit(t, p) ==
    LET k == task[t].key IN
    /\ task[t].pc = "globalWait"
    /\ free > 0
    /\ proc[p].life = "unused"
    /\ free' = free - 1
    /\ proc' = [proc EXCEPT ![p] = [life |-> "opening", key |-> k, agent |-> task[t].agent]]
    /\ proof' = IF k = None THEN proof ELSE [proof EXCEPT ![k] = p]
    /\ task' = [task EXCEPT ![t].pc = "open", ![t].proc = p]
    /\ UNCHANGED <<sessions, lock, older, turn, agentFree>>

(* PiBusy: only the permit that was taken is given back. *)
AcquireTimesOut(t) ==
    /\ task[t].pc \in {"agentWait", "globalWait"}
    /\ Return([Here EXCEPT !.agentFree[task[t].agent] =
                  IF PerAgent > 0 /\ task[t].pc = "globalWait" THEN @ + 1 ELSE @], t)
    /\ lock' = Unlocked(t)
    /\ UNCHANGED turn

(* The process is up: registered (a memoryless one is not) and prompted. *)
OpenSucceeds(t) ==
    LET p == task[t].proc k == task[t].key IN
    /\ task[t].pc = "open"
    /\ proc' = [proc EXCEPT ![p].life = "live"]
    /\ turn' = [turn EXCEPT ![p] = "running"]
    /\ sessions' = IF k = None THEN sessions ELSE [sessions EXCEPT ![k] = p]
    /\ older' = IF k = None THEN older ELSE UsedLast(k)
    /\ task' = [task EXCEPT ![t].pc = "prompt"]
    /\ UNCHANGED <<lock, proof, free, agentFree>>

(* Bug: a failed spawn leaves with the conversation's lock. *)
OpenFailsLocked(t) ==
    /\ task[t].pc = "open"
    /\ Return(ReleasePermits([Here EXCEPT !.proc[task[t].proc].life = "failed"], task[t].agent), t)
    /\ UNCHANGED <<lock, turn>>

OpenFails(t) ==
    /\ task[t].pc = "open"
    /\ Return(ReleasePermits([Here EXCEPT !.proc[task[t].proc].life = "failed"], task[t].agent), t)
    /\ lock' = Unlocked(t)
    /\ UNCHANGED turn

-----------------------------------------------------------------------------
(* The turn *)

(* The runtime settles the turn, or fails it: its future gets a result or a *)
(* PiProcessError.                                                          *)
TurnSettles(p, how) ==
    /\ turn[p] = "running"
    /\ turn' = [turn EXCEPT ![p] = how]
    /\ task' = Tell(task, p)
    /\ UNCHANGED <<sessions, lock, proof, older, proc, free, agentFree>>

(* The process exits: an in-flight turn fails, an idle process is just dead. *)
ProcessExits(p) ==
    /\ proc[p].life = "live"
    /\ proc' = [proc EXCEPT ![p].life = "dead"]
    /\ turn' = [turn EXCEPT ![p] = IF @ = "running" THEN "failed" ELSE @]
    /\ task' = IF turn[p] = "running" THEN Tell(task, p) ELSE task
    /\ UNCHANGED <<sessions, lock, proof, older, free, agentFree>>

(* The owner of a memoryless turn always closes its process. *)
CloseOwn(t, p) ==
    /\ Write([Here EXCEPT !.proc[p].life = "closing",
                          !.task[t].pc = "closing", !.task[t].closes = p, !.task[t].next = "idle"])
    /\ UNCHANGED <<sessions, older, lock>>

TurnReturns(t) ==
    LET p == task[t].proc k == task[t].key IN
    /\ task[t].pc = "prompt"
    /\ turn[p] = "settled"
    /\ turn' = [turn EXCEPT ![p] = "none"]
    /\ IF task[t].op = "oneshot"
         THEN CloseOwn(t, p)
         ELSE /\ older' = IF sessions[k] = p THEN UsedLast(k) ELSE older
              /\ lock' = Unlocked(t)
              /\ Write([Here EXCEPT !.task[t] = Resting])
              /\ UNCHANGED sessions

(* PiProcessError or PiTimeout: whatever is registered for the conversation *)
(* is dropped; if somebody dropped it already the turn is over.             *)
AfterFailure(t) ==
    LET k == task[t].key IN
    \/ task[t].op = "oneshot" /\ CloseOwn(t, task[t].proc)
    \/ /\ task[t].op = "turn" /\ sessions[k] # None
       /\ Drop(Here, t, task[t], k, "idle")
       /\ UNCHANGED lock
    \/ /\ task[t].op = "turn" /\ sessions[k] = None
       /\ Return(Here, t)
       /\ lock' = Unlocked(t)

TurnFails(t) ==
    LET p == task[t].proc IN
    /\ task[t].pc = "prompt"
    /\ turn[p] = "failed"
    /\ turn' = [turn EXCEPT ![p] = "none"]
    /\ AfterFailure(t)

(* The turn's clock runs out: the session is poisoned and told to abort; it *)
(* stays busy until the abort is sent.                                      *)
TurnTimesOut(t) ==
    /\ task[t].pc = "prompt"
    /\ turn[task[t].proc] = "running"
    /\ task' = [task EXCEPT ![t].pc = "abort"]
    /\ UNCHANGED <<sessions, lock, proof, older, proc, turn, free, agentFree>>

AbortSent(t) ==
    LET p == task[t].proc IN
    /\ task[t].pc = "abort"
    /\ turn' = [turn EXCEPT ![p] = "none"]
    /\ AfterFailure(t)

-----------------------------------------------------------------------------
(***************************************************************************)
(* _close_session after the process has gone: a turn still in flight is     *)
(* failed (or answered by the run that had ended), the proof of the session *)
(* id is revoked once more, and both permits come back.  The task then goes *)
(* on with what it dropped the session for.                                 *)
(***************************************************************************)
Gone(t, p) ==
    LET k == proc[p].key IN
    ReleasePermits(
        [Here EXCEPT !.proc[p].life = "closed",
                     !.proof = IF k = None THEN @ ELSE [@ EXCEPT ![k] = None],
                     !.task = IF turn[p] = "running" THEN Tell(@, p) ELSE @],
        proc[p].agent)

CloseDone(t, how) ==
    LET p == task[t].closes
        b == Gone(t, p)
        r == [b.task[t] EXCEPT !.closes = None, !.next = "idle"]
    IN
    /\ task[t].pc = "closing"
    /\ turn' = [turn EXCEPT ![p] = IF @ = "running" THEN how ELSE @]
    /\ lock' = IF task[t].next = "idle" THEN Unlocked(t) ELSE lock
    /\ CASE task[t].next = "idle" -> Return(b, t)
         [] task[t].next = "sweep" -> SweepOn(b, t, r)
         [] task[t].next = "acquire" -> EnterAcquire(b, t, r)
         [] OTHER -> Goto(b, t, r, task[t].next)

-----------------------------------------------------------------------------
(* cancel and reset *)

(* cancel on an idle conversation does nothing; on a busy one it tells the  *)
(* process to abort and waits for that turn to end.  reset begins the same  *)
(* way and goes for the lock when there is nothing to cancel.               *)
BeginCancel(t, k, op) ==
    /\ task[t].pc = "idle"
    /\ k \in Registered /\ Busy(sessions[k])
    /\ Goto(Here, t, [Resting EXCEPT !.op = op, !.key = k, !.agent = AgentOf[k],
                        !.proc = sessions[k], !.ended = turn[sessions[k]] # "running"], "grace")
    /\ UNCHANGED <<lock, turn>>

BeginReset(t, k) ==
    /\ task[t].pc = "idle"
    /\ k \in Registered => ~Busy(sessions[k])
    /\ Goto(Here, t, [Resting EXCEPT !.op = "reset", !.key = k, !.agent = AgentOf[k]], "lock")
    /\ UNCHANGED <<lock, turn>>

AfterCancel(t) ==
    LET r == [task[t] EXCEPT !.proc = None, !.ended = FALSE] IN
    IF task[t].op = "reset" THEN Goto(Here, t, r, "lock") ELSE Return(Here, t)

CancelEnded(t) ==
    /\ task[t].pc = "grace"
    /\ task[t].ended
    /\ AfterCancel(t)
    /\ UNCHANGED <<lock, turn>>

(* The grace period passed: what is registered under the id is dropped. *)
CancelExpires(t) ==
    LET k == task[t].key IN
    /\ task[t].pc = "grace"
    /\ ~task[t].ended
    /\ IF sessions[k] = None
         THEN AfterCancel(t)
         ELSE Drop(Here, t, [task[t] EXCEPT !.proc = None], k,
                   IF task[t].op = "reset" THEN "lock" ELSE "idle")
    /\ UNCHANGED <<lock, turn>>

(* Under the lock, the session goes and its memory on disk with it. *)
ResetDrops(t) ==
    LET k == task[t].key IN
    /\ GetsLock(t, "reset")
    /\ IF sessions[k] = None
         THEN Return(Here, t) /\ UNCHANGED lock
         ELSE Drop(Here, t, task[t], k, "idle") /\ lock' = [lock EXCEPT ![k] = t]
    /\ UNCHANGED turn

-----------------------------------------------------------------------------
(***************************************************************************)
(* _reap_once, drop_agent_sessions and close look at the registry once and  *)
(* then drop the entries they saw, one at a time, awaiting each.            *)
(***************************************************************************)
BeginSweep(t, op, keys) ==
    /\ task[t].pc = "idle"
    /\ keys # {}
    /\ SweepOn(Here, t, [Resting EXCEPT !.op = op, !.todo = keys])
    /\ UNCHANGED <<lock, turn>>

(* One reaper runs; with a session that is past the idle limit every one    *)
(* less recently used is.                                                   *)
Reap(t) ==
    \E stale \in SUBSET Registered :
        /\ \A pair \in older : pair[2] \in stale => pair[1] \in stale
        /\ \A u \in Tasks : task[u].op # "reap"
        /\ BeginSweep(t, "reap", {k \in stale : ~Busy(sessions[k])})

Reload(t, a) == BeginSweep(t, "reload", {k \in Registered : AgentOf[k] = a /\ ~Busy(sessions[k])})

CloseAll(t) == BeginSweep(t, "close", Registered)

-----------------------------------------------------------------------------
Begin(t) ==
    \/ "turn" \in Offered /\ \E k \in Keys : BeginTurn(t, k)
    \/ "cancel" \in Offered /\ \E k \in Keys : BeginCancel(t, k, "cancel")
    \/ "reset" \in Offered /\ \E k \in Keys : BeginReset(t, k) \/ BeginCancel(t, k, "reset")
    \/ "oneshot" \in Offered /\ \E a \in Agents : BeginOneshot(t, a)
    \/ "reload" \in Offered /\ \E a \in Agents : Reload(t, a)
    \/ "reap" \in Offered /\ Reap(t)
    \/ "close" \in Offered /\ CloseAll(t)

(* What a task does on its own once begun. *)
Step(t) ==
    \/ TurnReuses(t) \/ TurnFindsDead(t) \/ TurnRestarts(t) \/ TurnSpawns(t)
    \/ TakeAgentPermit(t) \/ AcquireTimesOut(t)
    \/ \E p \in Procs : TakeGlobalPermit(t, p)
    \/ OpenSucceeds(t) \/ OpenFails(t)
    \/ TurnReturns(t) \/ TurnFails(t) \/ TurnTimesOut(t) \/ AbortSent(t)
    \/ \E how \in {"settled", "failed"} : CloseDone(t, how)
    \/ CancelEnded(t) \/ CancelExpires(t) \/ ResetDrops(t)

Next ==
    \/ \E t \in Tasks : Begin(t) \/ Step(t)
    \/ \E p \in Procs : TurnSettles(p, "settled") \/ TurnSettles(p, "failed") \/ ProcessExits(p)

Spec == Init /\ [][Next]_vars

(***************************************************************************)
(* Fairness: the event loop runs every ready task; a turn ends or its clock *)
(* runs out, a wait for a permit succeeds or times out, a process that is   *)
(* told to go goes (it is killed after five seconds), and asyncio.Lock      *)
(* serves its waiters in order, so none is passed over for ever.            *)
(***************************************************************************)
TakesLock(t) == TurnReuses(t) \/ TurnFindsDead(t) \/ TurnRestarts(t) \/ TurnSpawns(t) \/ ResetDrops(t)

Fairness ==
    \A t \in Tasks : WF_vars(Step(t)) /\ SF_vars(TakesLock(t))

FairSpec == Spec /\ Fairness

-----------------------------------------------------------------------------
(* The values the pool's tables take. *)
TypeOK ==
    /\ sessions \in [Keys -> Procs \cup {None}]
    /\ lock \in [Keys -> Tasks \cup {None}]
    /\ proof \in [Keys -> Procs \cup {None}]
    /\ older \subseteq Keys \X Keys
    /\ proc \in [Procs -> [life : Lives, key : Keys \cup {None}, agent : Agents \cup {None}]]
    /\ turn \in [Procs -> {"none", "running", "settled", "failed"}]
    /\ free \in Nat
    /\ agentFree \in [Agents -> Nat]
    /\ task \in [Tasks -> [op : Ops, pc : Steps, key : Keys \cup {None}, agent : Agents \cup {None},
                           proc : Procs \cup {None}, closes : Procs \cup {None}, next : Steps,
                           todo : SUBSET Keys, ended : BOOLEAN]]

(* Processes a global permit is held for: from before the spawn until the   *)
(* process has gone.                                                        *)
Holders == {p \in Procs : proc[p].life \in {"opening", "live", "dead", "closing"}}

(* The global bound is exact: a permit is held for every process that is    *)
(* starting, alive or going, and for nothing else, through failed spawns,   *)
(* timeouts, evictions, and drops of one session by two tasks.              *)
PermitsAccounted == free + Cardinality(Holders) = Capacity

(* A task between its agent's permit and a global one. *)
HalfWay(t) == "globalWait" \in {task[t].pc, task[t].next}

(* The per-agent bound is exact as well: its permits are held by the        *)
(* agent's processes and by its turns still queueing for a global one.      *)
AgentPermitsAccounted ==
    PerAgent > 0 =>
        \A a \in Agents :
            agentFree[a] + Cardinality({p \in Holders : proc[p].agent = a})
                         + Cardinality({t \in Tasks : HalfWay(t) /\ task[t].agent = a}) = PerAgent

(* Every process somebody pays a permit for is somebody's: being opened or  *)
(* closed by exactly one task, registered, or a memoryless run's own.  A    *)
(* registration never overwrites another.                                   *)
NoOrphanProcess ==
    \A p \in Holders :
        CASE proc[p].life = "closing" -> Cardinality({t \in Tasks : task[t].closes = p}) = 1
          [] proc[p].life = "opening" -> \E t \in Tasks : task[t].pc = "open" /\ task[t].proc = p
          [] OTHER -> \/ proc[p].key # None /\ sessions[proc[p].key] = p
                      \/ \E t \in Tasks : /\ task[t].op = "oneshot" /\ task[t].proc = p
                                          /\ task[t].pc \in {"prompt", "abort"}

(* Two turns never run on the same conversation, and a turn runs under its  *)
(* conversation's lock, whatever was dropped or respawned beside it.        *)
OneTurnPerConversation ==
    \A t \in Tasks : (task[t].op = "turn" /\ task[t].pc \in {"open", "prompt", "abort"}) =>
        /\ lock[task[t].key] = t
        /\ \A u \in Tasks : (u # t /\ task[u].op = "turn" /\ task[u].key = task[t].key)
                               => task[u].pc \in {"lock", "idle"}

(* A process whose session was dropped proves nothing any more, from the    *)
(* moment it is dropped.                                                    *)
ProofDiesWithDrop ==
    \A k \in Keys : proof[k] # None => proc[proof[k]].life \notin {"closing", "closed"}

(* The pool is exact: a permit is held for every process and for nothing    *)
(* else, every process is somebody's, a conversation has one turn at a time *)
(* and a dropped process proves nothing (runtime.py _acquire,               *)
(* _drop_session, _spawn_session, run_stateful).                            *)
PoolIsExact ==
    /\ TypeOK
    /\ PermitsAccounted /\ AgentPermitsAccounted
    /\ NoOrphanProcess /\ OneTurnPerConversation /\ ProofDiesWithDrop

(* Whatever a caller asks of the runtime ends: no turn, reset or sweep      *)
(* waits for ever for a lock, a permit, a process or a person.              *)
EveryOperationEnds == \A t \in Tasks : task[t].pc # "idle" ~> task[t].pc = "idle"

-----------------------------------------------------------------------------
(* What the code's comments promise and the interleavings break. *)

(* "A proof dies with its process" and a respawn's proof is the current     *)
(* one: a registered live process can prove its session.                    *)
RegisteredCanProve ==
    \A k \in Registered : proc[sessions[k]].life = "live" => proof[k] = sessions[k]

(* "Busy sessions (in-flight turn) are left alone": a reload or the reaper  *)
(* never drops a session with a turn in flight.                             *)
SweepSparesBusy ==
    [][\A t \in Tasks, k \in Keys :
         ( /\ task'[t].op \in {"reap", "reload"} /\ task'[t].pc = "closing"
           /\ sessions[k] # None /\ task'[t].closes = sessions[k] ) =>
            \/ ~Busy(sessions[k]) \/ sessions'[k] # None]_vars

(* "Interrupt the turn running on this conversation ... A runtime that does *)
(* not end the turn within the grace period is dropped": what a cancel      *)
(* drops is the session whose turn it cancelled.                            *)
CancelDropsItsOwn ==
    [][\A t \in Tasks :
         (task[t].pc = "grace" /\ task'[t].pc = "closing") => task'[t].closes = task[t].proc]_vars

(* "A dead ... session can't be reused; drop it so the next message spawns  *)
(* a fresh one": a turn that failed on a dead process leaves no entry for   *)
(* the next one to find.                                                    *)
DeadSessionDropped ==
    [][\A t \in Tasks, k \in Keys :
         (task[t].op = "turn" /\ task[t].key = k /\ task[t].pc = "lock" /\ task'[t].pc = "idle")
            => (sessions'[k] # None => proc'[sessions'[k]].life # "dead")]_vars
=============================================================================
