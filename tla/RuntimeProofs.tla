--------------------------- MODULE RuntimeProofs ---------------------------
(***************************************************************************)
(* The runtime: its pool of processes is exact, for any agents,             *)
(* conversations, tasks and bounds; the login its processes read is good;   *)
(* the guard inside it is just; an agent is reloaded whole; a process is    *)
(* confined to what is its own.                                             *)
(*                                                                           *)
(* An action of PiRuntime can be several of its small steps at once (a      *)
(* process goes, and the task that waited for it drops the next one).  The  *)
(* invariant is therefore stated of a state S of the pool's tables, Now     *)
(* being the variables', and every small step is shown to keep it.          *)
(***************************************************************************)
EXTENDS PiRuntime, Login, RepeatGuard, Profiles, Scopes, FiniteSetTheorems, WellFoundedInduction, TLAPS

Now == [sessions |-> sessions, lock |-> lock, proof |-> proof, proc |-> proc, task |-> task]

ProcType == [life : Lives, key : Keys \cup {None}, agent : Agents \cup {None}]
TaskType == [op : Ops, pc : Steps, key : Keys \cup {None}, agent : Agents \cup {None},
             proc : Procs \cup {None}, closes : Procs \cup {None}, next : Steps,
             todo : SUBSET Keys, ended : BOOLEAN]

Typed(S) ==
    /\ S.sessions \in [Keys -> Procs \cup {None}]
    /\ S.lock \in [Keys -> Tasks \cup {None}]
    /\ S.proof \in [Keys -> Procs \cup {None}]
    /\ S.proc \in [Procs -> ProcType]
    /\ S.task \in [Tasks -> TaskType]

(* What is registered under an id is the id's process, up or dead. *)
Registry(S) ==
    \A k \in Keys : S.sessions[k] # None =>
        S.proc[S.sessions[k]].key = k /\ S.proc[S.sessions[k]].life \in {"live", "dead"}

(* A proof is of the id's process, and of none that was told to go. *)
Proofs(S) ==
    \A k \in Keys : S.proof[k] # None =>
        S.proc[S.proof[k]].key = k /\ S.proc[S.proof[k]].life \notin {"unused", "closing", "closed"}

(* The task that opened a process, or runs a memoryless one, owns it. *)
Owns(r, p) == r.proc = p /\ (r.pc = "open" \/ (r.op = "oneshot" /\ r.pc \in {"prompt", "abort"}))

(* A process that has a permit is somebody's. *)
Kept(S) ==
    \A p \in Procs :
        /\ S.proc[p].life # "unused" => S.proc[p].agent \in Agents
        /\ S.proc[p].life = "opening" => \E t \in Tasks : S.task[t].pc = "open" /\ S.task[t].proc = p
        /\ S.proc[p].life = "closing" => \E t \in Tasks : S.task[t].closes = p
        /\ S.proc[p].life \in {"live", "dead"} =>
              \/ S.proc[p].key # None /\ S.sessions[S.proc[p].key] = p
              \/ \E t \in Tasks : S.task[t].pc # "open" /\ Owns(S.task[t], p)

(* ... and nobody else's. *)
Apart(S) ==
    \A t, u \in Tasks : t # u =>
        /\ S.task[t].closes # None => S.task[t].closes # S.task[u].closes
        /\ \A p \in Procs : ~(Owns(S.task[t], p) /\ Owns(S.task[u], p))

(* The steps on the way to a process. *)
Spawning == {"acquire", "agentWait", "globalWait"}

(* A task's own record, and what it says of the process it is at.          *)
RecordOk(S, t, r) ==
    /\ IF r.pc = "closing" THEN r.closes \in Procs /\ S.proc[r.closes].life = "closing"
                           ELSE r.closes = None /\ r.next = "idle"
    /\ r.next \in Spawning \cup {"idle", "sweep", "lock"}
    /\ r.pc \in Spawning \cup {"open", "prompt", "abort"} \/ r.next \in Spawning =>
          r.op \in {"turn", "oneshot"} /\ r.agent \in Agents
    /\ r.op = "turn" => r.key \in Keys /\ r.agent \in Agents
    /\ r.op = "oneshot" => r.key = None
    /\ r.pc \in {"lock", "grace"} \/ r.next = "lock" => r.key \in Keys
    /\ r.pc = "open" => /\ r.proc \in Procs /\ S.proc[r.proc].life = "opening"
                        /\ S.proc[r.proc].key = r.key /\ S.proc[r.proc].agent = r.agent
    /\ r.pc \in {"prompt", "abort"} =>
          /\ r.proc \in Procs
          /\ r.op = "oneshot" => S.proc[r.proc].life \in {"live", "dead"} /\ S.proc[r.proc].key = None
    /\ r.op = "turn" /\ r.pc \notin {"idle", "lock"} => S.lock[r.key] = t
    /\ r.op = "turn" /\ (r.pc \in Spawning \cup {"open"} \/ r.next \in Spawning) => S.sessions[r.key] = None

TaskOk(S, t) == RecordOk(S, t, S.task[t])

Whole(S) == Typed(S) /\ Registry(S) /\ Proofs(S) /\ Kept(S) /\ Apart(S) /\ \A t \in Tasks : TaskOk(S, t)

-----------------------------------------------------------------------------
(* The permits, of the processes pr, the tasks ta and what is left.        *)
HeldBy(pr, a) == {p \in Procs : pr[p].life \in {"opening", "live", "dead", "closing"} /\ pr[p].agent = a}
Held(pr) == {p \in Procs : pr[p].life \in {"opening", "live", "dead", "closing"}}
Queued(ta, a) == {t \in Tasks : "globalWait" \in {ta[t].pc, ta[t].next} /\ ta[t].agent = a}

PermitsCounted(pr, ta, fr, af) ==
    /\ fr \in Nat /\ af \in [Agents -> Nat]
    /\ IsFiniteSet(Held(pr)) /\ fr + Cardinality(Held(pr)) = Capacity
    /\ PerAgent > 0 => \A a \in Agents :
          /\ IsFiniteSet(Queued(ta, a))
          /\ af[a] + Cardinality(HeldBy(pr, a)) + Cardinality(Queued(ta, a)) = PerAgent

Marks == turn \in [Procs -> {"none", "running", "settled", "failed"}] /\ older \subseteq Keys \X Keys

PoolInv == Whole(Now) /\ PermitsCounted(proc, task, free, agentFree) /\ Marks

-----------------------------------------------------------------------------
(* The small steps, from a state S to a state S2. *)

(* The lock of a conversation is taken or let go by the task t only. *)
LocksBy(S, S2, t) ==
    /\ S2.lock \in [Keys -> Tasks \cup {None}]
    /\ \A k \in Keys : S2.lock[k] = S.lock[k] \/ S.lock[k] \in {None, t}

(* The task t goes on to the record r, with no process of its own. *)
Moves(S, S2, t, r) ==
    /\ r \in TaskType /\ S2.task = [S.task EXCEPT ![t] = r] /\ LocksBy(S, S2, t)
    /\ S2.sessions = S.sessions /\ S2.proof = S.proof /\ S2.proc = S.proc
    /\ S.task[t].pc \notin {"closing", "open"} /\ r.pc \notin {"closing", "open"}
    /\ \A p \in Procs : Owns(r, p) <=> Owns(S.task[t], p)
    /\ RecordOk(S2, t, r)

LEMMA MoveKeeps ==
    ASSUME NEW S, NEW S2, NEW t \in Tasks, NEW r, Whole(S), Moves(S, S2, t, r)
    PROVE  Whole(S2)
  <1> USE DEF Whole, Moves, LocksBy
  <1>1. Typed(S2)
    BY DEF Typed
  <1>2. S2.task[t] = r /\ \A u \in Tasks : u # t => S2.task[u] = S.task[u]
    BY DEF Typed
  <1>3. Registry(S2) /\ Proofs(S2)
    BY DEF Registry, Proofs
  <1>4. Kept(S2)
    <2> SUFFICES ASSUME NEW p \in Procs
                 PROVE  /\ S2.proc[p].life # "unused" => S2.proc[p].agent \in Agents
                        /\ S2.proc[p].life = "opening" => \E u \in Tasks : S2.task[u].pc = "open" /\ S2.task[u].proc = p
                        /\ S2.proc[p].life = "closing" => \E u \in Tasks : S2.task[u].closes = p
                        /\ S2.proc[p].life \in {"live", "dead"} =>
                             \/ S2.proc[p].key # None /\ S2.sessions[S2.proc[p].key] = p
                             \/ \E u \in Tasks : S2.task[u].pc # "open" /\ Owns(S2.task[u], p)
      BY DEF Kept
    <2>1. S.task[t].closes = None
      BY DEF TaskOk, RecordOk
    <2>2. \A u \in Tasks : Owns(S.task[u], p) /\ S.task[u].pc # "open" => Owns(S2.task[u], p) /\ S2.task[u].pc # "open"
      BY <1>2
    <2>3. \A u \in Tasks : S.task[u].pc = "open" \/ S.task[u].closes = p => u # t
      BY <2>1, NoneAssumption
    <2> QED
      BY <1>2, <2>2, <2>3 DEF Kept
  <1>5. Apart(S2)
    <2>1. S.task[t].closes = None /\ r.closes = None
      BY <1>2 DEF TaskOk, RecordOk
    <2> QED
      BY <1>2, <2>1 DEF Apart
  <1>6. ASSUME NEW u \in Tasks, u # t PROVE TaskOk(S2, u)
    <2>1. S2.task[u] = S.task[u] /\ \A k \in Keys : S.lock[k] = u => S2.lock[k] = u
      BY <1>2, <1>6, NoneAssumption
    <2> QED
      BY <2>1 DEF TaskOk, RecordOk
  <1> QED
    BY <1>1, <1>2, <1>3, <1>4, <1>5, <1>6 DEF TaskOk

(* The process p is in the life l. *)
Becomes(S, S2, p, l) ==
    S2.proc = [S.proc EXCEPT ![p] = [life |-> l, key |-> S.proc[p].key, agent |-> S.proc[p].agent]]

(* The task t drops the session of k: its process is told to go, and t      *)
(* waits for that as r.                                                     *)
Drops(S, S2, t, r, k) ==
    /\ k \in Keys /\ S.sessions[k] # None
    /\ r \in TaskType /\ S2.task = [S.task EXCEPT ![t] = r] /\ LocksBy(S, S2, t)
    /\ S2.sessions = [S.sessions EXCEPT ![k] = None] /\ S2.proof = [S.proof EXCEPT ![k] = None]
    /\ Becomes(S, S2, S.sessions[k], "closing")
    /\ S.task[t].pc \notin {"closing", "open"} /\ r.pc = "closing" /\ r.closes = S.sessions[k]
    /\ \A p \in Procs : ~Owns(S.task[t], p)
    /\ RecordOk(S2, t, r)

LEMMA DropKeeps ==
    ASSUME NEW S, NEW S2, NEW t \in Tasks, NEW r, NEW k, Whole(S), Drops(S, S2, t, r, k)
    PROVE  Whole(S2)
  <1> USE DEF Whole, Drops, LocksBy
  <1> DEFINE p == S.sessions[k]
  <1>1. p \in Procs /\ S.proc[p].key = k /\ S.proc[p].life \in {"live", "dead"} /\ S.proc[p].agent \in Agents
    BY DEF Typed, Registry, Kept
  <1>2. /\ S2.proc[p] = [life |-> "closing", key |-> k, agent |-> S.proc[p].agent]
        /\ \A q \in Procs : q # p => S2.proc[q] = S.proc[q]
        /\ S2.proc \in [Procs -> ProcType]
    BY <1>1 DEF Typed, Becomes, ProcType, Lives
  <1>3. Typed(S2)
    BY <1>2 DEF Typed
  <1>4. S2.task[t] = r /\ \A u \in Tasks : u # t => S2.task[u] = S.task[u]
    BY DEF Typed
  <1>5. \A j \in Keys : S2.sessions[j] = (IF j = k THEN None ELSE S.sessions[j]) /\ S2.proof[j] = (IF j = k THEN None ELSE S.proof[j])
    BY DEF Typed
  <1>6. S.task[t].closes = None /\ \A q \in Procs : ~Owns(r, q)
    BY DEF TaskOk, RecordOk, Owns
  <1>7. Registry(S2)
    BY <1>1, <1>2, <1>5 DEF Registry, Typed
  <1>8. Proofs(S2)
    BY <1>1, <1>2, <1>5 DEF Proofs, Typed
  <1>9. Kept(S2)
    <2> SUFFICES ASSUME NEW q \in Procs
                 PROVE  /\ S2.proc[q].life # "unused" => S2.proc[q].agent \in Agents
                        /\ S2.proc[q].life = "opening" => \E u \in Tasks : S2.task[u].pc = "open" /\ S2.task[u].proc = q
                        /\ S2.proc[q].life = "closing" => \E u \in Tasks : S2.task[u].closes = q
                        /\ S2.proc[q].life \in {"live", "dead"} =>
                             \/ S2.proc[q].key # None /\ S2.sessions[S2.proc[q].key] = q
                             \/ \E u \in Tasks : S2.task[u].pc # "open" /\ Owns(S2.task[u], q)
      BY DEF Kept
    <2>1. CASE q = p
      BY <1>1, <1>2, <1>4, <2>1
    <2>2. CASE q # p
      <3>1. S2.proc[q] = S.proc[q]
        BY <1>2, <2>2
      <3>2. \A u \in Tasks : S.task[u].closes = q \/ S.task[u].pc = "open" \/ Owns(S.task[u], q) => S2.task[u] = S.task[u]
        BY <1>4, <1>6, NoneAssumption
      <3>3. \A j \in Keys : S.sessions[j] = q => S2.sessions[j] = q
        BY <1>5, <2>2
      <3> QED
        BY <3>1, <3>2, <3>3 DEF Kept, Typed, ProcType
    <2> QED
      BY <2>1, <2>2
  <1>10. Apart(S2)
    <2>1. \A u \in Tasks : S.task[u].closes # p
      BY <1>1, NoneAssumption DEF TaskOk, RecordOk
    <2> QED
      BY <1>4, <1>6, <2>1 DEF Apart
  <1>11. ASSUME NEW u \in Tasks, u # t PROVE TaskOk(S2, u)
    <2>1. S2.task[u] = S.task[u] /\ \A j \in Keys : S.lock[j] = u => S2.lock[j] = u
      BY <1>4, <1>11, NoneAssumption
    <2>2. \A q \in Procs : S.proc[q].life \in {"opening", "closing"} \/ S.proc[q].key = None => S2.proc[q] = S.proc[q]
      BY <1>1, <1>2, NoneAssumption
    <2>3. \A j \in Keys : S.sessions[j] = None => S2.sessions[j] = None
      BY <1>5
    <2>4. TaskOk(S, u)
      OBVIOUS
    <2> HIDE DEF Whole, Drops, LocksBy
    <2> QED
      BY <2>1, <2>2, <2>3, <2>4 DEF TaskOk, RecordOk
  <1> QED
    BY <1>3, <1>4, <1>7, <1>8, <1>9, <1>10, <1>11 DEF TaskOk

(* The task t closes the memoryless process it ran. *)
Closes(S, S2, t, r) ==
    /\ S.task[t].op = "oneshot" /\ S.task[t].pc \in {"prompt", "abort"}
    /\ r \in TaskType /\ S2.task = [S.task EXCEPT ![t] = r]
    /\ S2.sessions = S.sessions /\ S2.proof = S.proof /\ S2.lock = S.lock
    /\ Becomes(S, S2, S.task[t].proc, "closing")
    /\ r.pc = "closing" /\ r.closes = S.task[t].proc
    /\ RecordOk(S2, t, r)

LEMMA CloseKeeps ==
    ASSUME NEW S, NEW S2, NEW t \in Tasks, NEW r, Whole(S), Closes(S, S2, t, r)
    PROVE  Whole(S2)
  <1> USE DEF Whole, Closes
  <1> DEFINE p == S.task[t].proc
  <1>1. p \in Procs /\ S.proc[p].key = None /\ S.proc[p].life \in {"live", "dead"} /\ S.proc[p].agent \in Agents /\ Owns(S.task[t], p)
    BY DEF Typed, TaskOk, RecordOk, Kept, Owns
  <1>2. /\ S2.proc[p] = [life |-> "closing", key |-> None, agent |-> S.proc[p].agent]
        /\ \A q \in Procs : q # p => S2.proc[q] = S.proc[q]
        /\ S2.proc \in [Procs -> ProcType]
    BY <1>1 DEF Typed, Becomes, ProcType, Lives
  <1>3. Typed(S2)
    BY <1>2 DEF Typed
  <1>4. S2.task[t] = r /\ \A u \in Tasks : u # t => S2.task[u] = S.task[u]
    BY DEF Typed
  <1>6. S.task[t].closes = None /\ (\A q \in Procs : ~Owns(r, q)) /\ \A q \in Procs : Owns(S.task[t], q) => q = p
    BY DEF TaskOk, RecordOk, Owns
  <1>7. Registry(S2) /\ Proofs(S2)
    BY <1>1, <1>2, NoneAssumption DEF Registry, Proofs, Typed
  <1>9. Kept(S2)
    <2> SUFFICES ASSUME NEW q \in Procs
                 PROVE  /\ S2.proc[q].life # "unused" => S2.proc[q].agent \in Agents
                        /\ S2.proc[q].life = "opening" => \E u \in Tasks : S2.task[u].pc = "open" /\ S2.task[u].proc = q
                        /\ S2.proc[q].life = "closing" => \E u \in Tasks : S2.task[u].closes = q
                        /\ S2.proc[q].life \in {"live", "dead"} =>
                             \/ S2.proc[q].key # None /\ S2.sessions[S2.proc[q].key] = q
                             \/ \E u \in Tasks : S2.task[u].pc # "open" /\ Owns(S2.task[u], q)
      BY DEF Kept
    <2>1. CASE q = p
      BY <1>1, <1>2, <1>4, <2>1
    <2>2. CASE q # p
      <3>1. S2.proc[q] = S.proc[q]
        BY <1>2, <2>2
      <3>2. \A u \in Tasks : S.task[u].closes = q \/ S.task[u].pc = "open" \/ Owns(S.task[u], q) => S2.task[u] = S.task[u]
        BY <1>4, <1>6, <2>2, NoneAssumption
      <3> QED
        BY <3>1, <3>2 DEF Kept
    <2> QED
      BY <2>1, <2>2
  <1>10. Apart(S2)
    <2>1. \A u \in Tasks : S.task[u].closes # p
      BY <1>1, NoneAssumption DEF TaskOk, RecordOk
    <2> QED
      BY <1>4, <1>6, <2>1 DEF Apart
  <1>11. ASSUME NEW u \in Tasks, u # t PROVE TaskOk(S2, u)
    <2>1. S2.task[u] = S.task[u]
      BY <1>4, <1>11
    <2>2. \A q \in Procs : S.proc[q].life \in {"opening", "closing"} \/ Owns(S.task[u], q) => S2.proc[q] = S.proc[q]
      BY <1>1, <1>2, <1>11 DEF Apart
    <2> QED
      BY <2>1, <2>2 DEF TaskOk, RecordOk, Owns
  <1> QED
    BY <1>3, <1>4, <1>7, <1>9, <1>10, <1>11 DEF TaskOk

(* The task t, with its permits, asks for the process p. *)
Opens(S, S2, t, r, p) ==
    /\ S.task[t].pc = "globalWait" /\ p \in Procs /\ S.proc[p].life = "unused"
    /\ r \in TaskType /\ S2.task = [S.task EXCEPT ![t] = r]
    /\ S2.sessions = S.sessions /\ S2.lock = S.lock
    /\ S2.proc = [S.proc EXCEPT ![p] = [life |-> "opening", key |-> S.task[t].key, agent |-> S.task[t].agent]]
    /\ S2.proof = IF S.task[t].key = None THEN S.proof ELSE [S.proof EXCEPT ![S.task[t].key] = p]
    /\ r.pc = "open" /\ r.proc = p
    /\ RecordOk(S2, t, r)

LEMMA OpenKeeps ==
    ASSUME NEW S, NEW S2, NEW t \in Tasks, NEW r, NEW p, Whole(S), Opens(S, S2, t, r, p)
    PROVE  Whole(S2)
  <1> USE DEF Whole, Opens
  <1>2. /\ S2.proc[p] = [life |-> "opening", key |-> S.task[t].key, agent |-> S.task[t].agent]
        /\ \A q \in Procs : q # p => S2.proc[q] = S.proc[q]
        /\ S2.proc \in [Procs -> ProcType]
    BY DEF Typed, ProcType, TaskType, Lives
  <1>3. Typed(S2)
    BY <1>2 DEF Typed, TaskType
  <1>4. S2.task[t] = r /\ \A u \in Tasks : u # t => S2.task[u] = S.task[u]
    BY DEF Typed
  <1>5. S.task[t].agent \in Agents
    BY DEF TaskOk, RecordOk, Spawning
  <1>6. S.task[t].closes = None /\ r.closes = None /\ (\A q \in Procs : ~Owns(S.task[t], q)) /\ \A q \in Procs : Owns(r, q) => q = p
    BY <1>4 DEF TaskOk, RecordOk, Owns
  <1>7. Registry(S2)
    BY <1>2 DEF Registry, Typed
  <1>8. Proofs(S2)
    <2> SUFFICES ASSUME NEW k \in Keys, S2.proof[k] # None
                 PROVE  S2.proc[S2.proof[k]].key = k /\ S2.proc[S2.proof[k]].life \notin {"unused", "closing", "closed"}
      BY DEF Proofs
    <2>1. CASE k = S.task[t].key
      BY <1>2, <2>1, NoneAssumption DEF Typed
    <2>2. CASE k # S.task[t].key
      <3>1. S2.proof[k] = S.proof[k] /\ S.proof[k] \in Procs
        BY <2>2 DEF Typed, TaskType
      <3> QED
        BY <1>2, <3>1 DEF Proofs
    <2> QED
      BY <2>1, <2>2
  <1>9. Kept(S2)
    <2> SUFFICES ASSUME NEW q \in Procs
                 PROVE  /\ S2.proc[q].life # "unused" => S2.proc[q].agent \in Agents
                        /\ S2.proc[q].life = "opening" => \E u \in Tasks : S2.task[u].pc = "open" /\ S2.task[u].proc = q
                        /\ S2.proc[q].life = "closing" => \E u \in Tasks : S2.task[u].closes = q
                        /\ S2.proc[q].life \in {"live", "dead"} =>
                             \/ S2.proc[q].key # None /\ S2.sessions[S2.proc[q].key] = q
                             \/ \E u \in Tasks : S2.task[u].pc # "open" /\ Owns(S2.task[u], q)
      BY DEF Kept
    <2>1. CASE q = p
      BY <1>2, <1>4, <1>5, <2>1
    <2>2. CASE q # p
      <3>1. S2.proc[q] = S.proc[q]
        BY <1>2, <2>2
      <3>2. \A u \in Tasks : S.task[u].closes = q \/ S.task[u].pc = "open" \/ Owns(S.task[u], q) => S2.task[u] = S.task[u]
        BY <1>4, <1>6, <2>2, NoneAssumption
      <3> QED
        BY <3>1, <3>2 DEF Kept
    <2> QED
      BY <2>1, <2>2
  <1>10. Apart(S2)
    <2>1. \A u \in Tasks : ~Owns(S.task[u], p)
      BY DEF TaskOk, RecordOk, Owns
    <2> QED
      BY <1>4, <1>6, <2>1 DEF Apart
  <1>11. ASSUME NEW u \in Tasks, u # t PROVE TaskOk(S2, u)
    <2>1. S2.task[u] = S.task[u]
      BY <1>4, <1>11
    <2>2. \A q \in Procs : S.proc[q].life # "unused" => S2.proc[q] = S.proc[q]
      BY <1>2
    <2> QED
      BY <2>1, <2>2 DEF TaskOk, RecordOk
  <1> QED
    BY <1>3, <1>4, <1>7, <1>8, <1>9, <1>10, <1>11 DEF TaskOk

(* The process t asked for is up: registered, unless it is memoryless. *)
Comes(S, S2, t, r) ==
    LET p == S.task[t].proc IN
    /\ S.task[t].pc = "open"
    /\ r \in TaskType /\ S2.task = [S.task EXCEPT ![t] = r]
    /\ S2.proof = S.proof /\ S2.lock = S.lock
    /\ Becomes(S, S2, p, "live")
    /\ S2.sessions = IF S.task[t].key = None THEN S.sessions ELSE [S.sessions EXCEPT ![S.task[t].key] = p]
    /\ r.pc = "prompt" /\ r.proc = p /\ r.op = S.task[t].op /\ r.key = S.task[t].key
    /\ RecordOk(S2, t, r)

LEMMA ComesKeeps ==
    ASSUME NEW S, NEW S2, NEW t \in Tasks, NEW r, Whole(S), Comes(S, S2, t, r)
    PROVE  Whole(S2)
  <1> USE DEF Whole, Comes
  <1> DEFINE p == S.task[t].proc
             k == S.task[t].key
  <1>1. /\ p \in Procs /\ S.proc[p].key = k /\ S.proc[p].life = "opening" /\ S.proc[p].agent \in Agents
        /\ S.task[t].op \in {"turn", "oneshot"} /\ k \in Keys \cup {None}
        /\ S.task[t].op = "turn" <=> k # None
        /\ k # None => S.sessions[k] = None
    BY NoneAssumption DEF Typed, TaskOk, RecordOk, Kept, TaskType
  <1>2. /\ S2.proc[p] = [life |-> "live", key |-> k, agent |-> S.proc[p].agent]
        /\ \A q \in Procs : q # p => S2.proc[q] = S.proc[q]
        /\ S2.proc \in [Procs -> ProcType]
    BY <1>1 DEF Typed, Becomes, ProcType, Lives
  <1>4. S2.task[t] = r /\ \A u \in Tasks : u # t => S2.task[u] = S.task[u]
    BY DEF Typed
  <1>5. \A j \in Keys : S2.sessions[j] = IF j = k THEN p ELSE S.sessions[j]
    BY <1>1, NoneAssumption DEF Typed
  <1>3. Typed(S2)
    BY <1>1, <1>2 DEF Typed
  <1>6. /\ S.task[t].closes = None /\ r.closes = None
        /\ \A q \in Procs : Owns(S.task[t], q) \/ Owns(r, q) => q = p
        /\ k = None => Owns(r, p)
        /\ \A u \in Tasks : Owns(S.task[u], p) => u = t
    BY <1>1, <1>4 DEF TaskOk, RecordOk, Owns, Apart
  <1>7. Registry(S2)
    BY <1>1, <1>2, <1>5 DEF Registry, Typed
  <1>8. Proofs(S2)
    BY <1>1, <1>2 DEF Proofs, Typed
  <1>9. Kept(S2)
    <2> SUFFICES ASSUME NEW q \in Procs
                 PROVE  /\ S2.proc[q].life # "unused" => S2.proc[q].agent \in Agents
                        /\ S2.proc[q].life = "opening" => \E u \in Tasks : S2.task[u].pc = "open" /\ S2.task[u].proc = q
                        /\ S2.proc[q].life = "closing" => \E u \in Tasks : S2.task[u].closes = q
                        /\ S2.proc[q].life \in {"live", "dead"} =>
                             \/ S2.proc[q].key # None /\ S2.sessions[S2.proc[q].key] = q
                             \/ \E u \in Tasks : S2.task[u].pc # "open" /\ Owns(S2.task[u], q)
      BY DEF Kept
    <2>1. CASE q = p
      <3>1. S2.proc[q].agent \in Agents /\ S2.proc[q].life = "live" /\ S2.proc[q].key = k
        BY <1>1, <1>2, <2>1
      <3>2. k # None => S2.sessions[k] = q
        BY <1>1, <1>5, <2>1
      <3>3. k = None => S2.task[t].pc # "open" /\ Owns(S2.task[t], q)
        BY <1>4, <1>6, <2>1
      <3> QED
        BY <3>1, <3>2, <3>3
    <2>2. CASE q # p
      <3>1. S2.proc[q] = S.proc[q]
        BY <1>2, <2>2
      <3>2. \A u \in Tasks : S.task[u].closes = q \/ (S.task[u].pc = "open" /\ S.task[u].proc = q) \/ Owns(S.task[u], q) => S2.task[u] = S.task[u]
        BY <1>4, <1>6, <2>2, NoneAssumption
      <3>3. \A j \in Keys : S.sessions[j] = q => S2.sessions[j] = q
        BY <1>1, <1>5, NoneAssumption
      <3> QED
        BY <3>1, <3>2, <3>3 DEF Kept, Typed, ProcType
    <2> QED
      BY <2>1, <2>2
  <1>10. Apart(S2)
    BY <1>4, <1>6 DEF Apart
  <1>11. ASSUME NEW u \in Tasks, u # t PROVE TaskOk(S2, u)
    <2>1. S2.task[u] = S.task[u]
      BY <1>4, <1>11
    <2>2. \A q \in Procs : S.proc[q].life = "closing" \/ Owns(S.task[u], q) => S2.proc[q] = S.proc[q]
      BY <1>1, <1>2, <1>6, <1>11
    <2>3. S.task[u].op = "turn" /\ (S.task[u].pc \in Spawning \cup {"open"} \/ S.task[u].next \in Spawning) => S.task[u].key # k
      <3> SUFFICES ASSUME S.task[u].op = "turn", S.task[u].pc \in Spawning \cup {"open"} \/ S.task[u].next \in Spawning, S.task[u].key = k
                   PROVE  FALSE
        OBVIOUS
      <3>1. S.task[u].pc \notin {"idle", "lock"}
        BY DEF TaskOk, RecordOk, Spawning
      <3>2. S.lock[k] = u
        BY <3>1 DEF TaskOk, RecordOk
      <3>5. k \in Keys
        BY DEF TaskOk, RecordOk
      <3>3. S.task[t].op = "turn"
        BY <1>1, <3>5, NoneAssumption
      <3>4. S.lock[k] = t
        BY <3>3 DEF TaskOk, RecordOk
      <3> QED
        BY <3>2, <3>4, <1>11
    <2> QED
      BY <1>5, <2>1, <2>2, <2>3 DEF TaskOk, RecordOk, Owns
  <1> QED
    BY <1>3, <1>4, <1>7, <1>8, <1>9, <1>10, <1>11 DEF TaskOk

(* The process t asked for does not come up. *)
RecordFails(S, S2, t, r) ==
    /\ S.task[t].pc = "open"
    /\ r \in TaskType /\ S2.task = [S.task EXCEPT ![t] = r] /\ LocksBy(S, S2, t)
    /\ S2.proof = S.proof /\ S2.sessions = S.sessions
    /\ Becomes(S, S2, S.task[t].proc, "failed")
    /\ r.pc = "idle"
    /\ RecordOk(S2, t, r)

LEMMA FailKeeps ==
    ASSUME NEW S, NEW S2, NEW t \in Tasks, NEW r, Whole(S), RecordFails(S, S2, t, r)
    PROVE  Whole(S2)
  <1> USE DEF Whole, RecordFails, LocksBy
  <1> DEFINE p == S.task[t].proc
  <1>1. p \in Procs /\ S.proc[p].life = "opening" /\ S.proc[p].agent \in Agents
    BY DEF Typed, TaskOk, RecordOk, Kept
  <1>2. /\ S2.proc[p] = [life |-> "failed", key |-> S.proc[p].key, agent |-> S.proc[p].agent]
        /\ \A q \in Procs : q # p => S2.proc[q] = S.proc[q]
        /\ S2.proc \in [Procs -> ProcType]
    BY <1>1 DEF Typed, Becomes, ProcType, Lives
  <1>3. Typed(S2)
    BY <1>1, <1>2 DEF Typed
  <1>4. S2.task[t] = r /\ \A u \in Tasks : u # t => S2.task[u] = S.task[u]
    BY DEF Typed
  <1>5. /\ S.task[t].closes = None /\ r.closes = None
        /\ \A q \in Procs : ~Owns(r, q) /\ (Owns(S.task[t], q) => q = p)
        /\ \A u \in Tasks : Owns(S.task[u], p) => u = t
    BY <1>1, <1>4 DEF TaskOk, RecordOk, Owns, Apart
  <1>6. Registry(S2) /\ Proofs(S2)
    BY <1>1, <1>2 DEF Registry, Proofs, Typed
  <1>7. Kept(S2)
    <2> SUFFICES ASSUME NEW q \in Procs
                 PROVE  /\ S2.proc[q].life # "unused" => S2.proc[q].agent \in Agents
                        /\ S2.proc[q].life = "opening" => \E u \in Tasks : S2.task[u].pc = "open" /\ S2.task[u].proc = q
                        /\ S2.proc[q].life = "closing" => \E u \in Tasks : S2.task[u].closes = q
                        /\ S2.proc[q].life \in {"live", "dead"} =>
                             \/ S2.proc[q].key # None /\ S2.sessions[S2.proc[q].key] = q
                             \/ \E u \in Tasks : S2.task[u].pc # "open" /\ Owns(S2.task[u], q)
      BY DEF Kept
    <2>1. CASE q = p
      BY <1>1, <1>2, <2>1
    <2>2. CASE q # p
      <3>1. S2.proc[q] = S.proc[q]
        BY <1>2, <2>2
      <3>2. \A u \in Tasks : S.task[u].closes = q \/ (S.task[u].pc = "open" /\ S.task[u].proc = q) \/ Owns(S.task[u], q) => S2.task[u] = S.task[u]
        BY <1>4, <1>5, <2>2, NoneAssumption
      <3> QED
        BY <3>1, <3>2 DEF Kept
    <2> QED
      BY <2>1, <2>2
  <1>8. Apart(S2)
    BY <1>4, <1>5 DEF Apart
  <1>9. ASSUME NEW u \in Tasks, u # t PROVE TaskOk(S2, u)
    <2>1. S2.task[u] = S.task[u] /\ \A j \in Keys : S.lock[j] = u => S2.lock[j] = u
      BY <1>4, <1>9, NoneAssumption
    <2>2. \A q \in Procs : S.proc[q].life = "closing" \/ Owns(S.task[u], q) => S2.proc[q] = S.proc[q]
      BY <1>1, <1>2, <1>5, <1>9
    <2> QED
      BY <2>1, <2>2 DEF TaskOk, RecordOk, Owns
  <1> QED
    BY <1>3, <1>4, <1>6, <1>7, <1>8, <1>9 DEF TaskOk

(* The record of a task that was told that a turn it waits for ended. *)
Told(r, r2) ==
    /\ r2 \in TaskType
    /\ r2.op = r.op /\ r2.pc = r.pc /\ r2.key = r.key /\ r2.agent = r.agent /\ r2.proc = r.proc
    /\ r2.closes = r.closes /\ r2.next = r.next /\ r2.todo = r.todo

(* The process t told to go has gone, and whoever waited for its turn is    *)
(* told.                                                                    *)
ProcGoes(S, S2, t, r) ==
    LET p == S.task[t].closes IN
    /\ S.task[t].pc = "closing"
    /\ r \in TaskType /\ S2.task \in [Tasks -> TaskType] /\ S2.task[t] = r
    /\ \A u \in Tasks : u # t => Told(S.task[u], S2.task[u])
    /\ LocksBy(S, S2, t)
    /\ Becomes(S, S2, p, "closed")
    /\ S2.sessions = S.sessions
    /\ S2.proof = IF S.proc[p].key = None THEN S.proof ELSE [S.proof EXCEPT ![S.proc[p].key] = None]
    /\ r.pc \in Spawning \cup {"idle", "sweep", "lock"}
    /\ RecordOk(S2, t, r)

LEMMA GoneKeeps ==
    ASSUME NEW S, NEW S2, NEW t \in Tasks, NEW r, Whole(S), ProcGoes(S, S2, t, r)
    PROVE  Whole(S2)
  <1> USE DEF Whole, ProcGoes, LocksBy
  <1> DEFINE p == S.task[t].closes
  <1>1. p \in Procs /\ S.proc[p].life = "closing" /\ S.proc[p].agent \in Agents
    BY DEF Typed, TaskOk, RecordOk, Kept
  <1>2. /\ S2.proc[p] = [life |-> "closed", key |-> S.proc[p].key, agent |-> S.proc[p].agent]
        /\ \A q \in Procs : q # p => S2.proc[q] = S.proc[q]
        /\ S2.proc \in [Procs -> ProcType]
    BY <1>1 DEF Typed, Becomes, ProcType, Lives
  <1>3. Typed(S2)
    BY <1>1, <1>2 DEF Typed, ProcType
  <1>4. \A u \in Tasks, q \in Procs : u # t => (Owns(S2.task[u], q) <=> Owns(S.task[u], q))
    BY DEF Owns, Told
  <1>5. /\ r.closes = None
        /\ \A q \in Procs : ~Owns(r, q) /\ ~Owns(S.task[t], q)
        /\ \A u \in Tasks : S.task[u].closes = p => u = t
    BY <1>1, NoneAssumption DEF TaskOk, RecordOk, Owns, Apart, Spawning
  <1>6. Registry(S2)
    BY <1>1, <1>2 DEF Registry, Typed
  <1>7. Proofs(S2)
    <2> SUFFICES ASSUME NEW k \in Keys, S2.proof[k] # None
                 PROVE  S2.proc[S2.proof[k]].key = k /\ S2.proc[S2.proof[k]].life \notin {"unused", "closing", "closed"}
      BY Zenon DEF Proofs
    <2>1. S2.proof[k] = S.proof[k] /\ S.proof[k] \in Procs
      BY DEF Typed
    <2> QED
      BY Zenon, <1>1, <1>2, <2>1 DEF Proofs
  <1>8. Kept(S2)
    <2> SUFFICES ASSUME NEW q \in Procs
                 PROVE  /\ S2.proc[q].life # "unused" => S2.proc[q].agent \in Agents
                        /\ S2.proc[q].life = "opening" => \E u \in Tasks : S2.task[u].pc = "open" /\ S2.task[u].proc = q
                        /\ S2.proc[q].life = "closing" => \E u \in Tasks : S2.task[u].closes = q
                        /\ S2.proc[q].life \in {"live", "dead"} =>
                             \/ S2.proc[q].key # None /\ S2.sessions[S2.proc[q].key] = q
                             \/ \E u \in Tasks : S2.task[u].pc # "open" /\ Owns(S2.task[u], q)
      BY DEF Kept
    <2>1. CASE q = p
      <3> HIDE DEF p, ProcGoes
      <3> QED
        BY <1>1, <1>2, <2>1
    <2>2. CASE q # p
      <3>1. S2.proc[q] = S.proc[q]
        BY <1>2, <2>2
      <3>2. \A u \in Tasks : S.task[u].closes = q \/ (S.task[u].pc = "open" /\ S.task[u].proc = q) \/ Owns(S.task[u], q) => u # t
        BY <1>5, <2>2, NoneAssumption
      <3>3. \A u \in Tasks : u # t => /\ S2.task[u].closes = S.task[u].closes /\ S2.task[u].pc = S.task[u].pc
                                      /\ S2.task[u].proc = S.task[u].proc
        BY DEF Told
      <3> QED
        BY <1>4, <3>1, <3>2, <3>3 DEF Kept
    <2> QED
      BY <2>1, <2>2
  <1>9. Apart(S2)
    BY <1>4, <1>5 DEF Apart, Told
  <1>10. ASSUME NEW u \in Tasks, u # t PROVE TaskOk(S2, u)
    <2>1. \A j \in Keys : S.lock[j] = u => S2.lock[j] = u
      BY <1>10, NoneAssumption
    <2>2. \A q \in Procs : S.task[u].closes = q \/ Owns(S.task[u], q) => S2.proc[q] = S.proc[q]
      <3>1. S.task[u].closes # p
        BY <1>5, <1>10
      <3>2. ~Owns(S.task[u], p)
        BY <1>1 DEF TaskOk, RecordOk, Owns
      <3> QED
        BY <1>2, <3>1, <3>2
    <2>3. Told(S.task[u], S2.task[u]) /\ S2.sessions = S.sessions
      BY <1>10
    <2>4. TaskOk(S, u)
      OBVIOUS
    <2> HIDE DEF ProcGoes, Whole
    <2> QED
      BY <2>1, <2>2, <2>3, <2>4 DEF TaskOk, RecordOk, Owns, Told
  <1> QED
    BY <1>3, <1>6, <1>7, <1>8, <1>9, <1>10 DEF TaskOk

(* A turn ends, or its process does. *)
Ends(S, S2) ==
    /\ S2.sessions = S.sessions /\ S2.lock = S.lock /\ S2.proof = S.proof
    /\ S2.task \in [Tasks -> TaskType] /\ \A u \in Tasks : Told(S.task[u], S2.task[u])
    /\ \/ S2.proc = S.proc
       \/ \E p \in Procs : S.proc[p].life = "live" /\ Becomes(S, S2, p, "dead")

LEMMA EndKeeps ==
    ASSUME NEW S, NEW S2, Whole(S), Ends(S, S2)
    PROVE  Whole(S2)
  <1> USE DEF Whole, Ends
  <1>1. /\ S2.proc \in [Procs -> ProcType]
        /\ \A q \in Procs : /\ S2.proc[q].key = S.proc[q].key /\ S2.proc[q].agent = S.proc[q].agent
                            /\ S2.proc[q].life = S.proc[q].life \/ (S.proc[q].life = "live" /\ S2.proc[q].life = "dead")
    <2>1. CASE S2.proc = S.proc
      BY <2>1 DEF Typed
    <2>2. ASSUME NEW p \in Procs, S.proc[p].life = "live", Becomes(S, S2, p, "dead")
          PROVE  <1>1!1 /\ <1>1!2
      <3>1. S2.proc[p] = [life |-> "dead", key |-> S.proc[p].key, agent |-> S.proc[p].agent]
            /\ \A q \in Procs : q # p => S2.proc[q] = S.proc[q]
        BY <2>2 DEF Typed, Becomes
      <3>2. S2.proc \in [Procs -> ProcType]
        BY <2>2 DEF Typed, Becomes, ProcType, Lives
      <3> QED
        BY <2>2, <3>1, <3>2
    <2> QED
      BY <2>1, <2>2
  <1>2. Typed(S2)
    BY <1>1 DEF Typed
  <1>3. \A u \in Tasks, q \in Procs : Owns(S2.task[u], q) <=> Owns(S.task[u], q)
    BY DEF Owns, Told
  <1>4. Registry(S2) /\ Proofs(S2)
    BY <1>1 DEF Registry, Proofs, Typed
  <1>5. Kept(S2)
    BY <1>1, <1>3 DEF Kept, Told
  <1>6. Apart(S2)
    BY <1>3 DEF Apart, Told
  <1>7. ASSUME NEW u \in Tasks PROVE TaskOk(S2, u)
    <2>1. Told(S.task[u], S2.task[u])
      OBVIOUS
    <2> QED
      BY <1>1, <2>1 DEF TaskOk, RecordOk, Told
  <1> QED
    BY <1>2, <1>4, <1>5, <1>6, <1>7

-----------------------------------------------------------------------------
(* Counting permits. *)

Holding == {"opening", "live", "dead", "closing"}
IsQueued(r) == "globalWait" \in {r.pc, r.next}

(* Every process but those in some has or has not a permit as before. *)
SameHolders(pr, pr2, some) ==
    \A q \in Procs \ some : /\ pr2[q].life \in Holding <=> pr[q].life \in Holding
                            /\ pr[q].life \in Holding => pr2[q].agent = pr[q].agent
SameQueue(ta, ta2, some) ==
    \A u \in Tasks \ some : /\ IsQueued(ta2[u]) <=> IsQueued(ta[u])
                            /\ IsQueued(ta[u]) => ta2[u].agent = ta[u].agent

LEMMA Finite ==
    ASSUME NEW pr, NEW ta, NEW fr, NEW af, PermitsCounted(pr, ta, fr, af)
    PROVE  /\ Cardinality(Held(pr)) \in Nat
           /\ \A a : IsFiniteSet(HeldBy(pr, a)) /\ Cardinality(HeldBy(pr, a)) \in Nat
           /\ PerAgent > 0 => \A a \in Agents : Cardinality(Queued(ta, a)) \in Nat
  <1>1. \A a : HeldBy(pr, a) \subseteq Held(pr)
    BY DEF HeldBy, Held
  <1>2. \A a : IsFiniteSet(HeldBy(pr, a))
    BY <1>1, FS_Subset DEF PermitsCounted
  <1> QED
    BY <1>2, FS_CardinalityType DEF PermitsCounted

(* No permit moves. *)
LEMMA CountSame ==
    ASSUME NEW pr, NEW ta, NEW fr, NEW af, NEW pr2, NEW ta2, PermitsCounted(pr, ta, fr, af),
           SameHolders(pr, pr2, {}), PerAgent > 0 => SameQueue(ta, ta2, {})
    PROVE  PermitsCounted(pr2, ta2, fr, af)
  <1>1. Held(pr2) = Held(pr)
    BY DEF Held, SameHolders, Holding
  <1>2. \A a : HeldBy(pr2, a) = HeldBy(pr, a)
    BY DEF HeldBy, SameHolders, Holding
  <1>3. PerAgent > 0 => \A a : Queued(ta2, a) = Queued(ta, a)
    BY DEF Queued, SameQueue, IsQueued
  <1> QED
    BY <1>1, <1>2, <1>3 DEF PermitsCounted

(* t takes its agent's permit and queues for a global one. *)
LEMMA CountQueues ==
    ASSUME NEW pr, NEW ta, NEW fr, NEW af, NEW pr2, NEW ta2, NEW t \in Tasks, NEW a \in Agents,
           PermitsCounted(pr, ta, fr, af), SameHolders(pr, pr2, {}), SameQueue(ta, ta2, {t}),
           ~IsQueued(ta[t]), IsQueued(ta2[t]), ta2[t].agent = a, af[a] > 0
    PROVE  PermitsCounted(pr2, ta2, fr, [af EXCEPT ![a] = @ - 1])
  <1>1. Held(pr2) = Held(pr)
    BY DEF Held, SameHolders, Holding
  <1>2. \A b : HeldBy(pr2, b) = HeldBy(pr, b)
    BY DEF HeldBy, SameHolders, Holding
  <1>3. \A b \in Agents : Queued(ta2, b) = IF b = a THEN Queued(ta, b) \cup {t} ELSE Queued(ta, b)
    BY DEF Queued, SameQueue, IsQueued
  <1>4. t \notin Queued(ta, a)
    BY DEF Queued, IsQueued
  <1>5. PerAgent > 0 => IsFiniteSet(Queued(ta2, a)) /\ Cardinality(Queued(ta2, a)) = Cardinality(Queued(ta, a)) + 1
    BY <1>3, <1>4, FS_AddElement DEF PermitsCounted
  <1> QED
    BY <1>1, <1>2, <1>3, <1>5, Finite, BoundAssumption DEF PermitsCounted

(* t gives its agent's permit back. *)
LEMMA CountLeaves ==
    ASSUME NEW pr, NEW ta, NEW fr, NEW af, NEW ta2, NEW t \in Tasks, NEW a \in Agents,
           PermitsCounted(pr, ta, fr, af), SameQueue(ta, ta2, {t}),
           IsQueued(ta[t]), ta[t].agent = a, ~IsQueued(ta2[t])
    PROVE  PermitsCounted(pr, ta2, fr, [af EXCEPT ![a] = IF PerAgent > 0 THEN @ + 1 ELSE @])
  <1>3. \A b \in Agents : Queued(ta2, b) = IF b = a THEN Queued(ta, b) \ {t} ELSE Queued(ta, b)
    BY DEF Queued, SameQueue, IsQueued
  <1>4. t \in Queued(ta, a)
    BY DEF Queued, IsQueued
  <1>5. PerAgent > 0 => IsFiniteSet(Queued(ta2, a)) /\ Cardinality(Queued(ta2, a)) = Cardinality(Queued(ta, a)) - 1
    BY <1>3, <1>4, FS_RemoveElement DEF PermitsCounted
  <1>6. CASE PerAgent > 0
    BY <1>3, <1>5, <1>6, Finite, BoundAssumption DEF PermitsCounted
  <1>7. CASE ~(PerAgent > 0)
    BY <1>7 DEF PermitsCounted
  <1> QED
    BY <1>6, <1>7

(* t's agent's permit, and a global one, are the process p's now. *)
LEMMA CountOpens ==
    ASSUME NEW pr, NEW ta, NEW fr, NEW af, NEW pr2, NEW ta2, NEW t \in Tasks, NEW p \in Procs, NEW a \in Agents,
           PermitsCounted(pr, ta, fr, af), SameHolders(pr, pr2, {p}), SameQueue(ta, ta2, {t}),
           pr[p].life \notin Holding, pr2[p].life \in Holding, pr2[p].agent = a,
           IsQueued(ta[t]), ta[t].agent = a, ~IsQueued(ta2[t]), fr > 0
    PROVE  PermitsCounted(pr2, ta2, fr - 1, af)
  <1>1. Held(pr2) = Held(pr) \cup {p} /\ p \notin Held(pr)
    BY DEF Held, SameHolders, Holding
  <1>2. \A b \in Agents : HeldBy(pr2, b) = IF b = a THEN HeldBy(pr, b) \cup {p} ELSE HeldBy(pr, b)
    BY DEF HeldBy, SameHolders, Holding
  <1>3. \A b \in Agents : Queued(ta2, b) = IF b = a THEN Queued(ta, b) \ {t} ELSE Queued(ta, b)
    BY DEF Queued, SameQueue, IsQueued
  <1>4. t \in Queued(ta, a) /\ p \notin HeldBy(pr, a)
    BY DEF Queued, IsQueued, HeldBy, Holding
  <1>5. PerAgent > 0 => IsFiniteSet(Queued(ta2, a)) /\ Cardinality(Queued(ta2, a)) = Cardinality(Queued(ta, a)) - 1
    BY <1>3, <1>4, FS_RemoveElement DEF PermitsCounted
  <1>6. Cardinality(HeldBy(pr2, a)) = Cardinality(HeldBy(pr, a)) + 1
    BY <1>2, <1>4, Finite, FS_AddElement
  <1>7. IsFiniteSet(Held(pr2)) /\ Cardinality(Held(pr2)) = Cardinality(Held(pr)) + 1
    BY <1>1, FS_AddElement DEF PermitsCounted
  <1> QED
    BY <1>2, <1>3, <1>5, <1>6, <1>7, Finite, BoundAssumption DEF PermitsCounted

(* p's permits come back. *)
LEMMA CountReleases ==
    ASSUME NEW pr, NEW ta, NEW fr, NEW af, NEW pr2, NEW ta2, NEW p \in Procs, NEW a \in Agents,
           PermitsCounted(pr, ta, fr, af), SameHolders(pr, pr2, {p}), PerAgent > 0 => SameQueue(ta, ta2, {}),
           pr[p].life \in Holding, pr[p].agent = a, pr2[p].life \notin Holding
    PROVE  PermitsCounted(pr2, ta2, fr + 1, [af EXCEPT ![a] = IF PerAgent = 0 THEN @ ELSE @ + 1])
  <1>1. Held(pr2) = Held(pr) \ {p} /\ p \in Held(pr)
    BY DEF Held, SameHolders, Holding
  <1>2. \A b \in Agents : HeldBy(pr2, b) = IF b = a THEN HeldBy(pr, b) \ {p} ELSE HeldBy(pr, b)
    BY DEF HeldBy, SameHolders, Holding
  <1>3. PerAgent > 0 => \A b : Queued(ta2, b) = Queued(ta, b)
    BY DEF Queued, SameQueue, IsQueued
  <1>4. p \in HeldBy(pr, a)
    BY DEF HeldBy, Holding
  <1>5. Cardinality(HeldBy(pr2, a)) = Cardinality(HeldBy(pr, a)) - 1
    BY <1>2, <1>4, Finite, FS_RemoveElement
  <1>6. IsFiniteSet(Held(pr2)) /\ Cardinality(Held(pr2)) = Cardinality(Held(pr)) - 1
    BY <1>1, FS_RemoveElement DEF PermitsCounted
  <1>7. CASE PerAgent > 0
    BY <1>2, <1>3, <1>5, <1>6, <1>7, Finite, BoundAssumption DEF PermitsCounted
  <1>8. CASE ~(PerAgent > 0)
    BY <1>6, <1>8, Finite, BoundAssumption DEF PermitsCounted
  <1> QED
    BY <1>7, <1>8

-----------------------------------------------------------------------------
(* What an action's own steps write. *)

Tables(pr, pf, fr, af, ta) == [proc |-> pr, proof |-> pf, free |-> fr, agentFree |-> af, task |-> ta]

LEMMA WriteIs ==
    ASSUME NEW pr, NEW pf, NEW fr, NEW af, NEW ta, Write(Tables(pr, pf, fr, af, ta))
    PROVE  proc' = pr /\ proof' = pf /\ free' = fr /\ agentFree' = af /\ task' = ta
  BY DEF Write, Tables

LEMMA GotoIs ==
    ASSUME NEW pr, NEW pf, NEW fr, NEW af, NEW ta, NEW t, NEW r, NEW step, Goto(Tables(pr, pf, fr, af, ta), t, r, step)
    PROVE  /\ proc' = pr /\ proof' = pf /\ free' = fr /\ agentFree' = af
           /\ task' = [ta EXCEPT ![t] = [r EXCEPT !.pc = step]]
           /\ UNCHANGED <<sessions, older>>
  BY DEF Goto, Write, Tables

LEMMA ReturnIs ==
    ASSUME NEW pr, NEW pf, NEW fr, NEW af, NEW ta, NEW t, Return(Tables(pr, pf, fr, af, ta), t)
    PROVE  /\ proc' = pr /\ proof' = pf /\ free' = fr /\ agentFree' = af
           /\ task' = [ta EXCEPT ![t] = Resting]
           /\ UNCHANGED <<sessions, older>>
  BY DEF Return, Write, Tables

LEMMA DropIs ==
    ASSUME NEW pr, NEW pf, NEW fr, NEW af, NEW ta, NEW t, NEW r, NEW k, NEW step,
           Drop(Tables(pr, pf, fr, af, ta), t, r, k, step)
    PROVE  /\ sessions' = [sessions EXCEPT ![k] = None] /\ older' = Without(k)
           /\ proc' = [pr EXCEPT ![sessions[k]].life = "closing"]
           /\ proof' = [pf EXCEPT ![k] = None] /\ free' = fr /\ agentFree' = af
           /\ task' = [ta EXCEPT ![t] = [r EXCEPT !.pc = "closing", !.closes = sessions[k], !.next = step]]
  BY DEF Drop, Write, Tables

LEMMA HereIs == Here = Tables(proc, proof, free, agentFree, task)
  BY DEF Here, Tables

LEMMA GotoHere ==
    ASSUME NEW t, NEW r, NEW step, Goto(Here, t, r, step)
    PROVE  /\ task' = [task EXCEPT ![t] = [r EXCEPT !.pc = step]]
           /\ UNCHANGED <<sessions, proof, older, proc, free, agentFree>>
  BY DEF Goto, Write, Here

(* The task t may wait for the end of k's process as r, and go on at step.  *)
Ready(t, r, k, step) ==
    /\ r \in TaskType /\ k \in Keys /\ sessions[k] # None /\ step \in Spawning \cup {"idle", "sweep", "lock"}
    /\ step \in Spawning => r.op \in {"turn", "oneshot"} /\ r.agent \in Agents
    /\ r.op = "turn" => r.key \in Keys /\ r.agent \in Agents /\ lock'[r.key] = t
    /\ r.op = "oneshot" => r.key = None
    /\ step = "lock" => r.key \in Keys
    /\ r.op = "turn" /\ step \in Spawning => r.key = k \/ sessions[r.key] = None

(* S has the variables' sessions and locks, and but for t the tasks ta; t   *)
(* takes or lets go no lock but its own.                                    *)
From(S, ta, t) ==
    /\ S.sessions = sessions /\ S.lock = lock /\ LocksBy(S, Now', t)
    /\ ta \in [Tasks -> TaskType] /\ \A u \in Tasks : u # t => ta[u] = S.task[u]
    /\ S.task[t].pc \notin {"closing", "open"}

(* t's step out of S is done, and gave or took no permit.                   *)
LeftOver(S, fr, af, t) ==
    /\ Whole(Now') /\ free' = fr /\ agentFree' = af
    /\ SameHolders(S.proc, proc', {})
    /\ \A u \in Tasks : u # t => task'[u] = S.task[u]

DropsFrom(S, fr, af, ta, t, r, k, step) ==
    /\ From(S, ta, t)
    /\ \A p \in Procs : ~Owns(S.task[t], p)
    /\ Ready(t, r, k, step)
    /\ Drop(Tables(S.proc, S.proof, fr, af, ta), t, r, k, step)

LEMMA DropFrom ==
    ASSUME NEW S, NEW fr, NEW af, NEW ta, NEW t \in Tasks, NEW r, NEW k, NEW step,
           Whole(S), DropsFrom(S, fr, af, ta, t, r, k, step)
    PROVE  /\ LeftOver(S, fr, af, t) /\ older' \subseteq older
           /\ task'[t].pc = "closing" /\ task'[t].next = step /\ task'[t].agent = r.agent
  <1> USE DEF DropsFrom, From
  <1> DEFINE p == sessions[k]
             r2 == [r EXCEPT !.pc = "closing", !.closes = p, !.next = step]
  <1>1. p \in Procs /\ S.proc[p].life \in {"live", "dead"} /\ S.proc[p] \in ProcType
    BY DEF Whole, Typed, Registry, Ready
  <1>2. /\ sessions' = [sessions EXCEPT ![k] = None] /\ older' = Without(k)
        /\ proc' = [S.proc EXCEPT ![p].life = "closing"]
        /\ proof' = [S.proof EXCEPT ![k] = None] /\ free' = fr /\ agentFree' = af
        /\ task' = [ta EXCEPT ![t] = r2]
    BY DEF Drop, Write, Tables
  <1>3. /\ r2 \in TaskType /\ r2.pc = "closing" /\ r2.closes = p /\ r2.next = step
        /\ r2.op = r.op /\ r2.key = r.key /\ r2.agent = r.agent
    <2>1. r \in TaskType /\ step \in Steps /\ "closing" \in Steps
      BY DEF Ready, Steps, Spawning
    <2> HIDE DEF p
    <2> QED
      BY Zenon, <1>1, <2>1 DEF TaskType
  <1> HIDE DEF r2
  <1>4. proc' = [S.proc EXCEPT ![p] = [life |-> "closing", key |-> S.proc[p].key, agent |-> S.proc[p].agent]]
    BY <1>1, <1>2 DEF ProcType, Whole, Typed
  <1>5. task' = [S.task EXCEPT ![t] = r2]
    BY Zenon, <1>2 DEF Whole, Typed
  <1>6. RecordOk(Now', t, r2)
    <2>1. proc'[p].life = "closing"
      BY <1>1, <1>4 DEF Whole, Typed
    <2>2. sessions'[k] = None /\ \A j \in Keys : sessions[j] = None => sessions'[j] = None
      BY <1>2 DEF Whole, Typed, Ready
    <2> QED
      BY <1>1, <1>3, <2>1, <2>2 DEF Ready, RecordOk, Now, Spawning
  <1>7. Drops(S, Now', t, r2, k)
    BY Zenon, <1>2, <1>3, <1>4, <1>5, <1>6 DEF Drops, Becomes, Now, Ready
  <1>8. Whole(Now')
    BY <1>7, DropKeeps
  <1>9. SameHolders(S.proc, proc', {})
    BY <1>1, <1>4 DEF SameHolders, Holding, Whole, Typed
  <1> QED
    BY <1>2, <1>3, <1>5, <1>8, <1>9 DEF LeftOver, Without, Whole, Typed

(* A step out of S that leaves the processes as they are. *)
MovesFrom(S, fr, af, ta, t, r) ==
    /\ From(S, ta, t) /\ r \in TaskType /\ r.pc \notin {"closing", "open"}
    /\ \A p \in Procs : Owns(r, p) <=> Owns(S.task[t], p)
    /\ RecordOk(Now', t, r)
    /\ sessions' = sessions /\ proc' = S.proc /\ proof' = S.proof /\ free' = fr /\ agentFree' = af
    /\ task' = [ta EXCEPT ![t] = r]

LEMMA MoveFrom ==
    ASSUME NEW S, NEW fr, NEW af, NEW ta, NEW t \in Tasks, NEW r,
           Whole(S), MovesFrom(S, fr, af, ta, t, r)
    PROVE  LeftOver(S, fr, af, t) /\ task'[t] = r
  <1> USE DEF MovesFrom, From
  <1>1. task' = [S.task EXCEPT ![t] = r]
    BY Zenon DEF Whole, Typed
  <1>2. Moves(S, Now', t, r)
    BY Zenon, <1>1 DEF Moves, Now
  <1>3. SameHolders(S.proc, proc', {})
    BY DEF SameHolders
  <1>4. Whole(Now')
    BY <1>2, MoveKeeps
  <1> QED
    BY <1>1, <1>3, <1>4 DEF LeftOver, Whole, Typed

LEMMA RestingOk == Resting \in TaskType /\ \A S, t : RecordOk(S, t, Resting) /\ \A p : ~Owns(Resting, p)
  BY DEF Resting, TaskType, Ops, Steps, RecordOk, Owns, Spawning

(* The operation is over. *)
ReturnsFrom(S, fr, af, ta, t) ==
    /\ From(S, ta, t)
    /\ \A p \in Procs : ~Owns(S.task[t], p)
    /\ Return(Tables(S.proc, S.proof, fr, af, ta), t)

LEMMA ReturnFrom ==
    ASSUME NEW S, NEW fr, NEW af, NEW ta, NEW t \in Tasks, Whole(S), ReturnsFrom(S, fr, af, ta, t)
    PROVE  LeftOver(S, fr, af, t) /\ task'[t] = Resting /\ older' = older
  <1>1. /\ proc' = S.proc /\ proof' = S.proof /\ free' = fr /\ agentFree' = af
        /\ task' = [ta EXCEPT ![t] = Resting] /\ sessions' = sessions /\ older' = older
    BY ReturnIs DEF ReturnsFrom
  <1>2. Resting.pc = "idle"
    BY DEF Resting
  <1>3. MovesFrom(S, fr, af, ta, t, Resting)
    BY <1>1, <1>2, RestingOk DEF ReturnsFrom, MovesFrom
  <1> QED
    BY <1>1, <1>3, MoveFrom

(* On to a queue for a permit, or first a drop of an idle session. *)
Queues(b, t, r, step) ==
    Goto(b, t, r, step) \/ \E k \in Keys : sessions[k] # None /\ lock[k] = None /\ Drop(b, t, r, k, step)

LEMMA GlobalIs ==
    ASSUME NEW b, NEW t, NEW r, EnterGlobal(b, t, r)
    PROVE  Queues(b, t, r, "globalWait")
  BY DEF EnterGlobal, MakeRoom, Evictable, Registered, Queues

LEMMA AcquireIs ==
    ASSUME NEW b, NEW t, NEW r, EnterAcquire(b, t, r)
    PROVE  \E step \in {"agentWait", "globalWait"} : Queues(b, t, r, step) /\ (step = "globalWait" => PerAgent = 0)
  <1>1. MakeRoom(b, t, r, {r.agent}, "agentWait") => Queues(b, t, r, "agentWait")
    BY DEF MakeRoom, Evictable, Registered, Queues
  <1>2. Goto(b, t, r, "agentWait") => Queues(b, t, r, "agentWait")
    BY DEF Queues
  <1>3. \/ PerAgent = 0 /\ EnterGlobal(b, t, r)
        \/ MakeRoom(b, t, r, {r.agent}, "agentWait")
        \/ Goto(b, t, r, "agentWait")
    BY DEF EnterAcquire
  <1> QED
    BY <1>1, <1>2, <1>3, GlobalIs

QueuesFrom(S, fr, af, ta, t, r, step) ==
    /\ From(S, ta, t) /\ S.task[t].pc \in {"idle", "lock", "acquire", "agentWait"}
    /\ step \in {"agentWait", "globalWait"} /\ r \in TaskType
    /\ r.op \in {"turn", "oneshot"} /\ r.agent \in Agents /\ r.closes = None /\ r.next = "idle"
    /\ r.op = "turn" => r.key \in Keys /\ lock'[r.key] = t /\ sessions[r.key] = None
    /\ r.op = "oneshot" => r.key = None
    /\ Queues(Tables(S.proc, S.proof, fr, af, ta), t, r, step)

LEMMA QueueFrom ==
    ASSUME NEW S, NEW fr, NEW af, NEW ta, NEW t \in Tasks, NEW r, NEW step,
           Whole(S), QueuesFrom(S, fr, af, ta, t, r, step)
    PROVE  /\ LeftOver(S, fr, af, t) /\ older' \subseteq older
           /\ IsQueued(task'[t]) <=> step = "globalWait"
           /\ task'[t].agent = r.agent
  <1> USE DEF QueuesFrom
  <1>0. \A p \in Procs : ~Owns(S.task[t], p)
    BY DEF Owns
  <1>1. ASSUME Goto(Tables(S.proc, S.proof, fr, af, ta), t, r, step)
        PROVE  /\ LeftOver(S, fr, af, t) /\ older' \subseteq older
               /\ IsQueued(task'[t]) <=> step = "globalWait"
               /\ task'[t].agent = r.agent
    <2> DEFINE r2 == [r EXCEPT !.pc = step]
    <2>1. /\ r2 \in TaskType /\ r2.pc = step /\ r2.op = r.op /\ r2.key = r.key /\ r2.agent = r.agent
          /\ r2.closes = None /\ r2.next = "idle"
      BY DEF TaskType, Steps
    <2>2. /\ proc' = S.proc /\ proof' = S.proof /\ free' = fr /\ agentFree' = af
          /\ task' = [ta EXCEPT ![t] = r2] /\ UNCHANGED <<sessions, older>>
      BY <1>1, GotoIs
    <2> HIDE DEF r2
    <2>3. RecordOk(Now', t, r2)
      BY <2>1, <2>2 DEF RecordOk, Now, Spawning
    <2>4. \A p \in Procs : Owns(r2, p) <=> Owns(S.task[t], p)
      BY <1>0, <2>1 DEF Owns
    <2>5. MovesFrom(S, fr, af, ta, t, r2)
      BY <2>1, <2>2, <2>3, <2>4 DEF MovesFrom
    <2>6. LeftOver(S, fr, af, t) /\ task'[t] = r2
      BY <2>5, MoveFrom
    <2> QED
      BY <2>1, <2>2, <2>6 DEF IsQueued
  <1>2. ASSUME NEW k \in Keys, sessions[k] # None, Drop(Tables(S.proc, S.proof, fr, af, ta), t, r, k, step)
        PROVE  /\ LeftOver(S, fr, af, t) /\ older' \subseteq older
               /\ IsQueued(task'[t]) <=> step = "globalWait"
               /\ task'[t].agent = r.agent
    <2>1. Ready(t, r, k, step)
      BY <1>2 DEF Ready, Spawning
    <2>2. DropsFrom(S, fr, af, ta, t, r, k, step)
      BY <1>0, <1>2, <2>1 DEF DropsFrom
    <2>3. /\ LeftOver(S, fr, af, t) /\ older' \subseteq older
          /\ task'[t].pc = "closing" /\ task'[t].next = step /\ task'[t].agent = r.agent
      BY <2>2, DropFrom
    <2> QED
      BY <2>3 DEF IsQueued
  <1> QED
    BY <1>1, <1>2 DEF Queues

(* The rest of a sweep. *)
SweepsFrom(S, fr, af, ta, t, r) ==
    /\ From(S, ta, t) /\ S.task[t].pc \in {"idle", "sweep"} /\ r \in TaskType
    /\ r.op = "turn" => r.key \in Keys /\ r.agent \in Agents /\ lock'[r.key] = t
    /\ r.op = "oneshot" => r.key = None
    /\ SweepOn(Tables(S.proc, S.proof, fr, af, ta), t, r)

LEMMA SweepFrom ==
    ASSUME NEW S, NEW fr, NEW af, NEW ta, NEW t \in Tasks, NEW r, Whole(S), SweepsFrom(S, fr, af, ta, t, r)
    PROVE  LeftOver(S, fr, af, t) /\ older' \subseteq older /\ ~IsQueued(task'[t])
  <1> USE DEF SweepsFrom
  <1>0. \A p \in Procs : ~Owns(S.task[t], p)
    BY DEF Owns
  <1>1. CASE Return(Tables(S.proc, S.proof, fr, af, ta), t)
    <2>1. ReturnsFrom(S, fr, af, ta, t)
      BY <1>0, <1>1 DEF ReturnsFrom
    <2> QED
      BY <2>1, ReturnFrom DEF IsQueued, Resting
  <1>2. ASSUME NEW k \in r.todo, sessions[k] # None,
               Drop(Tables(S.proc, S.proof, fr, af, ta), t, [r EXCEPT !.todo = @ \ {k}], k, "sweep")
        PROVE  LeftOver(S, fr, af, t) /\ older' \subseteq older /\ ~IsQueued(task'[t])
    <2> DEFINE r2 == [r EXCEPT !.todo = @ \ {k}]
    <2>1. r2 \in TaskType /\ r2.op = r.op /\ r2.key = r.key /\ r2.agent = r.agent /\ k \in Keys
      BY DEF TaskType
    <2>2. Drop(Tables(S.proc, S.proof, fr, af, ta), t, r2, k, "sweep")
      BY <1>2
    <2> HIDE DEF r2
    <2>3. Ready(t, r2, k, "sweep")
      BY <1>2, <2>1 DEF Ready, Spawning
    <2>4. DropsFrom(S, fr, af, ta, t, r2, k, "sweep")
      BY <1>0, <2>2, <2>3 DEF DropsFrom
    <2>5. LeftOver(S, fr, af, t) /\ older' \subseteq older /\ task'[t].pc = "closing" /\ task'[t].next = "sweep"
      BY <2>4, DropFrom
    <2> QED
      BY <2>5 DEF IsQueued
  <1> QED
    BY Zenon, <1>1, <1>2 DEF SweepOn

-----------------------------------------------------------------------------
(* The steps of a task that give or take no permit, out of the variables'   *)
(* own state.                                                               *)

Turns == turn' \in [Procs -> {"none", "running", "settled", "failed"}]

(* t takes the lock of k, which is free, lets its locks go, or neither. *)
LEMMA Locks ==
    ASSUME NEW t \in Tasks, PoolInv,
           \/ lock' = lock \/ lock' = Unlocked(t)
           \/ \E k \in Keys : lock[k] = None /\ lock' = [lock EXCEPT ![k] = t]
    PROVE  LocksBy(Now, Now', t)
  BY DEF PoolInv, Whole, Typed, LocksBy, Now, Unlocked

LEMMA NowFrom ==
    ASSUME NEW t \in Tasks, PoolInv, LocksBy(Now, Now', t), task[t].pc \notin {"closing", "open"}
    PROVE  From(Now, task, t)
  BY DEF PoolInv, Whole, Typed, From, Now

(* The tasks that queue with their agent's permit are the same. *)
QueuedAlike(t) ==
    PerAgent > 0 => /\ IsQueued(task'[t]) <=> IsQueued(task[t])
                    /\ IsQueued(task[t]) => task'[t].agent = task[t].agent

Stays(t) == LeftOver(Now, free, agentFree, t) /\ QueuedAlike(t) /\ Marks'

LEMMA StayKeeps ==
    ASSUME NEW t \in Tasks, PoolInv, Stays(t)
    PROVE  PoolInv'
  <1>1. SameHolders(proc, proc', {}) /\ PerAgent > 0 => SameQueue(task, task', {})
    BY DEF Stays, LeftOver, QueuedAlike, SameQueue, Now
  <1>2. SameHolders(proc, proc', {})
    BY DEF Stays, LeftOver, Now
  <1>3. PermitsCounted(proc', task', free, agentFree)
    BY <1>1, <1>2, CountSame DEF PoolInv
  <1>4. PermitsCounted(proc', task', free', agentFree')
    BY <1>3 DEF Stays, LeftOver
  <1> QED
    BY <1>4 DEF PoolInv, Stays, LeftOver

MovesNow(t, r) ==
    /\ task[t].pc \notin {"closing", "open"} /\ LocksBy(Now, Now', t)
    /\ r \in TaskType /\ r.pc \notin {"closing", "open"}
    /\ \A p \in Procs : Owns(r, p) <=> Owns(task[t], p)
    /\ RecordOk(Now', t, r)
    /\ sessions' = sessions /\ proc' = proc /\ proof' = proof /\ free' = free /\ agentFree' = agentFree
    /\ task' = [task EXCEPT ![t] = r]

LEMMA MoveNow ==
    ASSUME NEW t \in Tasks, NEW r, PoolInv, MovesNow(t, r)
    PROVE  LeftOver(Now, free, agentFree, t) /\ task'[t] = r
  <1>1. From(Now, task, t)
    BY NowFrom DEF MovesNow
  <1>2. MovesFrom(Now, free, agentFree, task, t, r)
    BY <1>1 DEF MovesNow, MovesFrom, Now
  <1> QED
    BY <1>2, MoveFrom DEF PoolInv

DropsNow(t, r, k, step) ==
    /\ task[t].pc \notin {"closing", "open"} /\ LocksBy(Now, Now', t)
    /\ \A p \in Procs : ~Owns(task[t], p)
    /\ Ready(t, r, k, step) /\ step # "globalWait" /\ ~IsQueued(task[t]) /\ Turns
    /\ Drop(Here, t, r, k, step)

LEMMA DropNow ==
    ASSUME NEW t \in Tasks, NEW r, NEW k, NEW step, PoolInv, DropsNow(t, r, k, step)
    PROVE  PoolInv'
  <1>1. From(Now, task, t)
    BY NowFrom DEF DropsNow
  <1>2. DropsFrom(Now, free, agentFree, task, t, r, k, step)
    BY <1>1, HereIs DEF DropsNow, DropsFrom, Now
  <1>3. /\ LeftOver(Now, free, agentFree, t) /\ older' \subseteq older
        /\ task'[t].pc = "closing" /\ task'[t].next = step
    BY <1>2, DropFrom DEF PoolInv
  <1>4. Stays(t)
    BY <1>3 DEF Stays, QueuedAlike, IsQueued, DropsNow, Marks, PoolInv, Turns
  <1> QED
    BY <1>4, StayKeeps

ReturnsNow(t) ==
    /\ task[t].pc \notin {"closing", "open"} /\ LocksBy(Now, Now', t)
    /\ \A p \in Procs : ~Owns(task[t], p)
    /\ ~IsQueued(task[t]) /\ Turns
    /\ Return(Here, t)

LEMMA ReturnNow ==
    ASSUME NEW t \in Tasks, PoolInv, ReturnsNow(t)
    PROVE  PoolInv'
  <1>1. From(Now, task, t)
    BY NowFrom DEF ReturnsNow
  <1>2. ReturnsFrom(Now, free, agentFree, task, t)
    BY <1>1, HereIs DEF ReturnsNow, ReturnsFrom, Now
  <1>3. LeftOver(Now, free, agentFree, t) /\ task'[t] = Resting /\ older' = older
    BY <1>2, ReturnFrom DEF PoolInv
  <1>4. Stays(t)
    BY <1>3 DEF Stays, QueuedAlike, IsQueued, Resting, ReturnsNow, Marks, PoolInv, Turns
  <1> QED
    BY <1>4, StayKeeps

(* What the invariant says of one task. *)
LEMMA OfTask ==
    ASSUME NEW t \in Tasks, PoolInv
    PROVE  /\ task \in [Tasks -> TaskType] /\ task[t] \in TaskType /\ RecordOk(Now, t, task[t])
           /\ task[t].pc \notin {"closing", "globalWait"} => ~IsQueued(task[t])
           /\ turn \in [Procs -> {"none", "running", "settled", "failed"}]
  BY DEF PoolInv, Whole, Typed, TaskOk, RecordOk, Now, IsQueued, Marks

-----------------------------------------------------------------------------
(* Each action keeps the invariant. *)

(* A task of its own begins: r is what it asks for. *)
Asks(t, r) ==
    /\ task[t].pc = "idle"
    /\ r \in TaskType /\ r.closes = None /\ r.next = "idle" /\ r.key \in Keys /\ r.agent \in Agents
    /\ \/ r.pc = "lock" /\ r.op \in {"turn", "reset"}
       \/ r.pc = "grace" /\ r.op \in {"cancel", "reset"}
    /\ task' = [task EXCEPT ![t] = r]
    /\ UNCHANGED <<sessions, lock, proof, older, proc, turn, free, agentFree>>

LEMMA AskKeeps ==
    ASSUME NEW t \in Tasks, NEW r, PoolInv, Asks(t, r)
    PROVE  PoolInv'
  <1> USE DEF Asks
  <1>1. LocksBy(Now, Now', t)
    BY Locks
  <1>2. RecordOk(Now', t, r)
    BY DEF RecordOk, Spawning
  <1>3. MovesNow(t, r)
    BY <1>1, <1>2 DEF MovesNow, Owns
  <1>4. LeftOver(Now, free, agentFree, t) /\ task'[t] = r
    BY <1>3, MoveNow
  <1>5. ~IsQueued(task[t]) /\ Marks
    BY OfTask DEF PoolInv
  <1>6. Stays(t)
    BY <1>4, <1>5 DEF Stays, QueuedAlike, IsQueued, Marks
  <1> QED
    BY <1>6, StayKeeps

LEMMA BeginTurnKeeps ==
    ASSUME NEW t \in Tasks, NEW k \in Keys, PoolInv, BeginTurn(t, k) \/ BeginReset(t, k)
    PROVE  PoolInv'
  <1>1. PICK op \in {"turn", "reset"} :
             /\ task[t].pc = "idle" /\ UNCHANGED <<lock, turn>>
             /\ Goto(Here, t, [Resting EXCEPT !.op = op, !.key = k, !.agent = AgentOf[k]], "lock")
    BY DEF BeginTurn, BeginReset
  <1> DEFINE r == [Resting EXCEPT !.op = op, !.key = k, !.agent = AgentOf[k]]
             r2 == [r EXCEPT !.pc = "lock"]
  <1>2. /\ r \in TaskType /\ r.op = op /\ r.key = k /\ r.agent \in Agents
        /\ r.closes = None /\ r.next = "idle"
    BY Zenon, KeyAssumption DEF Resting, TaskType, Ops, Steps
  <1>6. Goto(Here, t, r, "lock")
    BY <1>1
  <1> HIDE DEF r
  <1>3. task' = [task EXCEPT ![t] = r2] /\ UNCHANGED <<sessions, proof, older, proc, free, agentFree>>
    BY <1>6, GotoHere
  <1>4. /\ r2 \in TaskType /\ r2.op = op /\ r2.key = k /\ r2.agent \in Agents
        /\ r2.closes = None /\ r2.next = "idle" /\ r2.pc = "lock"
    BY <1>2 DEF TaskType, Steps
  <1> HIDE DEF r2
  <1>5. Asks(t, r2)
    BY <1>1, <1>3, <1>4 DEF Asks
  <1> QED
    BY <1>5, AskKeeps

LEMMA BeginCancelKeeps ==
    ASSUME NEW t \in Tasks, NEW k \in Keys, NEW op \in {"cancel", "reset"}, PoolInv, BeginCancel(t, k, op)
    PROVE  PoolInv'
  <1> DEFINE p == sessions[k]
             how == turn[p] # "running"
             r == [Resting EXCEPT !.op = op, !.key = k, !.agent = AgentOf[k], !.proc = p, !.ended = how]
             r2 == [r EXCEPT !.pc = "grace"]
  <1>1. task[t].pc = "idle" /\ UNCHANGED <<lock, turn>> /\ Goto(Here, t, r, "grace")
    BY DEF BeginCancel
  <1>2. p \in Procs \cup {None} /\ how \in BOOLEAN
    BY DEF PoolInv, Whole, Typed, Now
  <1> HIDE DEF p, how
  <1>3. /\ r \in TaskType /\ r.op = op /\ r.key = k /\ r.agent \in Agents
        /\ r.closes = None /\ r.next = "idle"
    BY Zenon, <1>2, KeyAssumption DEF Resting, TaskType, Ops, Steps
  <1> HIDE DEF r
  <1>4. task' = [task EXCEPT ![t] = r2] /\ UNCHANGED <<sessions, proof, older, proc, free, agentFree>>
    BY <1>1, GotoHere
  <1>5. /\ r2 \in TaskType /\ r2.op = op /\ r2.key = k /\ r2.agent \in Agents
        /\ r2.closes = None /\ r2.next = "idle" /\ r2.pc = "grace"
    BY <1>3 DEF TaskType, Steps
  <1> HIDE DEF r2
  <1>6. Asks(t, r2)
    BY <1>1, <1>4, <1>5 DEF Asks
  <1> QED
    BY <1>6, AskKeeps

LEMMA TurnReusesKeeps ==
    ASSUME NEW t \in Tasks, PoolInv, TurnReuses(t)
    PROVE  PoolInv'
  <1> DEFINE k == task[t].key
             p == sessions[k]
             r == [task[t] EXCEPT !.proc = p]
             r2 == [r EXCEPT !.pc = "prompt"]
  <1>1. /\ task[t].pc = "lock" /\ task[t].op = "turn" /\ lock[k] = None /\ p # None
        /\ lock' = [lock EXCEPT ![k] = t] /\ turn' = [turn EXCEPT ![p] = "running"]
        /\ Goto(Here, t, r, "prompt")
    BY DEF TurnReuses, GetsLock
  <1>2. task[t] \in TaskType /\ RecordOk(Now, t, task[t]) /\ ~IsQueued(task[t])
    BY <1>1, OfTask
  <1>3. k \in Keys /\ task[t].agent \in Agents /\ task[t].closes = None /\ task[t].next = "idle"
    BY <1>1, <1>2 DEF RecordOk
  <1>4. p \in Procs /\ lock'[k] = t
    BY <1>1, <1>3 DEF PoolInv, Whole, Typed, Now
  <1>5. /\ r2 \in TaskType /\ r2.pc = "prompt" /\ r2.proc = p /\ r2.op = "turn" /\ r2.key = k
        /\ r2.agent = task[t].agent /\ r2.closes = None /\ r2.next = "idle"
    <2> HIDE DEF p
    <2>1. PICK x \in TaskType : x = task[t]
      BY <1>2
    <2> QED
      BY Zenon, <1>1, <1>3, <1>4, <2>1 DEF TaskType, Steps
  <1>7. LocksBy(Now, Now', t)
    BY Zenon, <1>1, <1>3, Locks
  <1> HIDE DEF r, k, p
  <1>6. task' = [task EXCEPT ![t] = r2] /\ UNCHANGED <<sessions, proof, older, proc, free, agentFree>>
    BY <1>1, GotoHere
  <1> HIDE DEF r2
  <1>8. RecordOk(Now', t, r2)
    BY <1>3, <1>4, <1>5 DEF RecordOk, Spawning, Now
  <1>9. MovesNow(t, r2)
    BY <1>1, <1>5, <1>6, <1>7, <1>8 DEF MovesNow, Owns
  <1>10. LeftOver(Now, free, agentFree, t) /\ task'[t] = r2
    BY <1>9, MoveNow
  <1>11. Marks'
    BY <1>1, <1>4, <1>6 DEF PoolInv, Marks
  <1>12. Stays(t)
    BY <1>2, <1>5, <1>10, <1>11 DEF Stays, QueuedAlike, IsQueued
  <1> QED
    BY <1>12, StayKeeps

LEMMA TurnFindsDeadKeeps ==
    ASSUME NEW t \in Tasks, PoolInv, TurnFindsDead(t)
    PROVE  PoolInv'
  <1>1. task[t].pc = "lock" /\ Return(Here, t) /\ UNCHANGED <<lock, turn>>
    BY DEF TurnFindsDead, GetsLock
  <1>2. ReturnsNow(t)
    BY <1>1, Locks, OfTask DEF ReturnsNow, Owns, Turns
  <1> QED
    BY <1>2, ReturnNow

LEMMA TurnRestartsKeeps ==
    ASSUME NEW t \in Tasks, PoolInv, TurnRestarts(t)
    PROVE  PoolInv'
  <1> DEFINE k == task[t].key
  <1>1. /\ task[t].pc = "lock" /\ task[t].op = "turn" /\ lock[k] = None /\ sessions[k] # None
        /\ lock' = [lock EXCEPT ![k] = t] /\ turn' = turn
        /\ Drop(Here, t, task[t], k, "acquire")
    BY DEF TurnRestarts, GetsLock
  <1>2. task[t] \in TaskType /\ RecordOk(Now, t, task[t]) /\ ~IsQueued(task[t])
    BY <1>1, OfTask
  <1>3. k \in Keys /\ task[t].agent \in Agents
    BY <1>1, <1>2 DEF RecordOk
  <1>4. lock'[k] = t
    BY <1>1, <1>3 DEF PoolInv, Whole, Typed, Now
  <1>5. Ready(t, task[t], k, "acquire")
    BY <1>1, <1>2, <1>3, <1>4 DEF Ready, Spawning
  <1>6. LocksBy(Now, Now', t)
    BY Zenon, <1>1, <1>3, Locks
  <1>7. DropsNow(t, task[t], k, "acquire")
    BY <1>1, <1>2, <1>5, <1>6, OfTask DEF DropsNow, Owns, Turns
  <1> QED
    BY <1>7, DropNow

(* _acquire, out of the variables' own state. *)
QueuesNow(t, r) ==
    /\ task[t].pc \in {"idle", "lock"} /\ LocksBy(Now, Now', t) /\ r \in TaskType
    /\ r.op \in {"turn", "oneshot"} /\ r.agent \in Agents /\ r.closes = None /\ r.next = "idle"
    /\ r.op = "turn" => r.key \in Keys /\ lock'[r.key] = t /\ sessions[r.key] = None
    /\ r.op = "oneshot" => r.key = None
    /\ EnterAcquire(Here, t, r) /\ Turns

LEMMA QueueNow ==
    ASSUME NEW t \in Tasks, NEW r, PoolInv, QueuesNow(t, r)
    PROVE  PoolInv'
  <1>1. From(Now, task, t)
    BY NowFrom DEF QueuesNow
  <1>2. PICK step \in {"agentWait", "globalWait"} : Queues(Here, t, r, step) /\ (step = "globalWait" => PerAgent = 0)
    BY AcquireIs DEF QueuesNow
  <1>3. QueuesFrom(Now, free, agentFree, task, t, r, step)
    BY <1>1, <1>2, HereIs DEF QueuesNow, QueuesFrom, Now
  <1>4. /\ LeftOver(Now, free, agentFree, t) /\ older' \subseteq older
        /\ IsQueued(task'[t]) <=> step = "globalWait"
    BY <1>3, QueueFrom DEF PoolInv
  <1>5. ~IsQueued(task[t])
    BY OfTask DEF QueuesNow
  <1>6. Stays(t)
    BY <1>2, <1>4, <1>5, BoundAssumption DEF Stays, QueuedAlike, QueuesNow, Marks, PoolInv, Turns
  <1> QED
    BY <1>6, StayKeeps

LEMMA TurnSpawnsKeeps ==
    ASSUME NEW t \in Tasks, PoolInv, TurnSpawns(t)
    PROVE  PoolInv'
  <1> DEFINE k == task[t].key
  <1>1. /\ task[t].pc = "lock" /\ task[t].op = "turn" /\ lock[k] = None /\ sessions[k] = None
        /\ lock' = [lock EXCEPT ![k] = t] /\ turn' = turn
        /\ EnterAcquire(Here, t, task[t])
    BY DEF TurnSpawns, GetsLock
  <1>2. task[t] \in TaskType /\ RecordOk(Now, t, task[t])
    BY OfTask
  <1>3. k \in Keys /\ task[t].agent \in Agents /\ task[t].closes = None /\ task[t].next = "idle"
    BY <1>1, <1>2 DEF RecordOk
  <1>4. lock'[k] = t
    BY <1>1, <1>3 DEF PoolInv, Whole, Typed, Now
  <1>5. LocksBy(Now, Now', t)
    BY Zenon, <1>1, <1>3, Locks
  <1>6. QueuesNow(t, task[t])
    BY <1>1, <1>2, <1>3, <1>4, <1>5, OfTask DEF QueuesNow, Turns
  <1> QED
    BY <1>6, QueueNow

LEMMA BeginOneshotKeeps ==
    ASSUME NEW t \in Tasks, NEW a \in Agents, PoolInv, BeginOneshot(t, a)
    PROVE  PoolInv'
  <1> DEFINE r == [Resting EXCEPT !.op = "oneshot", !.agent = a]
  <1>1. task[t].pc = "idle" /\ EnterAcquire(Here, t, r) /\ UNCHANGED <<lock, turn>>
    BY DEF BeginOneshot
  <1>2. /\ r \in TaskType /\ r.op = "oneshot" /\ r.agent = a /\ r.closes = None /\ r.next = "idle" /\ r.key = None
    BY Zenon DEF Resting, TaskType, Ops, Steps
  <1> HIDE DEF r
  <1>3. QueuesNow(t, r)
    BY <1>1, <1>2, Locks, OfTask DEF QueuesNow, Turns
  <1> QED
    BY <1>3, QueueNow

LEMMA TakeAgentPermitKeeps ==
    ASSUME NEW t \in Tasks, PoolInv, TakeAgentPermit(t)
    PROVE  PoolInv'
  <1> DEFINE a == task[t].agent
             af == [agentFree EXCEPT ![a] = @ - 1]
  <1>1. /\ task[t].pc = "agentWait" /\ agentFree[a] > 0 /\ UNCHANGED <<lock, turn>>
        /\ EnterGlobal([Here EXCEPT !.agentFree[a] = @ - 1], t, task[t])
    BY DEF TakeAgentPermit
  <1>2. [Here EXCEPT !.agentFree[a] = @ - 1] = Tables(proc, proof, free, af, task)
    BY DEF Here, Tables
  <1>3. Queues(Tables(proc, proof, free, af, task), t, task[t], "globalWait")
    BY <1>1, <1>2, GlobalIs
  <1>4. task[t] \in TaskType /\ RecordOk(Now, t, task[t]) /\ ~IsQueued(task[t])
    BY <1>1, OfTask
  <1>5. From(Now, task, t)
    BY <1>1, Locks, NowFrom
  <1>6. /\ a \in Agents /\ task[t].op \in {"turn", "oneshot"} /\ task[t].closes = None /\ task[t].next = "idle"
        /\ task[t].op = "turn" => /\ task[t].key \in Keys /\ lock'[task[t].key] = t
                                  /\ sessions[task[t].key] = None
        /\ task[t].op = "oneshot" => task[t].key = None
    BY <1>1, <1>4 DEF RecordOk, Spawning, Now
  <1>7. QueuesFrom(Now, free, af, task, t, task[t], "globalWait")
    BY <1>1, <1>3, <1>4, <1>5, <1>6 DEF QueuesFrom, Now
  <1>8. /\ LeftOver(Now, free, af, t) /\ older' \subseteq older
        /\ IsQueued(task'[t]) /\ task'[t].agent = a
    BY <1>7, QueueFrom DEF PoolInv
  <1>9. SameHolders(proc, proc', {}) /\ SameQueue(task, task', {t}) /\ free' = free /\ agentFree' = af
    BY <1>8 DEF LeftOver, SameQueue, Now
  <1>10. PermitsCounted(proc', task', free, af)
    BY Zenon, <1>1, <1>4, <1>6, <1>8, <1>9, CountQueues DEF PoolInv
  <1>11. Marks'
    BY <1>1, <1>8 DEF PoolInv, Marks
  <1> QED
    BY <1>8, <1>9, <1>10, <1>11 DEF PoolInv, LeftOver

LEMMA TakeGlobalPermitKeeps ==
    ASSUME NEW t \in Tasks, NEW p \in Procs, PoolInv, TakeGlobalPermit(t, p)
    PROVE  PoolInv'
  <1> DEFINE k == task[t].key
             a == task[t].agent
             r == [task[t] EXCEPT !.pc = "open", !.proc = p]
  <1>1. /\ task[t].pc = "globalWait" /\ free > 0 /\ proc[p].life = "unused" /\ free' = free - 1
        /\ proc' = [proc EXCEPT ![p] = [life |-> "opening", key |-> k, agent |-> a]]
        /\ proof' = IF k = None THEN proof ELSE [proof EXCEPT ![k] = p]
        /\ task' = [task EXCEPT ![t].pc = "open", ![t].proc = p]
        /\ UNCHANGED <<sessions, lock, older, turn, agentFree>>
    BY DEF TakeGlobalPermit
  <1>2. task \in [Tasks -> TaskType] /\ task[t] \in TaskType /\ RecordOk(Now, t, task[t])
    BY OfTask
  <1>3. /\ r \in TaskType /\ r.pc = "open" /\ r.proc = p /\ r.op = task[t].op /\ r.key = k /\ r.agent = a
        /\ r.closes = task[t].closes /\ r.next = task[t].next
    <2>1. PICK x \in TaskType : x = task[t]
      BY <1>2
    <2> QED
      BY Zenon, <2>1 DEF TaskType, Steps
  <1>4. task' = [task EXCEPT ![t] = r]
    BY Zenon, <1>1, <1>2 DEF TaskType
  <1> HIDE DEF r
  <1>5. /\ proc \in [Procs -> ProcType]
        /\ proc'[p] = [life |-> "opening", key |-> k, agent |-> a] /\ \A q \in Procs : q # p => proc'[q] = proc[q]
    BY <1>1 DEF PoolInv, Whole, Typed, Now
  <1>6. /\ a \in Agents /\ task[t].closes = None /\ task[t].next = "idle" /\ IsQueued(task[t])
    BY <1>1, <1>2 DEF RecordOk, Spawning, IsQueued
  <1>7. RecordOk(Now', t, r)
    BY <1>1, <1>2, <1>3, <1>5 DEF RecordOk, Spawning, Now
  <1>8. Opens(Now, Now', t, r, p)
    BY Zenon, <1>1, <1>3, <1>4, <1>7 DEF Opens, Now
  <1>9. Whole(Now')
    BY <1>8, OpenKeeps DEF PoolInv
  <1>10. SameHolders(proc, proc', {p}) /\ SameQueue(task, task', {t})
    BY <1>2, <1>4, <1>5 DEF SameHolders, SameQueue
  <1>11. ~IsQueued(task'[t]) /\ proc'[p].life \in Holding /\ proc'[p].agent = a /\ proc[p].life \notin Holding
    BY <1>1, <1>2, <1>3, <1>4, <1>5, <1>6 DEF IsQueued, Holding
  <1>12. PermitsCounted(proc', task', free - 1, agentFree)
    BY Zenon, <1>1, <1>6, <1>10, <1>11, CountOpens DEF PoolInv
  <1>13. PermitsCounted(proc', task', free', agentFree')
    BY <1>1, <1>12
  <1> QED
    BY <1>1, <1>9, <1>13 DEF PoolInv, Marks

LEMMA AcquireTimesOutKeeps ==
    ASSUME NEW t \in Tasks, PoolInv, AcquireTimesOut(t)
    PROVE  PoolInv'
  <1> DEFINE a == task[t].agent
             af == [agentFree EXCEPT ![a] = IF PerAgent > 0 /\ task[t].pc = "globalWait" THEN @ + 1 ELSE @]
  <1>1. /\ task[t].pc \in {"agentWait", "globalWait"} /\ lock' = Unlocked(t) /\ turn' = turn
        /\ Return([Here EXCEPT !.agentFree[a] = IF PerAgent > 0 /\ task[t].pc = "globalWait" THEN @ + 1 ELSE @], t)
    BY DEF AcquireTimesOut
  <1>2. [Here EXCEPT !.agentFree[a] = IF PerAgent > 0 /\ task[t].pc = "globalWait" THEN @ + 1 ELSE @]
            = Tables(proc, proof, free, af, task)
    BY DEF Here, Tables
  <1>3. Return(Tables(proc, proof, free, af, task), t)
    BY <1>1, <1>2
  <1>4. /\ a \in Agents /\ task[t].next = "idle"
        /\ IsQueued(task[t]) <=> task[t].pc = "globalWait"
    BY <1>1, OfTask DEF RecordOk, Spawning, IsQueued
  <1>5. agentFree \in [Agents -> Nat]
    BY DEF PoolInv, PermitsCounted
  <1>6. task[t].pc = "globalWait" => af = [agentFree EXCEPT ![a] = IF PerAgent > 0 THEN @ + 1 ELSE @]
    OBVIOUS
  <1>7. task[t].pc = "agentWait" => af = agentFree
    BY <1>5
  <1> HIDE DEF af
  <1>8. ReturnsFrom(Now, free, af, task, t)
    <2>1. From(Now, task, t)
      BY <1>1, Locks, NowFrom
    <2> QED
      BY <1>1, <1>3, <2>1 DEF ReturnsFrom, Now, Owns
  <1>9. LeftOver(Now, free, af, t) /\ task'[t] = Resting /\ older' = older
    BY <1>8, ReturnFrom DEF PoolInv
  <1>10. SameHolders(proc, proc', {}) /\ SameQueue(task, task', {t}) /\ ~IsQueued(task'[t]) /\ proc' = proc
    BY <1>3, <1>9, ReturnIs DEF LeftOver, SameQueue, Now, IsQueued, Resting
  <1>11. PermitsCounted(proc', task', free, af)
    <2>1. CASE task[t].pc = "globalWait"
      BY <1>4, <1>6, <1>10, <2>1, CountLeaves DEF PoolInv
    <2>2. CASE task[t].pc = "agentWait"
      <3>1. SameQueue(task, task', {})
        BY <1>4, <1>10, <2>2 DEF SameQueue
      <3> QED
        BY <1>7, <1>10, <2>2, <3>1, CountSame DEF PoolInv
    <2> QED
      BY <1>1, <2>1, <2>2
  <1> QED
    BY <1>1, <1>9, <1>11 DEF PoolInv, LeftOver, Marks

LEMMA ReleaseIs ==
    ASSUME NEW pr, NEW pf, NEW fr, NEW af, NEW ta, NEW a
    PROVE  ReleasePermits(Tables(pr, pf, fr, af, ta), a)
             = Tables(pr, pf, fr + 1, [af EXCEPT ![a] = IF PerAgent = 0 THEN @ ELSE @ + 1], ta)
  <1> DEFINE v == IF PerAgent = 0 THEN af[a] ELSE af[a] + 1
             T == Tables(pr, pf, fr, af, ta)
  <1>0. T.free = fr /\ T.agentFree = af
    BY DEF Tables
  <1>1. ReleasePermits(T, a) = [T EXCEPT !.free = fr + 1, !.agentFree[a] = v]
    BY <1>0 DEF ReleasePermits
  <1> HIDE DEF v
  <1>2. [T EXCEPT !.free = fr + 1, !.agentFree[a] = v] = [[T EXCEPT !.free = fr + 1] EXCEPT !.agentFree[a] = v]
    BY DEF Tables
  <1>3. [T EXCEPT !.free = fr + 1] = Tables(pr, pf, fr + 1, af, ta)
    BY DEF Tables
  <1>4. [Tables(pr, pf, fr + 1, af, ta) EXCEPT !.agentFree[a] = v] = Tables(pr, pf, fr + 1, [af EXCEPT ![a] = v], ta)
    BY DEF Tables
  <1> HIDE DEF T
  <1> QED
    BY Zenon, <1>1, <1>2, <1>3, <1>4 DEF T, v

(* Only the life of the process p changes. *)
LEMMA LifeIs ==
    ASSUME NEW pr \in [Procs -> ProcType], NEW p \in Procs, NEW l
    PROVE  [pr EXCEPT ![p].life = l] = [pr EXCEPT ![p] = [life |-> l, key |-> pr[p].key, agent |-> pr[p].agent]]
  <1>1. pr[p] \in ProcType
    OBVIOUS
  <1>2. [pr[p] EXCEPT !.life = l] = [life |-> l, key |-> pr[p].key, agent |-> pr[p].agent]
    BY <1>1 DEF ProcType
  <1> QED
    BY Zenon, <1>2

(* In S only the life of the process p is another. *)
LivesAs(S, p, l) == p \in Procs /\ S.proc = [proc EXCEPT ![p].life = l]

LEMMA LifeBecomes ==
    ASSUME NEW S, NEW p, NEW l, PoolInv, LivesAs(S, p, l)
    PROVE  Becomes(Now, S, p, l)
  <1>1. proc \in [Procs -> ProcType] /\ p \in Procs
    BY DEF PoolInv, Whole, Typed, Now, LivesAs
  <1>2. [proc EXCEPT ![p].life = l] = [proc EXCEPT ![p] = [life |-> l, key |-> proc[p].key, agent |-> proc[p].agent]]
    BY Zenon, <1>1, LifeIs
  <1> QED
    BY <1>2 DEF LivesAs, Becomes, Now

LEMMA OpenSucceedsKeeps ==
    ASSUME NEW t \in Tasks, PoolInv, OpenSucceeds(t)
    PROVE  PoolInv'
  <1> DEFINE p == task[t].proc
             k == task[t].key
             r == [task[t] EXCEPT !.pc = "prompt"]
  <1>1. /\ task[t].pc = "open" /\ proc' = [proc EXCEPT ![p].life = "live"] /\ turn' = [turn EXCEPT ![p] = "running"]
        /\ sessions' = (IF k = None THEN sessions ELSE [sessions EXCEPT ![k] = p])
        /\ older' = (IF k = None THEN older ELSE UsedLast(k))
        /\ task' = [task EXCEPT ![t].pc = "prompt"]
        /\ UNCHANGED <<lock, proof, free, agentFree>>
    BY DEF OpenSucceeds
  <1>2. task \in [Tasks -> TaskType] /\ task[t] \in TaskType /\ RecordOk(Now, t, task[t]) /\ ~IsQueued(task[t])
    BY <1>1, OfTask
  <1>3. /\ r \in TaskType /\ r.pc = "prompt" /\ r.proc = p /\ r.op = task[t].op /\ r.key = k /\ r.agent = task[t].agent
        /\ r.closes = task[t].closes /\ r.next = task[t].next
    BY <1>2 DEF TaskType, Steps
  <1>4. task' = [task EXCEPT ![t] = r]
    BY <1>1, <1>2
  <1>5. p \in Procs /\ proc \in [Procs -> ProcType] /\ proc[p].life = "opening" /\ proc[p].key = k /\ k \in Keys \cup {None}
    BY <1>1, <1>2 DEF PoolInv, Whole, Typed, Now, RecordOk, TaskType
  <1>6. Becomes(Now, Now', p, "live")
    <2>1. LivesAs(Now', p, "live")
      BY <1>5, <1>1 DEF LivesAs, Now
    <2> QED
      BY <2>1, LifeBecomes
  <1> HIDE DEF r
  <1>7. proc'[p] = [life |-> "live", key |-> k, agent |-> proc[p].agent] /\ \A q \in Procs : q # p => proc'[q] = proc[q]
    BY <1>5, <1>6 DEF Becomes, Now
  <1>8. RecordOk(Now', t, r)
    BY <1>1, <1>2, <1>3, <1>5, <1>7 DEF RecordOk, Spawning, Now
  <1>9. Comes(Now, Now', t, r)
    BY Zenon, <1>1, <1>3, <1>4, <1>6, <1>8 DEF Comes, Now
  <1>10. Whole(Now')
    BY <1>9, ComesKeeps DEF PoolInv
  <1>11. SameHolders(proc, proc', {})
    BY <1>5, <1>7 DEF SameHolders, Holding
  <1>12. SameQueue(task, task', {})
    BY <1>2, <1>3, <1>4 DEF SameQueue, IsQueued
  <1>13. PermitsCounted(proc', task', free', agentFree')
    BY <1>1, <1>11, <1>12, CountSame DEF PoolInv
  <1>14. Marks'
    BY <1>1, <1>5 DEF PoolInv, Marks, UsedLast, Without, Registered
  <1> QED
    BY <1>10, <1>13, <1>14 DEF PoolInv

LEMMA OpenFailsKeeps ==
    ASSUME NEW t \in Tasks, PoolInv, OpenFails(t)
    PROVE  PoolInv'
  <1> DEFINE p == task[t].proc
             a == task[t].agent
             pr == [proc EXCEPT ![p].life = "failed"]
             af == [agentFree EXCEPT ![a] = IF PerAgent = 0 THEN @ ELSE @ + 1]
  <1>1. /\ task[t].pc = "open" /\ lock' = Unlocked(t) /\ turn' = turn
        /\ Return(ReleasePermits([Here EXCEPT !.proc[p].life = "failed"], a), t)
    BY DEF OpenFails
  <1>2. [Here EXCEPT !.proc[p].life = "failed"] = Tables(pr, proof, free, agentFree, task)
    BY DEF Here, Tables
  <1> HIDE DEF pr
  <1>3. ReleasePermits([Here EXCEPT !.proc[p].life = "failed"], a) = Tables(pr, proof, free + 1, af, task)
    BY <1>2, ReleaseIs
  <1>4. Return(Tables(pr, proof, free + 1, af, task), t)
    BY <1>1, <1>3
  <1> HIDE DEF af
  <1>5. /\ proc' = pr /\ proof' = proof /\ free' = free + 1 /\ agentFree' = af
        /\ task' = [task EXCEPT ![t] = Resting] /\ UNCHANGED <<sessions, older>>
    BY <1>4, ReturnIs
  <1>6. task \in [Tasks -> TaskType] /\ task[t] \in TaskType /\ RecordOk(Now, t, task[t]) /\ ~IsQueued(task[t])
    BY <1>1, OfTask
  <1>7. p \in Procs /\ proc \in [Procs -> ProcType] /\ proc[p].life = "opening" /\ proc[p].agent = a /\ a \in Agents
    BY <1>1, <1>6 DEF PoolInv, Whole, Typed, Now, RecordOk
  <1>8. Becomes(Now, Now', p, "failed")
    <2>1. LivesAs(Now', p, "failed")
      BY <1>7, <1>5 DEF LivesAs, Now, pr
    <2> QED
      BY <2>1, LifeBecomes
  <1>9. proc'[p] = [life |-> "failed", key |-> proc[p].key, agent |-> a] /\ \A q \in Procs : q # p => proc'[q] = proc[q]
    BY <1>7, <1>8 DEF Becomes, Now
  <1>10. RecordFails(Now, Now', t, Resting)
    <2>1. LocksBy(Now, Now', t)
      BY <1>1, Locks
    <2>2. Resting.pc = "idle"
      BY DEF Resting
    <2> QED
      BY <1>1, <1>5, <1>8, <2>1, <2>2, RestingOk DEF RecordFails, Now
  <1>11. Whole(Now')
    BY <1>10, FailKeeps DEF PoolInv
  <1>12. SameHolders(proc, proc', {p}) /\ proc[p].life \in Holding /\ proc'[p].life \notin Holding
    BY <1>7, <1>9 DEF SameHolders, Holding
  <1>13. SameQueue(task, task', {})
    BY <1>5, <1>6 DEF SameQueue, IsQueued, Resting
  <1>14. PermitsCounted(proc', task', free + 1, af)
    BY <1>7, <1>12, <1>13, CountReleases DEF PoolInv, af
  <1> QED
    BY <1>1, <1>5, <1>11, <1>14 DEF PoolInv, Marks

(* The owner of a memoryless process tells it to go. *)
LEMMA CloseOwnKeeps ==
    ASSUME NEW t \in Tasks, PoolInv, task[t].op = "oneshot", task[t].pc \in {"prompt", "abort"},
           Turns, CloseOwn(t, task[t].proc)
    PROVE  PoolInv'
  <1> DEFINE p == task[t].proc
             r == [task[t] EXCEPT !.pc = "closing", !.closes = p, !.next = "idle"]
  <1>1. task \in [Tasks -> TaskType] /\ task[t] \in TaskType /\ RecordOk(Now, t, task[t]) /\ ~IsQueued(task[t])
    BY OfTask
  <1>2. /\ proc' = [proc EXCEPT ![p].life = "closing"] /\ UNCHANGED <<proof, free, agentFree, sessions, older, lock>>
        /\ task' = [task EXCEPT ![t].pc = "closing", ![t].closes = p, ![t].next = "idle"]
    BY DEF CloseOwn, Write, Here
  <1>3. /\ p \in Procs /\ proc \in [Procs -> ProcType] /\ proc[p].life \in {"live", "dead"}
        /\ task[t].key = None
    BY <1>1 DEF PoolInv, Whole, Typed, Now, RecordOk
  <1>4. /\ r \in TaskType /\ r.pc = "closing" /\ r.closes = p /\ r.next = "idle" /\ r.op = "oneshot" /\ r.key = None
        /\ r.agent = task[t].agent
    <2>1. PICK x \in TaskType : x = task[t]
      BY <1>1
    <2> HIDE DEF p
    <2> QED
      BY Zenon, <1>3, <2>1 DEF TaskType, Steps
  <1>5. task' = [task EXCEPT ![t] = r]
    BY Zenon, <1>1, <1>2
  <1> HIDE DEF r
  <1>6. Becomes(Now, Now', p, "closing")
    <2>1. LivesAs(Now', p, "closing")
      BY <1>3, <1>2 DEF LivesAs, Now
    <2> QED
      BY <2>1, LifeBecomes
  <1>7. proc'[p] = [life |-> "closing", key |-> proc[p].key, agent |-> proc[p].agent] /\ \A q \in Procs : q # p => proc'[q] = proc[q]
    BY <1>3, <1>6 DEF Becomes, Now
  <1>8. RecordOk(Now', t, r)
    BY <1>3, <1>4, <1>7 DEF RecordOk, Spawning, Now
  <1>9. Closes(Now, Now', t, r)
    BY Zenon, <1>2, <1>4, <1>5, <1>6, <1>8 DEF Closes, Now
  <1>10. Whole(Now')
    BY <1>9, CloseKeeps DEF PoolInv
  <1>11. SameHolders(proc, proc', {})
    BY <1>3, <1>7 DEF SameHolders, Holding
  <1>12. SameQueue(task, task', {})
    BY <1>1, <1>4, <1>5 DEF SameQueue, IsQueued
  <1>13. PermitsCounted(proc', task', free', agentFree')
    BY <1>2, <1>11, <1>12, CountSame DEF PoolInv
  <1> QED
    BY <1>2, <1>10, <1>13 DEF PoolInv, Marks, Turns

LEMMA TurnReturnsKeeps ==
    ASSUME NEW t \in Tasks, PoolInv, TurnReturns(t)
    PROVE  PoolInv'
  <1> DEFINE p == task[t].proc
             k == task[t].key
  <1>1. /\ task[t].pc = "prompt" /\ turn' = [turn EXCEPT ![p] = "none"]
        /\ IF task[t].op = "oneshot"
             THEN CloseOwn(t, p)
             ELSE /\ older' = (IF sessions[k] = p THEN UsedLast(k) ELSE older)
                  /\ lock' = Unlocked(t)
                  /\ Write([Here EXCEPT !.task[t] = Resting])
                  /\ sessions' = sessions
    BY DEF TurnReturns
  <1>2. RecordOk(Now, t, task[t]) /\ ~IsQueued(task[t])
    BY <1>1, OfTask
  <1>3. p \in Procs /\ task[t].op \in {"turn", "oneshot"} /\ (task[t].op = "turn" => k \in Keys)
    BY <1>1, <1>2 DEF RecordOk
  <1>4. Turns
    BY <1>1, <1>3, OfTask DEF Turns
  <1>5. CASE task[t].op = "oneshot"
    BY <1>1, <1>4, <1>5, CloseOwnKeeps
  <1>6. CASE task[t].op = "turn"
    <2>1. task' = [task EXCEPT ![t] = Resting] /\ UNCHANGED <<sessions, proc, proof, free, agentFree>>
      BY <1>1, <1>6 DEF Write, Here
    <2>2. LocksBy(Now, Now', t)
      BY <1>1, <1>6, Locks
    <2>3. Resting.pc = "idle" /\ \A q \in Procs : ~Owns(task[t], q)
      BY <1>1, <1>6 DEF Resting, Owns
    <2>4. MovesNow(t, Resting)
      BY <1>1, <2>1, <2>2, <2>3, RestingOk DEF MovesNow
    <2>5. LeftOver(Now, free, agentFree, t) /\ task'[t] = Resting
      BY <2>4, MoveNow
    <2>6. Marks'
      BY <1>1, <1>3, <1>4, <1>6 DEF PoolInv, Marks, Turns, UsedLast, Without, Registered
    <2>7. Stays(t)
      BY <1>2, <2>5, <2>6 DEF Stays, QueuedAlike, IsQueued, Resting
    <2> QED
      BY <2>7, StayKeeps
  <1> QED
    BY <1>3, <1>5, <1>6

LEMMA AfterFailureKeeps ==
    ASSUME NEW t \in Tasks, PoolInv, TurnFails(t) \/ AbortSent(t)
    PROVE  PoolInv'
  <1> DEFINE p == task[t].proc
             k == task[t].key
  <1>1. task[t].pc \in {"prompt", "abort"} /\ turn' = [turn EXCEPT ![p] = "none"] /\ AfterFailure(t)
    BY DEF TurnFails, AbortSent
  <1>2. task[t] \in TaskType /\ RecordOk(Now, t, task[t]) /\ ~IsQueued(task[t])
    BY <1>1, OfTask
  <1>3. p \in Procs /\ (task[t].op = "turn" => k \in Keys /\ task[t].agent \in Agents /\ lock[k] = t)
    BY <1>1, <1>2 DEF RecordOk, Now
  <1>4. Turns
    BY <1>1, <1>3, OfTask DEF Turns
  <1>5. CASE task[t].op = "oneshot" /\ CloseOwn(t, p)
    BY <1>1, <1>4, <1>5, CloseOwnKeeps
  <1>6. CASE task[t].op = "turn" /\ sessions[k] # None /\ Drop(Here, t, task[t], k, "idle") /\ lock' = lock
    <2>1. Ready(t, task[t], k, "idle")
      BY <1>2, <1>3, <1>6 DEF Ready, Spawning
    <2>2. DropsNow(t, task[t], k, "idle")
      BY <1>1, <1>2, <1>4, <1>6, <2>1, Locks DEF DropsNow, Owns
    <2> QED
      BY <2>2, DropNow
  <1>7. CASE task[t].op = "turn" /\ Return(Here, t) /\ lock' = Unlocked(t)
    <2>1. ReturnsNow(t)
      BY <1>1, <1>2, <1>4, <1>7, Locks DEF ReturnsNow, Owns
    <2> QED
      BY <2>1, ReturnNow
  <1> QED
    BY <1>1, <1>5, <1>6, <1>7 DEF AfterFailure

LEMMA TurnTimesOutKeeps ==
    ASSUME NEW t \in Tasks, PoolInv, TurnTimesOut(t)
    PROVE  PoolInv'
  <1> DEFINE r == [task[t] EXCEPT !.pc = "abort"]
  <1>1. /\ task[t].pc = "prompt" /\ task' = [task EXCEPT ![t].pc = "abort"]
        /\ UNCHANGED <<sessions, lock, proof, older, proc, turn, free, agentFree>>
    BY DEF TurnTimesOut
  <1>2. task \in [Tasks -> TaskType] /\ task[t] \in TaskType /\ RecordOk(Now, t, task[t]) /\ ~IsQueued(task[t])
    BY <1>1, OfTask
  <1>3. /\ r \in TaskType /\ r.pc = "abort" /\ r.op = task[t].op /\ r.key = task[t].key /\ r.agent = task[t].agent
        /\ r.proc = task[t].proc /\ r.closes = task[t].closes /\ r.next = task[t].next
    BY <1>2 DEF TaskType, Steps
  <1>4. task' = [task EXCEPT ![t] = r]
    BY <1>1, <1>2
  <1> HIDE DEF r
  <1>5. RecordOk(Now', t, r)
    BY <1>1, <1>2, <1>3 DEF RecordOk, Spawning, Now
  <1>6. MovesNow(t, r)
    BY Zenon, <1>1, <1>3, <1>4, <1>5, Locks DEF MovesNow, Owns
  <1>7. LeftOver(Now, free, agentFree, t) /\ task'[t] = r
    BY <1>6, MoveNow
  <1>8. Stays(t)
    BY <1>1, <1>2, <1>3, <1>7 DEF Stays, QueuedAlike, IsQueued, PoolInv, Marks
  <1> QED
    BY <1>8, StayKeeps

LEMMA AfterCancelKeeps ==
    ASSUME NEW t \in Tasks, PoolInv, task[t].pc = "grace", AfterCancel(t), UNCHANGED <<lock, turn>>
    PROVE  PoolInv'
  <1> DEFINE r == [task[t] EXCEPT !.proc = None, !.ended = FALSE]
             r2 == [r EXCEPT !.pc = "lock"]
  <1>1. task[t] \in TaskType /\ RecordOk(Now, t, task[t]) /\ ~IsQueued(task[t]) /\ Turns
    BY OfTask DEF Turns
  <1>2. CASE task[t].op = "reset" /\ Goto(Here, t, r, "lock")
    <2>1. task[t].key \in Keys /\ task[t].closes = None /\ task[t].next = "idle"
      BY <1>1 DEF RecordOk
    <2>2. /\ r2 \in TaskType /\ r2.pc = "lock" /\ r2.op = "reset" /\ r2.key = task[t].key
          /\ r2.closes = None /\ r2.next = "idle"
      <3>1. PICK x \in TaskType : x = task[t]
        BY <1>1
      <3> QED
        BY Zenon, <1>2, <2>1, <3>1 DEF TaskType, Steps
    <2> HIDE DEF r
    <2>3. task' = [task EXCEPT ![t] = r2] /\ UNCHANGED <<sessions, proof, older, proc, free, agentFree>>
      BY <1>2, GotoHere
    <2> HIDE DEF r2
    <2>4. RecordOk(Now', t, r2)
      BY <2>1, <2>2 DEF RecordOk, Spawning
    <2>5. MovesNow(t, r2)
      BY <2>2, <2>3, <2>4, Locks DEF MovesNow, Owns
    <2>6. LeftOver(Now, free, agentFree, t) /\ task'[t] = r2
      BY <2>5, MoveNow
    <2>7. Stays(t)
      BY <1>1, <2>2, <2>3, <2>6 DEF Stays, QueuedAlike, IsQueued, PoolInv, Marks, Turns
    <2> QED
      BY <2>7, StayKeeps
  <1>3. CASE Return(Here, t)
    <2>1. ReturnsNow(t)
      BY <1>1, <1>3, Locks DEF ReturnsNow, Owns
    <2> QED
      BY <2>1, ReturnNow
  <1> QED
    BY <1>2, <1>3 DEF AfterCancel

LEMMA CancelKeeps ==
    ASSUME NEW t \in Tasks, PoolInv, CancelEnded(t) \/ CancelExpires(t)
    PROVE  PoolInv'
  <1> DEFINE k == task[t].key
             r == [task[t] EXCEPT !.proc = None]
             step == IF task[t].op = "reset" THEN "lock" ELSE "idle"
  <1>1. /\ task[t].pc = "grace" /\ UNCHANGED <<lock, turn>>
        /\ AfterCancel(t) \/ (sessions[k] # None /\ Drop(Here, t, r, k, step))
    BY DEF CancelEnded, CancelExpires
  <1>2. task[t] \in TaskType /\ RecordOk(Now, t, task[t]) /\ ~IsQueued(task[t]) /\ Turns
    BY <1>1, OfTask DEF Turns
  <1>3. CASE AfterCancel(t)
    BY <1>1, <1>3, AfterCancelKeeps
  <1>4. CASE sessions[k] # None /\ Drop(Here, t, r, k, step)
    <2>1. /\ r \in TaskType /\ r.op = task[t].op /\ r.key = k /\ r.agent = task[t].agent
          /\ step \in {"lock", "idle"}
      BY <1>2 DEF TaskType
    <2> HIDE DEF r, step
    <2>2. Ready(t, r, k, step)
      BY <1>1, <1>2, <1>4, <2>1 DEF Ready, Spawning, RecordOk, Now
    <2>3. DropsNow(t, r, k, step)
      BY <1>1, <1>2, <1>4, <2>1, <2>2, Locks DEF DropsNow, Owns
    <2> QED
      BY <2>3, DropNow
  <1> QED
    BY <1>1, <1>3, <1>4

LEMMA ResetDropsKeeps ==
    ASSUME NEW t \in Tasks, PoolInv, ResetDrops(t)
    PROVE  PoolInv'
  <1> DEFINE k == task[t].key
  <1>1. /\ task[t].pc = "lock" /\ task[t].op = "reset" /\ lock[k] = None /\ turn' = turn
        /\ \/ Return(Here, t) /\ lock' = lock
           \/ sessions[k] # None /\ Drop(Here, t, task[t], k, "idle") /\ lock' = [lock EXCEPT ![k] = t]
    BY DEF ResetDrops, GetsLock
  <1>2. task[t] \in TaskType /\ k \in Keys /\ ~IsQueued(task[t]) /\ Turns
    BY <1>1, OfTask DEF Turns, RecordOk
  <1>3. LocksBy(Now, Now', t)
    BY <1>1, <1>2, Locks
  <1>4. CASE Return(Here, t)
    <2>1. ReturnsNow(t)
      BY <1>1, <1>2, <1>3, <1>4 DEF ReturnsNow, Owns
    <2> QED
      BY <2>1, ReturnNow
  <1>5. CASE sessions[k] # None /\ Drop(Here, t, task[t], k, "idle")
    <2>1. Ready(t, task[t], k, "idle")
      BY <1>1, <1>2, <1>5 DEF Ready, Spawning
    <2>2. DropsNow(t, task[t], k, "idle")
      BY <1>1, <1>2, <1>3, <1>5, <2>1 DEF DropsNow, Owns
    <2> QED
      BY <2>2, DropNow
  <1> QED
    BY <1>1, <1>4, <1>5

LEMMA BeginSweepKeeps ==
    ASSUME NEW t \in Tasks, NEW op \in {"reap", "reload", "close"}, NEW keys \in SUBSET Keys, PoolInv, BeginSweep(t, op, keys)
    PROVE  PoolInv'
  <1> DEFINE r == [Resting EXCEPT !.op = op, !.todo = keys]
  <1>1. task[t].pc = "idle" /\ SweepOn(Here, t, r) /\ UNCHANGED <<lock, turn>>
    BY DEF BeginSweep
  <1>2. r \in TaskType /\ r.op = op
    BY Zenon DEF Resting, TaskType, Ops, Steps
  <1> HIDE DEF r
  <1>3. From(Now, task, t)
    BY <1>1, Locks, NowFrom
  <1>4. SweepsFrom(Now, free, agentFree, task, t, r)
    BY <1>1, <1>2, <1>3, HereIs DEF SweepsFrom, Now
  <1>5. LeftOver(Now, free, agentFree, t) /\ older' \subseteq older /\ ~IsQueued(task'[t])
    BY <1>4, SweepFrom DEF PoolInv
  <1>6. ~IsQueued(task[t])
    BY <1>1, OfTask
  <1>7. Stays(t)
    BY <1>1, <1>5, <1>6 DEF Stays, QueuedAlike, PoolInv, Marks
  <1> QED
    BY <1>7, StayKeeps

(* A turn that ends tells those who wait for it. *)
LEMMA TellIs ==
    ASSUME NEW p, NEW ta \in [Tasks -> TaskType]
    PROVE  Tell(ta, p) \in [Tasks -> TaskType] /\ \A u \in Tasks : Told(ta[u], Tell(ta, p)[u])
  <1> SUFFICES ASSUME NEW u \in Tasks PROVE Tell(ta, p)[u] \in TaskType /\ Told(ta[u], Tell(ta, p)[u])
    BY DEF Tell
  <1>1. PICK x \in TaskType : x = ta[u]
    OBVIOUS
  <1>2. [x EXCEPT !.ended = TRUE] \in TaskType /\ Told(x, [x EXCEPT !.ended = TRUE]) /\ Told(x, x)
    BY Zenon DEF TaskType, Told
  <1>3. Tell(ta, p)[u] = x \/ Tell(ta, p)[u] = [x EXCEPT !.ended = TRUE]
    BY <1>1 DEF Tell
  <1> QED
    BY <1>1, <1>2, <1>3

LEMMA TurnSettlesKeeps ==
    ASSUME NEW p \in Procs, NEW how \in {"settled", "failed"}, PoolInv, TurnSettles(p, how) \/ ProcessExits(p)
    PROVE  PoolInv'
  <1>1. /\ UNCHANGED <<sessions, lock, proof, older, free, agentFree>>
        /\ task' = Tell(task, p) \/ task' = task
        /\ proc' = proc \/ (proc[p].life = "live" /\ proc' = [proc EXCEPT ![p].life = "dead"])
    BY DEF TurnSettles, ProcessExits
  <1>2. proc \in [Procs -> ProcType] /\ task \in [Tasks -> TaskType]
    BY DEF PoolInv, Whole, Typed, Now
  <1>3. task' \in [Tasks -> TaskType] /\ \A u \in Tasks : Told(task[u], task'[u])
    BY <1>1, <1>2, TellIs DEF Told
  <1>4. proc' = proc \/ (proc[p].life = "live" /\ Becomes(Now, Now', p, "dead"))
    <2>1. [proc EXCEPT ![p].life = "dead"] = [proc EXCEPT ![p] = [life |-> "dead", key |-> proc[p].key, agent |-> proc[p].agent]]
      BY Zenon, <1>2, LifeIs
    <2> QED
      BY <1>1, <2>1 DEF Becomes, Now
  <1>5. Ends(Now, Now')
    BY <1>1, <1>3, <1>4 DEF Ends, Now
  <1>6. Whole(Now')
    BY <1>5, EndKeeps DEF PoolInv
  <1>7. SameHolders(proc, proc', {})
    BY <1>2, <1>4 DEF SameHolders, Holding, Becomes, Now
  <1>8. SameQueue(task, task', {})
    BY <1>3 DEF SameQueue, IsQueued, Told
  <1>9. PermitsCounted(proc', task', free', agentFree')
    BY <1>1, <1>7, <1>8, CountSame DEF PoolInv
  <1>10. Marks'
    <2>1. turn \in [Procs -> {"none", "running", "settled", "failed"}]
      BY DEF PoolInv, Marks
    <2>2. turn' = [turn EXCEPT ![p] = how] \/ turn' = [turn EXCEPT ![p] = "failed"] \/ turn' = [turn EXCEPT ![p] = turn[p]]
      BY DEF TurnSettles, ProcessExits
    <2> QED
      BY <1>1, <2>1, <2>2 DEF PoolInv, Marks
  <1> QED
    BY <1>6, <1>9, <1>10 DEF PoolInv

(* What _close_session has written when its process has gone. *)
LEMMA GoneIs ==
    ASSUME NEW t, NEW p
    PROVE  Gone(t, p) = Tables([proc EXCEPT ![p].life = "closed"],
                               IF proc[p].key = None THEN proof ELSE [proof EXCEPT ![proc[p].key] = None],
                               free + 1, [agentFree EXCEPT ![proc[p].agent] = IF PerAgent = 0 THEN @ ELSE @ + 1],
                               IF turn[p] = "running" THEN Tell(task, p) ELSE task)
  <1> DEFINE k == proc[p].key
             pf == IF k = None THEN proof ELSE [proof EXCEPT ![k] = None]
             ta == IF turn[p] = "running" THEN Tell(task, p) ELSE task
             pr == [proc EXCEPT ![p].life = "closed"]
             T == Tables(proc, proof, free, agentFree, task)
             U == [T EXCEPT !.proc[p].life = "closed", !.proof = pf, !.task = ta]
  <1>1. T.proof = proof /\ T.task = task
    BY DEF Tables
  <1>2. Gone(t, p) = ReleasePermits(U, proc[p].agent)
    <2>1. [T EXCEPT !.proc[p].life = "closed",
                    !.proof = IF k = None THEN T.proof ELSE [T.proof EXCEPT ![k] = None],
                    !.task = IF turn[p] = "running" THEN Tell(T.task, p) ELSE T.task] = U
      BY <1>1
    <2> HIDE DEF U, T
    <2> QED
      BY <2>1, HereIs DEF Gone, T
  <1> HIDE DEF pf, ta
  <1>3. U = [[[T EXCEPT !.proc[p].life = "closed"] EXCEPT !.proof = pf] EXCEPT !.task = ta]
    BY DEF Tables
  <1>4. [T EXCEPT !.proc[p].life = "closed"] = Tables(pr, proof, free, agentFree, task)
    BY DEF Tables
  <1>5. [Tables(pr, proof, free, agentFree, task) EXCEPT !.proof = pf] = Tables(pr, pf, free, agentFree, task)
    BY DEF Tables
  <1>6. [Tables(pr, pf, free, agentFree, task) EXCEPT !.task = ta] = Tables(pr, pf, free, agentFree, ta)
    BY DEF Tables
  <1> HIDE DEF T, U
  <1>7. U = Tables(pr, pf, free, agentFree, ta)
    BY Zenon, <1>3, <1>4, <1>5, <1>6
  <1> HIDE DEF pr
  <1>8. ReleasePermits(Tables(pr, pf, free, agentFree, ta), proc[p].agent)
          = Tables(pr, pf, free + 1, [agentFree EXCEPT ![proc[p].agent] = IF PerAgent = 0 THEN @ ELSE @ + 1], ta)
    BY ReleaseIs
  <1> QED
    BY <1>2, <1>7, <1>8 DEF pr, pf, ta

LEMMA CloseDoneKeeps ==
    ASSUME NEW t \in Tasks, NEW how \in {"settled", "failed"}, PoolInv, CloseDone(t, how)
    PROVE  PoolInv'
  <1> DEFINE p == task[t].closes
             a == proc[p].agent
             nx == task[t].next
             pr == [proc EXCEPT ![p].life = "closed"]
             pf == IF proc[p].key = None THEN proof ELSE [proof EXCEPT ![proc[p].key] = None]
             af == [agentFree EXCEPT ![a] = IF PerAgent = 0 THEN @ ELSE @ + 1]
             ta == IF turn[p] = "running" THEN Tell(task, p) ELSE task
             b == Tables(pr, pf, free + 1, af, ta)
             r == [ta[t] EXCEPT !.closes = None, !.next = "idle"]
             r2 == [r EXCEPT !.pc = nx]
             M == [sessions |-> sessions, lock |-> lock, proof |-> pf, proc |-> pr, task |-> [ta EXCEPT ![t] = r2]]
  <1>1. /\ task[t].pc = "closing"
        /\ turn' = [turn EXCEPT ![p] = IF @ = "running" THEN how ELSE @]
        /\ lock' = IF nx = "idle" THEN Unlocked(t) ELSE lock
        /\ \/ nx = "idle" /\ Return(b, t)
           \/ nx = "sweep" /\ SweepOn(b, t, r)
           \/ nx = "acquire" /\ EnterAcquire(b, t, r)
           \/ nx \notin {"idle", "sweep", "acquire"} /\ Goto(b, t, r, nx)
    <2>1. b.task = ta
      BY DEF Tables
    <2>2. Gone(t, p) = b
      BY Zenon, GoneIs
    <2> HIDE DEF b, ta, nx
    <2> QED
      BY Zenon, <2>1, <2>2 DEF CloseDone, nx
  <1>2. /\ task \in [Tasks -> TaskType] /\ proc \in [Procs -> ProcType] /\ agentFree \in [Agents -> Nat]
        /\ turn \in [Procs -> {"none", "running", "settled", "failed"}]
        /\ task[t] \in TaskType /\ RecordOk(Now, t, task[t])
    BY OfTask DEF PoolInv, Whole, Typed, Now, PermitsCounted
  <1>3. /\ p \in Procs /\ proc[p].life = "closing" /\ a \in Agents
        /\ nx \in Spawning \cup {"idle", "sweep", "lock"}
    BY <1>1, <1>2 DEF RecordOk, Now, PoolInv, Whole, Kept
  <1>4. ta \in [Tasks -> TaskType] /\ \A u \in Tasks : Told(task[u], ta[u])
    BY <1>2, TellIs DEF Told
  <1>5. M.proc = pr /\ LivesAs(M, p, "closed")
    BY <1>3 DEF LivesAs
  <1>6. Becomes(Now, M, p, "closed")
    BY <1>5, LifeBecomes
  <1>7. M.proof = IF proc[p].key = None THEN proof ELSE [proof EXCEPT ![proc[p].key] = None]
    OBVIOUS
  <1> HIDE DEF ta, pr, pf, af
  <1>8. /\ r \in TaskType /\ r.op = task[t].op /\ r.key = task[t].key /\ r.agent = task[t].agent
        /\ r.closes = None /\ r.next = "idle"
    <2>1. PICK x \in TaskType : x = ta[t] /\ Told(task[t], x)
      BY <1>4
    <2> QED
      BY Zenon, <2>1 DEF TaskType, Told, Steps
  <1> HIDE DEF r
  <1>9. /\ r2 \in TaskType /\ r2.op = task[t].op /\ r2.key = task[t].key /\ r2.agent = task[t].agent
        /\ r2.closes = None /\ r2.next = "idle" /\ r2.pc = nx
    BY <1>2, <1>8 DEF TaskType
  <1> HIDE DEF r2
  <1>10. /\ M.sessions = sessions /\ M.lock = lock /\ M.proof = pf /\ M.proc = pr
         /\ M.task = [ta EXCEPT ![t] = r2]
    OBVIOUS
  <1> HIDE DEF M
  <1>11. /\ M.task \in [Tasks -> TaskType] /\ M.task[t] = r2 /\ \A u \in Tasks : u # t => M.task[u] = ta[u]
         /\ M.proc[p].life = "closed" /\ \A q \in Procs : q # p => M.proc[q] = proc[q]
    BY <1>2, <1>3, <1>4, <1>6, <1>9, <1>10 DEF Becomes, Now
  <1>12. RecordOk(M, t, r2)
    BY <1>1, <1>2, <1>3, <1>9, <1>10 DEF RecordOk, Spawning, Now
  <1>13. ProcGoes(Now, M, t, r2)
    <2>1. LocksBy(Now, M, t)
      BY <1>10 DEF LocksBy, Now, PoolInv, Whole, Typed
    <2>2. \A u \in Tasks : u # t => Told(task[u], M.task[u])
      BY <1>4, <1>11
    <2> QED
      BY <1>1, <1>3, <1>6, <1>7, <1>9, <1>10, <1>11, <1>12, <2>1, <2>2 DEF ProcGoes, Now
  <1>14. Whole(M)
    BY <1>13, GoneKeeps DEF PoolInv
  <1>15. From(M, ta, t)
    <2>1. LocksBy(Now, Now', t)
      BY <1>1, Locks
    <2>2. LocksBy(M, Now', t)
      BY <1>10, <2>1 DEF LocksBy, Now
    <2> QED
      BY <1>3, <1>4, <1>9, <1>10, <1>11, <2>2 DEF From, Spawning
  <1>16. /\ LeftOver(M, free + 1, af, t) /\ older' \subseteq older
         /\ PerAgent > 0 => /\ IsQueued(task'[t]) <=> nx = "globalWait"
                            /\ nx = "globalWait" => task'[t].agent = task[t].agent
    <2>0. nx # "idle" => lock' = lock
      BY <1>1
    <2>1. CASE nx = "idle" /\ Return(b, t)
      <3>1. ReturnsFrom(M, free + 1, af, ta, t)
        BY <1>9, <1>10, <1>11, <1>15, <2>1 DEF ReturnsFrom, Owns
      <3>2. LeftOver(M, free + 1, af, t) /\ task'[t] = Resting /\ older' = older
        BY <1>14, <3>1, ReturnFrom
      <3> QED
        BY <2>1, <3>2 DEF IsQueued, Resting
    <2>2. CASE nx = "sweep" /\ SweepOn(b, t, r)
      <3>1. /\ r.op = "turn" => r.key \in Keys /\ r.agent \in Agents /\ lock'[r.key] = t
            /\ r.op = "oneshot" => r.key = None
        BY <1>1, <1>2, <1>8, <2>0, <2>2 DEF RecordOk, Now
      <3>2. SweepsFrom(M, free + 1, af, ta, t, r)
        BY <1>8, <1>9, <1>10, <1>11, <1>15, <2>2, <3>1 DEF SweepsFrom
      <3>3. LeftOver(M, free + 1, af, t) /\ older' \subseteq older /\ ~IsQueued(task'[t])
        BY <1>14, <3>2, SweepFrom
      <3> QED
        BY <2>2, <3>3
    <2>3. CASE nx = "acquire" /\ EnterAcquire(b, t, r)
      <3>1. /\ r.op \in {"turn", "oneshot"} /\ r.agent \in Agents
            /\ r.op = "turn" => r.key \in Keys /\ lock'[r.key] = t /\ sessions[r.key] = None
            /\ r.op = "oneshot" => r.key = None
        BY <1>1, <1>2, <1>8, <2>0, <2>3 DEF RecordOk, Now, Spawning
      <3>2. PICK step \in {"agentWait", "globalWait"} : Queues(b, t, r, step) /\ (step = "globalWait" => PerAgent = 0)
        BY <2>3, AcquireIs
      <3>3. QueuesFrom(M, free + 1, af, ta, t, r, step)
        BY <1>8, <1>9, <1>10, <1>11, <1>15, <2>3, <3>1, <3>2 DEF QueuesFrom
      <3>4. LeftOver(M, free + 1, af, t) /\ older' \subseteq older /\ (IsQueued(task'[t]) <=> step = "globalWait")
        BY <1>14, <3>3, QueueFrom
      <3> QED
        BY <2>3, <3>2, <3>4, BoundAssumption
    <2>4. CASE nx \notin {"idle", "sweep", "acquire"} /\ Goto(b, t, r, nx)
      <3>1. /\ proc' = pr /\ proof' = pf /\ free' = free + 1 /\ agentFree' = af
            /\ task' = [ta EXCEPT ![t] = r2] /\ UNCHANGED <<sessions, older>>
        BY <2>4, GotoIs DEF r2
      <3>2. nx \in {"agentWait", "globalWait", "lock"}
        BY <1>3, <2>4 DEF Spawning
      <3>3. RecordOk(Now', t, r2)
        BY <1>9, <1>10, <1>12, <2>0, <3>1, <3>2 DEF RecordOk, Spawning, Now
      <3>4. MovesFrom(M, free + 1, af, ta, t, r2)
        BY <1>9, <1>10, <1>11, <1>15, <3>1, <3>2, <3>3 DEF MovesFrom
      <3>5. LeftOver(M, free + 1, af, t) /\ task'[t] = r2
        BY <1>14, <3>4, MoveFrom
      <3> QED
        BY <1>9, <3>1, <3>5 DEF IsQueued
    <2> QED
      BY <1>1, <2>1, <2>2, <2>3, <2>4
  <1>17. SameHolders(proc, proc', {p}) /\ proc[p].life \in Holding /\ proc'[p].life \notin Holding
    <2>1. SameHolders(M.proc, proc', {})
      BY <1>16 DEF LeftOver
    <2> QED
      BY <1>3, <1>11, <2>1 DEF SameHolders, Holding
  <1>18. PerAgent > 0 => SameQueue(task, task', {})
    <2>1. \A u \in Tasks : u # t => Told(task[u], task'[u])
      BY <1>4, <1>11, <1>16 DEF LeftOver
    <2> QED
      BY <1>1, <1>16, <2>1 DEF SameQueue, IsQueued, Told
  <1>19. PermitsCounted(proc', task', free + 1, af)
    BY Zenon, <1>3, <1>17, <1>18, CountReleases DEF PoolInv, af
  <1>20. Marks'
    <2>1. turn' = [turn EXCEPT ![p] = how] \/ turn' = [turn EXCEPT ![p] = turn[p]]
      BY Zenon, <1>1
    <2> QED
      BY <1>2, <1>16, <2>1 DEF PoolInv, Marks
  <1> QED
    BY <1>16, <1>19, <1>20 DEF PoolInv, LeftOver

-----------------------------------------------------------------------------
(* The theorem. *)

LEMMA PoolInit == Init => PoolInv
  <1> SUFFICES ASSUME Init PROVE PoolInv
    OBVIOUS
  <1> USE DEF Init
  <1>1. \A t \in Tasks : task[t] = Resting
    OBVIOUS
  <1>2. Typed(Now)
    BY RestingOk DEF Typed, Now, Unused, ProcType, Lives
  <1>3. Registry(Now) /\ Proofs(Now)
    BY DEF Registry, Proofs, Now
  <1>4. Kept(Now)
    BY DEF Kept, Now, Unused
  <1>5. Apart(Now)
    BY Zenon, <1>1, RestingOk DEF Apart, Now, Resting
  <1>6. \A t \in Tasks : TaskOk(Now, t)
    BY <1>1, RestingOk DEF TaskOk, Now
  <1>7. Held(proc) = {} /\ (\A a : HeldBy(proc, a) = {}) /\ \A a : Queued(task, a) = {}
    BY DEF Held, HeldBy, Queued, Unused, Resting
  <1>8. PermitsCounted(proc, task, free, agentFree)
    <2>1. IsFiniteSet(Held(proc)) /\ Cardinality(Held(proc)) = 0
      BY <1>7, FS_EmptySet
    <2>2. \A a : /\ Cardinality(HeldBy(proc, a)) = 0
                /\ IsFiniteSet(Queued(task, a)) /\ Cardinality(Queued(task, a)) = 0
      BY Zenon, <1>7, FS_EmptySet
    <2>3. free \in Nat /\ agentFree \in [Agents -> Nat] /\ free + 0 = Capacity
      BY BoundAssumption
    <2>4. \A a \in Agents : agentFree[a] + 0 + 0 = PerAgent
      BY BoundAssumption
    <2> QED
      BY Zenon, <2>1, <2>2, <2>3, <2>4 DEF PermitsCounted
  <1>9. Marks
    BY DEF Marks
  <1> QED
    BY <1>2, <1>3, <1>4, <1>5, <1>6, <1>8, <1>9 DEF PoolInv, Whole

LEMMA PoolNext == PoolInv /\ [Next]_vars => PoolInv'
  <1> SUFFICES ASSUME PoolInv, [Next]_vars PROVE PoolInv'
    OBVIOUS
  <1>1. ASSUME NEW t \in Tasks, Begin(t) PROVE PoolInv'
    <2>1. ASSUME NEW k \in Keys, BeginTurn(t, k) \/ BeginReset(t, k) PROVE PoolInv'
      BY <2>1, BeginTurnKeeps
    <2>2. ASSUME NEW k \in Keys, NEW op \in {"cancel", "reset"}, BeginCancel(t, k, op) PROVE PoolInv'
      BY <2>2, BeginCancelKeeps
    <2>3. ASSUME NEW a \in Agents, BeginOneshot(t, a) PROVE PoolInv'
      BY <2>3, BeginOneshotKeeps
    <2>4. ASSUME NEW op \in {"reap", "reload", "close"}, NEW keys \in SUBSET Keys, BeginSweep(t, op, keys) PROVE PoolInv'
      BY <2>4, BeginSweepKeeps
    <2>5. ASSUME NEW a \in Agents, Reload(t, a) PROVE PoolInv'
      <3>1. {k \in Registered : AgentOf[k] = a /\ ~Busy(sessions[k])} \in SUBSET Keys
        BY DEF Registered
      <3> QED
        BY <2>4, <2>5, <3>1 DEF Reload
    <2>6. CASE Reap(t)
      <3>1. PICK stale \in SUBSET Registered : BeginSweep(t, "reap", {k \in stale : ~Busy(sessions[k])})
        BY Zenon, <2>6 DEF Reap
      <3>2. {k \in stale : ~Busy(sessions[k])} \in SUBSET Keys
        BY DEF Registered
      <3> QED
        BY <2>4, <3>1, <3>2
    <2>7. CASE CloseAll(t)
      <3>1. Registered \in SUBSET Keys
        BY DEF Registered
      <3> QED
        BY <2>4, <2>7, <3>1 DEF CloseAll
    <2> QED
      BY <1>1, <2>1, <2>2, <2>3, <2>5, <2>6, <2>7 DEF Begin
  <1>2. ASSUME NEW t \in Tasks, Step(t) PROVE PoolInv'
    <2>1. ASSUME NEW p \in Procs, TakeGlobalPermit(t, p) PROVE PoolInv'
      BY <2>1, TakeGlobalPermitKeeps
    <2>2. ASSUME NEW how \in {"settled", "failed"}, CloseDone(t, how) PROVE PoolInv'
      BY <2>2, CloseDoneKeeps
    <2> QED
      BY <1>2, <2>1, <2>2, TurnReusesKeeps, TurnFindsDeadKeeps, TurnRestartsKeeps, TurnSpawnsKeeps, TakeAgentPermitKeeps,
         AcquireTimesOutKeeps, OpenSucceedsKeeps, OpenFailsKeeps, TurnReturnsKeeps, AfterFailureKeeps, TurnTimesOutKeeps,
         CancelKeeps, ResetDropsKeeps DEF Step
  <1>3. ASSUME NEW p \in Procs, TurnSettles(p, "settled") \/ TurnSettles(p, "failed") \/ ProcessExits(p) PROVE PoolInv'
    BY <1>3, TurnSettlesKeeps
  <1>4. CASE UNCHANGED vars
    BY <1>4 DEF vars, PoolInv, Now, Marks
  <1> QED
    BY <1>1, <1>2, <1>3, <1>4 DEF Next

LEMMA PoolImplies == PoolInv => PoolIsExact
  <1> SUFFICES ASSUME PoolInv PROVE PoolIsExact
    OBVIOUS
  <1> USE DEF PoolInv, Whole
  <1>1. TypeOK
    BY DEF TypeOK, Typed, Now, PermitsCounted, Marks, ProcType, TaskType
  <1>2. Holders = Held(proc)
    BY DEF Holders, Held
  <1>3. PermitsAccounted
    BY <1>2 DEF PermitsAccounted, PermitsCounted
  <1>4. AgentPermitsAccounted
    <2>1. ASSUME NEW a \in Agents
          PROVE  /\ {p \in Holders : proc[p].agent = a} = HeldBy(proc, a)
                 /\ {t \in Tasks : HalfWay(t) /\ task[t].agent = a} = Queued(task, a)
      BY DEF Holders, HeldBy, HalfWay, Queued
    <2> QED
      BY Zenon, <2>1 DEF AgentPermitsAccounted, PermitsCounted
  <1>5. NoOrphanProcess
    <2> SUFFICES ASSUME NEW p \in Holders
                 PROVE  CASE proc[p].life = "closing" -> Cardinality({t \in Tasks : task[t].closes = p}) = 1
                          [] proc[p].life = "opening" -> \E t \in Tasks : task[t].pc = "open" /\ task[t].proc = p
                          [] OTHER -> \/ proc[p].key # None /\ sessions[proc[p].key] = p
                                      \/ \E t \in Tasks : /\ task[t].op = "oneshot" /\ task[t].proc = p
                                                          /\ task[t].pc \in {"prompt", "abort"}
      BY DEF NoOrphanProcess
    <2>1. p \in Procs /\ proc[p].life \in {"opening", "live", "dead", "closing"}
      BY DEF Holders
    <2>2. CASE proc[p].life = "closing"
      <3>1. PICK t \in Tasks : task[t].closes = p
        BY <2>1, <2>2 DEF Kept, Now
      <3>2. \A u \in Tasks : u # t => task[u].closes # p
        BY <2>1, <3>1, NoneAssumption DEF Apart, Now
      <3>3. {u \in Tasks : task[u].closes = p} = {t}
        BY <3>1, <3>2
      <3> QED
        BY <2>2, <3>3, FS_Singleton
    <2>3. CASE proc[p].life = "opening"
      BY <2>1, <2>3 DEF Kept, Now
    <2>4. CASE proc[p].life \in {"live", "dead"}
      BY <2>1, <2>4 DEF Kept, Now, Owns
    <2> QED
      BY <2>1, <2>2, <2>3, <2>4
  <1>6. OneTurnPerConversation
    <2> SUFFICES ASSUME NEW t \in Tasks, task[t].op = "turn", task[t].pc \in {"open", "prompt", "abort"}
                 PROVE  /\ lock[task[t].key] = t
                        /\ \A u \in Tasks : (u # t /\ task[u].op = "turn" /\ task[u].key = task[t].key)
                                               => task[u].pc \in {"lock", "idle"}
      BY DEF OneTurnPerConversation
    <2>1. \A u \in Tasks : task[u].op = "turn" /\ task[u].pc \notin {"idle", "lock"} => lock[task[u].key] = u
      BY DEF TaskOk, RecordOk, Now
    <2> QED
      BY <2>1
  <1>7. ProofDiesWithDrop
    BY DEF ProofDiesWithDrop, Proofs, Now
  <1> QED
    BY <1>1, <1>3, <1>4, <1>5, <1>6, <1>7 DEF PoolIsExact

(* For any agents, conversations, tasks, processes and bounds: whatever is  *)
(* dropped, evicted, refused, timed out or respawned, in any interleaving,  *)
(* both bounds are exact, every process that has a permit is exactly one    *)
(* task's or registered, a conversation has one turn at a time under its    *)
(* lock, and a process that was told to go proves nothing (runtime.py       *)
(* _acquire, _release_permits, _drop_session, _spawn_session).              *)
THEOREM PoolIsExactAlways == Spec => []PoolIsExact
  <1>1. Init => PoolInv
    BY PoolInit
  <1>2. PoolInv /\ [Next]_vars => PoolInv'
    BY PoolNext
  <1>3. PoolInv => PoolIsExact
    BY PoolImplies
  <1> QED
    BY <1>1, <1>2, <1>3, PTL DEF Spec

-----------------------------------------------------------------------------
(* The login: while the refresher is up and has succeeded once, what is     *)
(* left of the login at its next attempt is the margin less an interval for *)
(* every attempt that failed.                                               *)
LoginTypes == now \in Nat /\ expires \in Nat /\ next \in Nat /\ inRow \in Nat

WakesInTime == up => now <= next /\ next <= now + Interval

BridgedSoFar == (up /\ settled /\ ~planted) => expires + (inRow + 1) * Interval > next + Margin

LoginInv == LoginTypes /\ WakesInTime /\ BridgedSoFar

LEMMA LoginNumbers ==
    /\ Lifetime \in Nat /\ Interval \in Nat /\ Interval >= 1 /\ Margin \in Nat /\ Own \in Nat
    /\ Lifetime > Margin
  BY LoginAssumption

LEMMA SameAhead ==
    ASSUME NEW e \in Nat, NEW n \in Nat, NEW i \in Nat, NEW m \in Nat, e > n + m
    PROVE  e + i > (n + i) + m
  OBVIOUS

LEMMA OneIntervalMore ==
    ASSUME NEW n \in Nat
    PROVE  (n + 1) * Interval \in Nat /\ (n + 2) * Interval = (n + 1) * Interval + Interval
           /\ (n + 1) * Interval >= Interval
  BY LoginAssumption

LEMMA FewerIntervals ==
    ASSUME NEW n \in Nat, n <= Bridged
    PROVE  (n + 1) * Interval <= (Bridged + 1) * Interval
  BY LoginAssumption

LEMMA LoginStarts ==
    ASSUME LoginInit
    PROVE  LoginInv
  <1>1. expires \in Nat
    BY LoginNumbers DEF LoginInit
  <1>2. LoginTypes
    BY <1>1 DEF LoginInit, LoginTypes
  <1>3. now <= next /\ next <= now + Interval
    BY LoginNumbers DEF LoginInit
  <1>4. ~settled
    BY Zenon DEF LoginInit
  <1> QED
    BY <1>2, <1>3, <1>4 DEF LoginInv, WakesInTime, BridgedSoFar

(* A step that leaves inRow and next alone, or puts next later by what it   *)
(* counts.                                                                  *)
LEMMA LoginStays ==
    ASSUME LoginInv, LoginNext
    PROVE  LoginInv'
  <1> USE LoginNumbers DEF LoginInv, LoginTypes
  <1>0. inRow \in Nat /\ (inRow + 1) * Interval \in Nat /\ (inRow + 2) * Interval = (inRow + 1) * Interval + Interval
        /\ (inRow + 1) * Interval >= Interval
    BY OneIntervalMore
  <1>1. CASE Tick
    BY <1>1 DEF Tick, WakesInTime, BridgedSoFar
  <1>2. CASE Refreshes
    <2>1. expires' \in Nat /\ expires' > now + Margin
      <3>1. CASE AboutTo
        <4>1. expires' = now + Lifetime
          BY <1>2, <3>1 DEF Refreshes
        <4> QED
          BY <4>1
      <3>2. CASE ~AboutTo
        <4>1. expires' = expires
          BY <1>2, <3>2 DEF Refreshes
        <4> QED
          BY <3>2, <4>1 DEF AboutTo, Left
      <3> QED
        BY <3>1, <3>2
    <2>2. next' = now + Interval /\ inRow' = 0 /\ now' = now
      BY <1>2 DEF Refreshes
    <2>3. (inRow' + 1) * Interval = Interval
      BY <2>2
    <2>4. expires' + Interval > (now + Interval) + Margin
      <3>1. now \in Nat /\ Interval \in Nat /\ Margin \in Nat
        OBVIOUS
      <3> QED
        BY <2>1, <3>1, SameAhead
    <2>5. expires' + (inRow' + 1) * Interval > next' + Margin
      BY <2>2, <2>3, <2>4, Zenon
    <2>6. LoginTypes' /\ now' <= next' /\ next' <= now' + Interval
      BY <2>1, <2>2
    <2> QED
      BY <2>5, <2>6, Zenon DEF WakesInTime, BridgedSoFar
  <1>3. CASE Fails
    <2>1. LoginTypes' /\ WakesInTime'
      BY <1>3 DEF Fails, WakesInTime
    <2>2. BridgedSoFar'
      <3> SUFFICES ASSUME settled, ~planted
                   PROVE  expires + (inRow' + 1) * Interval > next' + Margin
        BY <1>3 DEF Fails, BridgedSoFar
      <3>1. inRow' = inRow + 1 /\ next' = now + Interval /\ up /\ now >= next
        BY <1>3 DEF Fails, Due
      <3>2. (inRow' + 1) * Interval = (inRow + 1) * Interval + Interval
        BY <1>0, <3>1
      <3> QED
        BY <1>0, <3>1, <3>2 DEF BridgedSoFar, WakesInTime
    <2> QED
      BY <2>1, <2>2
  <1>4. CASE Crashes
    <2>1. LoginTypes' /\ WakesInTime'
      BY <1>4 DEF Crashes, WakesInTime
    <2>2. inRow' = inRow + 1 /\ next' = now + 1 /\ now >= next /\ up
      BY <1>4 DEF Crashes, Due
    <2>3. (inRow' + 1) * Interval = (inRow + 1) * Interval + Interval
      BY <1>0, <2>2
    <2>4. BridgedSoFar'
      BY <1>0, <1>4, <2>2, <2>3 DEF Crashes, BridgedSoFar, WakesInTime
    <2> QED
      BY <2>1, <2>4
  <1>5. CASE Plant \/ Stops
    <2>1. UNCHANGED <<now, expires, next>> /\ (inRow' = inRow \/ inRow' = 0)
      BY <1>5 DEF Plant, Stops
    <2>2. (up' => up) /\ ~(up' /\ ~planted')
      <3>1. CASE Plant
        <4>1. up' = up
          BY <3>1 DEF Plant
        <4>2. planted'
          BY <3>1, Zenon DEF Plant
        <4> QED
          BY <4>1, <4>2, Zenon
      <3>2. CASE Stops
        BY <3>2, Zenon DEF Stops
      <3> QED
        BY <1>5, <3>1, <3>2
    <2> QED
      BY <2>1, <2>2 DEF WakesInTime, BridgedSoFar
  <1>6. CASE LogsIn
    <2>1. expires' = now + Lifetime /\ UNCHANGED <<now, next, inRow, up>>
      BY <1>6 DEF LogsIn
    <2>2. up => next <= now + Interval
      BY DEF WakesInTime
    <2> QED
      BY <1>0, <2>1, <2>2 DEF WakesInTime, BridgedSoFar
  <1>7. CASE Starts
    <2>1. UNCHANGED <<now, expires, inRow>> /\ next' = now
      BY <1>7 DEF Starts
    <2>2. ~settled'
      BY <1>7, Zenon DEF Starts
    <2> QED
      BY <2>1, <2>2 DEF WakesInTime, BridgedSoFar
  <1> QED
    BY <1>1, <1>2, <1>3, <1>4, <1>5, <1>6, <1>7 DEF LoginNext

(* The property of the runs, for any interval and any margin that covers    *)
(* the attempts it bridges (auth_refresh.py AuthRefresher.run): a process   *)
(* that may only read the login finds one it need not refresh.              *)
THEOREM LoginIsUsableAlways == LoginSpec => []LoginIsUsable
  <1>1. LoginInit => LoginInv
    BY LoginStarts
  <1>2. LoginInv /\ [LoginNext]_loginVars => LoginInv'
    <2>1. ASSUME LoginInv, UNCHANGED loginVars PROVE LoginInv'
      BY <2>1 DEF loginVars, LoginInv, LoginTypes, WakesInTime, BridgedSoFar
    <2> QED
      BY <2>1, LoginStays
  <1>3. LoginInv => LoginIsUsable
    <2> SUFFICES ASSUME LoginInv, up, settled, ~planted, inRow <= Bridged
                 PROVE  Left > Own
      BY DEF LoginIsUsable
    <2> USE LoginAssumption
    <2>1. (inRow + 1) * Interval <= (Bridged + 1) * Interval
      BY FewerIntervals DEF LoginInv, LoginTypes
    <2>2. (inRow + 1) * Interval \in Nat /\ (Bridged + 1) * Interval \in Nat
      BY OneIntervalMore DEF LoginInv, LoginTypes
    <2>3. expires > now + Own
      BY <2>1, <2>2 DEF LoginInv, LoginTypes, WakesInTime, BridgedSoFar
    <2> QED
      BY <2>3 DEF Left, LoginInv, LoginTypes
  <1> QED
    BY <1>1, <1>2, <1>3, PTL DEF LoginSpec

-----------------------------------------------------------------------------
(* The repeat guard, for any calls, limits and answers, however the calls   *)
(* under way overlap.  A call keeps its family while families are only      *)
(* added, though likeness is not transitive: the first that matches stays   *)
(* the first.                                                               *)

LEMMA LeastNumber ==
    ASSUME NEW T, T \subseteq Nat, T # {}
    PROVE  \E x \in T : \A y \in T : x <= y
  <1> DEFINE R == {ss \in Nat \X Nat : ss[1] < ss[2]}
  <1>1. IsWellFoundedOn(R, Nat)
    BY NatLessThanWellFounded DEF OpToRel
  <1>2. \A x, y \in Nat : <<y, x>> \in R <=> y < x
    OBVIOUS
  <1> HIDE DEF R
  <1>3. PICK x \in T : \A y \in T : ~(<<y, x>> \in R)
    BY Zenon, <1>1, WFMin
  <1>4. \A y \in T : x <= y
    <2> SUFFICES ASSUME NEW y \in T
                 PROVE  x <= y
      OBVIOUS
    <2>1. x \in Nat /\ y \in Nat
      OBVIOUS
    <2>2. ~(y < x)
      BY Zenon, <1>2, <1>3, <2>1
    <2> QED
      BY <2>1, <2>2
  <1> QED
    BY <1>4

LEMMA MinIsLeast ==
    ASSUME NEW S, S \subseteq Nat, S # {}
    PROVE  Min(S) \in S /\ \A y \in S : Min(S) <= y
  BY Zenon, LeastNumber DEF Min

LEMMA LimitIsNat == Limit("repeat") \in Nat /\ Limit("calls") \in Nat
  BY GuardAssumption DEF Limit, Defaults, Kinds

LEMMA SimilarToItself ==
    ASSUME NEW c \in Calls
    PROVE  Similar(Words[c], Words[c])
  <1> DEFINE n == Cardinality(Words[c])
  <1>1. n \in Nat
    BY GuardAssumption, FS_CardinalityType
  <1>2. Max({n, n}) = n
    BY <1>1 DEF Max
  <1>3. Words[c] \cap Words[c] = Words[c]
    OBVIOUS
  <1>4. 10 * n >= 9 * n
    BY <1>1
  <1> HIDE DEF n
  <1>5. 10 * n >= 9 * Max({n, n})
    BY <1>2, <1>4, Zenon
  <1> QED
    BY Zenon, <1>3, <1>5 DEF Similar, n

(* The families as a value, so that one lemma serves before and after. *)
Family == [tool : {ToolOf[c] : c \in Calls}, words : {Words[c] : c \in Calls}, times : Nat,
           answer : Answers \cup {NoCall}, unchanged : BOOLEAN]
MatchingIn(fs, c) == {i \in DOMAIN fs : fs[i].tool = ToolOf[c] /\ Similar(fs[i].words, Words[c])}
FoundIn(fs, c) == IF MatchingIn(fs, c) # {} THEN Min(MatchingIn(fs, c)) ELSE Len(fs) + 1

(* What is in fs is in gs, the counts and answers aside. *)
Goes(fs, gs) ==
    /\ Len(fs) <= Len(gs)
    /\ \A k \in 1..Len(fs) : gs[k].tool = fs[k].tool /\ gs[k].words = fs[k].words

LEMMA FoundIsFirst ==
    ASSUME NEW fs \in Seq(Family), NEW c, MatchingIn(fs, c) # {}
    PROVE  /\ FoundIn(fs, c) \in MatchingIn(fs, c) /\ FoundIn(fs, c) \in 1..Len(fs)
           /\ \A y \in MatchingIn(fs, c) : FoundIn(fs, c) <= y
  <1>1. MatchingIn(fs, c) \subseteq 1..Len(fs)
    BY DEF MatchingIn
  <1>2. MatchingIn(fs, c) \subseteq Nat
    BY <1>1
  <1>3. FoundIn(fs, c) = Min(MatchingIn(fs, c))
    BY DEF FoundIn
  <1> QED
    BY <1>1, <1>2, <1>3, MinIsLeast

LEMMA FoundStays ==
    ASSUME NEW fs \in Seq(Family), NEW gs \in Seq(Family), NEW c, Goes(fs, gs), MatchingIn(fs, c) # {}
    PROVE  MatchingIn(gs, c) # {} /\ FoundIn(gs, c) = FoundIn(fs, c)
  <1>1. FoundIn(fs, c) \in 1..Len(fs) /\ FoundIn(fs, c) \in MatchingIn(fs, c)
        /\ \A y \in MatchingIn(fs, c) : FoundIn(fs, c) <= y
    BY FoundIsFirst
  <1>2. Len(fs) \in Nat /\ Len(gs) \in Nat /\ DOMAIN fs = 1..Len(fs) /\ DOMAIN gs = 1..Len(gs)
    OBVIOUS
  <1>3. FoundIn(fs, c) \in MatchingIn(gs, c)
    BY <1>1, <1>2 DEF MatchingIn, Goes
  <1>4. FoundIn(gs, c) \in MatchingIn(gs, c) /\ FoundIn(gs, c) \in 1..Len(gs) /\ FoundIn(gs, c) <= FoundIn(fs, c)
    BY <1>3, FoundIsFirst
  <1>5. FoundIn(gs, c) \in 1..Len(fs)
    BY <1>1, <1>2, <1>4
  <1>6. FoundIn(gs, c) \in MatchingIn(fs, c)
    BY <1>2, <1>4, <1>5 DEF MatchingIn, Goes
  <1>7. FoundIn(fs, c) <= FoundIn(gs, c)
    BY <1>1, <1>6
  <1> QED
    BY <1>1, <1>2, <1>3, <1>4, <1>5, <1>7

LEMMA NewIsFound ==
    ASSUME NEW fs \in Seq(Family), NEW gs \in Seq(Family), NEW c \in Calls, Goes(fs, gs), MatchingIn(fs, c) = {},
           Len(gs) = Len(fs) + 1, gs[Len(gs)].tool = ToolOf[c], gs[Len(gs)].words = Words[c]
    PROVE  MatchingIn(gs, c) # {} /\ FoundIn(gs, c) = Len(fs) + 1
  <1>1. Len(fs) \in Nat /\ Len(gs) \in Nat /\ DOMAIN fs = 1..Len(fs) /\ DOMAIN gs = 1..Len(gs)
    OBVIOUS
  <1>2. Len(gs) \in MatchingIn(gs, c)
    BY <1>1, SimilarToItself DEF MatchingIn
  <1>3. FoundIn(gs, c) \in MatchingIn(gs, c) /\ FoundIn(gs, c) \in 1..Len(gs)
    BY <1>2, FoundIsFirst
  <1>4. FoundIn(gs, c) \notin 1..Len(fs)
    BY <1>1, <1>3 DEF MatchingIn, Goes
  <1> QED
    BY <1>1, <1>2, <1>3, <1>4

(* The invariant: a call under way awaits its own family; what a call was   *)
(* answered this turn is its family's one answer while that is unchanged;   *)
(* a family at the limit has been refused.                                  *)
GuardTypes ==
    /\ families \in Seq(Family) /\ flight \in [Ids -> Calls \cup {NoCall}] /\ awaited \in [Ids -> Nat]
    /\ got \in [Calls -> SUBSET Answers] /\ calls \in Nat /\ ran \in Nat

AwaitsItsFamily ==
    \A i \in Ids : flight[i] # NoCall =>
        MatchingIn(families, flight[i]) # {} /\ awaited[i] = FoundIn(families, flight[i])

GotItsAnswer ==
    \A c \in Calls : got[c] # {} =>
        /\ Matching(c) # {} /\ families[Found(c)].answer # NoCall
        /\ families[Found(c)].unchanged => got[c] \subseteq {families[Found(c)].answer}

JudgedUnchanged ==
    verdict.is \in {"refused", "bans"} =>
        verdict.of \in Calls /\ Matching(verdict.of) # {} /\ families[Found(verdict.of)].unchanged

AtTheLimit(f) == Limit("repeat") > 0 /\ f.unchanged /\ f.times >= Limit("repeat")
RefusedAtTheLimit == \A j \in 1..Len(families) : AtTheLimit(families[j]) => j \in refused

InBudget == ran <= calls /\ RunsWithinBudget

GuardInv ==
    /\ GuardTypes /\ AwaitsItsFamily /\ GotItsAnswer /\ JudgedUnchanged /\ BanFollowsARefusal /\ RefusedAtTheLimit
    /\ InBudget

LEMMA FoundInIs ==
    ASSUME NEW c
    PROVE  /\ Matching(c) = MatchingIn(families, c) /\ Found(c) = FoundIn(families, c)
           /\ Matching(c)' = MatchingIn(families', c) /\ Found(c)' = FoundIn(families', c)
  BY DEF Matching, Found, MatchingIn, FoundIn

LEMMA FirstOfItsFamily ==
    ASSUME GuardTypes, NEW c, Matching(c) # {}
    PROVE  Found(c) \in 1..Len(families) /\ families[Found(c)] \in Family
  <1>1. FoundIn(families, c) \in 1..Len(families)
    BY FoundInIs, FoundIsFirst DEF GuardTypes
  <1> QED
    BY <1>1, FoundInIs DEF GuardTypes

(* A turn that has just begun. *)
LEMMA AfreshIsJust ==
    ASSUME calls = 0, families = <<>>, awaited = [i \in Ids |-> 0], flight = [i \in Ids |-> NoCall], verdict = NoVerdict,
           ran = 0, got = [c \in Calls |-> {}]
    PROVE  GuardInv
  <1>1. GuardTypes
    BY DEF GuardTypes
  <1>2. verdict.is = "none"
    BY DEF NoVerdict
  <1>3. RefusedAtTheLimit
    BY DEF RefusedAtTheLimit
  <1>4. InBudget
    BY LimitIsNat DEF InBudget, RunsWithinBudget
  <1> QED
    BY <1>1, <1>2, <1>3, <1>4 DEF GuardInv, AwaitsItsFamily, GotItsAnswer, JudgedUnchanged, BanFollowsARefusal

(* Counted(c): the family counts one more, or begins. *)
CountedAs(c, gs) ==
    LET j == FoundIn(families, c) IN
    /\ gs \in Seq(Family) /\ Goes(families, gs) /\ MatchingIn(gs, c) # {} /\ FoundIn(gs, c) = j /\ j \in 1..Len(gs)
    /\ \A k \in 1..Len(gs) : k # j => k \in 1..Len(families) /\ gs[k] = families[k]
    /\ \/ /\ MatchingIn(families, c) # {}
          /\ gs[j].times = families[j].times + 1 /\ gs[j].answer = families[j].answer
          /\ gs[j].unchanged = families[j].unchanged
       \/ MatchingIn(families, c) = {} /\ gs[j].times = 1 /\ gs[j].unchanged = TRUE

LEMMA OneMore ==
    ASSUME NEW f \in Family
    PROVE  LET g == [f EXCEPT !.times = @ + 1] IN
           /\ g \in Family /\ g.times = f.times + 1 /\ g.answer = f.answer /\ g.unchanged = f.unchanged
           /\ g.tool = f.tool /\ g.words = f.words
  <1> DEFINE n == f.times + 1
  <1>1. n \in Nat
    BY DEF Family
  <1> HIDE DEF n
  <1> DEFINE g == [f EXCEPT !.times = n]
  <1>2. g \in Family /\ g.times = n /\ g.answer = f.answer /\ g.unchanged = f.unchanged
        /\ g.tool = f.tool /\ g.words = f.words
    BY <1>1 DEF Family
  <1> QED
    BY <1>2 DEF n

LEMMA CountedIs ==
    ASSUME GuardTypes, NEW c \in Calls
    PROVE  CountedAs(c, Counted(c))
  <1> DEFINE j == FoundIn(families, c)
  <1>0. families \in Seq(Family) /\ Len(families) \in Nat /\ DOMAIN families = 1..Len(families)
    BY DEF GuardTypes
  <1>1. CASE MatchingIn(families, c) # {}
    <2>1. j \in 1..Len(families) /\ families[j] \in Family
      BY <1>0, <1>1, FoundIsFirst
    <2> HIDE DEF j
    <2> DEFINE g == [families[j] EXCEPT !.times = @ + 1]
               gs == [families EXCEPT ![j] = g]
    <2>2. Counted(c) = gs
      BY <1>1, FoundInIs DEF Counted, j
    <2>3. g \in Family /\ g.times = families[j].times + 1 /\ g.answer = families[j].answer
          /\ g.unchanged = families[j].unchanged /\ g.tool = families[j].tool /\ g.words = families[j].words
      BY <2>1, OneMore
    <2> HIDE DEF g
    <2>4. gs \in Seq(Family) /\ Len(gs) = Len(families) /\ gs[j] = g
          /\ \A k \in 1..Len(families) : k # j => gs[k] = families[k]
      BY <1>0, <2>1, <2>3
    <2> HIDE DEF gs
    <2>5. Goes(families, gs)
      BY <1>0, <2>3, <2>4 DEF Goes
    <2>6. MatchingIn(gs, c) # {} /\ FoundIn(gs, c) = FoundIn(families, c)
      BY <1>0, <1>1, <2>4, <2>5, FoundStays
    <2> QED
      BY <1>1, <2>1, <2>2, <2>3, <2>4, <2>5, <2>6 DEF CountedAs, j
  <1>2. CASE MatchingIn(families, c) = {}
    <2>1. j = Len(families) + 1
      BY <1>2 DEF FoundIn
    <2> HIDE DEF j
    <2>2. Newcomer(c) \in Family /\ Newcomer(c).tool = ToolOf[c] /\ Newcomer(c).words = Words[c]
          /\ Newcomer(c).times = 0 /\ Newcomer(c).unchanged = TRUE
      BY DEF Newcomer, Family
    <2> DEFINE all == Append(families, Newcomer(c))
    <2>3. all \in Seq(Family) /\ Len(all) = Len(families) + 1 /\ all[j] = Newcomer(c)
          /\ \A k \in 1..Len(families) : all[k] = families[k]
      BY <1>0, <2>1, <2>2
    <2>4. Counted(c) = [all EXCEPT ![j].times = @ + 1]
      BY <1>2, FoundInIs DEF Counted, j
    <2> HIDE DEF all
    <2> DEFINE g == [all[j] EXCEPT !.times = @ + 1]
               gs == [all EXCEPT ![j] = g]
    <2>5. Counted(c) = gs
      BY <2>4
    <2>6. g \in Family /\ g.times = all[j].times + 1 /\ g.unchanged = all[j].unchanged
          /\ g.tool = all[j].tool /\ g.words = all[j].words
      BY <2>2, <2>3, OneMore
    <2> HIDE DEF g
    <2>7. j \in 1..Len(all)
      BY <1>0, <2>1, <2>3
    <2>8. gs \in Seq(Family) /\ Len(gs) = Len(all) /\ gs[j] = g /\ \A k \in 1..Len(all) : k # j => gs[k] = all[k]
      BY <2>3, <2>6, <2>7
    <2> HIDE DEF gs
    <2>9. Goes(families, gs) /\ j \in 1..Len(gs)
      BY <1>0, <2>1, <2>3, <2>7, <2>8 DEF Goes
    <2>10. gs[j].times = 1 /\ gs[j].unchanged = TRUE /\ gs[Len(gs)].tool = ToolOf[c] /\ gs[Len(gs)].words = Words[c]
      BY <2>1, <2>2, <2>3, <2>6, <2>8
    <2>11. MatchingIn(gs, c) # {} /\ FoundIn(gs, c) = Len(families) + 1
      BY <1>0, <1>2, <2>3, <2>8, <2>9, <2>10, NewIsFound
    <2>12. \A k \in 1..Len(gs) : k # j => k \in 1..Len(families) /\ gs[k] = families[k]
      BY <1>0, <2>1, <2>3, <2>8
    <2> QED
      BY <1>2, <2>1, <2>5, <2>8, <2>9, <2>10, <2>11, <2>12 DEF CountedAs, j
  <1> QED
    BY <1>1, <1>2

(* Families that only go on keep the family of every call that has one. *)
LEMMA FamilyStays ==
    ASSUME GuardTypes, families' \in Seq(Family), Goes(families, families'), NEW c, Matching(c) # {}
    PROVE  Matching(c)' # {} /\ Found(c)' = Found(c)
  BY FoundInIs, FoundStays DEF GuardTypes

LEMMA JudgeKeeps ==
    ASSUME GuardInv, NEW i \in Ids, NEW c \in Calls, flight[i] = NoCall, Judge(i, c), ~Spent(calls + 1),
           calls' = calls + 1, got' = got
    PROVE  GuardInv'
  <1> USE DEF GuardInv
  <1> DEFINE j == Found(c)
             f == Counted(c)[j]
  <1>1. families' = Counted(c) /\ awaited' = [awaited EXCEPT ![i] = j] /\ verdict' = [is |-> Repeats(f), of |-> c]
    BY DEF Judge, Says
  <1>2. \/ Repeats(f) = "runs" /\ flight' = [flight EXCEPT ![i] = c] /\ ran' = ran + 1 /\ refused' = refused
        \/ Repeats(f) = "refused" /\ refused' = refused \cup {j} /\ flight' = flight /\ ran' = ran
        \/ Repeats(f) = "bans" /\ refused' = refused /\ flight' = flight /\ ran' = ran
    BY DEF Judge, Runs
  <1>3. CountedAs(c, families')
    BY <1>1, CountedIs
  <1>4. families' \in Seq(Family) /\ Goes(families, families') /\ Matching(c)' # {} /\ Found(c)' = j
        /\ j \in 1..Len(families') /\ f = families'[j]
    BY <1>1, <1>3, FoundInIs DEF CountedAs
  <1>5. \A k \in 1..Len(families') : k # j => k \in 1..Len(families) /\ families'[k] = families[k]
    BY <1>3, FoundInIs DEF CountedAs
  <1>6. \/ /\ Matching(c) # {} /\ f.times = families[j].times + 1 /\ f.answer = families[j].answer
           /\ f.unchanged = families[j].unchanged
        \/ Matching(c) = {} /\ f.times = 1 /\ f.unchanged = TRUE
    BY <1>1, <1>3, FoundInIs DEF CountedAs
  <1>7. f \in Family /\ (Matching(c) # {} => j \in 1..Len(families) /\ families[j] \in Family)
    BY <1>4, FirstOfItsFamily
  <1> HIDE DEF f, j
  <1>8. GuardTypes'
    <2>1. awaited' \in [Ids -> Nat]
      BY <1>1, <1>4 DEF GuardTypes
    <2>2. flight' \in [Ids -> Calls \cup {NoCall}] /\ ran' \in Nat /\ calls' \in Nat
      BY <1>2 DEF GuardTypes
    <2> QED
      BY <1>4, <2>1, <2>2 DEF GuardTypes
  <1>9. AwaitsItsFamily'
    <2> SUFFICES ASSUME NEW h \in Ids, flight'[h] # NoCall
                 PROVE  MatchingIn(families', flight'[h]) # {} /\ awaited'[h] = FoundIn(families', flight'[h])
      BY DEF AwaitsItsFamily
    <2>1. CASE h = i
      <3>1. flight'[h] = c /\ awaited'[h] = j
        BY <1>1, <1>2, <2>1 DEF GuardTypes
      <3> QED
        BY <1>4, <3>1, FoundInIs
    <2>2. CASE h # i
      <3>1. flight'[h] = flight[h] /\ awaited'[h] = awaited[h]
        BY <1>1, <1>2, <2>2 DEF GuardTypes
      <3>2. MatchingIn(families, flight[h]) # {} /\ awaited[h] = FoundIn(families, flight[h])
        BY <3>1 DEF AwaitsItsFamily
      <3>3. MatchingIn(families', flight[h]) # {} /\ FoundIn(families', flight[h]) = awaited[h]
        BY <1>4, <3>2, FoundStays DEF GuardTypes
      <3> QED
        BY <3>1, <3>3
    <2> QED
      BY <2>1, <2>2
  <1>10. GotItsAnswer'
    <2> SUFFICES ASSUME NEW d \in Calls, got[d] # {}
                 PROVE  /\ Matching(d)' # {} /\ families'[Found(d)'].answer # NoCall
                        /\ families'[Found(d)'].unchanged => got[d] \subseteq {families'[Found(d)'].answer}
      BY DEF GotItsAnswer
    <2>1. /\ Matching(d) # {} /\ families[Found(d)].answer # NoCall
          /\ families[Found(d)].unchanged => got[d] \subseteq {families[Found(d)].answer}
      BY DEF GotItsAnswer
    <2>2. Matching(d)' # {} /\ Found(d)' = Found(d) /\ Found(d) \in 1..Len(families)
      BY <1>4, <2>1, FamilyStays, FirstOfItsFamily
    <2>3. families'[Found(d)].answer = families[Found(d)].answer
          /\ families'[Found(d)].unchanged = families[Found(d)].unchanged
      <3>1. CASE Found(d) = j
        <4>1. Matching(c) # {}
          <5> SUFFICES ASSUME Matching(c) = {} PROVE FALSE
            OBVIOUS
          <5>1. j = Len(families) + 1
            BY DEF Found, j
          <5> QED
            BY <2>2, <3>1, <5>1 DEF GuardTypes
        <4> QED
          BY <1>4, <1>6, <3>1, <4>1
      <3>2. CASE Found(d) # j
        <4>1. Found(d) \in 1..Len(families')
          BY <1>4, <2>2 DEF Goes, GuardTypes
        <4> QED
          BY <1>5, <3>2, <4>1
      <3> QED
        BY <3>1, <3>2
    <2> QED
      BY <2>1, <2>2, <2>3
  <1>11. Repeats(f) \in {"refused", "bans"} => AtTheLimit(f)
    BY DEF Repeats, AtTheLimit
  <1>12. AtTheLimit(f) => Repeats(f) \in {"refused", "bans"}
    BY DEF Repeats, AtTheLimit
  <1>13. verdict'.is = Repeats(f) /\ verdict'.of = c
    BY <1>1
  <1>14. JudgedUnchanged'
    <2> SUFFICES ASSUME verdict'.is \in {"refused", "bans"}
                 PROVE  Matching(c)' # {} /\ families'[Found(c)'].unchanged
      BY <1>13 DEF JudgedUnchanged
    <2> QED
      BY <1>4, <1>11, <1>13 DEF AtTheLimit
  <1>15. Repeats(f) = "bans" => j \in refused
    <2> SUFFICES ASSUME Repeats(f) = "bans"
                 PROVE  j \in refused
      OBVIOUS
    <2>1. f.times > Limit("repeat") /\ Limit("repeat") > 0 /\ AtTheLimit(f)
      BY DEF Repeats, AtTheLimit
    <2>2. f.times # 1
      BY <1>7, <2>1, LimitIsNat
    <2>3. Matching(c) # {} /\ f.times = families[j].times + 1 /\ f.unchanged = families[j].unchanged
      BY <1>6, <2>2
    <2>4. families[j].times \in Nat /\ j \in 1..Len(families)
      BY <1>7, <2>3 DEF Family
    <2>5. families[j].times >= Limit("repeat")
      BY <2>1, <2>3, <2>4, LimitIsNat
    <2>6. families[j].unchanged
      BY <2>1, <2>3 DEF AtTheLimit
    <2> QED
      BY <2>1, <2>4, <2>5, <2>6 DEF RefusedAtTheLimit, AtTheLimit
  <1>16. BanFollowsARefusal'
    <2> SUFFICES ASSUME Repeats(f) = "bans"
                 PROVE  Found(c)' \in refused'
      BY <1>13, FoundInIs DEF BanFollowsARefusal
    <2> QED
      BY <1>2, <1>4, <1>15
  <1>17. RefusedAtTheLimit'
    <2> SUFFICES ASSUME NEW k \in 1..Len(families'), AtTheLimit(families'[k])
                 PROVE  k \in refused'
      BY DEF RefusedAtTheLimit, AtTheLimit
    <2>1. refused \subseteq refused'
      BY <1>2
    <2>2. CASE k = j
      BY <1>2, <1>4, <1>12, <1>15, <2>2
    <2>3. CASE k # j
      BY <1>5, <2>1, <2>3 DEF RefusedAtTheLimit
    <2> QED
      BY <2>2, <2>3
  <1>18. InBudget'
    <2>1. ran \in Nat /\ calls \in Nat /\ ran <= calls
      BY DEF GuardTypes, InBudget
    <2>2. ran' <= calls'
      BY <1>2, <2>1
    <2>3. Limit("calls") > 0 => calls + 1 < Limit("calls")
      BY <2>1, LimitIsNat DEF Spent
    <2>4. ran' \in Nat /\ (Limit("calls") > 0 => ran' < Limit("calls"))
      BY <1>2, <2>1, <2>3, LimitIsNat
    <2> QED
      BY <2>2, <2>4 DEF InBudget, RunsWithinBudget
  <1> QED
    BY <1>8, <1>9, <1>10, <1>14, <1>16, <1>17, <1>18

(* The families stay as they are, and what is judged is no repetition. *)
LEMMA QuietIsJust ==
    ASSUME GuardInv, UNCHANGED <<families, awaited, ran, got, refused>>, verdict'.is \notin {"refused", "bans"},
           calls' \in {calls, calls + 1}, flight' \in [Ids -> Calls \cup {NoCall}],
           \A i \in Ids : flight'[i] = flight[i] \/ flight'[i] = NoCall
    PROVE  GuardInv'
  <1> USE DEF GuardInv
  <1>1. GuardTypes'
    BY DEF GuardTypes
  <1>2. AwaitsItsFamily'
    <2> SUFFICES ASSUME NEW i \in Ids, flight'[i] # NoCall
                 PROVE  MatchingIn(families', flight'[i]) # {} /\ awaited'[i] = FoundIn(families', flight'[i])
      BY DEF AwaitsItsFamily
    <2>1. flight'[i] = flight[i]
      OBVIOUS
    <2>2. MatchingIn(families, flight[i]) # {} /\ awaited[i] = FoundIn(families, flight[i])
      BY <2>1 DEF AwaitsItsFamily
    <2> QED
      BY <2>1, <2>2
  <1>3. GotItsAnswer'
    BY Zenon DEF GotItsAnswer, Matching, Found
  <1>4. JudgedUnchanged' /\ BanFollowsARefusal'
    BY DEF JudgedUnchanged, BanFollowsARefusal
  <1>5. RefusedAtTheLimit'
    BY DEF RefusedAtTheLimit, AtTheLimit
  <1>6. InBudget'
    <2>1. ran <= calls' /\ ran' = ran
      BY DEF GuardTypes, InBudget
    <2> QED
      BY <2>1 DEF InBudget, RunsWithinBudget
  <1> QED
    BY <1>1, <1>2, <1>3, <1>4, <1>5, <1>6

LEMMA ToolCallKeeps ==
    ASSUME GuardInv, NEW i \in Ids, NEW c \in Calls, ToolCall(i, c)
    PROVE  GuardInv'
  <1>1. CASE \E what \in {"stopped", "banned", "spent"} : Refuses(what, c) /\ calls' \in {calls, calls + 1}
    <2>1. PICK what \in {"stopped", "banned", "spent"} : Refuses(what, c) /\ calls' \in {calls, calls + 1}
      BY <1>1
    <2>2. verdict'.is \notin {"refused", "bans"}
      BY <2>1 DEF Refuses, Says
    <2>3. got' = got
      BY DEF ToolCall
    <2> QED
      BY <2>1, <2>2, <2>3, QuietIsJust DEF Refuses, GuardInv, GuardTypes
  <1>2. CASE Judge(i, c) /\ ~Spent(calls + 1) /\ calls' = calls + 1
    BY <1>2, JudgeKeeps DEF ToolCall
  <1> QED
    BY <1>1, <1>2 DEF ToolCall

LEMMA ToolResultKeeps ==
    ASSUME GuardInv, NEW i \in Ids, NEW text \in Answers, ToolResult(i, text)
    PROVE  GuardInv'
  <1> USE DEF GuardInv
  <1> DEFINE c == flight[i]
             j == Found(c)
             f == Heard(families[j], text)
  <1>1. c # NoCall /\ flight' = [flight EXCEPT ![i] = NoCall] /\ awaited' = [awaited EXCEPT ![i] = 0]
        /\ got' = [got EXCEPT ![c] = @ \cup {text}] /\ verdict' = NoVerdict /\ UNCHANGED <<calls, ran, refused>>
    BY DEF ToolResult
  <1>2. c \in Calls /\ Matching(c) # {} /\ awaited[i] = j
    BY <1>1, FoundInIs DEF GuardTypes, AwaitsItsFamily
  <1>3. j \in 1..Len(families) /\ families[j] \in Family
    BY <1>2, FirstOfItsFamily
  <1>4. families' = [families EXCEPT ![j] = f]
    BY <1>2, <1>3 DEF ToolResult
  <1>5. text # NoCall
    BY GuardAssumption
  <1>6. /\ f \in Family /\ f.tool = families[j].tool /\ f.words = families[j].words /\ f.times = families[j].times
        /\ f.answer = (IF families[j].answer = NoCall THEN text ELSE families[j].answer)
        /\ f.unchanged => families[j].unchanged /\ f.answer = text
    <2>1. PICK z \in Family : z = families[j]
      BY <1>3
    <2>2. CASE z.answer = NoCall
      <3>1. f = [z EXCEPT !.answer = text]
        BY <2>1, <2>2 DEF Heard
      <3> HIDE DEF f
      <3> QED
        BY <2>1, <2>2, <3>1 DEF Family
    <2>3. CASE z.answer # NoCall /\ z.answer # text
      <3>1. f = [z EXCEPT !.unchanged = FALSE]
        BY <2>1, <2>3 DEF Heard
      <3> HIDE DEF f
      <3> QED
        BY Zenon, <2>1, <2>3, <3>1 DEF Family
    <2>4. CASE z.answer # NoCall /\ z.answer = text
      BY <2>1, <2>4 DEF Heard
    <2> QED
      BY <2>2, <2>3, <2>4
  <1> HIDE DEF f, j, c
  <1>7. families' \in Seq(Family) /\ Len(families') = Len(families) /\ families'[j] = f
        /\ \A k \in 1..Len(families) : k # j => families'[k] = families[k]
    BY <1>3, <1>4, <1>6 DEF GuardTypes
  <1>8. Goes(families, families')
    BY <1>6, <1>7 DEF Goes, GuardTypes
  <1>9. got' \in [Calls -> SUBSET Answers]
    BY <1>1, <1>2 DEF GuardTypes
  <1>10. flight' \in [Ids -> Calls \cup {NoCall}] /\ awaited' \in [Ids -> Nat]
    BY <1>1 DEF GuardTypes
  <1>11. GuardTypes'
    BY <1>1, <1>7, <1>9, <1>10 DEF GuardTypes
  <1>12. AwaitsItsFamily'
    <2> SUFFICES ASSUME NEW h \in Ids, flight'[h] # NoCall
                 PROVE  MatchingIn(families', flight'[h]) # {} /\ awaited'[h] = FoundIn(families', flight'[h])
      BY DEF AwaitsItsFamily
    <2>1. flight'[h] = flight[h] /\ awaited'[h] = awaited[h]
      BY <1>1 DEF GuardTypes
    <2>2. MatchingIn(families, flight[h]) # {} /\ awaited[h] = FoundIn(families, flight[h])
      BY <2>1 DEF AwaitsItsFamily
    <2>3. MatchingIn(families', flight[h]) # {} /\ FoundIn(families', flight[h]) = awaited[h]
      BY <1>7, <1>8, <2>2, FoundStays DEF GuardTypes
    <2> QED
      BY <2>1, <2>3
  <1>13. GotItsAnswer'
    <2> SUFFICES ASSUME NEW d \in Calls, got'[d] # {}
                 PROVE  /\ Matching(d)' # {} /\ families'[Found(d)'].answer # NoCall
                        /\ families'[Found(d)'].unchanged => got'[d] \subseteq {families'[Found(d)'].answer}
      BY DEF GotItsAnswer
    <2>1. got[d] # {} => /\ Matching(d) # {} /\ families[Found(d)].answer # NoCall
                         /\ families[Found(d)].unchanged => got[d] \subseteq {families[Found(d)].answer}
      BY DEF GotItsAnswer
    <2>2. Matching(d) # {} => Matching(d)' # {} /\ Found(d)' = Found(d) /\ Found(d) \in 1..Len(families)
      BY <1>7, <1>8, FamilyStays, FirstOfItsFamily
    <2>3. CASE d = c
      <3>1. got'[d] = got[d] \cup {text} /\ Found(d) = j /\ Matching(d) # {}
        BY <1>1, <1>2, <2>3 DEF GuardTypes, j
      <3>2. f.answer # NoCall
        BY <1>5, <1>6
      <3>3. f.unchanged => got'[d] \subseteq {f.answer}
        BY <1>6, <2>1, <3>1
      <3> QED
        BY <1>7, <2>2, <3>1, <3>2, <3>3
    <2>4. CASE d # c
      <3>1. got'[d] = got[d]
        BY <1>1, <2>4 DEF GuardTypes
      <3>2. CASE Found(d) = j
        BY <1>6, <1>7, <2>1, <2>2, <3>1, <3>2
      <3>3. CASE Found(d) # j
        BY <1>7, <2>1, <2>2, <3>1, <3>3
      <3> QED
        BY <3>2, <3>3
    <2> QED
      BY <2>3, <2>4
  <1>14. verdict'.is = "none"
    BY <1>1 DEF NoVerdict
  <1>15. JudgedUnchanged' /\ BanFollowsARefusal'
    BY <1>14 DEF JudgedUnchanged, BanFollowsARefusal
  <1>16. RefusedAtTheLimit'
    <2> SUFFICES ASSUME NEW k \in 1..Len(families), AtTheLimit(families'[k])
                 PROVE  k \in refused
      BY <1>1, <1>7 DEF RefusedAtTheLimit, AtTheLimit
    <2>1. CASE k = j
      <3>1. AtTheLimit(families[j])
        BY <1>6, <1>7, <2>1 DEF AtTheLimit
      <3> QED
        BY <2>1, <3>1 DEF RefusedAtTheLimit
    <2>2. CASE k # j
      BY <1>7, <2>2 DEF RefusedAtTheLimit
    <2> QED
      BY <2>1, <2>2
  <1>17. InBudget'
    BY <1>1 DEF InBudget, RunsWithinBudget
  <1> QED
    BY <1>11, <1>12, <1>13, <1>15, <1>16, <1>17

LEMMA ToolErrorKeeps ==
    ASSUME GuardInv, NEW i \in Ids, ToolError(i)
    PROVE  GuardInv'
  <1>1. flight' = [flight EXCEPT ![i] = NoCall] /\ verdict'.is = "none"
        /\ UNCHANGED <<calls, families, awaited, ran, got, refused>>
    BY DEF ToolError, NoVerdict
  <1>2. flight' \in [Ids -> Calls \cup {NoCall}] /\ \A h \in Ids : flight'[h] = flight[h] \/ flight'[h] = NoCall
    BY <1>1 DEF GuardInv, GuardTypes
  <1> QED
    BY <1>1, <1>2, QuietIsJust

LEMMA AgentStartKeeps ==
    ASSUME GuardInv, AgentStart
    PROVE  GuardInv'
  <1>1. flight' = [i \in Ids |-> NoCall]
    BY DEF AgentStart, GuardInv, GuardTypes
  <1>2. GuardTypes'
    BY <1>1 DEF AgentStart, GuardTypes
  <1>3. verdict'.is = "none"
    BY DEF AgentStart, NoVerdict
  <1>4. RefusedAtTheLimit'
    BY DEF AgentStart, RefusedAtTheLimit
  <1>5. InBudget'
    BY LimitIsNat DEF AgentStart, InBudget, RunsWithinBudget
  <1>6. AwaitsItsFamily' /\ GotItsAnswer'
    BY <1>1 DEF AgentStart, AwaitsItsFamily, GotItsAnswer
  <1> QED
    BY <1>2, <1>3, <1>4, <1>5, <1>6 DEF GuardInv, JudgedUnchanged, BanFollowsARefusal

(* The property of the runs, for any calls, words, answers and limits       *)
(* (loopguard.ts Guard.call, Guard.result): a call whose answers move is    *)
(* not refused as a repetition, a ban follows a refusal, and a turn runs    *)
(* fewer calls than its budget.                                             *)
THEOREM GuardIsJustAlways == GuardSpec => []GuardIsJust
  <1>1. GuardInit => GuardInv
    BY AfreshIsJust DEF GuardInit
  <1>2. GuardInv /\ [GuardNext]_gVars => GuardInv'
    <2>1. ASSUME GuardInv, UNCHANGED gVars PROVE GuardInv'
      <3> USE <2>1 DEF GuardInv, gVars
      <3>1. GuardTypes' /\ AwaitsItsFamily' /\ RefusedAtTheLimit' /\ InBudget'
        BY DEF GuardTypes, AwaitsItsFamily, RefusedAtTheLimit, AtTheLimit, InBudget, RunsWithinBudget
      <3>2. GotItsAnswer'
        BY Zenon DEF GotItsAnswer, Matching, Found
      <3>3. JudgedUnchanged' /\ BanFollowsARefusal'
        BY DEF JudgedUnchanged, BanFollowsARefusal, Matching, Found
      <3> QED
        BY <3>1, <3>2, <3>3
    <2> QED
      BY <2>1, AgentStartKeeps, ToolCallKeeps, ToolResultKeeps, ToolErrorKeeps DEF GuardNext
  <1>3. GuardInv => GuardIsJust
    <2> SUFFICES ASSUME GuardInv
                 PROVE  OnceMovedLeftAlone
      BY DEF GuardInv, InBudget, GuardIsJust
    <2> SUFFICES ASSUME verdict.is \in {"refused", "bans"}
                 PROVE  Cardinality(got[verdict.of]) < 2
      BY DEF OnceMovedLeftAlone
    <2>1. verdict.of \in Calls /\ families[Found(verdict.of)].unchanged
      BY DEF GuardInv, JudgedUnchanged
    <2>2. CASE got[verdict.of] = {}
      BY <2>2, FS_EmptySet
    <2>3. CASE got[verdict.of] # {}
      <3>1. PICK a : got[verdict.of] \subseteq {a}
        BY <2>1, <2>3 DEF GuardInv, GotItsAnswer
      <3>2. got[verdict.of] = {a}
        BY <2>3, <3>1
      <3>3. Cardinality({a}) = 1
        BY FS_Singleton
      <3> QED
        BY <3>2, <3>3
    <2> QED
      BY <2>2, <2>3
  <1> QED
    BY <1>1, <1>2, <1>3, PTL DEF GuardSpec

-----------------------------------------------------------------------------
(* Profiles: the flow and the unit change together, and only under the      *)
(* lock, whose holder is the one reload under way; a process is replaced    *)
(* with the turn it runs.                                                   *)

UnderWay(r) == reload[r].pc \in {"swaps", "drops"}

ReloadSteps == {"none", "waiting", "swaps", "drops", "done"}
ReloadType == [pc : ReloadSteps, at : Nat, drops : SUBSET Convs]

(* Who reloads has the lock, and read every profile. *)
OneReload ==
    /\ holder \in Reloads \cup {Absent}
    /\ reload \in [Reloads -> ReloadType] /\ spoiled \in [Reloads -> BOOLEAN]
    /\ \A r \in Reloads : UnderWay(r) => holder = r /\ ~spoiled[r]

OneSpec == flow = unit /\ (holder = Absent => unit = listed)

RunsItsOwn ==
    /\ DOMAIN process = Convs /\ DOMAIN turnOf = Convs
    /\ RunsWithItsProfile

ProfilesInv == OneReload /\ OneSpec /\ RunsItsOwn

LEMMA ProfilesStart == ProfilesInit => ProfilesInv
  BY ReloadAssumption
     DEF ProfilesInit, ProfilesInv, OneReload, OneSpec, RunsItsOwn, RunsWithItsProfile, UnderWay, ReloadType,
         ReloadSteps, Rest, Idle

(* One reload's record becomes x. *)
LEMMA ReloadBecomes ==
    ASSUME OneReload, NEW r \in Reloads, NEW x \in ReloadType, NEW sp \in BOOLEAN,
           reload' = [reload EXCEPT ![r] = x], spoiled' = [spoiled EXCEPT ![r] = sp],
           x.pc \in {"swaps", "drops"} => holder' = r /\ ~sp,
           holder' \in Reloads \cup {Absent},
           \A s \in Reloads : s # r => (holder = s => holder' = s)
    PROVE  OneReload'
  <1>1. reload' \in [Reloads -> ReloadType] /\ spoiled' \in [Reloads -> BOOLEAN]
    BY DEF OneReload
  <1>2. ASSUME NEW s \in Reloads, UnderWay(s)'
        PROVE  (holder = s)' /\ ~spoiled'[s]
    <2>1. CASE s = r
      BY <1>2, <2>1 DEF OneReload, UnderWay
    <2>2. CASE s # r
      BY <1>2, <2>2 DEF OneReload, UnderWay
    <2> QED
      BY <2>1, <2>2
  <1> QED
    BY <1>1, <1>2 DEF OneReload

LEMMA SpoiledStays ==
    ASSUME OneReload, NEW r \in Reloads, UNCHANGED spoiled
    PROVE  spoiled[r] \in BOOLEAN /\ spoiled' = [spoiled EXCEPT ![r] = spoiled[r]]
  BY DEF OneReload

LEMMA SignalsKeeps ==
    ASSUME ProfilesInv, NEW r \in Reloads, Signals(r)
    PROVE  ProfilesInv'
  <1> USE DEF ProfilesInv
  <1>1. PICK z \in ReloadType : z = reload[r]
    BY DEF OneReload
  <1> DEFINE x == [z EXCEPT !.pc = "waiting"]
  <1>2. x \in ReloadType /\ x.pc = "waiting"
    BY DEF ReloadType, ReloadSteps
  <1>3. reload' = [reload EXCEPT ![r] = x] /\ UNCHANGED <<holder, spoiled>>
    BY <1>1 DEF Signals
  <1> HIDE DEF x
  <1>4. OneReload'
    BY Zenon, <1>2, <1>3, SpoiledStays, ReloadBecomes DEF OneReload
  <1> QED
    BY <1>4 DEF Signals, OneSpec, RunsItsOwn, RunsWithItsProfile

LEMMA ReadsKeeps ==
    ASSUME ProfilesInv, NEW r \in Reloads, Reads(r)
    PROVE  ProfilesInv'
  <1> USE DEF ProfilesInv
  <1> DEFINE sp == \E a \in Units : disk[a] \in Bad
             failed == Refused(Units \ Engine) \/ Refused(Engine) \/ Doubled
             x == IF failed THEN [Rest EXCEPT !.pc = "done"] ELSE [Rest EXCEPT !.pc = "swaps", !.at = 1]
  <1>1. reload' = [reload EXCEPT ![r] = x] /\ spoiled' = [spoiled EXCEPT ![r] = sp]
        /\ holder = Absent /\ holder' = (IF failed THEN Absent ELSE r)
        /\ UNCHANGED <<flow, unit, listed, process, turnOf>>
    BY DEF Reads
  <1>2. x \in ReloadType /\ (x.pc \in {"swaps", "drops"} => ~failed)
    BY Zenon DEF ReloadType, ReloadSteps, Rest
  <1>3. ~failed => ~sp
    BY DEF Refused
  <1>4. sp \in BOOLEAN /\ failed \in BOOLEAN
    OBVIOUS
  <1> HIDE DEF sp, failed, x
  <1>5. OneReload'
    BY Zenon, <1>1, <1>2, <1>3, <1>4, ReloadBecomes, ReloadAssumption
  <1> QED
    BY <1>1, <1>5, ReloadAssumption DEF OneSpec, RunsItsOwn, RunsWithItsProfile

LEMMA SwapsKeeps ==
    ASSUME ProfilesInv, NEW r \in Reloads, Swaps(r)
    PROVE  ProfilesInv'
  <1> USE DEF ProfilesInv
  <1>1. PICK z \in ReloadType : z = reload[r]
    BY DEF OneReload
  <1> DEFINE a == Order[reload[r].at]
             ds == {c \in Convs : OwnerOf[c] = a /\ process[c] # Absent /\ turnOf[c].pc # "running"}
             x == [z EXCEPT !.pc = "drops", !.drops = ds]
  <1>2. x \in ReloadType /\ x.pc = "drops"
    BY Zenon DEF ReloadType, ReloadSteps
  <1>3. reload' = [reload EXCEPT ![r] = x] /\ UNCHANGED <<holder, spoiled, listed, process, turnOf>>
    BY Zenon, <1>1 DEF Swaps, OneReload
  <1>4. flow' = [flow EXCEPT ![a] = store[a]] /\ unit' = [unit EXCEPT ![a] = store[a]]
    BY DEF Swaps, SwapsBoth
  <1>5. holder = r /\ ~spoiled[r]
    BY DEF Swaps, OneReload, UnderWay
  <1> HIDE DEF x, a, ds
  <1>6. OneReload'
    BY Zenon, <1>2, <1>3, <1>5, SpoiledStays, ReloadBecomes DEF OneReload
  <1>7. OneSpec'
    BY <1>3, <1>4, <1>5, ReloadAssumption DEF OneSpec
  <1> QED
    BY <1>3, <1>6, <1>7 DEF RunsItsOwn, RunsWithItsProfile

LEMMA DropsKeeps ==
    ASSUME ProfilesInv, NEW r \in Reloads, NEW c \in Convs, DropsSession(r, c)
    PROVE  ProfilesInv'
  <1> USE DEF ProfilesInv
  <1>1. PICK z \in ReloadType : z = reload[r]
    BY DEF OneReload
  <1> DEFINE x == [z EXCEPT !.drops = z.drops \ {c}]
  <1>2. x \in ReloadType /\ x.pc = z.pc
    BY DEF ReloadType
  <1>3. reload' = [reload EXCEPT ![r] = x] /\ UNCHANGED <<holder, spoiled, flow, unit, listed>>
    BY <1>1 DEF DropsSession
  <1>4. z.pc = "drops" /\ holder = r /\ ~spoiled[r]
    BY <1>1 DEF DropsSession, OneReload, UnderWay
  <1> HIDE DEF x
  <1>5. OneReload'
    BY Zenon, <1>2, <1>3, <1>4, SpoiledStays, ReloadBecomes DEF OneReload
  <1>6. RunsItsOwn'
    <2> DEFINE t == IF turnOf[c].pc = "running" THEN Idle ELSE turnOf[c]
    <2>1. process' = [process EXCEPT ![c] = Absent] /\ turnOf' = [turnOf EXCEPT ![c] = t]
      BY DEF DropsSession
    <2>2. t.pc # "running"
      BY DEF Idle
    <2> HIDE DEF t
    <2> QED
      BY <2>1, <2>2 DEF RunsItsOwn, RunsWithItsProfile
  <1> QED
    BY <1>3, <1>5, <1>6 DEF OneSpec

LEMMA NextUnitKeeps ==
    ASSUME ProfilesInv, NEW r \in Reloads, NextUnit(r)
    PROVE  ProfilesInv'
  <1> USE DEF ProfilesInv
  <1>1. PICK z \in ReloadType : z = reload[r]
    BY DEF OneReload
  <1> DEFINE n == z.at + 1
             x == [z EXCEPT !.pc = "swaps", !.at = n]
  <1>a. n \in Nat
    BY DEF ReloadType
  <1>3. reload' = [reload EXCEPT ![r] = x] /\ UNCHANGED <<holder, spoiled>>
    BY Zenon, <1>1 DEF NextUnit
  <1> HIDE DEF n
  <1>2. x \in ReloadType /\ x.pc = "swaps"
    BY Zenon, <1>a DEF ReloadType, ReloadSteps
  <1>4. holder = r /\ ~spoiled[r]
    BY DEF NextUnit, OneReload, UnderWay
  <1> HIDE DEF x
  <1>5. OneReload'
    BY Zenon, <1>2, <1>3, <1>4, SpoiledStays, ReloadBecomes DEF OneReload
  <1> QED
    BY <1>5 DEF NextUnit, OneSpec, RunsItsOwn, RunsWithItsProfile

LEMMA SyncsKeeps ==
    ASSUME ProfilesInv, NEW r \in Reloads, SyncsDirectory(r)
    PROVE  ProfilesInv'
  <1> USE DEF ProfilesInv
  <1> DEFINE x == [Rest EXCEPT !.pc = "done"]
  <1>1. x \in ReloadType /\ x.pc = "done"
    BY DEF ReloadType, ReloadSteps, Rest
  <1>2. reload' = [reload EXCEPT ![r] = x] /\ UNCHANGED <<spoiled, flow, unit, process, turnOf>>
        /\ holder' = Absent /\ listed' = unit
    BY DEF SyncsDirectory
  <1>3. holder = r
    BY DEF SyncsDirectory, OneReload, UnderWay
  <1> HIDE DEF x
  <1>4. OneReload'
    BY Zenon, <1>1, <1>2, <1>3, SpoiledStays, ReloadBecomes DEF OneReload
  <1> QED
    BY <1>2, <1>4 DEF OneSpec, RunsItsOwn, RunsWithItsProfile

LEMMA TurnKeeps ==
    ASSUME ProfilesInv, NEW c \in Convs, TurnBegins(c) \/ TurnRunsIn(c) \/ TurnEnds(c)
    PROVE  ProfilesInv'
  <1> USE DEF ProfilesInv
  <1>1. UNCHANGED engineSide
    BY DEF TurnBegins, TurnRunsIn, TurnEnds
  <1>2. OneReload' /\ OneSpec'
    BY <1>1 DEF engineSide, OneReload, OneSpec, UnderWay
  <1>3. CASE TurnBegins(c) \/ TurnEnds(c)
    BY <1>2, <1>3 DEF TurnBegins, TurnEnds, RunsItsOwn, RunsWithItsProfile, Idle
  <1>4. CASE TurnRunsIn(c)
    BY <1>2, <1>4 DEF TurnRunsIn, Matches, RunsItsOwn, RunsWithItsProfile
  <1> QED
    BY <1>3, <1>4

LEMMA EditKeeps ==
    ASSUME ProfilesInv, (\E a \in Units, v \in Versions : Edit(a, v)) \/ UNCHANGED pVars
    PROVE  ProfilesInv'
  BY DEF ProfilesInv, OneReload, OneSpec, RunsItsOwn, RunsWithItsProfile, UnderWay, Edit, engineSide, pVars

LEMMA ProfilesKeep == ProfilesInv /\ [ProfilesNext]_pVars => ProfilesInv'
  BY SignalsKeeps, ReadsKeeps, SwapsKeeps, DropsKeeps, NextUnitKeeps, SyncsKeeps, TurnKeeps, EditKeeps DEF ProfilesNext

(* What AllOrNone says of a step. *)
SwapsWhatWasRead == \A r \in Reloads : (reload[r].pc = "swaps" /\ flow' # flow /\ holder = r) => ~spoiled[r]

(* For any agents, conversations, versions and reloads side by side: a turn *)
(* runs in a process of its profile, between reloads an agent has one       *)
(* profile wherever it is looked up, and a reload that could not read every *)
(* profile swaps none (reloader.py, profiles/composite.py, pi/runtime.py).  *)
THEOREM ProfilesAreWholeAlways == ProfilesSpec => ProfilesAreWhole
  <1>1. ProfilesInit => ProfilesInv
    BY ProfilesStart
  <1>2. ProfilesInv /\ [ProfilesNext]_pVars => ProfilesInv'
    BY ProfilesKeep
  <1>3. ProfilesInv => RunsWithItsProfile /\ OneProfilePerAgent
    BY DEF ProfilesInv, OneSpec, RunsItsOwn, OneProfilePerAgent
  <1>4. ProfilesInv => SwapsWhatWasRead
    BY DEF ProfilesInv, OneReload, UnderWay, SwapsWhatWasRead
  <1>5. AllOrNone <=> [][SwapsWhatWasRead]_pVars
    BY DEF AllOrNone, SwapsWhatWasRead
  <1> QED
    BY <1>1, <1>2, <1>3, <1>4, <1>5, PTL DEF ProfilesSpec, ProfilesAreWhole

-----------------------------------------------------------------------------
(* Scopes: paths as they are written. *)

LEMMA PathOfOne ==
    ASSUME NEW S, NEW a \in S
    PROVE  <<a>> \in Seq(S) /\ Len(<<a>>) = 1 /\ <<a>>[1] = a
  OBVIOUS

LEMMA PathOfTwo ==
    ASSUME NEW S, NEW a \in S, NEW b \in S
    PROVE  <<a, b>> \in Seq(S) /\ Len(<<a, b>>) = 2 /\ <<a, b>>[1] = a /\ <<a, b>>[2] = b
  OBVIOUS

LEMMA PathOfThree ==
    ASSUME NEW S, NEW a \in S, NEW b \in S, NEW c \in S
    PROVE  <<a, b, c>> \in Seq(S) /\ Len(<<a, b, c>>) = 3 /\ <<a, b, c>>[1] = a /\ <<a, b, c>>[2] = b
  OBVIOUS

LEMMA PathAppended ==
    ASSUME NEW S, NEW s \in Seq(S), NEW e \in S
    PROVE  /\ Append(s, e) \in Seq(S) /\ Len(Append(s, e)) = Len(s) + 1
           /\ \A i \in 1..Len(s) : Append(s, e)[i] = s[i]
  OBVIOUS

(* The names paths are made of. *)
Names ==
    {"scratch", "files", "shared", "memory", "relay", "account", "profile", "library", "system", "tmp", "home",
     "auth.json"} \cup Launches \cup SharedDirs \cup {ConvOf[p] : p \in Launches}

(* The part of the scratch space that is a process's own. *)
OwnName(p) == IF ConvOf[p] # Memoryless THEN ConvOf[p] ELSE p

LEMMA NamesAreNames ==
    /\ {"scratch", "files", "shared", "memory", "relay", "account", "profile", "library", "system", "tmp", "home",
        "auth.json"} \subseteq Names
    /\ SharedDirs \subseteq Names
    /\ \A p \in Launches : p \in Names /\ ConvOf[p] \in Names /\ OwnName(p) \in Names
  BY DEF Names, OwnName

Levelled == {"conversation", "agent"}

(* What a process is given to write, wherever it runs. *)
MineOnly(p, w) ==
    \/ Len(w) = 3 /\ w[1] = "scratch" /\ w[2] = OwnName(p)
    \/ Len(w) = 2 /\ w[1] = "files" /\ ConvOf[p] # Memoryless /\ w[2] = ConvOf[p]
    \/ Len(w) = 2 /\ w[1] = "shared"
    \/ Len(w) = 2 /\ w[1] = "memory" /\ w[2] = ConvOf[p]
    \/ Len(w) = 3 /\ w[1] = "relay"

AgentsOwn(w) == Len(w) \in {1, 2, 3} /\ w[1] \in {"scratch", "files", "shared", "memory", "relay"}

OnHost(p, s) == IF HostOf[p] = "relay" THEN OnRelay(p, s) ELSE WithRuntime(p, s)

LEMMA ScopeWrites ==
    ASSUME NEW p \in Launches, NEW lv \in Levelled, NEW w \in Scope(p, lv).writable
    PROVE  /\ w \in Seq(Names)
           /\ AgentsOwn(w)
           /\ lv = "conversation" => MineOnly(p, w)
  <1> USE NamesAreNames
  <1> DEFINE sc == ScratchOf(p, lv)
  <1>1. \/ w = Append(sc, "tmp") \/ w = Append(sc, "home") \/ w \in FilesDir(p, lv)
        \/ \E n \in SharedDirs : w = <<"shared", n>>
    BY DEF Scope
  <1>2. CASE w = Append(sc, "tmp") \/ w = Append(sc, "home")
    <2>1. PICK e \in {"tmp", "home"} : w = Append(sc, e)
      BY <1>2
    <2>a. e \in Names
      OBVIOUS
    <2>b. sc \in Seq(Names) => /\ w \in Seq(Names) /\ Len(w) = Len(sc) + 1
                              /\ \A i \in 1..Len(sc) : w[i] = sc[i]
      BY <2>1, <2>a, PathAppended
    <2>2. CASE lv = "agent"
      <3>0. sc = <<"scratch">>
        BY <2>2 DEF ScratchOf
      <3>1. sc \in Seq(Names) /\ Len(sc) = 1 /\ sc[1] = "scratch"
        BY <3>0, PathOfOne
      <3> HIDE DEF sc
      <3>2. w \in Seq(Names) /\ Len(w) = 2 /\ w[1] = "scratch"
        BY <2>b, <3>1
      <3> QED
        BY <2>2, <3>2 DEF AgentsOwn
    <2>3. CASE lv = "conversation"
      <3>1. sc = <<"scratch", OwnName(p)>>
        BY <2>3 DEF ScratchOf, OwnName
      <3>2. sc \in Seq(Names) /\ Len(sc) = 2 /\ sc[1] = "scratch" /\ sc[2] = OwnName(p)
        BY <3>1, PathOfTwo
      <3> HIDE DEF sc
      <3>3. w \in Seq(Names) /\ Len(w) = 3 /\ w[1] = "scratch" /\ w[2] = OwnName(p)
        BY <2>b, <3>2
      <3> QED
        BY <2>3, <3>3 DEF AgentsOwn, MineOnly
    <2> QED
      BY <2>2, <2>3 DEF Levelled
  <1>3. CASE w \in FilesDir(p, lv)
    <2>1. CASE lv = "agent"
      <3>1. w = <<"files">>
        BY <1>3, <2>1 DEF FilesDir
      <3> QED
        BY <2>1, <3>1 DEF AgentsOwn
    <2>2. CASE lv = "conversation"
      <3>1. w = <<"files", ConvOf[p]>> /\ ConvOf[p] # Memoryless
        BY <1>3, <2>2 DEF FilesDir
      <3>2. w \in Seq(Names) /\ Len(w) = 2 /\ w[1] = "files" /\ w[2] = ConvOf[p]
        BY <3>1, PathOfTwo
      <3> QED
        BY <3>1, <3>2 DEF AgentsOwn, MineOnly
    <2> QED
      BY <2>1, <2>2 DEF Levelled
  <1>4. ASSUME NEW n \in SharedDirs, w = <<"shared", n>> PROVE w \in Seq(Names) /\ AgentsOwn(w) /\ MineOnly(p, w)
    <2>1. w \in Seq(Names) /\ Len(w) = 2 /\ w[1] = "shared"
      BY <1>4, PathOfTwo
    <2> QED
      BY <2>1 DEF AgentsOwn, MineOnly
  <1> QED
    BY <1>1, <1>2, <1>3, <1>4

LEMMA HostWrites ==
    ASSUME NEW p \in Launches, NEW lv \in Levelled, NEW w \in OnHost(p, Scope(p, lv)).writable
    PROVE  /\ w \in Seq(Names)
           /\ AgentsOwn(w)
           /\ lv = "conversation" => MineOnly(p, w)
  <1> USE NamesAreNames
  <1>1. \/ w \in Scope(p, lv).writable \/ w \in Memory(p)
        \/ w = <<"relay", p, "tmp">> \/ w = <<"relay", p, "home">>
    BY DEF OnHost, OnRelay, WithRuntime, Scope
  <1>2. CASE w \in Scope(p, lv).writable
    BY <1>2, ScopeWrites
  <1>3. CASE w \in Memory(p)
    <2>1. w = <<"memory", ConvOf[p]>>
      BY <1>3 DEF Memory
    <2>2. w \in Seq(Names) /\ Len(w) = 2 /\ w[1] = "memory" /\ w[2] = ConvOf[p]
      BY <2>1, PathOfTwo
    <2> QED
      BY <2>2 DEF AgentsOwn, MineOnly
  <1>4. ASSUME NEW e \in {"tmp", "home"}, w = <<"relay", p, e>> PROVE w \in Seq(Names) /\ AgentsOwn(w) /\ MineOnly(p, w)
    <2>1. w \in Seq(Names) /\ Len(w) = 3 /\ w[1] = "relay"
      BY <1>4, PathOfThree
    <2> QED
      BY <2>1 DEF AgentsOwn, MineOnly
  <1> QED
    BY <1>1, <1>2, <1>3, <1>4

LEMMA HostGives ==
    ASSUME NEW p \in Launches, NEW lv \in Levelled
    PROVE  /\ OnHost(p, Scope(p, lv)).level = lv
           /\ OnHost(p, Scope(p, lv)).mkdir = {<<"account">>}
           /\ <<"account">> \in OnHost(p, Scope(p, lv)).readable
  BY DEF OnHost, OnRelay, WithRuntime, Scope

(* The rights of a confined process at a path. *)
LEMMA RightsAt ==
    ASSUME NEW p \in Launches, NEW lv \in Levelled, scope[p] = Scope(p, lv), Abi > 0, NEW path,
           \A w \in OnHost(p, Scope(p, lv)).writable : ~IsUnder(path, w)
    PROVE  /\ MayDo(p, path) \subseteq {"refer", "truncate", "ioctl_dev", "execute", "read_file", "read_dir", "make_dir",
                                        "remove_dir"}
           /\ ~IsUnder(path, <<"account">>) => MayDo(p, path) \cap {"make_dir", "remove_dir"} = {}
           /\ IsUnder(path, <<"account">>) => "read_file" \in MayDo(p, path)
  <1> DEFINE s == OnHost(p, Scope(p, lv))
             Rules(option, roots) == UNION {Granted(option, Abi) : r \in {y \in roots : IsUnder(path, y)}}
  <1>1. s.level = lv /\ s.mkdir = {<<"account">>} /\ <<"account">> \in s.readable
    BY HostGives
  <1>2. OnItsHost(p) = s
    BY DEF OnItsHost, OnHost
  <1> HIDE DEF s
  <1>3. MayDo(p, path) = (AllRights \ Handled(Abi)) \cup Rules("readable", s.readable)
                           \cup Rules("writable", s.writable) \cup Rules("mkdir_only", s.mkdir)
    BY <1>1, <1>2, ScopesAssumption DEF MayDo, Levelled
  <1>4. AllRights \ Handled(Abi) \subseteq {"refer", "truncate", "ioctl_dev"}
    BY DEF AllRights, Handled
  <1>5. Rules("writable", s.writable) = {}
    BY DEF s
  <1>6. Rules("readable", s.readable) \subseteq {"execute", "read_file", "read_dir"}
    BY DEF Granted
  <1>7. Rules("mkdir_only", s.mkdir) \subseteq {"execute", "read_file", "read_dir", "make_dir", "remove_dir"}
        /\ (~IsUnder(path, <<"account">>) => Rules("mkdir_only", s.mkdir) = {})
    BY <1>1 DEF Granted
  <1>8. IsUnder(path, <<"account">>) => "read_file" \in Rules("readable", s.readable)
    BY <1>1 DEF Granted
  <1> HIDE DEF Rules
  <1> QED
    BY <1>3, <1>4, <1>5, <1>6, <1>7, <1>8

(* No other conversation's path is under one of its own. *)
LEMMA OthersApart ==
    ASSUME NEW p \in Launches, NEW q \in Launches, ConvOf[p] # ConvOf[q], ConvOf[q] # Memoryless,
           NEW w \in Seq(Names), MineOnly(p, w),
           NEW x \in {<<"files", ConvOf[q]>>, <<"memory", ConvOf[q]>>, <<"scratch", ConvOf[q], "tmp">>}
    PROVE  ~IsUnder(x, w) /\ ~IsUnder(x, <<"account">>)
  <1> USE NamesAreNames
  <1>1. OwnName(p) # ConvOf[q]
    BY ScopesAssumption DEF OwnName
  <1>2. Len(<<"account">>) = 1 /\ <<"account">>[1] = "account"
    BY PathOfOne
  <1>3. CASE x = <<"files", ConvOf[q]>>
    <2>1. Len(x) = 2 /\ x[1] = "files" /\ x[2] = ConvOf[q]
      BY <1>3, PathOfTwo
    <2> QED
      BY <1>2, <2>1 DEF IsUnder, MineOnly
  <1>4. CASE x = <<"memory", ConvOf[q]>>
    <2>1. Len(x) = 2 /\ x[1] = "memory" /\ x[2] = ConvOf[q]
      BY <1>4, PathOfTwo
    <2> QED
      BY <1>2, <2>1 DEF IsUnder, MineOnly
  <1>5. CASE x = <<"scratch", ConvOf[q], "tmp">>
    <2>1. Len(x) = 3 /\ x[1] = "scratch" /\ x[2] = ConvOf[q]
      BY <1>5, PathOfThree
    <2> QED
      BY <1>1, <1>2, <2>1 DEF IsUnder, MineOnly
  <1> QED
    BY <1>3, <1>4, <1>5

LEMMA CredentialApart ==
    ASSUME NEW w \in Seq(Names), AgentsOwn(w)
    PROVE  ~IsUnder(<<"account", "auth.json">>, w) /\ IsUnder(<<"account", "auth.json">>, <<"account">>)
  <1> DEFINE x == <<"account", "auth.json">>
             r == <<"account">>
  <1>1. Len(x) = 2 /\ x[1] = "account" /\ Len(r) = 1 /\ r[1] = "account"
    BY PathOfOne, PathOfTwo
  <1> HIDE DEF x, r
  <1>2. ~IsUnder(x, w) /\ IsUnder(x, r)
    BY <1>1 DEF IsUnder, AgentsOwn
  <1> QED
    BY <1>2 DEF x, r

-----------------------------------------------------------------------------
(* The invariant: a process that was asked for has the scope of one level,  *)
(* and the count of a scratch space is that of the processes that hold it.  *)

Spaces == {ScratchOf(p, "conversation") : p \in Launches}

UsersOf(d) ==
    {p \in Launches : stage[p] \in {"opening", "alive"} /\ scope[p].level \notin {"off", "agent"} /\ scope[p].scratch = d}

ScopeOfALevel(p) ==
    scope[p] = NoScope \/ \E lv \in Levelled : scope[p] = Scope(p, lv)

ScopesGiven ==
    /\ level \in {"conversation", "agent", "off"}
    /\ DOMAIN stage = Launches /\ DOMAIN scope = Launches
    /\ \A p \in Launches : stage[p] \in {"asking", "opening", "alive"} => ScopeOfALevel(p)

Counts ==
    /\ DOMAIN dirs \subseteq Spaces /\ DOMAIN inUse \subseteq Spaces
    /\ \A d \in Spaces : IsFiniteSet(UsersOf(d)) /\ CountOf(d) = Cardinality(UsersOf(d))
    /\ \A d \in DOMAIN inUse : inUse[d] \in Nat \ {0}

ScopesInv == ScopesGiven /\ Counts

LEMMA ScopesStart == ScopesInit => ScopesInv
  <1> SUFFICES ASSUME ScopesInit PROVE ScopesInv
    OBVIOUS
  <1>1. ScopesGiven
    BY ScopesAssumption DEF ScopesInit, ScopesGiven
  <1>2. \A d : UsersOf(d) = {}
    BY DEF ScopesInit, UsersOf
  <1>3. IsFiniteSet({}) /\ Cardinality({}) = 0
    BY FS_EmptySet
  <1>4. DOMAIN dirs = {} /\ DOMAIN inUse = {}
    BY DEF ScopesInit
  <1>5. \A d \in Spaces : CountOf(d) = 0
    BY <1>4 DEF CountOf
  <1> QED
    BY Zenon, <1>1, <1>2, <1>3, <1>4, <1>5 DEF ScopesInv, Counts

LEMMA SpacesArePairs ==
    \A d \in Spaces : Len(d) = 2
  BY NamesAreNames, PathOfTwo DEF Spaces, ScratchOf

(* Who has a space of its own holds one that is counted. *)
LEMMA ScopesHave ==
    ASSUME NEW p \in Launches, ScopeOfALevel(p)
    PROVE  /\ scope[p].level \notin {"off", "agent"} => scope[p].scratch \in Spaces
           /\ scope[p].scratch \in Spaces => scope[p].level \notin {"off", "agent"}
  <1>1. CASE scope[p] = NoScope
    <2>1. scope[p].level = "off" /\ scope[p].scratch = << >>
      BY <1>1 DEF NoScope
    <2>2. Len(<< >>) = 0
      OBVIOUS
    <2> QED
      BY <2>1, <2>2, SpacesArePairs
  <1>2. CASE scope[p] = Scope(p, "agent")
    <2>1. scope[p].level = "agent" /\ scope[p].scratch = <<"scratch">>
      BY <1>2 DEF Scope, ScratchOf
    <2>2. Len(<<"scratch">>) = 1
      BY PathOfOne
    <2> QED
      BY <2>1, <2>2, SpacesArePairs
  <1>3. CASE scope[p] = Scope(p, "conversation")
    BY <1>3 DEF Scope, Spaces
  <1> QED
    BY <1>1, <1>2, <1>3 DEF ScopeOfALevel, Levelled

LEMMA HoldersAre ==
    ASSUME ScopesGiven, NEW d \in Spaces, NEW p \in Launches, stage[p] \in {"opening", "alive"}, scope[p].scratch = d
    PROVE  p \in UsersOf(d)
  BY ScopesHave DEF ScopesGiven, UsersOf

(* What nobody counts, nobody holds. *)
LEMMA HeldIsCounted ==
    ASSUME Counts, NEW d \in Spaces, NEW p \in UsersOf(d)
    PROVE  d \in DOMAIN inUse /\ CountOf(d) \in Nat \ {0} /\ CountOf(d) = inUse[d]
  <1>1. IsFiniteSet(UsersOf(d)) /\ CountOf(d) = Cardinality(UsersOf(d))
    BY DEF Counts
  <1>2. Cardinality(UsersOf(d)) # 0
    BY <1>1, FS_EmptySet
  <1> QED
    BY <1>1, <1>2 DEF CountOf, Counts

(* The step of a process that changes the holders of no space, or adds or   *)
(* takes one holder of one.                                                 *)
HoldersStay == \A d \in Spaces : UsersOf(d)' = UsersOf(d)

LEMMA CountsStay ==
    ASSUME Counts, HoldersStay, UNCHANGED inUse, DOMAIN dirs' \subseteq Spaces
    PROVE  Counts'
  BY DEF Counts, HoldersStay, CountOf

LEMMA CountsOneMore ==
    ASSUME Counts, DOMAIN dirs' \subseteq Spaces, NEW e \in Spaces, NEW p \in Launches, p \notin UsersOf(e),
           inUse' = With(inUse, e, CountOf(e) + 1), UsersOf(e)' = UsersOf(e) \cup {p},
           \A d \in Spaces : d # e => UsersOf(d)' = UsersOf(d)
    PROVE  Counts'
  <1>1. DOMAIN inUse' = DOMAIN inUse \cup {e} /\ inUse'[e] = CountOf(e) + 1
        /\ \A d \in DOMAIN inUse : d # e => inUse'[d] = inUse[d]
    BY DEF With
  <1>2. IsFiniteSet(UsersOf(e)) /\ CountOf(e) = Cardinality(UsersOf(e)) /\ CountOf(e) \in Nat
    BY FS_CardinalityType DEF Counts
  <1>3. IsFiniteSet(UsersOf(e) \cup {p}) /\ Cardinality(UsersOf(e) \cup {p}) = Cardinality(UsersOf(e)) + 1
    BY <1>2, FS_AddElement
  <1>4. CountOf(e)' = CountOf(e) + 1 /\ \A d \in Spaces : d # e => CountOf(d)' = CountOf(d)
    BY <1>1 DEF CountOf
  <1>5. \A d \in Spaces : IsFiniteSet(UsersOf(d)') /\ CountOf(d)' = Cardinality(UsersOf(d)')
    BY <1>2, <1>3, <1>4 DEF Counts
  <1>6. \A d \in DOMAIN inUse' : inUse'[d] \in Nat \ {0}
    BY <1>1, <1>2 DEF Counts
  <1> QED
    BY <1>1, <1>5, <1>6 DEF Counts

LEMMA CountsOneLess ==
    ASSUME Counts, DOMAIN dirs' \subseteq Spaces, NEW e \in Spaces, NEW p \in UsersOf(e),
           inUse' = (IF CountOf(e) > 1 THEN With(inUse, e, CountOf(e) - 1) ELSE Less(inUse, {e})),
           UsersOf(e)' = UsersOf(e) \ {p}, \A d \in Spaces : d # e => UsersOf(d)' = UsersOf(d)
    PROVE  Counts'
  <1>1. e \in DOMAIN inUse /\ CountOf(e) \in Nat \ {0}
    BY HeldIsCounted
  <1>0. CountOf(e) > 1 \/ CountOf(e) = 1
    BY <1>1
  <1>2. IsFiniteSet(UsersOf(e)) /\ CountOf(e) = Cardinality(UsersOf(e))
    BY DEF Counts
  <1>3. IsFiniteSet(UsersOf(e) \ {p}) /\ Cardinality(UsersOf(e) \ {p}) = Cardinality(UsersOf(e)) - 1
    BY <1>2, FS_RemoveElement
  <1>4. CountOf(e)' = CountOf(e) - 1 /\ \A d \in Spaces : d # e => CountOf(d)' = CountOf(d)
    <2>1. CASE CountOf(e) > 1
      BY <1>1, <2>1 DEF CountOf, With
    <2>2. CASE CountOf(e) = 1
      BY <1>1, <2>2 DEF CountOf, Less
    <2> QED
      BY <1>0, <2>1, <2>2
  <1>5. \A d \in Spaces : IsFiniteSet(UsersOf(d)') /\ CountOf(d)' = Cardinality(UsersOf(d)')
    BY <1>2, <1>3, <1>4 DEF Counts
  <1>6. DOMAIN inUse' \subseteq Spaces /\ \A d \in DOMAIN inUse' : inUse'[d] \in Nat \ {0}
    <2>1. CASE CountOf(e) > 1
      <3>1. DOMAIN inUse' = DOMAIN inUse /\ inUse'[e] = CountOf(e) - 1 /\ \A d \in DOMAIN inUse : d # e => inUse'[d] = inUse[d]
        BY <1>1, <2>1 DEF With
      <3> QED
        BY <1>1, <2>1, <3>1 DEF Counts
    <2>2. CASE CountOf(e) = 1
      <3>1. DOMAIN inUse' = DOMAIN inUse \ {e} /\ \A d \in DOMAIN inUse' : inUse'[d] = inUse[d]
        BY <1>1, <2>2 DEF Less
      <3> QED
        BY Zenon, <3>1 DEF Counts
    <2> QED
      BY <1>0, <2>1, <2>2
  <1> QED
    BY Zenon, <1>5, <1>6 DEF Counts

(* What HeldScratchStays says of a step. *)
HeldStays ==
    \A d \in DOMAIN dirs \ DOMAIN dirs' :
        ~\E p \in Launches : stage[p] \in {"opening", "alive"} /\ stage'[p] = stage[p] /\ scope[p].scratch = d

LEMMA HoldsKeeps ==
    ASSUME ScopesInv, NEW p \in Launches, NEW s, stage[p] \in {"none", "asking"}, Holds(p, s), level' = level,
           s = NoScope \/ \E lv \in Levelled : s = Scope(p, lv), DOMAIN dirs' \subseteq Spaces
    PROVE  ScopesInv'
  <1> USE DEF ScopesInv
  <1>1. /\ DOMAIN stage' = Launches /\ DOMAIN scope' = Launches /\ stage'[p] = "opening" /\ scope'[p] = s
        /\ \A q \in Launches : q # p => stage'[q] = stage[q] /\ scope'[q] = scope[q]
    BY DEF Holds, ScopesGiven
  <1>2. ScopesGiven'
    BY <1>1 DEF ScopesGiven, ScopeOfALevel
  <1>3. \A d \in Spaces : p \notin UsersOf(d)
    BY DEF UsersOf
  <1>4. ScopeOfALevel(p)'
    BY <1>1, <1>2 DEF ScopesGiven
  <1>5. CASE s.level \in {"off", "agent"}
    <2>1. HoldersStay
      BY <1>1, <1>3, <1>5 DEF HoldersStay, UsersOf
    <2> QED
      BY <1>2, <1>5, <2>1, CountsStay DEF Holds
  <1>6. CASE s.level \notin {"off", "agent"}
    <2>1. s.scratch \in Spaces
      <3>1. s.level \in {"off", "agent"} \/ s = Scope(p, "conversation")
        BY DEF NoScope, Scope, Levelled
      <3> QED
        BY <1>6, <3>1 DEF Scope, Spaces
    <2>2. PICK e \in Spaces : e = s.scratch
      BY <2>1
    <2>3. UsersOf(e)' = UsersOf(e) \cup {p} /\ \A d \in Spaces : d # e => UsersOf(d)' = UsersOf(d)
      BY <1>1, <1>3, <1>6, <2>2 DEF UsersOf
    <2>4. inUse' = With(inUse, e, CountOf(e) + 1)
      BY <1>6, <2>2 DEF Holds
    <2> QED
      BY <1>2, <1>3, <2>3, <2>4, CountsOneMore
  <1> QED
    BY <1>5, <1>6

LEMMA ReleaseKeeps ==
    ASSUME ScopesInv, NEW p \in Launches, stage[p] \in {"opening", "alive"}, Release(p),
           stage' = [stage EXCEPT ![p] = "ended"], UNCHANGED <<level, scope>>
    PROVE  ScopesInv' /\ HeldStays
  <1> USE DEF ScopesInv
  <1>1. /\ DOMAIN stage' = Launches /\ stage'[p] = "ended" /\ scope' = scope
        /\ \A q \in Launches : q # p => stage'[q] = stage[q]
    BY DEF ScopesGiven
  <1>2. ScopesGiven'
    BY <1>1 DEF ScopesGiven, ScopeOfALevel
  <1>3. ScopeOfALevel(p)
    BY DEF ScopesGiven
  <1>4. CASE scope[p].level \in {"off", "agent"}
    <2>1. UNCHANGED <<inUse, dirs>>
      BY <1>4 DEF Release
    <2>2. HoldersStay
      BY <1>1, <1>4 DEF HoldersStay, UsersOf
    <2> QED
      BY <1>2, <2>1, <2>2, CountsStay DEF HeldStays, Counts
  <1>5. CASE scope[p].level \notin {"off", "agent"}
    <2>1. PICK e \in Spaces : e = scope[p].scratch
      BY <1>3, <1>5, ScopesHave
    <2>2. p \in UsersOf(e)
      BY <1>5, <2>1 DEF UsersOf
    <2>3. e \in DOMAIN inUse /\ CountOf(e) \in Nat \ {0}
      BY <2>2, HeldIsCounted
    <2>4. UsersOf(e)' = UsersOf(e) \ {p} /\ \A d \in Spaces : d # e => UsersOf(d)' = UsersOf(d)
      BY <1>1, <2>1 DEF UsersOf
    <2>5. CASE CountOf(e) > 1
      <3>1. inUse' = With(inUse, e, CountOf(e) - 1) /\ UNCHANGED dirs
        BY <1>5, <2>1, <2>3, <2>5 DEF Release
      <3> QED
        BY Zenon, <1>2, <2>2, <2>4, <2>5, <3>1, CountsOneLess DEF HeldStays, Counts
    <2>6. CASE CountOf(e) = 1
      <3> DEFINE left == Less(inUse, {e})
                 kept == IF IsRun(e) \/ e \notin DOMAIN dirs THEN Less(dirs, {e}) ELSE With(dirs, e, 0)
      <3>1. inUse' = left /\ dirs' = Less(kept, {x \in DOMAIN kept : x \notin DOMAIN left /\ kept[x] > KeptDays})
        BY <1>5, <2>1, <2>6 DEF Release
      <3>2. DOMAIN left = DOMAIN inUse \ {e}
        BY DEF Less
      <3>3. DOMAIN kept \subseteq DOMAIN dirs /\ DOMAIN dirs \ {e} \subseteq DOMAIN kept
        BY DEF Less, With
      <3> HIDE DEF left, kept
      <3>4. /\ DOMAIN dirs' \subseteq DOMAIN dirs
            /\ \A d \in DOMAIN dirs : d # e /\ d \in DOMAIN inUse => d \in DOMAIN dirs'
        BY <3>1, <3>2, <3>3 DEF Less
      <3>5. Counts'
        <4>1. DOMAIN dirs' \subseteq Spaces
          BY <3>4 DEF Counts
        <4>2. inUse' = (IF CountOf(e) > 1 THEN With(inUse, e, CountOf(e) - 1) ELSE Less(inUse, {e}))
          BY <2>6, <3>1 DEF left
        <4> QED
          BY <2>2, <2>4, <4>1, <4>2, CountsOneLess
      <3>6. UsersOf(e) \ {p} = {}
        <4>1. IsFiniteSet(UsersOf(e)) /\ Cardinality(UsersOf(e)) = 1
          BY <2>6 DEF Counts
        <4>2. IsFiniteSet(UsersOf(e) \ {p}) /\ Cardinality(UsersOf(e) \ {p}) = Cardinality(UsersOf(e)) - 1
          BY <2>2, <4>1, FS_RemoveElement
        <4>3. Cardinality(UsersOf(e) \ {p}) = 0
          BY <4>1, <4>2
        <4> QED
          BY <4>2, <4>3, FS_EmptySet
      <3>7. HeldStays
        <4> SUFFICES ASSUME NEW d \in DOMAIN dirs \ DOMAIN dirs', NEW q \in Launches, stage[q] \in {"opening", "alive"},
                            stage'[q] = stage[q], scope[q].scratch = d
                     PROVE  FALSE
          BY DEF HeldStays
        <4>1. q # p /\ d \in Spaces
          BY <1>1 DEF Counts
        <4>2. q \in UsersOf(d)
          BY <4>1, HoldersAre
        <4>3. d # e
          BY <3>6, <4>1, <4>2
        <4>4. d \in DOMAIN inUse
          BY <4>1, <4>2, HeldIsCounted
        <4> QED
          BY <3>4, <4>3, <4>4
      <3> QED
        BY <1>2, <3>5, <3>7
    <2>7. CountOf(e) > 1 \/ CountOf(e) = 1
      BY <2>3
    <2> QED
      BY <2>5, <2>6, <2>7
  <1> QED
    BY <1>4, <1>5

LEMMA ScopeAskKeeps ==
    ASSUME ScopesInv, NEW p \in Launches, Ask(p)
    PROVE  ScopesInv' /\ DOMAIN dirs \subseteq DOMAIN dirs'
  <1> USE DEF ScopesInv
  <1>0. stage[p] = "none" /\ level' = level /\ level \in {"conversation", "agent", "off"} /\ DOMAIN dirs \subseteq Spaces
    BY DEF Ask, ScopesGiven, Counts
  <1>1. CASE level = "off"
    <2>1. Holds(p, NoScope) /\ UNCHANGED dirs
      BY <1>1 DEF Ask
    <2> QED
      BY <1>0, <2>1, HoldsKeeps
  <1>2. CASE level = "agent"
    <2>1. Holds(p, Scope(p, "agent")) /\ UNCHANGED dirs
      BY <1>2 DEF Ask
    <2> QED
      BY <1>0, <2>1, HoldsKeeps DEF Levelled
  <1>3. CASE level = "conversation"
    <2> DEFINE s == Scope(p, "conversation")
    <2>1. s.scratch \in Spaces /\ s.scratch = ScratchOf(p, "conversation")
      BY DEF Scope, Spaces
    <2>2. dirs' = (IF s.scratch \in DOMAIN dirs THEN dirs ELSE With(dirs, s.scratch, 0))
      BY <1>3 DEF Ask
    <2>3. \/ Holds(p, s)
          \/ scope' = [scope EXCEPT ![p] = s] /\ stage' = [stage EXCEPT ![p] = "asking"] /\ UNCHANGED inUse
      BY <1>3 DEF Ask
    <2> HIDE DEF s
    <2>4. DOMAIN dirs \subseteq DOMAIN dirs' /\ DOMAIN dirs' \subseteq Spaces
      BY <1>0, <2>1, <2>2 DEF With
    <2>5. CASE Holds(p, s)
      <3>1. s = Scope(p, "conversation")
        BY DEF s
      <3> QED
        BY <1>0, <2>4, <2>5, <3>1, HoldsKeeps DEF Levelled
    <2>6. CASE scope' = [scope EXCEPT ![p] = s] /\ stage' = [stage EXCEPT ![p] = "asking"] /\ UNCHANGED inUse
      <3>1. /\ DOMAIN stage' = Launches /\ DOMAIN scope' = Launches /\ stage'[p] = "asking" /\ scope'[p] = s
            /\ \A q \in Launches : q # p => stage'[q] = stage[q] /\ scope'[q] = scope[q]
        BY <2>6 DEF ScopesGiven
      <3>2. ScopesGiven'
        BY <1>0, <3>1 DEF ScopesGiven, ScopeOfALevel, Levelled, s
      <3>3. HoldersStay
        BY <1>0, <3>1 DEF HoldersStay, UsersOf
      <3> QED
        BY <2>4, <2>6, <3>2, <3>3, CountsStay
    <2> QED
      BY <2>3, <2>5, <2>6, <2>4
  <1> QED
    BY <1>0, <1>1, <1>2, <1>3

LEMMA AnsweredKeeps ==
    ASSUME ScopesInv, NEW p \in Launches, Answered(p)
    PROVE  ScopesInv' /\ UNCHANGED dirs
  <1>1. /\ stage[p] = "asking" /\ Holds(p, scope[p]) /\ level' = level /\ UNCHANGED dirs
        /\ DOMAIN dirs \subseteq Spaces
    BY DEF Answered, ScopesInv, Counts
  <1>2. scope[p] = NoScope \/ \E lv \in Levelled : scope[p] = Scope(p, lv)
    BY <1>1 DEF ScopesInv, ScopesGiven, ScopeOfALevel
  <1> QED
    BY <1>1, <1>2, HoldsKeeps

(* The steps that leave every holder what it holds. *)
Quiet ==
    /\ level' \in {"conversation", "agent", "off"} /\ inUse' = inUse /\ scope' = scope
    /\ DOMAIN dirs' = DOMAIN dirs /\ DOMAIN stage' = Launches
    /\ \A q \in Launches :
        \/ stage'[q] = stage[q]
        \/ stage[q] = "asking" /\ stage'[q] = "failed"
        \/ stage[q] = "opening" /\ stage'[q] = "alive"

LEMMA QuietKeeps ==
    ASSUME ScopesInv, Quiet
    PROVE  ScopesInv' /\ HeldStays
  <1>1. ScopesGiven'
    BY DEF ScopesInv, ScopesGiven, ScopeOfALevel, Quiet
  <1>2. HoldersStay
    BY DEF HoldersStay, UsersOf, Quiet
  <1>3. HeldStays
    BY DEF HeldStays, Quiet
  <1> QED
    BY <1>1, <1>2, <1>3, CountsStay DEF ScopesInv, Counts, Quiet

LEMMA ScopeRestartKeeps ==
    ASSUME ScopesInv, Restart
    PROVE  ScopesInv' /\ UNCHANGED dirs
  <1>1. /\ level' = level /\ dirs' = dirs /\ scope' = scope /\ inUse' = << >>
        /\ stage' = [p \in Launches |-> IF stage[p] = "none" THEN "none"
                                        ELSE IF stage[p] = "ended" THEN "ended" ELSE "lost"]
    BY DEF Restart
  <1>2. DOMAIN stage' = Launches /\ \A p \in Launches : stage'[p] \in {"none", "ended", "lost"}
    BY <1>1
  <1>3. ScopesGiven'
    BY <1>1, <1>2 DEF ScopesInv, ScopesGiven
  <1>4. \A d \in Spaces : UsersOf(d)' = {}
    BY <1>2 DEF UsersOf
  <1>5. IsFiniteSet({}) /\ Cardinality({}) = 0
    BY FS_EmptySet
  <1>6. DOMAIN inUse' = {}
    BY <1>1
  <1>7. \A d \in Spaces : CountOf(d)' = 0
    BY <1>6 DEF CountOf
  <1> QED
    BY Zenon, <1>1, <1>3, <1>4, <1>5, <1>6, <1>7 DEF ScopesInv, Counts

LEMMA ScopesKeep ==
    ASSUME ScopesInv, [ScopesNext]_sVars
    PROVE  ScopesInv' /\ HeldStays
  <1>0. DOMAIN stage = Launches /\ level \in {"conversation", "agent", "off"}
    BY DEF ScopesInv, ScopesGiven
  <1>1. DOMAIN dirs \subseteq DOMAIN dirs' => HeldStays
    BY DEF HeldStays
  <1>2. ASSUME NEW p \in Launches, Ask(p) PROVE ScopesInv' /\ HeldStays
    BY <1>1, <1>2, ScopeAskKeeps
  <1>3. ASSUME NEW p \in Launches, Answered(p) PROVE ScopesInv' /\ HeldStays
    BY <1>1, <1>3, AnsweredKeeps
  <1>4. ASSUME NEW p \in Launches, LookupFails(p) PROVE ScopesInv' /\ HeldStays
    <2>1. Quiet
      BY <1>0, <1>4 DEF LookupFails, Quiet
    <2> QED
      BY <2>1, QuietKeeps
  <1>5. ASSUME NEW p \in Launches, ProcessOpens(p) PROVE ScopesInv' /\ HeldStays
    <2>1. Quiet
      BY <1>0, <1>5 DEF ProcessOpens, Quiet
    <2> QED
      BY <2>1, QuietKeeps
  <1>6. ASSUME NEW p \in Launches, StartFails(p) PROVE ScopesInv' /\ HeldStays
    BY Zenon, <1>6, ReleaseKeeps DEF StartFails
  <1>7. ASSUME NEW p \in Launches, ProcessEnds(p) PROVE ScopesInv' /\ HeldStays
    BY Zenon, <1>7, ReleaseKeeps DEF ProcessEnds
  <1>8. CASE Day
    <2>1. Quiet
      BY <1>0, <1>8 DEF Day, Quiet
    <2> QED
      BY <2>1, QuietKeeps
  <1>9. ASSUME NEW lv \in Levels, EditLevel(lv) PROVE ScopesInv' /\ HeldStays
    <2>1. lv \in {"conversation", "agent", "off"}
      BY ScopesAssumption
    <2>2. Quiet
      BY <1>0, <1>9, <2>1 DEF EditLevel, Quiet
    <2> QED
      BY <2>2, QuietKeeps
  <1>10. CASE Restart
    BY <1>1, <1>10, ScopeRestartKeeps
  <1>11. CASE UNCHANGED sVars
    <2>1. Quiet
      BY <1>0, <1>11 DEF sVars, Quiet
    <2> QED
      BY <2>1, QuietKeeps
  <1> QED
    BY <1>2, <1>3, <1>4, <1>5, <1>6, <1>7, <1>8, <1>9, <1>10, <1>11 DEF ScopesNext

(* What the scope of a level lets its process do, from the rules alone. *)
LEMMA OthersAreApart == ScopesInv => OthersOutOfReach
  <1> SUFFICES ASSUME ScopesInv, Abi > 0, NEW p \in Launches, NEW q \in Launches,
                      Conversational(p), ConvOf[p] # ConvOf[q], ConvOf[q] # Memoryless,
                      NEW z \in {<<"files", ConvOf[q]>>, <<"memory", ConvOf[q]>>, <<"scratch", ConvOf[q], "tmp">>}
               PROVE  MayDo(p, z) \cap {"write_file", "make_reg", "remove_file", "make_dir"} = {}
    BY Zenon DEF OthersOutOfReach
  <1>1. scope[p] = Scope(p, "conversation")
    BY DEF ScopesInv, ScopesGiven, Conversational, ScopeOfALevel, NoScope, Scope, Levelled
  <1>2. "conversation" \in Levelled
    BY DEF Levelled
  <1>3. ASSUME NEW w \in OnHost(p, Scope(p, "conversation")).writable
        PROVE  ~IsUnder(z, w) /\ ~IsUnder(z, <<"account">>)
    <2>1. w \in Seq(Names) /\ MineOnly(p, w)
      BY <1>2, HostWrites
    <2> QED
      BY Zenon, <2>1, OthersApart
  <1>4. ~IsUnder(z, <<"account">>)
    <2>1. \E w : w \in OnHost(p, Scope(p, "conversation")).writable
      BY Zenon DEF OnHost, OnRelay, WithRuntime, Scope
    <2> QED
      BY <1>3, <2>1
  <1>5. /\ MayDo(p, z) \subseteq {"refer", "truncate", "ioctl_dev", "execute", "read_file", "read_dir", "make_dir",
                                  "remove_dir"}
        /\ MayDo(p, z) \cap {"make_dir", "remove_dir"} = {}
    BY <1>1, <1>2, <1>3, <1>4, RightsAt
  <1> QED
    BY <1>5

LEMMA CredentialIsRead == ScopesInv => CredentialIsReadOnly
  <1> DEFINE z == <<"account", "auth.json">>
  <1> SUFFICES ASSUME ScopesInv, Abi > 0, NEW p \in Launches, stage[p] = "alive", scope[p].level # "off"
               PROVE  /\ "read_file" \in MayDo(p, z)
                      /\ MayDo(p, z) \cap {"write_file", "make_reg", "remove_file"} = {}
    BY DEF CredentialIsReadOnly
  <1>1. PICK lv \in Levelled : scope[p] = Scope(p, lv)
    BY DEF ScopesInv, ScopesGiven, ScopeOfALevel, NoScope
  <1>2. \A w \in OnHost(p, Scope(p, lv)).writable : w \in Seq(Names) /\ AgentsOwn(w)
    BY HostWrites
  <1>3. \A w \in OnHost(p, Scope(p, lv)).writable : ~IsUnder(z, w)
    BY <1>2, CredentialApart
  <1>4. IsUnder(z, <<"account">>)
    <2>1. \E w : w \in OnHost(p, Scope(p, lv)).writable
      BY Zenon DEF OnHost, OnRelay, WithRuntime, Scope
    <2> QED
      BY <1>2, <2>1, CredentialApart
  <1> HIDE DEF z
  <1>5. /\ MayDo(p, z) \subseteq {"refer", "truncate", "ioctl_dev", "execute", "read_file", "read_dir", "make_dir",
                                  "remove_dir"}
        /\ "read_file" \in MayDo(p, z)
    BY <1>1, <1>3, <1>4, RightsAt
  <1> QED
    BY <1>5

(* For every set of processes, conversations, hosts and levels, every       *)
(* kernel and every order of starts, ends, edits, days and restarts: a      *)
(* process at the conversation level changes nothing of another             *)
(* conversation, a confined one plants nothing beside the credential, and   *)
(* scratch space is never taken from a process that holds it                *)
(* (process_scopes.py, pi/hosts, launcher.py).                              *)
THEOREM ProcessesAreConfinedAlways == ScopesSpec => ProcessesAreConfined
  <1>1. ScopesInv => OthersOutOfReach /\ CredentialIsReadOnly
    BY OthersAreApart, CredentialIsRead
  <1>2. ScopesInv /\ [ScopesNext]_sVars => ScopesInv' /\ [HeldStays]_sVars
    BY ScopesKeep
  <1>3. HeldScratchStays <=> [][HeldStays]_sVars
    BY DEF HeldScratchStays, HeldStays
  <1> QED
    BY <1>1, <1>2, <1>3, ScopesStart, PTL DEF ScopesSpec, ProcessesAreConfined
=============================================================================
