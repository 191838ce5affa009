----------------------------- MODULE TasksProofs ------------------------------
(***************************************************************************)
(* The two task stores.  For any engines, tasks, triggers, bounds and       *)
(* administration a task runs exactly while one row of it does, and a       *)
(* verdict stands; and where every occurrence is the schedule's own,        *)
(* nothing is decided twice.  For any replicas on Mongo, whose documents    *)
(* are written one by one, an occurrence is decided once as well.  After    *)
(* them what a turn, a task's or a person's, may use: no more than each of  *)
(* its people was given.                                                    *)
(***************************************************************************)
EXTENDS Scheduler, MongoTasks, Admission, FiniteSetTheorems, TLAPS

RowType == [status : {"none", "running"} \cup Verdicts, owner : Engines \cup {None},
            decided : Instants \cup {None}, finished : Instants \cup {None}]
EngineType == [life : {"unborn", "up", "stopping", "dead"}, born : Instants, at : Instants,
               seen : SUBSET [id : Tasks, record : Record], gone : SUBSET Workers]

(* The store's tables. *)
Tables == task \in [Tasks -> Record] /\ run \in [Tasks -> [Instants -> RowType]]

Types ==
    /\ now \in Instants
    /\ engine \in [Engines -> EngineType]
    /\ worker \in [Engines -> SUBSET Workers]
    /\ fired \in [Tasks -> [Instants -> Nat]]
    /\ asked \in [Tasks -> 0..MaxAsked]

(* What has a due time has an occurrence, which is not after it. *)
Dues == \A t \in Tasks : task[t].due # None => task[t].next # None /\ task[t].next <= task[t].due

(* What a pass has read was due by the pass's clock. *)
Seen == \A e \in Engines : \A r \in engine[e].seen : r.record.next # None /\ r.record.next <= engine[e].at

(* A running task has a running row, the only one there is. *)
OneRow ==
    \A t \in Tasks :
        /\ task[t].state = "running" => \E s \in Instants : run[t][s].status = "running"
        /\ \A s \in Instants : run[t][s].status = "running" => task[t].state = "running"
        /\ \A r, s \in Instants : run[t][r].status = "running" /\ run[t][s].status = "running" => r = s

StoreInv == Tables /\ Dues /\ OneRow
RowsInv == Types /\ Seen /\ StoreInv

(* What one step may do to the verdicts. *)
VerdictsKept ==
    \A t \in Tasks, s \in Instants :
        run[t][s].status \in Verdicts => run'[t][s].status \in {run[t][s].status, "none"}

-----------------------------------------------------------------------------
(* The first occurrence of an interval after a moment is after it. *)
LEMMA NextMultiple ==
    ASSUME NEW a \in Nat, NEW p \in Nat \ {0}
    PROVE  ((a \div p) + 1) * p \in Nat /\ ((a \div p) + 1) * p > a
  <1>1. a \div p \in Nat
    OBVIOUS
  <1>2. a = (a \div p) * p + (a % p) /\ a % p \in 0..(p - 1)
    OBVIOUS
  <1>3. ((a \div p) + 1) * p \in Nat
    BY <1>1
  <1> DEFINE q == a \div p
  <1>4. (q + 1) * p = q * p + p
    BY <1>1
  <1> QED
    BY <1>1, <1>2, <1>3, <1>4

LEMMA AdvancesPast ==
    ASSUME NEW t \in Tasks, NEW s, NEW a \in Nat
    PROVE  /\ AdvancePast(t, s, a) \in Nat \cup {None} /\ FirstRun(t, a) \in Nat \cup {None}
           /\ AdvancePast(t, s, a) # None => AdvancePast(t, s, a) > a
           /\ FirstRun(t, a) # None => FirstRun(t, a) > a
  <1>1. Period[t] \in Nat /\ At[t] \in Nat
    BY TaskAssumption
  <1>2. CASE Period[t] = 0
    BY <1>1, <1>2 DEF AdvancePast, FirstRun
  <1>3. CASE Period[t] # 0
    BY <1>1, <1>3, NextMultiple DEF AdvancePast, FirstRun
  <1> QED
    BY <1>2, <1>3

LEMMA JitterIsLater ==
    ASSUME NEW t \in Tasks, NEW m \in Nat \cup {None}
    PROVE  /\ WithJitter(t, m) \in Nat \cup {None}
           /\ WithJitter(t, m) # None <=> m # None
           /\ m # None => WithJitter(t, m) = m + Jitter[t] /\ m <= WithJitter(t, m)
  BY TaskAssumption, NoneAssumption DEF WithJitter

-----------------------------------------------------------------------------
(* One task of the table becomes x, or gets a state and a schedule, and one *)
(* row of it becomes y.                                                     *)
TaskBecomes(t, x) == task' \in [Tasks -> Record] /\ task'[t] = x /\ \A u \in Tasks : u # t => task'[u] = task[u]
Rescheduled(t, state, upcoming) ==
    \E x \in Record : x.state = state /\ x.next = upcoming /\ x.due = WithJitter(t, upcoming) /\ TaskBecomes(t, x)
RowBecomes(t, s, y) ==
    /\ run' \in [Tasks -> [Instants -> RowType]] /\ run'[t][s] = y
    /\ \A u \in Tasks, v \in Instants : <<u, v>> # <<t, s>> => run'[u][v] = run[u][v]

LEMMA RowMoves ==
    ASSUME Tables, NEW t \in Tasks, NEW s \in Instants, NEW y \in RowType, run' = [run EXCEPT ![t][s] = y]
    PROVE  RowBecomes(t, s, y)
  BY DEF Tables, RowBecomes

-----------------------------------------------------------------------------
(* The three writes of the store. *)

(* What a pass has read is a task's, of an instant that has come. *)
LEMMA SeenIsTyped ==
    ASSUME RowsInv, NEW e \in Engines, NEW r \in engine[e].seen
    PROVE  /\ r.id \in Tasks /\ r.record \in Record /\ r.record.next \in Instants
           /\ engine[e].at \in Instants /\ engine[e].at \in Nat
           /\ Upcoming(e, r) \in Nat \cup {None}
           /\ Upcoming(e, r) # None => Upcoming(e, r) > engine[e].at
  <1>1. engine[e] \in EngineType
    BY DEF RowsInv, Types
  <1>2. r \in [id : Tasks, record : Record] /\ engine[e].at \in Instants
    BY <1>1 DEF EngineType
  <1>3. r.id \in Tasks /\ r.record \in Record /\ engine[e].at \in Nat
    BY <1>2, BoundAssumption DEF Instants
  <1>4. r.record.next \in Instants
    BY <1>2, <1>3, BoundAssumption DEF RowsInv, Seen, Record, Instants
  <1> QED
    BY <1>2, <1>3, <1>4, AdvancesPast DEF Upcoming

LEMMA RowTyped ==
    ASSUME RowsInv, NEW e \in Engines, NEW status \in {"running", "overlap", "missed"}
    PROVE  Row(e, status) \in RowType /\ Row(e, status).status = status /\ Row(e, status).decided = engine[e].at
  <1>1. engine[e].at \in Instants
    BY DEF RowsInv, Types, EngineType
  <1> QED
    BY <1>1 DEF Row, RowType, Verdicts, Endings, Failures

LEMMA TaskMoves ==
    ASSUME Tables, NEW t \in Tasks, NEW x \in Record, task' = [task EXCEPT ![t] = x]
    PROVE  TaskBecomes(t, x)
  BY DEF Tables, TaskBecomes

LEMMA Reschedules ==
    ASSUME Tables, NEW t \in Tasks, NEW upcoming \in Nat \cup {None},
           task' = [task EXCEPT ![t].next = upcoming, ![t].due = WithJitter(t, upcoming)]
    PROVE  Rescheduled(t, task[t].state, upcoming)
  <1>1. PICK z \in Record : z = task[t]
    BY DEF Tables
  <1> DEFINE x == [z EXCEPT !.next = upcoming, !.due = WithJitter(t, upcoming)]
  <1>2. task' = [task EXCEPT ![t] = x]
    BY <1>1 DEF Tables
  <1>3. x \in Record /\ x.state = task[t].state /\ x.next = upcoming /\ x.due = WithJitter(t, upcoming)
    BY <1>1, JitterIsLater DEF Record
  <1> HIDE DEF x
  <1>4. TaskBecomes(t, x)
    BY <1>2, <1>3, TaskMoves
  <1> QED
    BY <1>3, <1>4 DEF Rescheduled

LEMMA ReschedulesAs ==
    ASSUME Tables, NEW t \in Tasks, NEW upcoming \in Nat \cup {None}, NEW state \in {"idle", "running", "paused"},
           task' = [task EXCEPT ![t].state = state, ![t].next = upcoming, ![t].due = WithJitter(t, upcoming)]
    PROVE  Rescheduled(t, state, upcoming)
  <1>1. PICK z \in Record : z = task[t]
    BY DEF Tables
  <1> DEFINE x == [z EXCEPT !.state = state, !.next = upcoming, !.due = WithJitter(t, upcoming)]
  <1>2. task' = [task EXCEPT ![t] = x]
    BY <1>1 DEF Tables
  <1>3. x \in Record /\ x.state = state /\ x.next = upcoming /\ x.due = WithJitter(t, upcoming)
    BY <1>1, JitterIsLater DEF Record
  <1> HIDE DEF x
  <1>4. TaskBecomes(t, x)
    BY <1>2, <1>3, TaskMoves
  <1> QED
    BY <1>3, <1>4 DEF Rescheduled

LEMMA RescheduledKeeps ==
    ASSUME Tables, Dues, NEW t \in Tasks, NEW state, NEW upcoming \in Nat \cup {None}, Rescheduled(t, state, upcoming)
    PROVE  task' \in [Tasks -> Record] /\ Dues'
  <1>1. PICK x \in Record : x.next = upcoming /\ x.due = WithJitter(t, upcoming) /\ TaskBecomes(t, x)
    BY DEF Rescheduled
  <1>2. task' \in [Tasks -> Record] /\ task'[t] = x /\ \A u \in Tasks : u # t => task'[u] = task[u]
    BY <1>1 DEF TaskBecomes
  <1>3. task'[t].due # None => task'[t].next # None /\ task'[t].next <= task'[t].due
    BY <1>1, <1>2, JitterIsLater
  <1>4. \A u \in Tasks : u # t /\ task'[u].due # None => task'[u].next # None /\ task'[u].next <= task'[u].due
    BY <1>2 DEF Dues
  <1> QED
    BY <1>2, <1>3, <1>4 DEF Dues

(* A skip and a claim, when they find the occurrence unclaimed. *)
LEMMA SkipWrites ==
    ASSUME RowsInv, NEW e \in Engines, NEW r \in engine[e].seen, NEW status \in {"overlap", "missed"},
           RecordSkip(e, r, status), Exists(r.id), Unclaimed(r)
    PROVE  /\ Rescheduled(r.id, task[r.id].state, Upcoming(e, r))
           /\ RowBecomes(r.id, r.record.next, Row(e, status))
  <1>1. r.id \in Tasks /\ r.record.next \in Instants /\ Upcoming(e, r) \in Nat \cup {None}
    BY SeenIsTyped
  <1>2. Row(e, status) \in RowType /\ Tables
    BY RowTyped DEF RowsInv, StoreInv
  <1>3. /\ task' = [task EXCEPT ![r.id].next = Upcoming(e, r), ![r.id].due = WithJitter(r.id, Upcoming(e, r))]
        /\ run' = [run EXCEPT ![r.id][r.record.next] = Row(e, status)]
    BY DEF RecordSkip
  <1> QED
    BY <1>1, <1>2, <1>3, Reschedules, RowMoves

LEMMA ClaimWrites ==
    ASSUME RowsInv, NEW e \in Engines, NEW r \in engine[e].seen, NEW upcoming \in Nat \cup {None},
           ClaimDue(e, r, "running", upcoming), Claimable(r)
    PROVE  /\ Rescheduled(r.id, "running", upcoming)
           /\ RowBecomes(r.id, r.record.next, Row(e, "running"))
  <1>1. r.id \in Tasks /\ r.record.next \in Instants
    BY SeenIsTyped
  <1>2. Row(e, "running") \in RowType /\ Tables
    BY RowTyped DEF RowsInv, StoreInv
  <1>3. /\ task' = [task EXCEPT ![r.id].state = "running", ![r.id].next = upcoming, ![r.id].due = WithJitter(r.id, upcoming)]
        /\ run' = [run EXCEPT ![r.id][r.record.next] = Row(e, "running")]
    BY DEF ClaimDue
  <1> QED
    BY <1>1, <1>2, <1>3, ReschedulesAs, RowMoves

LEMMA SkipKeeps ==
    ASSUME RowsInv, NEW e \in Engines, NEW r \in engine[e].seen, NEW status \in {"overlap", "missed"},
           RecordSkip(e, r, status)
    PROVE  StoreInv' /\ VerdictsKept
  <1> USE DEF RowsInv, StoreInv
  <1>1. CASE Exists(r.id) /\ Unclaimed(r)
    <2> DEFINE t == r.id
               s == r.record.next
               upcoming == Upcoming(e, r)
               y == Row(e, status)
    <2>1. t \in Tasks /\ s \in Instants /\ upcoming \in Nat \cup {None}
      BY SeenIsTyped
    <2>2. Rescheduled(t, task[t].state, upcoming) /\ RowBecomes(t, s, y)
      BY <1>1, SkipWrites
    <2>3. y.status = status /\ run[t][s].status = "none"
      BY <1>1, RowTyped DEF Unclaimed
    <2> HIDE DEF t, s, upcoming, y
    <2>4. Tables' /\ Dues'
      BY <2>1, <2>2, RescheduledKeeps DEF Tables, RowBecomes
    <2>5. \A u \in Tasks, v \in Instants : run'[u][v].status = "running" <=> run[u][v].status = "running"
      BY <2>1, <2>2, <2>3 DEF RowBecomes
    <2>6. \A u \in Tasks : task'[u].state = task[u].state
      BY <2>2 DEF Rescheduled, TaskBecomes
    <2>7. OneRow'
      BY <2>5, <2>6 DEF OneRow
    <2>8. VerdictsKept
      BY <2>1, <2>2, <2>3 DEF RowBecomes, VerdictsKept, Verdicts, Endings, Failures
    <2> QED
      BY <2>4, <2>7, <2>8
  <1>2. CASE ~(Exists(r.id) /\ Unclaimed(r))
    BY <1>2 DEF RecordSkip, Tables, Dues, OneRow, VerdictsKept
  <1> QED
    BY <1>1, <1>2

LEMMA ClaimKeeps ==
    ASSUME RowsInv, NEW e \in Engines, NEW r \in engine[e].seen, NEW upcoming \in Nat \cup {None},
           ClaimDue(e, r, "running", upcoming)
    PROVE  StoreInv' /\ VerdictsKept
  <1> USE DEF RowsInv, StoreInv
  <1>1. CASE Claimable(r)
    <2> DEFINE t == r.id
               s == r.record.next
               y == Row(e, "running")
    <2>1. t \in Tasks /\ s \in Instants
      BY SeenIsTyped
    <2>2. Rescheduled(t, "running", upcoming) /\ RowBecomes(t, s, y)
      BY <1>1, ClaimWrites
    <2>3. y.status = "running"
      BY RowTyped
    <2>4. run[t][s].status = "none" /\ task[t].state = "idle"
      BY <1>1 DEF Claimable, Unclaimed
    <2> HIDE DEF t, s, y
    <2>5. Tables' /\ Dues'
      BY <2>1, <2>2, RescheduledKeeps DEF Tables, RowBecomes
    <2>6. \A u \in Tasks, v \in Instants :
              run'[u][v].status = "running" <=> run[u][v].status = "running" \/ <<u, v>> = <<t, s>>
      BY <2>1, <2>2, <2>3, <2>4 DEF RowBecomes
    <2>7. task'[t].state = "running" /\ \A u \in Tasks : u # t => task'[u] = task[u]
      BY <2>2 DEF Rescheduled, TaskBecomes
    <2>8. OneRow'
      BY <2>1, <2>4, <2>6, <2>7 DEF OneRow
    <2>9. VerdictsKept
      BY <2>1, <2>2, <2>4 DEF RowBecomes, VerdictsKept, Verdicts, Endings, Failures
    <2> QED
      BY <2>5, <2>8, <2>9
  <1>2. CASE ~Claimable(r)
    BY <1>2 DEF ClaimDue, Tables, Dues, OneRow, VerdictsKept
  <1> QED
    BY <1>1, <1>2

LEMMA CompleteKeeps ==
    ASSUME RowsInv, NEW w \in Workers, NEW status \in Endings \cup {"gone"}, CompleteRun(w, status)
    PROVE  /\ StoreInv' /\ VerdictsKept
           /\ \A u \in Tasks : task'[u].next = task[u].next /\ task'[u].due = task[u].due
           /\ \A u \in Tasks, v \in Instants : run'[u][v].decided = run[u][v].decided
  <1> USE DEF RowsInv, StoreInv
  <1>1. CASE run[w.id][w.instant].status = "running"
    <2> DEFINE t == w.id
               s == w.instant
    <2>1. t \in Tasks /\ s \in Instants /\ now \in Instants
      BY DEF Workers, Types
    <2>2. PICK y \in RowType : y = run[t][s]
      BY <2>1 DEF Tables
    <2>3. PICK x \in Record : x = task[t]
      BY <2>1 DEF Tables
    <2> DEFINE f == IF status \in Failures THEN x.fails + 1 ELSE 0
               x2 == [x EXCEPT !.state = Release(w, status), !.fails = f]
               y2 == [y EXCEPT !.status = status, !.finished = now]
    <2>4. Release(w, status) \in {"idle", "done", "paused"}
      BY DEF Release, ReleasedState
    <2>5. x2 \in Record /\ x2.state \in {"idle", "done", "paused"} /\ x2.next = x.next /\ x2.due = x.due
      <3>1. f \in Nat
        BY <2>3 DEF Record
      <3> HIDE DEF f
      <3> QED
        BY <2>3, <2>4, <3>1 DEF Record
    <2>6. y2 \in RowType /\ y2.status = status /\ y2.decided = y.decided
      BY <2>1, <2>2 DEF RowType, Verdicts
    <2>7. task' = [task EXCEPT ![t] = x2]
      BY <1>1, <2>1, <2>3 DEF CompleteRun, Tables
    <2> DEFINE r1 == [run EXCEPT ![t][s].status = status]
    <2>8. run' = [r1 EXCEPT ![t][s].finished = now]
      BY <1>1 DEF CompleteRun
    <2>9. run[t][s].status = "running"
      BY <1>1
    <2> HIDE DEF t, s, x2, y2
    <2>10. TaskBecomes(t, x2)
      BY <2>1, <2>5, <2>7 DEF Tables, TaskBecomes
    <2>11. RowBecomes(t, s, y2)
      <3>1. /\ r1 \in [Tasks -> [Instants -> RowType]] /\ r1[t][s] = [y EXCEPT !.status = status]
            /\ \A u \in Tasks, v \in Instants : <<u, v>> # <<t, s>> => r1[u][v] = run[u][v]
        BY <2>1, <2>2 DEF Tables, RowType, Verdicts
      <3>2. [[y EXCEPT !.status = status] EXCEPT !.finished = now] = y2
        BY <2>2 DEF RowType, y2
      <3> HIDE DEF r1
      <3> QED
        BY <2>1, <2>6, <2>8, <3>1, <3>2 DEF RowBecomes
    <2>12. Tables' /\ Dues'
      BY <2>3, <2>5, <2>10, <2>11 DEF Tables, Dues, TaskBecomes, RowBecomes
    <2>13. \A u \in Tasks, v \in Instants :
              run'[u][v].status = "running" <=> run[u][v].status = "running" /\ <<u, v>> # <<t, s>>
      BY <2>1, <2>6, <2>11 DEF RowBecomes, Endings, Failures
    <2>14. OneRow'
      BY <2>1, <2>5, <2>9, <2>10, <2>13 DEF OneRow, TaskBecomes
    <2>15. VerdictsKept
      BY <2>1, <2>9, <2>11 DEF RowBecomes, VerdictsKept, Verdicts, Endings, Failures
    <2>16. /\ \A u \in Tasks : task'[u].next = task[u].next /\ task'[u].due = task[u].due
           /\ \A u \in Tasks, v \in Instants : run'[u][v].decided = run[u][v].decided
      BY <2>1, <2>2, <2>3, <2>5, <2>6, <2>10, <2>11 DEF TaskBecomes, RowBecomes
    <2> QED
      BY <2>12, <2>14, <2>15, <2>16
  <1>2. CASE run[w.id][w.instant].status # "running"
    BY <1>2 DEF CompleteRun, Tables, Dues, OneRow, VerdictsKept
  <1> QED
    BY <1>1, <1>2

-----------------------------------------------------------------------------
(* The engines' own state. *)

(* Every pass holds what was due by its clock. *)
SeenBy(g) == \A r \in g.seen : r.record.next # None /\ r.record.next <= g.at

(* A step's reading of the clock and of the tasks is of this moment. *)
ReadBy(e, g) ==
    /\ g.at \in {0, engine[e].at, now}
    /\ \A r \in g.seen : r \in engine[e].seen \/ \E t \in Tasks : r = [id |-> t, record |-> task[t]]
Reads == \A e \in Engines : ReadBy(e, engine'[e])

LEMMA EngineMoves ==
    ASSUME RowsInv, NEW e \in Engines, NEW g \in EngineType, SeenBy(g), ReadBy(e, g), engine' = [engine EXCEPT ![e] = g]
    PROVE  engine' \in [Engines -> EngineType] /\ Seen' /\ Reads
  <1>1. engine \in [Engines -> EngineType] /\ \A f \in Engines : SeenBy(engine[f])
    BY DEF RowsInv, Types, Seen, SeenBy
  <1>2. engine' \in [Engines -> EngineType] /\ engine'[e] = g /\ \A f \in Engines : f # e => engine'[f] = engine[f]
    BY <1>1
  <1>3. \A f \in Engines : SeenBy(engine'[f])
    BY <1>1, <1>2
  <1>4. \A f \in Engines : ReadBy(f, engine[f])
    BY DEF ReadBy
  <1> QED
    BY <1>2, <1>3, <1>4 DEF Seen, SeenBy, Reads

LEMMA EnginesAlone ==
    ASSUME RowsInv, engine' = engine
    PROVE  engine' \in [Engines -> EngineType] /\ Seen' /\ Reads
  BY DEF RowsInv, Types, Seen, Reads, ReadBy

LEMMA UnbornTyped ==
    ASSUME NEW e \in Engines, NEW life \in {"unborn", "up", "stopping", "dead"}, NEW born \in Instants
    PROVE  /\ [Unborn EXCEPT !.life = life, !.born = born] \in EngineType
           /\ [Unborn EXCEPT !.life = life] \in EngineType
           /\ SeenBy([Unborn EXCEPT !.life = life, !.born = born]) /\ SeenBy([Unborn EXCEPT !.life = life])
           /\ ReadBy(e, [Unborn EXCEPT !.life = life, !.born = born]) /\ ReadBy(e, [Unborn EXCEPT !.life = life])
  <1>1. 0 \in Instants
    BY BoundAssumption DEF Instants
  <1>a. Unborn \in EngineType /\ Unborn.seen = {} /\ Unborn.at = 0
    BY <1>1 DEF Unborn, EngineType
  <1>2. PICK u \in EngineType : u = Unborn /\ u.seen = {} /\ u.at = 0
    BY <1>a
  <1> DEFINE a == [u EXCEPT !.life = life, !.born = born]
             b == [u EXCEPT !.life = life]
  <1>3. a \in EngineType /\ a.seen = {} /\ a.at = 0
    BY <1>2 DEF EngineType
  <1>4. b \in EngineType /\ b.seen = {} /\ b.at = 0
    BY <1>2 DEF EngineType
  <1> HIDE DEF a, b
  <1>5. SeenBy(a) /\ SeenBy(b) /\ ReadBy(e, a) /\ ReadBy(e, b)
    BY <1>3, <1>4 DEF SeenBy, ReadBy
  <1> QED
    BY <1>2, <1>3, <1>4, <1>5 DEF a, b

LEMMA DecidedKeeps ==
    ASSUME RowsInv, NEW e \in Engines, NEW r \in engine[e].seen, Decided(e, r)
    PROVE  engine' \in [Engines -> EngineType] /\ Seen' /\ Reads
  <1>1. PICK g \in EngineType : g = engine[e]
    BY DEF RowsInv, Types
  <1> DEFINE at == IF g.seen = {r} THEN 0 ELSE g.at
             g2 == [g EXCEPT !.seen = @ \ {r}, !.at = at]
  <1>2. at \in Instants /\ (at = g.at \/ (at = 0 /\ g.seen \ {r} = {}))
    BY <1>1, BoundAssumption DEF EngineType, Instants
  <1>3. engine' = [engine EXCEPT ![e] = g2]
    BY <1>1 DEF Decided, RowsInv, Types
  <1> HIDE DEF at
  <1>4. g2 \in EngineType /\ g2.seen = g.seen \ {r} /\ g2.at = at
    BY <1>1, <1>2 DEF EngineType
  <1>5. SeenBy(g2) /\ ReadBy(e, g2)
    BY <1>1, <1>2, <1>4 DEF SeenBy, ReadBy, RowsInv, Seen
  <1> HIDE DEF g2
  <1> QED
    BY <1>3, <1>4, <1>5, EngineMoves

LEMMA SpawnKeeps ==
    ASSUME RowsInv, NEW e \in Engines, NEW r \in engine[e].seen, NEW final \in BOOLEAN, Spawn(e, r, final)
    PROVE  worker' \in [Engines -> SUBSET Workers] /\ fired' \in [Tasks -> [Instants -> Nat]]
  <1>1. Worker(r, final) \in Workers /\ r.id \in Tasks /\ r.record.next \in Instants
    BY SeenIsTyped DEF Worker, Workers
  <1>2. worker \in [Engines -> SUBSET Workers] /\ fired \in [Tasks -> [Instants -> Nat]]
    BY DEF RowsInv, Types
  <1>3. CASE Claimable(r)
    <2>1. worker' = [worker EXCEPT ![e] = @ \cup {Worker(r, final)}]
      BY <1>3 DEF Spawn
    <2>2. worker' \in [Engines -> SUBSET Workers]
      BY <1>1, <1>2, <2>1
    <2>3. fired' = [fired EXCEPT ![r.id][r.record.next] = @ + 1]
      BY <1>3 DEF Spawn
    <2> QED
      BY <1>1, <1>2, <2>2, <2>3
  <1>4. CASE ~Claimable(r)
    BY <1>2, <1>4 DEF Spawn
  <1> QED
    BY <1>3, <1>4

-----------------------------------------------------------------------------
LEMMA RowsInit == Init => RowsInv
  <1> SUFFICES ASSUME Init PROVE RowsInv
    OBVIOUS
  <1> USE DEF Init
  <1>1. 0 \in Instants
    BY BoundAssumption DEF Instants
  <1>2. Unborn \in EngineType /\ Unborn.seen = {}
    BY <1>1 DEF Unborn, EngineType
  <1>3. NoRow \in RowType /\ NoRow.status = "none"
    BY DEF NoRow, RowType
  <1>4. engine \in [Engines -> EngineType]
    BY <1>2
  <1>5. worker \in [Engines -> SUBSET Workers] /\ fired \in [Tasks -> [Instants -> Nat]] /\ now \in Instants
    BY <1>1
  <1>6. asked \in [Tasks -> 0..MaxAsked]
    BY BoundAssumption
  <1>7. Seen
    BY <1>2 DEF Seen
  <1>8. Tables /\ Dues /\ OneRow
    BY <1>3 DEF Tables, Record, Dues, OneRow
  <1> QED
    BY <1>4, <1>5, <1>6, <1>7, <1>8 DEF RowsInv, Types, StoreInv

(* A step that is not of the store's rows. *)
LEMMA RowsAlone ==
    ASSUME RowsInv, UNCHANGED run
    PROVE  VerdictsKept
  BY DEF VerdictsKept

LEMMA SetPausedWrites ==
    ASSUME RowsInv, NEW t \in Tasks, NEW paused \in BOOLEAN, SetPaused(t, paused)
    PROVE  \E state \in {"paused", "idle"}, upcoming \in Nat \cup {None} :
              Rescheduled(t, state, upcoming) /\ (upcoming = None \/ upcoming > now)
  <1> DEFINE upcoming == IF paused THEN None ELSE FirstRun(t, now)
             state == IF paused THEN "paused" ELSE "idle"
  <1>1. now \in Nat
    BY BoundAssumption DEF RowsInv, Types, Instants
  <1>2. upcoming \in Nat \cup {None} /\ (upcoming = None \/ upcoming > now)
    BY <1>1, AdvancesPast
  <1>3. task' = [task EXCEPT ![t].state = state, ![t].next = upcoming, ![t].due = WithJitter(t, upcoming)]
    BY DEF SetPaused
  <1>4. state \in {"paused", "idle"}
    OBVIOUS
  <1> HIDE DEF upcoming, state
  <1>5. Rescheduled(t, state, upcoming)
    BY <1>2, <1>3, <1>4, ReschedulesAs DEF RowsInv, StoreInv
  <1> QED
    BY <1>2, <1>4, <1>5

LEMMA SetPausedKeeps ==
    ASSUME RowsInv, NEW t \in Tasks, NEW paused \in BOOLEAN, SetPaused(t, paused)
    PROVE  RowsInv'
  <1> USE DEF RowsInv, StoreInv
  <1>1. PICK state \in {"paused", "idle"}, upcoming \in Nat \cup {None} : Rescheduled(t, state, upcoming)
    BY SetPausedWrites
  <1>2. UNCHANGED <<now, run, engine, worker, fired>> /\ task[t].state # "running"
    BY DEF SetPaused
  <1>3. Tables' /\ Dues'
    BY <1>1, <1>2, RescheduledKeeps DEF Tables
  <1>4. task'[t].state # "running" /\ \A u \in Tasks : u # t => task'[u] = task[u]
    BY <1>1 DEF Rescheduled, TaskBecomes
  <1>5. OneRow'
    BY <1>2, <1>4 DEF OneRow
  <1>6. Types' /\ Seen'
    <2>1. asked' \in [Tasks -> 0..MaxAsked]
      BY BoundAssumption DEF SetPaused, Ask, Types
    <2> QED
      BY <1>2, <2>1 DEF Types, Seen
  <1> QED
    BY <1>3, <1>5, <1>6

LEMMA RequestRunNowKeeps ==
    ASSUME RowsInv, NEW t \in Tasks, RequestRunNow(t)
    PROVE  RowsInv'
  <1> USE DEF RowsInv, StoreInv
  <1>1. now \in Nat /\ now # None
    BY BoundAssumption, NoneAssumption DEF Types, Instants
  <1>2. PICK z \in Record : z = task[t]
    BY DEF Tables
  <1> DEFINE x == [z EXCEPT !.next = now, !.due = now]
  <1>3. task' = [task EXCEPT ![t] = x]
    BY <1>2 DEF RequestRunNow, Tables
  <1>4. x \in Record /\ x.state = task[t].state /\ x.next = now /\ x.due = now
    BY <1>1, <1>2 DEF Record
  <1> HIDE DEF x
  <1>5. TaskBecomes(t, x)
    BY <1>3, <1>4 DEF Tables, TaskBecomes
  <1>6. UNCHANGED <<now, run, engine, worker, fired>>
    BY DEF RequestRunNow
  <1>7. Tables' /\ Dues'
    BY <1>1, <1>4, <1>5, <1>6 DEF TaskBecomes, Tables, Dues
  <1>8. OneRow'
    BY <1>4, <1>5, <1>6 DEF TaskBecomes, OneRow
  <1>9. Types' /\ Seen'
    <2>1. asked' \in [Tasks -> 0..MaxAsked]
      BY BoundAssumption DEF RequestRunNow, Ask, Types
    <2> QED
      BY <1>6, <2>1 DEF Types, Seen
  <1> QED
    BY <1>7, <1>8, <1>9

LEMMA CreateKeeps ==
    ASSUME RowsInv, NEW t \in Tasks, Create(t)
    PROVE  RowsInv' /\ Rescheduled(t, "idle", FirstRun(t, now)) /\ FirstRun(t, now) \in Nat /\ FirstRun(t, now) > now
  <1> USE DEF RowsInv, StoreInv
  <1> DEFINE upcoming == FirstRun(t, now)
             x == [state |-> "idle", next |-> upcoming, due |-> WithJitter(t, upcoming), fails |-> 0]
  <1>1. now \in Nat
    BY BoundAssumption DEF Types, Instants
  <1>2. upcoming \in Nat /\ upcoming > now
    BY <1>1, AdvancesPast DEF Create
  <1>3. task' = [task EXCEPT ![t] = x] /\ task[t].state = "uncreated" /\ UNCHANGED <<now, run, engine, worker, fired, asked>>
    BY DEF Create
  <1> HIDE DEF upcoming
  <1>4. WithJitter(t, upcoming) \in Nat \cup {None}
    BY <1>2, JitterIsLater
  <1>5. x \in Record /\ x.state = "idle" /\ x.next = upcoming /\ x.due = WithJitter(t, upcoming)
    BY <1>2, <1>4 DEF Record
  <1> HIDE DEF x
  <1>6. TaskBecomes(t, x)
    BY <1>3, <1>5, TaskMoves
  <1>7. Rescheduled(t, "idle", upcoming)
    BY <1>5, <1>6 DEF Rescheduled
  <1>8. Tables' /\ Dues'
    BY <1>2, <1>3, <1>7, RescheduledKeeps DEF Tables
  <1>9. OneRow'
    BY <1>3, <1>5, <1>6 DEF OneRow, TaskBecomes
  <1>10. Types' /\ Seen'
    BY <1>3 DEF Types, Seen
  <1> QED
    BY <1>2, <1>7, <1>8, <1>9, <1>10 DEF upcoming

LEMMA DeleteKeeps ==
    ASSUME RowsInv, NEW t \in Tasks, Delete(t)
    PROVE  /\ RowsInv' /\ VerdictsKept
           /\ task'[t].next = None /\ task'[t].due = None /\ \A u \in Tasks : u # t => task'[u] = task[u]
           /\ \A s \in Instants : run'[t][s].decided = None
           /\ \A u \in Tasks, s \in Instants : u # t => run'[u][s] = run[u][s]
  <1> USE DEF RowsInv, StoreInv
  <1> DEFINE x == [state |-> "deleted", next |-> None, due |-> None, fails |-> 0]
             f == [s \in Instants |-> NoRow]
  <1>1. /\ task' = [task EXCEPT ![t] = x] /\ run' = [run EXCEPT ![t] = f]
        /\ UNCHANGED <<now, engine, worker, fired, asked>>
    BY DEF Delete
  <1>2. x \in Record /\ x.state = "deleted" /\ x.next = None /\ x.due = None
    BY DEF Record
  <1>3. f \in [Instants -> RowType] /\ \A s \in Instants : f[s].status = "none" /\ f[s].decided = None
    BY DEF NoRow, RowType
  <1> HIDE DEF x, f
  <1>4. TaskBecomes(t, x)
    BY <1>1, <1>2, TaskMoves
  <1>5. run' \in [Tasks -> [Instants -> RowType]] /\ run'[t] = f /\ \A u \in Tasks : u # t => run'[u] = run[u]
    BY <1>1, <1>3 DEF Tables
  <1>6. Tables' /\ Dues'
    BY <1>2, <1>4, <1>5 DEF Tables, Dues, TaskBecomes
  <1>7. OneRow'
    BY <1>2, <1>3, <1>4, <1>5 DEF OneRow, TaskBecomes
  <1>8. VerdictsKept
    BY <1>3, <1>5 DEF VerdictsKept
  <1>9. Types' /\ Seen'
    BY <1>1 DEF Types, Seen
  <1> QED
    BY <1>2, <1>3, <1>4, <1>5, <1>6, <1>7, <1>8, <1>9 DEF TaskBecomes

(* Recovery ends the rows that run, and may forget old ones. *)
LEMMA StartKeeps ==
    ASSUME RowsInv, NEW e \in Engines, Start(e)
    PROVE  /\ RowsInv' /\ VerdictsKept /\ Reads
           /\ \A t \in Tasks : task'[t].next = task[t].next /\ task'[t].due = task[t].due
           /\ \A t \in Tasks, s \in Instants : run'[t][s].decided \in {None, run[t][s].decided}
  <1> USE DEF RowsInv, StoreInv
  <1> DEFINE written == [t \in Tasks |-> [s \in Instants |-> IF s \in RunningOf(t) THEN Interrupted(run[t][s]) ELSE run[t][s]]]
  <1>1. \A t \in Tasks, s \in Instants :
           /\ Interrupted(run[t][s]) \in RowType /\ Interrupted(run[t][s]).status = "interrupted"
           /\ Interrupted(run[t][s]).decided = run[t][s].decided
    <2> TAKE t \in Tasks, s \in Instants
    <2>1. PICK y \in RowType : y = run[t][s]
      BY DEF Tables
    <2> QED
      BY <2>1 DEF Interrupted, RowType, Types, Verdicts
  <1>2. \A t \in Tasks : written[t] \in [Instants -> RowType]
    BY <1>1 DEF RunningOf, Tables
  <1>a. \A t \in Tasks, s \in Instants : written[t][s].status # "running" /\ written[t][s].decided = run[t][s].decided
    BY <1>1 DEF RunningOf
  <1>b. \A t \in Tasks, s \in Instants : run[t][s].status \in Verdicts => written[t][s] = run[t][s]
    BY DEF RunningOf, Verdicts, Endings, Failures
  <1>3. /\ run' = [t \in Tasks |-> Prune(written[t])] /\ task' = [t \in Tasks |-> Reclaimed(t)]
        /\ engine' = [engine EXCEPT ![e] = [Unborn EXCEPT !.life = "up", !.born = now]]
        /\ UNCHANGED <<now, worker, fired, asked>>
    BY DEF Start
  <1> HIDE DEF written
  <1>4. \A t \in Tasks : /\ run'[t] \in [Instants -> RowType]
                         /\ \A s \in Instants : run'[t][s] = written[t][s] \/ run'[t][s] = NoRow
    <2> TAKE t \in Tasks
    <2>1. PICK f \in [Instants -> RowType] : f = written[t]
      BY <1>2
    <2>2. run'[t] = Prune(f)
      BY <1>3, <2>1
    <2>3. Prune(f) \in [Instants -> RowType] /\ \A s \in Instants : Prune(f)[s] = f[s] \/ Prune(f)[s] = NoRow
      <3>1. NoRow \in RowType
        BY DEF NoRow, RowType
      <3> QED
        BY <3>1 DEF Prune
    <2> QED
      BY <2>1, <2>2, <2>3
  <1>5. NoRow.status = "none" /\ NoRow.decided = None
    BY DEF NoRow
  <1>6. /\ run' \in [Tasks -> [Instants -> RowType]]
        /\ \A t \in Tasks, s \in Instants : run'[t][s].status # "running" /\ run'[t][s].decided \in {None, run[t][s].decided}
    <2>1. run' \in [Tasks -> [Instants -> RowType]]
      BY <1>3, <1>4
    <2>2. ASSUME NEW t \in Tasks, NEW s \in Instants
          PROVE  run'[t][s].status # "running" /\ run'[t][s].decided \in {None, run[t][s].decided}
      <3>1. CASE run'[t][s] = written[t][s]
        BY <1>a, <3>1
      <3>2. CASE run'[t][s] = NoRow
        BY <1>5, <3>2
      <3> QED
        BY <1>4, <3>1, <3>2
    <2> QED
      BY <2>1, <2>2
  <1>7. VerdictsKept
    <2> SUFFICES ASSUME NEW t \in Tasks, NEW s \in Instants, run[t][s].status \in Verdicts
                 PROVE  run'[t][s].status \in {run[t][s].status, "none"}
      BY DEF VerdictsKept
    <2>1. CASE run'[t][s] = written[t][s]
      BY <1>b, <2>1
    <2>2. CASE run'[t][s] = NoRow
      BY <1>5, <2>2
    <2> QED
      BY <1>4, <2>1, <2>2
  <1>8. \A t \in Tasks : /\ Reclaimed(t) \in Record /\ Reclaimed(t).state # "running"
                         /\ Reclaimed(t).next = task[t].next /\ Reclaimed(t).due = task[t].due
    <2> TAKE t \in Tasks
    <2>1. PICK x \in Record : x = task[t]
      BY DEF Tables
    <2>2. task[t].state = "running" => RunningOf(t) # {}
      BY DEF OneRow, RunningOf
    <2>3. CASE task[t].state = "running"
      <3> DEFINE f == x.fails + 1
                 x2 == [x EXCEPT !.state = "idle", !.fails = f]
      <3>1. Reclaimed(t) = x2 /\ f \in Nat
        BY <2>1, <2>2, <2>3 DEF Reclaimed, Record
      <3> HIDE DEF f
      <3>2. x2 \in Record /\ x2.state = "idle" /\ x2.next = x.next /\ x2.due = x.due
        BY <2>1, <3>1 DEF Record
      <3> HIDE DEF x2
      <3> QED
        BY <2>1, <3>1, <3>2
    <2>4. CASE task[t].state # "running"
      BY <2>1, <2>4 DEF Reclaimed
    <2> QED
      BY <2>3, <2>4
  <1>9. /\ task' \in [Tasks -> Record]
        /\ \A t \in Tasks : task'[t].state # "running" /\ task'[t].next = task[t].next /\ task'[t].due = task[t].due
    BY <1>3, <1>8
  <1>10. Tables' /\ Dues' /\ OneRow'
    BY <1>6, <1>9 DEF Tables, Dues, OneRow
  <1>11. engine' \in [Engines -> EngineType] /\ Seen' /\ Reads
    BY <1>3, UnbornTyped, EngineMoves DEF Types
  <1>12. Types'
    BY <1>3, <1>11 DEF Types
  <1> QED
    BY <1>6, <1>7, <1>9, <1>10, <1>11, <1>12

(* A step of an engine that leaves the store alone. *)
StoreAlone == UNCHANGED <<now, task, run, fired, asked>>

LEMMA EngineKeeps ==
    ASSUME RowsInv, StoreAlone, engine' \in [Engines -> EngineType], Seen', worker' \in [Engines -> SUBSET Workers]
    PROVE  RowsInv' /\ VerdictsKept
  <1>1. Types'
    BY DEF RowsInv, Types, StoreAlone
  <1>2. Tables' /\ Dues' /\ OneRow' /\ VerdictsKept
    BY DEF RowsInv, StoreInv, Tables, Dues, OneRow, StoreAlone, VerdictsKept
  <1> QED
    BY <1>1, <1>2 DEF RowsInv, StoreInv

LEMMA CrashKeeps ==
    ASSUME RowsInv, NEW e \in Engines, Crash(e)
    PROVE  RowsInv' /\ VerdictsKept /\ Reads
  <1>1. engine' = [engine EXCEPT ![e] = [Unborn EXCEPT !.life = "dead"]] /\ now \in Instants
    BY DEF Crash, RowsInv, Types
  <1>2. engine' \in [Engines -> EngineType] /\ Seen' /\ Reads
    BY <1>1, UnbornTyped, EngineMoves
  <1>3. worker' \in [Engines -> SUBSET Workers] /\ StoreAlone
    BY DEF Crash, RowsInv, Types, StoreAlone
  <1> QED
    BY <1>2, <1>3, EngineKeeps

LEMMA StopKeeps ==
    ASSUME RowsInv, NEW e \in Engines, Stop(e)
    PROVE  RowsInv' /\ VerdictsKept /\ Reads
  <1> DEFINE life == IF worker[e] = {} THEN "dead" ELSE "stopping"
  <1>1. engine' = [engine EXCEPT ![e] = [Unborn EXCEPT !.life = life]] /\ now \in Instants /\ life \in {"dead", "stopping"}
    BY DEF Stop, RowsInv, Types
  <1> HIDE DEF life
  <1>2. engine' \in [Engines -> EngineType] /\ Seen' /\ Reads
    BY <1>1, UnbornTyped, EngineMoves
  <1>3. worker' \in [Engines -> SUBSET Workers] /\ StoreAlone
    BY DEF Stop, RowsInv, Types, StoreAlone
  <1> QED
    BY <1>2, <1>3, EngineKeeps

LEMMA TickReadsKeeps ==
    ASSUME RowsInv, NEW e \in Engines, TickReads(e)
    PROVE  RowsInv' /\ VerdictsKept /\ Reads
  <1> DEFINE seen == {[id |-> t, record |-> task[t]] : t \in Due}
  <1>1. PICK g \in EngineType : g = engine[e]
    BY DEF RowsInv, Types
  <1> DEFINE g2 == [g EXCEPT !.at = now, !.seen = seen]
  <1>2. engine' = [engine EXCEPT ![e] = g2]
    BY <1>1 DEF TickReads, RowsInv, Types
  <1>3. seen \in SUBSET [id : Tasks, record : Record] /\ now \in Instants
    BY DEF Due, RowsInv, StoreInv, Tables, Types
  <1>4. \A r \in seen : r.record.next # None /\ r.record.next <= now
    <2> TAKE r \in seen
    <2>1. PICK t \in Due : r.record = task[t]
      OBVIOUS
    <2>2. t \in Tasks /\ task[t].due # None /\ task[t].due <= now /\ task[t] \in Record
      BY DEF Due, RowsInv, StoreInv, Tables
    <2>3. task[t].next # None /\ task[t].next <= task[t].due
      BY <2>2 DEF RowsInv, StoreInv, Dues
    <2> QED
      BY <1>3, <2>1, <2>2, <2>3, BoundAssumption DEF Record, Instants
  <1>a. \A r \in seen : \E t \in Tasks : r = [id |-> t, record |-> task[t]]
    BY DEF Due
  <1> HIDE DEF seen
  <1>5. g2 \in EngineType /\ g2.seen = seen /\ g2.at = now
    BY <1>1, <1>3 DEF EngineType
  <1> HIDE DEF g2
  <1>6. SeenBy(g2) /\ ReadBy(e, g2)
    BY <1>4, <1>5, <1>a DEF SeenBy, ReadBy
  <1>7. engine' \in [Engines -> EngineType] /\ Seen' /\ Reads
    BY <1>2, <1>5, <1>6, EngineMoves
  <1>8. worker' \in [Engines -> SUBSET Workers] /\ StoreAlone
    BY DEF TickReads, RowsInv, Types, StoreAlone
  <1> QED
    BY <1>7, <1>8, EngineKeeps

LEMMA PassIsFullKeeps ==
    ASSUME RowsInv, NEW e \in Engines, PassIsFull(e)
    PROVE  RowsInv' /\ VerdictsKept /\ Reads
  <1>1. PICK g \in EngineType : g = engine[e]
    BY DEF RowsInv, Types
  <1> DEFINE g2 == [g EXCEPT !.seen = {}, !.at = 0]
  <1>2. engine' = [engine EXCEPT ![e] = g2]
    BY <1>1 DEF PassIsFull, RowsInv, Types
  <1>a. 0 \in Instants
    BY BoundAssumption DEF Instants
  <1>3. g2 \in EngineType /\ g2.seen = {} /\ g2.at = 0
    BY <1>1, <1>a DEF EngineType
  <1> HIDE DEF g2
  <1>4. SeenBy(g2) /\ ReadBy(e, g2)
    BY <1>3 DEF SeenBy, ReadBy
  <1>5. engine' \in [Engines -> EngineType] /\ Seen' /\ Reads
    BY <1>2, <1>3, <1>4, EngineMoves
  <1>6. worker' \in [Engines -> SUBSET Workers] /\ StoreAlone
    BY DEF PassIsFull, RowsInv, Types, StoreAlone
  <1> QED
    BY <1>5, <1>6, EngineKeeps

LEMMA GoneEndsKeeps ==
    ASSUME RowsInv, NEW e \in Engines, GoneEnds(e)
    PROVE  RowsInv' /\ VerdictsKept /\ Reads
  <1>1. PICK g \in EngineType : g = engine[e]
    BY DEF RowsInv, Types
  <1> DEFINE g2 == [g EXCEPT !.gone = {}]
  <1>2. engine' = [engine EXCEPT ![e] = g2]
    BY <1>1 DEF GoneEnds, RowsInv, Types
  <1>3. g2 \in EngineType /\ g2.seen = g.seen /\ g2.at = g.at
    BY <1>1 DEF EngineType
  <1> HIDE DEF g2
  <1>4. SeenBy(g2) /\ ReadBy(e, g2)
    BY <1>1, <1>3 DEF SeenBy, ReadBy, RowsInv, Seen
  <1>5. engine' \in [Engines -> EngineType] /\ Seen' /\ Reads
    BY <1>2, <1>3, <1>4, EngineMoves
  <1>6. PICK w \in g.gone : CompleteRun(w, "gone")
    BY <1>1 DEF GoneEnds
  <1>7. w \in Workers
    BY <1>1, <1>6 DEF EngineType
  <1>8. StoreInv' /\ VerdictsKept
    BY <1>6, <1>7, CompleteKeeps
  <1>9. UNCHANGED <<now, worker, fired, asked>>
    BY DEF GoneEnds
  <1> QED
    BY <1>5, <1>8, <1>9 DEF RowsInv, Types

LEMMA WorkerEndsKeeps ==
    ASSUME RowsInv, NEW e \in Engines, NEW w \in worker[e], NEW status \in Endings, WorkerEnds(e, w, status)
    PROVE  RowsInv' /\ VerdictsKept /\ Reads
  <1>1. w \in Workers
    BY DEF RowsInv, Types
  <1>2. StoreInv' /\ VerdictsKept
    BY <1>1, CompleteKeeps DEF WorkerEnds
  <1>3. worker' \in [Engines -> SUBSET Workers]
    BY DEF WorkerEnds, RowsInv, Types
  <1>4. engine' \in [Engines -> EngineType] /\ Seen' /\ Reads
    <2>1. CASE engine' = engine
      BY <2>1, EnginesAlone
    <2>2. CASE engine' = [engine EXCEPT ![e].life = "dead"]
      <3>1. PICK g \in EngineType : g = engine[e]
        BY DEF RowsInv, Types
      <3> DEFINE g2 == [g EXCEPT !.life = "dead"]
      <3>2. engine' = [engine EXCEPT ![e] = g2]
        BY <2>2, <3>1 DEF RowsInv, Types
      <3>3. g2 \in EngineType /\ g2.seen = g.seen /\ g2.at = g.at
        BY <3>1 DEF EngineType
      <3> HIDE DEF g2
      <3>4. SeenBy(g2) /\ ReadBy(e, g2)
        BY <3>1, <3>3 DEF SeenBy, ReadBy, RowsInv, Seen
      <3> QED
        BY <3>2, <3>3, <3>4, EngineMoves
    <2> QED
      BY <2>1, <2>2 DEF WorkerEnds
  <1>5. UNCHANGED <<now, fired, asked>>
    BY DEF WorkerEnds
  <1> QED
    BY <1>2, <1>3, <1>4, <1>5 DEF RowsInv, Types

LEMMA WatchPendingKeeps ==
    ASSUME RowsInv, NEW e \in Engines, NEW r \in engine[e].seen, WatchPending(e, r)
    PROVE  RowsInv' /\ VerdictsKept
  <1> USE DEF RowsInv, StoreInv
  <1>1. engine' \in [Engines -> EngineType] /\ Seen' /\ Reads
    BY DecidedKeeps DEF WatchPending
  <1>2. UNCHANGED <<now, run, worker, fired, asked>>
    BY DEF WatchPending
  <1>3. Tables' /\ Dues' /\ OneRow'
    <2>1. CASE task' = task
      BY <1>2, <2>1 DEF Tables, Dues, OneRow
    <2>2. CASE task' = [task EXCEPT ![r.id].next = Upcoming(e, r), ![r.id].due = WithJitter(r.id, Upcoming(e, r))]
      <3>1. r.id \in Tasks /\ Upcoming(e, r) \in Nat \cup {None}
        BY SeenIsTyped
      <3>2. Rescheduled(r.id, task[r.id].state, Upcoming(e, r))
        BY <2>2, <3>1, Reschedules
      <3>3. Tables' /\ Dues'
        BY <1>2, <3>1, <3>2, RescheduledKeeps DEF Tables
      <3>4. \A u \in Tasks : task'[u].state = task[u].state
        BY <3>2 DEF Rescheduled, TaskBecomes
      <3> QED
        BY <1>2, <3>3, <3>4 DEF OneRow
    <2> QED
      BY <2>1, <2>2 DEF WatchPending
  <1> QED
    BY <1>1, <1>2, <1>3 DEF Types, VerdictsKept

LEMMA WatchGoneKeeps ==
    ASSUME RowsInv, NEW e \in Engines, NEW r \in engine[e].seen, WatchGone(e, r)
    PROVE  RowsInv' /\ VerdictsKept
  <1>1. PICK g \in EngineType : g = engine[e]
    BY DEF RowsInv, Types
  <1> DEFINE at == IF g.seen = {r} THEN 0 ELSE g.at
             gone == IF Claimable(r) THEN {Worker(r, TRUE)} ELSE {}
             g2 == [g EXCEPT !.seen = @ \ {r}, !.at = at, !.gone = gone]
  <1>2. at \in Instants /\ (at = g.at \/ (at = 0 /\ g.seen \ {r} = {}))
    BY <1>1, BoundAssumption DEF EngineType, Instants
  <1>3. gone \in SUBSET Workers
    <2>1. Worker(r, TRUE) \in Workers
      BY SeenIsTyped DEF Worker, Workers
    <2> QED
      BY <2>1
  <1>4. engine' = [engine EXCEPT ![e] = g2]
    BY <1>1 DEF WatchGone, RowsInv, Types
  <1> HIDE DEF at, gone
  <1>5. g2 \in EngineType /\ g2.seen = g.seen \ {r} /\ g2.at = at
    BY <1>1, <1>2, <1>3 DEF EngineType
  <1>6. SeenBy(g2) /\ ReadBy(e, g2)
    BY <1>1, <1>2, <1>5 DEF SeenBy, ReadBy, RowsInv, Seen
  <1> HIDE DEF g2
  <1>7. engine' \in [Engines -> EngineType] /\ Seen' /\ Reads
    BY <1>4, <1>5, <1>6, EngineMoves
  <1>8. StoreInv' /\ VerdictsKept
    BY ClaimKeeps DEF WatchGone
  <1>9. UNCHANGED <<now, worker, fired, asked>>
    BY DEF WatchGone
  <1> QED
    BY <1>7, <1>8, <1>9 DEF RowsInv, Types

-----------------------------------------------------------------------------
(* One decision of a pass that goes on with the pass's clock. *)
LEMMA DecideKeeps ==
    ASSUME RowsInv, NEW e \in Engines, NEW r \in engine[e].seen, Decide(e, r)
    PROVE  RowsInv' /\ VerdictsKept
  <1>1. ASSUME StoreInv', VerdictsKept, Decided(e, r), UNCHANGED <<now, asked>>,
               worker' \in [Engines -> SUBSET Workers], fired' \in [Tasks -> [Instants -> Nat]]
        PROVE  RowsInv' /\ VerdictsKept
    <2>1. engine' \in [Engines -> EngineType] /\ Seen' /\ Reads
      BY <1>1, DecidedKeeps
    <2> QED
      BY <1>1, <2>1 DEF RowsInv, Types
  <1>2. UNCHANGED <<worker, fired>> => worker' \in [Engines -> SUBSET Workers] /\ fired' \in [Tasks -> [Instants -> Nat]]
    BY DEF RowsInv, Types
  <1>3. CASE Overlaps(e, r)
    <2>1. RecordSkip(e, r, "overlap") /\ Decided(e, r) /\ UNCHANGED <<now, worker, fired, asked>>
      BY <1>3 DEF Overlaps
    <2> QED
      BY <1>1, <1>2, <2>1, SkipKeeps
  <1>4. CASE Misses(e, r)
    <2>1. RecordSkip(e, r, "missed") /\ Decided(e, r) /\ UNCHANGED <<now, worker, fired, asked>>
      BY <1>4 DEF Misses
    <2> QED
      BY <1>1, <1>2, <2>1, SkipKeeps
  <1>5. CASE WaitsForStartup(e, r)
    <2>1. StoreAlone /\ UNCHANGED worker
      BY <1>5 DEF WaitsForStartup, StoreAlone
    <2>2. engine' \in [Engines -> EngineType] /\ Seen' /\ Reads /\ worker' \in [Engines -> SUBSET Workers]
      BY <1>5, <2>1, DecidedKeeps DEF WaitsForStartup, RowsInv, Types
    <2> QED
      BY <2>1, <2>2, EngineKeeps
  <1>6. CASE Claims(e, r)
    <2>1. ClaimDue(e, r, "running", Upcoming(e, r)) /\ Spawn(e, r, FALSE) /\ Decided(e, r) /\ UNCHANGED <<now, asked>>
      BY <1>6 DEF Claims
    <2>2. Upcoming(e, r) \in Nat \cup {None}
      BY SeenIsTyped
    <2>3. StoreInv' /\ VerdictsKept
      BY <2>1, <2>2, ClaimKeeps
    <2> QED
      BY <1>1, <2>1, <2>3, SpawnKeeps
  <1>7. CASE WatchDone(e, r)
    <2>1. ClaimDue(e, r, "running", None) /\ Spawn(e, r, TRUE) /\ Decided(e, r) /\ UNCHANGED <<now, asked>>
      BY <1>7 DEF WatchDone
    <2>2. StoreInv' /\ VerdictsKept
      BY <2>1, ClaimKeeps
    <2> QED
      BY <1>1, <2>1, <2>2, SpawnKeeps
  <1> QED
    BY <1>3, <1>4, <1>5, <1>6, <1>7, WatchPendingKeeps, WatchGoneKeeps DEF Decide

LEMMA RowsStep == RowsInv /\ [Next]_vars => RowsInv' /\ VerdictsKept
  <1> SUFFICES ASSUME RowsInv, [Next]_vars PROVE RowsInv' /\ VerdictsKept
    OBVIOUS
  <1>1. CASE Clock
    <2>1. UNCHANGED <<task, run, engine, worker, fired, asked>> /\ now' \in Instants
      BY <1>1, BoundAssumption DEF Clock, RowsInv, Types, Instants
    <2>2. Types' /\ Seen'
      BY <2>1 DEF RowsInv, Types, Seen
    <2>3. Tables' /\ Dues' /\ OneRow' /\ VerdictsKept
      BY <2>1 DEF RowsInv, StoreInv, Tables, Dues, OneRow, VerdictsKept
    <2> QED
      BY <2>2, <2>3 DEF RowsInv, StoreInv
  <1>2. ASSUME NEW t \in Tasks, Create(t) \/ Administer(t)
        PROVE  RowsInv' /\ VerdictsKept
    <2>1. CASE Create(t)
      BY <2>1, CreateKeeps, RowsAlone DEF Create
    <2>2. CASE SetPaused(t, TRUE) \/ SetPaused(t, FALSE)
      BY <2>2, SetPausedKeeps, RowsAlone DEF SetPaused
    <2>3. CASE RequestRunNow(t)
      BY <2>3, RequestRunNowKeeps, RowsAlone DEF RequestRunNow
    <2>4. CASE Delete(t)
      BY <2>4, DeleteKeeps
    <2> QED
      BY <1>2, <2>1, <2>2, <2>3, <2>4 DEF Administer
  <1>3. ASSUME NEW e \in Engines, Start(e) \/ Crash(e) \/ Stop(e) \/ Pass(e) \/ WorkEnds(e)
        PROVE  RowsInv' /\ VerdictsKept
    <2>1. CASE Pass(e)
      BY <2>1, TickReadsKeeps, PassIsFullKeeps, GoneEndsKeeps, DecideKeeps DEF Pass
    <2>2. CASE WorkEnds(e)
      BY <2>2, WorkerEndsKeeps DEF WorkEnds
    <2> QED
      BY <1>3, <2>1, <2>2, StartKeeps, CrashKeeps, StopKeeps
  <1>4. CASE UNCHANGED vars
    <2>1. Types' /\ Seen'
      BY <1>4 DEF vars, RowsInv, Types, Seen
    <2>2. Tables' /\ Dues' /\ OneRow' /\ VerdictsKept
      BY <1>4 DEF vars, RowsInv, StoreInv, Tables, Dues, OneRow, VerdictsKept
    <2> QED
      BY <2>1, <2>2 DEF RowsInv, StoreInv
  <1> QED
    BY <1>1, <1>2, <1>3, <1>4 DEF Next

LEMMA RowsImply == RowsInv => TypeOK /\ RunningHasOneRow
  <1> SUFFICES ASSUME RowsInv PROVE TypeOK /\ RunningHasOneRow
    OBVIOUS
  <1>1. TypeOK
    <2>1. ASSUME NEW e \in Engines
          PROVE  /\ engine[e].life \in {"unborn", "up", "stopping", "dead"}
                 /\ engine[e].born \in Instants /\ engine[e].at \in Instants
                 /\ \A r \in engine[e].seen : r.id \in Tasks /\ r.record \in Record /\ r.record.next <= engine[e].at
                 /\ engine[e].gone \subseteq Workers
                 /\ worker[e] \subseteq Workers
      <3>1. engine[e] \in EngineType /\ worker[e] \subseteq Workers
        BY DEF RowsInv, Types
      <3>2. \A r \in engine[e].seen : r.id \in Tasks /\ r.record \in Record /\ r.record.next <= engine[e].at
        BY SeenIsTyped DEF RowsInv, Seen
      <3> QED
        BY <3>1, <3>2 DEF EngineType
    <2>2. task \in [Tasks -> Record] /\ run \in [Tasks -> [Instants -> RowType]]
      BY DEF RowsInv, StoreInv, Tables
    <2> QED
      BY <2>1, <2>2 DEF TypeOK, RowsInv, Types, RowType
  <1>2. RunningHasOneRow
    <2> SUFFICES ASSUME NEW t \in Tasks
                 PROVE  Cardinality(RunningOf(t)) = IF task[t].state = "running" THEN 1 ELSE 0
      BY DEF RunningHasOneRow
    <2>1. CASE task[t].state = "running"
      <3>1. PICK s \in Instants : run[t][s].status = "running"
        BY <2>1 DEF RowsInv, StoreInv, OneRow
      <3>2. RunningOf(t) = {s}
        BY <3>1 DEF RowsInv, StoreInv, OneRow, RunningOf
      <3> QED
        BY <2>1, <3>2, FS_Singleton
    <2>2. CASE task[t].state # "running"
      <3>1. RunningOf(t) = {}
        BY <2>2 DEF RowsInv, StoreInv, OneRow, RunningOf
      <3> QED
        BY <2>2, <3>1, FS_EmptySet
    <2> QED
      BY <2>1, <2>2
  <1> QED
    BY <1>1, <1>2

(* Whatever the engines, the triggers and the administrators do, a task of  *)
(* the table is running exactly while one row of it is, and a verdict once   *)
(* written is never replaced: the claim's, the verdict's and the recovery's  *)
(* transactions (sqlite/tasks.py) keep the two tables together.              *)
THEOREM RowsFollowTasks == Spec => [](TypeOK /\ RunningHasOneRow) /\ VerdictStands
  <1>1. RowsInv /\ [Next]_vars => [VerdictsKept]_vars
    BY RowsStep
  <1>2. VerdictStands <=> [][VerdictsKept]_vars
    BY DEF VerdictStands, VerdictsKept
  <1> QED
    BY RowsInit, RowsStep, RowsImply, <1>1, <1>2, PTL DEF Spec

-----------------------------------------------------------------------------
(* The schedule's own occurrences: no watch moves a schedule back, and      *)
(* nobody names an occurrence by running a task now.                        *)

(* A due time is its occurrence's, in the table and in what a pass holds. *)
Jittered == \A t \in Tasks : task[t].due = WithJitter(t, task[t].next)
Readings ==
    \A e \in Engines :
        /\ engine[e].at <= now
        /\ \A r \in engine[e].seen : r.record.due = WithJitter(r.id, r.record.next)

(* What was decided was due, and is behind what comes next. *)
Past ==
    \A t \in Tasks, s \in Instants :
        /\ fired[t][s] > 0 => s <= now
        /\ run[t][s].decided # None => s <= run[t][s].decided /\ run[t][s].decided <= now
Ahead ==
    \A t \in Tasks, s \in Instants : task[t].next # None =>
        /\ fired[t][s] > 0 => s < task[t].next
        /\ run[t][s].decided # None => run[t][s].decided < task[t].next

History == Jittered /\ Past /\ Ahead /\ NothingFiresTwice /\ CatchesUpOnce
OnceInv == History /\ Readings

(* A step that decides nothing. *)
DecidesNothing ==
    /\ fired' = fired /\ now' \in {now, now + 1}
    /\ \A t \in Tasks, s \in Instants : run'[t][s].decided \in {None, run[t][s].decided}
    /\ \A t \in Tasks : /\ task'[t].due = WithJitter(t, task'[t].next)
                        /\ task'[t].next \in {None, task[t].next} \/ task'[t].next > now

(* What the rows and the tasks hold, as numbers. *)
LEMMA Numbers ==
    ASSUME RowsInv
    PROVE  /\ now \in Nat /\ Instants \subseteq Nat
           /\ \A t \in Tasks : task[t].next \in Nat \cup {None}
           /\ \A t \in Tasks, s \in Instants : fired[t][s] \in Nat /\ run[t][s].decided \in Nat \cup {None}
           /\ \A e \in Engines : engine[e].at \in Nat
  <1>1. now \in Nat /\ Instants \subseteq Nat
    BY BoundAssumption DEF RowsInv, Types, Instants
  <1>2. \A t \in Tasks : task[t].next \in Nat \cup {None}
    BY DEF RowsInv, StoreInv, Tables, Record
  <1>3. \A t \in Tasks, s \in Instants : fired[t][s] \in Nat
    BY DEF RowsInv, Types
  <1>4. \A t \in Tasks, s \in Instants : run[t][s].decided \in Nat \cup {None}
    BY <1>1 DEF RowsInv, StoreInv, Tables, RowType
  <1>5. \A e \in Engines : engine[e].at \in Nat
    BY <1>1 DEF RowsInv, Types, EngineType
  <1> QED
    BY <1>1, <1>2, <1>3, <1>4, <1>5

LEMMA QuietKeeps ==
    ASSUME RowsInv, RowsInv', History, DecidesNothing
    PROVE  History'
  <1>1. /\ now \in Nat /\ Instants \subseteq Nat /\ now <= now' /\ now' \in Nat
        /\ \A t \in Tasks : task[t].next \in Nat \cup {None} /\ task'[t].next \in Nat \cup {None}
        /\ \A t \in Tasks, s \in Instants : fired[t][s] \in Nat /\ run[t][s].decided \in Nat \cup {None}
    BY Numbers DEF DecidesNothing, RowsInv, StoreInv, Tables, Record
  <1>2. Jittered'
    BY DEF DecidesNothing, Jittered
  <1>3. Past'
    BY <1>1, NoneAssumption DEF DecidesNothing, Past, History
  <1>4. Ahead'
    <2> SUFFICES ASSUME NEW t \in Tasks, NEW s \in Instants, task'[t].next # None
                 PROVE  /\ fired[t][s] > 0 => s < task'[t].next
                        /\ run'[t][s].decided # None => run'[t][s].decided < task'[t].next
      BY DEF Ahead, DecidesNothing
    <2>1. run'[t][s].decided # None => run'[t][s].decided = run[t][s].decided
      BY DEF DecidesNothing
    <2>2. CASE task'[t].next = task[t].next
      BY <2>1, <2>2 DEF History, Ahead
    <2>3. CASE task'[t].next > now
      BY <1>1, <2>1, <2>3, NoneAssumption DEF History, Past
    <2> QED
      BY <2>2, <2>3 DEF DecidesNothing
  <1>5. NothingFiresTwice'
    BY DEF DecidesNothing, History, NothingFiresTwice
  <1>6. CatchesUpOnce'
    <2> SUFFICES ASSUME NEW t \in Tasks, NEW s \in Instants, NEW r \in Instants,
                        s < r, run'[t][s].decided # None, run'[t][r].decided # None
                 PROVE  r > run'[t][s].decided
      BY DEF CatchesUpOnce
    <2>1. run'[t][s].decided = run[t][s].decided /\ run'[t][r].decided = run[t][r].decided
      BY DEF DecidesNothing
    <2> QED
      BY <2>1 DEF History, CatchesUpOnce
  <1> QED
    BY <1>2, <1>3, <1>4, <1>5, <1>6 DEF History

LEMMA ReadsKeeps ==
    ASSUME RowsInv, OnceInv, Reads, now' \in {now, now + 1}
    PROVE  Readings'
  <1>1. now \in Nat /\ now <= now' /\ \A e \in Engines : engine[e].at <= now
    BY Numbers DEF OnceInv, Readings
  <1>2. ASSUME NEW e \in Engines PROVE engine'[e].at <= now'
    BY <1>1, Numbers DEF Reads, ReadBy
  <1>3. ASSUME NEW e \in Engines, NEW r \in engine'[e].seen PROVE r.record.due = WithJitter(r.id, r.record.next)
    <2>1. CASE r \in engine[e].seen
      BY <2>1 DEF OnceInv, Readings
    <2>2. CASE \E t \in Tasks : r = [id |-> t, record |-> task[t]]
      BY <2>2 DEF OnceInv, History, Jittered
    <2> QED
      BY <2>1, <2>2 DEF Reads, ReadBy
  <1> QED
    BY <1>2, <1>3 DEF Readings

(* The occurrence that a claim or a skip decides is the one that came next. *)
LEMMA UnclaimedIsNext ==
    ASSUME RowsInv, OnceInv, NEW e \in Engines, NEW r \in engine[e].seen, Unclaimed(r)
    PROVE  task[r.id].next = r.record.next
  <1>1. r.id \in Tasks /\ r.record.next \in Nat /\ task[r.id].next \in Nat \cup {None} /\ Jitter[r.id] \in Nat
    BY SeenIsTyped, Numbers, TaskAssumption
  <1>2. r.record.due = WithJitter(r.id, r.record.next) /\ task[r.id].due = WithJitter(r.id, task[r.id].next)
    BY <1>1 DEF OnceInv, Readings, History, Jittered
  <1>3. WithJitter(r.id, task[r.id].next) = WithJitter(r.id, r.record.next)
    BY <1>2 DEF Unclaimed
  <1> QED
    BY <1>1, <1>3, NoneAssumption DEF WithJitter

(* One occurrence is decided: its row is written with the pass's clock, the *)
(* schedule moves past that clock, and its work is started or not.          *)
OccurrenceDecided(e, r, state, upcoming, y) ==
    /\ Unclaimed(r)
    /\ upcoming = None \/ upcoming > engine[e].at
    /\ Rescheduled(r.id, state, upcoming)
    /\ RowBecomes(r.id, r.record.next, y) /\ y.decided = engine[e].at
    /\ fired' = fired \/ fired' = [fired EXCEPT ![r.id][r.record.next] = @ + 1]
    /\ now' = now

LEMMA DecisionKeeps ==
    ASSUME RowsInv, OnceInv, NEW e \in Engines, NEW r \in engine[e].seen,
           NEW state, NEW upcoming \in Nat \cup {None}, NEW y, OccurrenceDecided(e, r, state, upcoming, y)
    PROVE  History'
  <1> USE DEF OnceInv, History
  <1> DEFINE t == r.id
             s == r.record.next
             at == engine[e].at
  <1>1. t \in Tasks /\ s \in Instants /\ s \in Nat /\ at \in Nat /\ now \in Nat /\ s <= at /\ at <= now /\ at # None
    BY SeenIsTyped, Numbers, NoneAssumption DEF RowsInv, Seen, Readings
  <1>2. task[t].next = s
    BY UnclaimedIsNext DEF OccurrenceDecided
  <1>3. /\ RowBecomes(t, s, y) /\ y.decided = at
        /\ upcoming = None \/ upcoming > at
        /\ now' = now
        /\ fired' = fired \/ fired' = [fired EXCEPT ![t][s] = @ + 1]
        /\ Rescheduled(t, state, upcoming)
    BY DEF OccurrenceDecided
  <1> HIDE DEF t, s, at
  <1>4. /\ run'[t][s].decided = at
        /\ \A u \in Tasks, v \in Instants : <<u, v>> # <<t, s>> => run'[u][v].decided = run[u][v].decided
    BY <1>3 DEF RowBecomes
  <1>5. task'[t].next = upcoming /\ task'[t].due = WithJitter(t, upcoming) /\ \A u \in Tasks : u # t => task'[u] = task[u]
    BY <1>3 DEF Rescheduled, TaskBecomes
  <1>6. fired[t][s] = 0
    BY <1>1, <1>2, Numbers, NoneAssumption DEF Ahead
  <1>7. /\ fired'[t][s] \in {0, 1}
        /\ \A u \in Tasks, v \in Instants : <<u, v>> # <<t, s>> => fired'[u][v] = fired[u][v]
    <2>1. fired \in [Tasks -> [Instants -> Nat]]
      BY DEF RowsInv, Types
    <2> QED
      BY <1>1, <1>3, <1>6, <2>1
  <1>8. Jittered'
    BY <1>5 DEF Jittered
  <1>9. Past'
    <2> SUFFICES ASSUME NEW u \in Tasks, NEW v \in Instants
                 PROVE  /\ fired'[u][v] > 0 => v <= now
                        /\ run'[u][v].decided # None => v <= run'[u][v].decided /\ run'[u][v].decided <= now
      BY <1>3 DEF Past
    <2>1. CASE <<u, v>> = <<t, s>>
      BY <1>1, <1>4, <2>1
    <2>2. CASE <<u, v>> # <<t, s>>
      BY <1>4, <1>7, <2>2 DEF Past
    <2> QED
      BY <2>1, <2>2
  <1>10. Ahead'
    <2> SUFFICES ASSUME NEW u \in Tasks, NEW v \in Instants, task'[u].next # None
                 PROVE  /\ fired'[u][v] > 0 => v < task'[u].next
                        /\ run'[u][v].decided # None => run'[u][v].decided < task'[u].next
      BY DEF Ahead
    <2>1. CASE u # t
      BY <1>4, <1>5, <1>7, <2>1 DEF Ahead
    <2>2. CASE u = t /\ v = s
      BY <1>1, <1>3, <1>4, <1>5, <2>2
    <2>3. CASE u = t /\ v # s
      <3>1. fired'[u][v] = fired[u][v] /\ run'[u][v].decided = run[u][v].decided /\ task'[u].next = upcoming /\ upcoming > at
        BY <1>1, <1>3, <1>4, <1>5, <1>7, <2>3
      <3>2. /\ fired[u][v] > 0 => v < s
            /\ run[u][v].decided # None => run[u][v].decided < s
        BY <1>1, <1>2, <2>3, NoneAssumption DEF Ahead
      <3>3. v \in Nat /\ run[u][v].decided \in Nat \cup {None}
        BY Numbers
      <3> QED
        BY <1>1, <3>1, <3>2, <3>3
    <2> QED
      BY <2>1, <2>2, <2>3
  <1>11. NothingFiresTwice'
    BY <1>7 DEF NothingFiresTwice
  <1>12. CatchesUpOnce'
    <2> SUFFICES ASSUME NEW u \in Tasks, NEW v \in Instants, NEW w \in Instants,
                        v < w, run'[u][v].decided # None, run'[u][w].decided # None
                 PROVE  w > run'[u][v].decided
      BY DEF CatchesUpOnce
    <2>a. v \in Nat /\ w \in Nat /\ v # w
      BY Numbers
    <2>1. CASE u # t \/ (v # s /\ w # s)
      <3>1. run'[u][v].decided = run[u][v].decided /\ run'[u][w].decided = run[u][w].decided
        BY <1>4, <2>1
      <3> QED
        BY <3>1 DEF CatchesUpOnce
    <2>2. CASE u = t /\ w = s
      <3>1. run'[u][v].decided = run[u][v].decided
        BY <1>4, <2>a, <2>2
      <3>2. run[u][v].decided < s /\ run[u][v].decided \in Nat
        BY <1>1, <1>2, <2>2, <3>1, Numbers, NoneAssumption DEF Ahead
      <3> QED
        BY <1>1, <2>2, <3>1, <3>2
    <2>3. CASE u = t /\ v = s
      <3>1. run'[u][w].decided = run[u][w].decided /\ run[u][w].decided \in Nat
        BY <1>4, <2>a, <2>3, Numbers
      <3>2. run[u][w].decided < s /\ w <= run[u][w].decided
        BY <1>1, <1>2, <2>3, <3>1, NoneAssumption DEF Ahead, Past
      <3> QED
        BY <1>1, <2>a, <2>3, <3>1, <3>2
    <2> QED
      BY <2>1, <2>2, <2>3
  <1> QED
    BY <1>8, <1>9, <1>10, <1>11, <1>12

-----------------------------------------------------------------------------
LEMMA OnceInit == Init => OnceInv
  <1> SUFFICES ASSUME Init PROVE OnceInv
    OBVIOUS
  <1> USE DEF Init
  <1>1. Unborn.at = 0 /\ Unborn.seen = {} /\ NoRow.decided = None
    BY DEF Unborn, NoRow
  <1>2. Jittered
    BY DEF Jittered, WithJitter
  <1>3. Past /\ Ahead /\ NothingFiresTwice /\ CatchesUpOnce
    BY <1>1 DEF Past, Ahead, NothingFiresTwice, CatchesUpOnce
  <1>4. Readings
    BY <1>1 DEF Readings
  <1> QED
    BY <1>2, <1>3, <1>4 DEF OnceInv, History

(* A step of the tables' that leaves the engines alone, or of the engines'  *)
(* that decides nothing.                                                    *)
LEMMA QuietStep ==
    ASSUME RowsInv, OnceInv, RowsInv', DecidesNothing, Reads
    PROVE  OnceInv'
  <1>1. History'
    BY QuietKeeps DEF OnceInv
  <1>2. Readings'
    BY ReadsKeeps DEF DecidesNothing
  <1> QED
    BY <1>1, <1>2 DEF OnceInv

LEMMA UntouchedIsQuiet ==
    ASSUME OnceInv, UNCHANGED <<now, fired>>,
           \A t \in Tasks : task'[t].next = task[t].next /\ task'[t].due = task[t].due,
           \A t \in Tasks, s \in Instants : run'[t][s].decided \in {None, run[t][s].decided}
    PROVE  DecidesNothing
  BY DEF DecidesNothing, OnceInv, History, Jittered

LEMMA RescheduledIsQuiet ==
    ASSUME OnceInv, NEW t \in Tasks, NEW state, NEW upcoming, Rescheduled(t, state, upcoming), upcoming = None \/ upcoming > now,
           UNCHANGED <<now, fired, run>>
    PROVE  DecidesNothing
  <1>1. /\ task'[t].next = upcoming /\ task'[t].due = WithJitter(t, upcoming)
        /\ \A u \in Tasks : u # t => task'[u] = task[u]
    BY DEF Rescheduled, TaskBecomes
  <1>2. \A u \in Tasks : task[u].due = WithJitter(u, task[u].next)
    BY DEF OnceInv, History, Jittered
  <1>3. ASSUME NEW u \in Tasks
        PROVE  /\ task'[u].due = WithJitter(u, task'[u].next)
               /\ task'[u].next \in {None, task[u].next} \/ task'[u].next > now
    BY <1>1, <1>2
  <1> QED
    BY <1>3 DEF DecidesNothing

LEMMA DecideOnce ==
    ASSUME RowsInv, OnceInv, RowsInv', Watches = {}, NEW e \in Engines, NEW r \in engine[e].seen, Decide(e, r)
    PROVE  OnceInv'
  <1>1. Overlaps(e, r) \/ WaitsForStartup(e, r) \/ Misses(e, r) \/ Claims(e, r)
    BY DEF Decide, WatchPending, WatchDone, WatchGone, AsksWatch
  <1>2. Decided(e, r) /\ UNCHANGED now
    BY <1>1 DEF Overlaps, WaitsForStartup, Misses, Claims
  <1>3. Reads
    BY <1>2, DecidedKeeps
  <1>4. Readings'
    BY <1>2, <1>3, ReadsKeeps
  <1>5. UNCHANGED <<task, run, fired>> => OnceInv'
    BY <1>2, <1>3, UntouchedIsQuiet, QuietStep
  <1>6. Upcoming(e, r) \in Nat \cup {None} /\ (Upcoming(e, r) = None \/ Upcoming(e, r) > engine[e].at)
    BY SeenIsTyped
  <1>7. ASSUME NEW status \in {"overlap", "missed"}, RecordSkip(e, r, status), UNCHANGED fired
        PROVE  OnceInv'
    <2>1. CASE Exists(r.id) /\ Unclaimed(r)
      <3>1. Row(e, status).decided = engine[e].at
        BY RowTyped
      <3>2. OccurrenceDecided(e, r, task[r.id].state, Upcoming(e, r), Row(e, status))
        BY <1>2, <1>6, <1>7, <2>1, <3>1, SkipWrites DEF OccurrenceDecided
      <3> QED
        BY <1>4, <1>6, <3>2, DecisionKeeps DEF OnceInv
    <2>2. CASE ~(Exists(r.id) /\ Unclaimed(r))
      BY <1>5, <1>7, <2>2 DEF RecordSkip
    <2> QED
      BY <2>1, <2>2
  <1>8. CASE Claims(e, r)
    <2>1. ClaimDue(e, r, "running", Upcoming(e, r)) /\ Spawn(e, r, FALSE)
      BY <1>8 DEF Claims
    <2>2. CASE Claimable(r)
      <3>1. Row(e, "running").decided = engine[e].at
        BY RowTyped
      <3>2. fired' = [fired EXCEPT ![r.id][r.record.next] = @ + 1] /\ Unclaimed(r)
        BY <2>1, <2>2 DEF Spawn, Claimable
      <3>3. Rescheduled(r.id, "running", Upcoming(e, r)) /\ RowBecomes(r.id, r.record.next, Row(e, "running"))
        BY <1>6, <2>1, <2>2, ClaimWrites
      <3>4. OccurrenceDecided(e, r, "running", Upcoming(e, r), Row(e, "running"))
        BY <1>2, <1>6, <3>1, <3>2, <3>3 DEF OccurrenceDecided
      <3> QED
        BY <1>4, <1>6, <3>4, DecisionKeeps DEF OnceInv
    <2>3. CASE ~Claimable(r)
      BY <1>5, <2>1, <2>3 DEF ClaimDue, Spawn
    <2> QED
      BY <2>2, <2>3
  <1> QED
    BY <1>1, <1>5, <1>7, <1>8 DEF Overlaps, Misses, WaitsForStartup

LEMMA OnceStep ==
    ASSUME Watches = {}, "run_now" \notin Admin
    PROVE  RowsInv /\ OnceInv /\ [Next]_vars => OnceInv'
  <1> SUFFICES ASSUME RowsInv, OnceInv, [Next]_vars PROVE OnceInv'
    OBVIOUS
  <1>1. RowsInv'
    BY RowsStep
  <1>2. CASE Clock
    <2>1. UNCHANGED <<task, run, engine, fired>> /\ now' \in {now, now + 1}
      BY <1>2 DEF Clock
    <2>2. DecidesNothing
      BY <2>1 DEF DecidesNothing, OnceInv, History, Jittered
    <2> QED
      BY <1>1, <2>1, <2>2, EnginesAlone, QuietStep
  <1>3. ASSUME NEW t \in Tasks, Create(t) \/ Administer(t)
        PROVE  OnceInv'
    <2>1. UNCHANGED <<now, fired, engine>> /\ Reads
      <3>1. UNCHANGED <<now, fired, engine>>
        BY <1>3 DEF Create, Administer, SetPaused, RequestRunNow, Delete
      <3> QED
        BY <3>1, EnginesAlone
    <2>2. CASE Create(t)
      <3>1. DecidesNothing
        BY <2>1, <2>2, CreateKeeps, RescheduledIsQuiet DEF Create
      <3> QED
        BY <1>1, <2>1, <3>1, QuietStep
    <2>3. ASSUME NEW paused \in BOOLEAN, SetPaused(t, paused) PROVE OnceInv'
      <3>1. PICK state \in {"paused", "idle"}, upcoming \in Nat \cup {None} :
                Rescheduled(t, state, upcoming) /\ (upcoming = None \/ upcoming > now)
        BY <2>3, SetPausedWrites
      <3>2. UNCHANGED run
        BY <2>3 DEF SetPaused
      <3>3. DecidesNothing
        BY <2>1, <3>1, <3>2, RescheduledIsQuiet
      <3> QED
        BY <1>1, <2>1, <3>3, QuietStep
    <2>4. CASE Delete(t)
      <3>1. /\ task'[t].next = None /\ task'[t].due = None /\ \A u \in Tasks : u # t => task'[u] = task[u]
            /\ \A s \in Instants : run'[t][s].decided = None
            /\ \A u \in Tasks, s \in Instants : u # t => run'[u][s] = run[u][s]
        BY <2>4, DeleteKeeps
      <3>2. \A u \in Tasks, s \in Instants : run'[u][s].decided \in {None, run[u][s].decided}
        BY <3>1
      <3>3. \A u \in Tasks : /\ task'[u].due = WithJitter(u, task'[u].next)
                             /\ task'[u].next \in {None, task[u].next}
        BY <3>1 DEF OnceInv, History, Jittered, WithJitter
      <3>4. DecidesNothing
        BY <2>1, <3>2, <3>3 DEF DecidesNothing
      <3> QED
        BY <1>1, <2>1, <3>4, QuietStep
    <2> QED
      BY <1>3, <2>2, <2>3, <2>4 DEF Administer
  <1>4. ASSUME NEW e \in Engines, Start(e) \/ Crash(e) \/ Stop(e) \/ Pass(e) \/ WorkEnds(e)
        PROVE  OnceInv'
    <2>1. CASE Start(e)
      <3>1. Reads /\ DecidesNothing
        BY <2>1, StartKeeps, UntouchedIsQuiet DEF Start
      <3> QED
        BY <1>1, <3>1, QuietStep
    <2>2. ASSUME Reads, UNCHANGED <<now, task, run, fired>> PROVE OnceInv'
      BY <1>1, <2>2, UntouchedIsQuiet, QuietStep
    <2>3. CASE Crash(e) \/ Stop(e) \/ TickReads(e) \/ PassIsFull(e)
      BY <2>2, <2>3, CrashKeeps, StopKeeps, TickReadsKeeps, PassIsFullKeeps DEF Crash, Stop, TickReads, PassIsFull
    <2>4. ASSUME NEW w \in Workers, NEW status \in Endings \cup {"gone"}, CompleteRun(w, status), Reads, UNCHANGED <<now, fired>>
          PROVE  OnceInv'
      <3>1. DecidesNothing
        BY <2>4, CompleteKeeps, UntouchedIsQuiet
      <3> QED
        BY <1>1, <2>4, <3>1, QuietStep
    <2>5. CASE GoneEnds(e)
      <3>1. PICK w \in engine[e].gone : CompleteRun(w, "gone")
        BY <2>5 DEF GoneEnds
      <3>2. w \in Workers
        BY <3>1 DEF RowsInv, Types, EngineType
      <3> QED
        BY <2>4, <2>5, <3>1, <3>2, GoneEndsKeeps DEF GoneEnds
    <2>6. CASE WorkEnds(e)
      <3>1. PICK w \in worker[e], status \in Endings : WorkerEnds(e, w, status)
        BY <2>6 DEF WorkEnds
      <3>2. w \in Workers
        BY <3>1 DEF RowsInv, Types
      <3> QED
        BY <2>4, <3>1, <3>2, WorkerEndsKeeps DEF WorkerEnds
    <2>7. ASSUME NEW r \in engine[e].seen, Decide(e, r) PROVE OnceInv'
      BY <1>1, <2>7, DecideOnce
    <2> QED
      BY <1>4, <2>1, <2>3, <2>5, <2>6, <2>7 DEF Pass
  <1>5. CASE UNCHANGED vars
    <2>1. Reads
      BY <1>5, EnginesAlone DEF vars
    <2>2. DecidesNothing
      BY <1>5, UntouchedIsQuiet DEF vars
    <2> QED
      BY <1>1, <2>1, <2>2, QuietStep
  <1> QED
    BY <1>2, <1>3, <1>4, <1>5 DEF Next

(* For any engines, tasks, triggers, jitters, graces, retention, crashes,   *)
(* pauses and deletions, where every occurrence is the schedule's own: an   *)
(* occurrence's work is started at most once, a task that fell behind       *)
(* catches up once, a running task has one row and a verdict stands         *)
(* (service.py _dispatch, sqlite/tasks.py claim_due).  A watch's pending      *)
(* answer writes the schedule without a comparison and a run-now names an   *)
(* instant of its own; with either a task can catch up twice.               *)
THEOREM DecidedOnceAlways ==
    ASSUME Watches = {}, "run_now" \notin Admin
    PROVE  Spec => DecidedOnce
  <1>1. OnceInv => NothingFiresTwice /\ CatchesUpOnce
    BY DEF OnceInv, History
  <1> QED
    BY RowsInit, RowsStep, OnceInit, OnceStep, RowsFollowTasks, <1>1, PTL DEF Spec, DecidedOnce

-----------------------------------------------------------------------------
(*-- The Mongo store --------------------------------------------------------*)
EntryType == [by : Replicas \cup {Nobody}, status : {"none", "running", "skipped", "ok", "interrupted"}]
OpType == [pc : {"rest", "insert", "swap", "undo", "release", "reclaim", "free"}, kind : {"claim", "skip", Nobody},
           seen : 0 .. MaxClock, put : BOOLEAN, todo : SUBSET Occurrences]

MongoTypes ==
    /\ clock \in Occurrences
    /\ document \in [state : {"idle", "running", "paused", "gone"}, due : 0 .. MaxClock]
    /\ rows \in [Occurrences -> EntryType]
    /\ op \in [Replicas -> OpType]
    /\ doing \in [Replicas -> SUBSET Occurrences]
    /\ passed \in SUBSET Occurrences
    /\ claimed \in SUBSET (Replicas \X Occurrences)

(* An engine between the two writes of a claim or a skip: its row is in. *)
Between(e) == op[e].pc \in {"swap", "undo"}

(* What an engine has read is an occurrence; the history is removed after   *)
(* the task; what was handed to a worker, the schedule has passed.          *)
MongoFacts ==
    /\ \A e \in Replicas : op[e].pc \in {"insert", "swap", "undo"} => op[e].seen # 0
    /\ admin = "history" => document.state = "gone"
    /\ \A c \in claimed : c[2] \in passed

(* The row is a lock.  While the task is there, a row between the two       *)
(* writes is in the table, is one engine's alone, and the schedule has not  *)
(* passed it.                                                               *)
RowIsALock ==
    document.state # "gone" =>
        \A e, f \in Replicas :
            Between(e) => /\ rows[op[e].seen] # NoEntry /\ op[e].seen \notin passed
                          /\ Between(f) /\ op[e].seen = op[f].seen => e = f

MongoInv == MongoTypes /\ MongoFacts /\ RowIsALock /\ PassedHasItsRow /\ OccurrenceRunsOnce

-----------------------------------------------------------------------------
LEMMA OccurrencesAreNumbers == Occurrences \subseteq Nat /\ 0 \notin Occurrences /\ 1 \in Occurrences
                               /\ Occurrences = (0 .. MaxClock) \ {0} /\ MaxClock \in Nat
  BY ReplicaAssumption DEF Occurrences

LEMMA EntriesAreTyped ==
    /\ NoEntry \in EntryType
    /\ \A e \in Replicas : \A s \in {"running", "skipped"} : Entry(e, s) \in EntryType /\ Entry(e, s) # NoEntry
  BY ReplicaAssumption DEF NoEntry, EntryType, Entry

LEMMA RestingIsTyped == Resting \in OpType /\ Resting.pc = "rest"
  BY OccurrencesAreNumbers DEF Resting, OpType

LEMMA FollowingIsTyped ==
    ASSUME MongoTypes
    PROVE  Following \in 0 .. MaxClock
  BY OccurrencesAreNumbers DEF MongoTypes, Following, Occurrences

LEMMA MongoStarts ==
    ASSUME MongoInit
    PROVE  MongoInv
  <1>1. MongoTypes
    BY OccurrencesAreNumbers, EntriesAreTyped, RestingIsTyped DEF MongoInit, MongoTypes
  <1>2. \A e \in Replicas : op[e].pc = "rest"
    BY RestingIsTyped DEF MongoInit
  <1> QED
    BY <1>1, <1>2 DEF MongoInit, MongoInv, MongoFacts, RowIsALock, PassedHasItsRow, OccurrenceRunsOnce, Between

-----------------------------------------------------------------------------
(* One engine's operation becomes x. *)
OpBecomes(e, x) == op' \in [Replicas -> OpType] /\ op'[e] = x /\ \A f \in Replicas : f # e => op'[f] = op[f]

LEMMA OpMoves ==
    ASSUME MongoTypes, NEW e \in Replicas, NEW x \in OpType, op' = [op EXCEPT ![e] = x]
    PROVE  OpBecomes(e, x)
  BY DEF MongoTypes, OpBecomes

LEMMA OpRests ==
    ASSUME MongoTypes, NEW e \in Replicas, Rests(e)
    PROVE  OpBecomes(e, Resting)
  BY OpMoves, RestingIsTyped DEF Rests

LEMMA OpWrites ==
    ASSUME MongoTypes, NEW e \in Replicas, NEW pc \in {"undo", "release", "reclaim"}, Writing(e, pc)
    PROVE  \E x \in OpType : x.pc = pc /\ x.seen = op[e].seen /\ OpBecomes(e, x)
  <1>1. PICK z \in OpType : z = op[e]
    BY DEF MongoTypes
  <1> DEFINE x == [z EXCEPT !.pc = pc]
  <1>2. x \in OpType /\ x.pc = pc /\ x.seen = z.seen
    BY <1>1 DEF OpType
  <1>3. op' = [op EXCEPT ![e] = x]
    BY <1>1 DEF Writing
  <1> HIDE DEF x
  <1> QED
    BY <1>1, <1>2, <1>3, OpMoves

(* A step that takes no row out of the table, hands out nothing and passes  *)
(* nothing, and puts no engine between the writes.                          *)
Idles ==
    /\ passed' = passed /\ claimed' = claimed
    /\ \A i \in Occurrences : rows[i] # NoEntry => rows'[i] # NoEntry
    /\ \A e \in Replicas : op'[e].pc \in {"swap", "undo"} => Between(e) /\ op'[e].seen = op[e].seen
    /\ \A e \in Replicas : op'[e].pc = "insert" => op'[e].seen # 0
    /\ document.state = "gone" => document'.state = "gone"
    /\ admin' = "history" => document'.state = "gone"

LEMMA IdleStep ==
    ASSUME MongoInv, MongoTypes', Idles
    PROVE  MongoInv'
  <1> USE DEF MongoInv, Idles
  <1>1. MongoFacts'
    BY DEF MongoFacts, Between
  <1>2. \A e \in Replicas : Between(e) => op[e].seen \in Occurrences
    BY OccurrencesAreNumbers DEF MongoTypes, MongoFacts, Between, OpType
  <1>3. RowIsALock'
    BY <1>2 DEF RowIsALock, Between
  <1>4. PassedHasItsRow'
    BY DEF PassedHasItsRow, MongoTypes
  <1> QED
    BY <1>1, <1>3, <1>4 DEF OccurrenceRunsOnce

-----------------------------------------------------------------------------
(* The writes of a claim or a skip. *)

LEMMA ReadsDueKeeps ==
    ASSUME MongoInv, NEW e \in Replicas, ReadsDue(e)
    PROVE  MongoInv'
  <1> USE DEF MongoInv
  <1>1. PICK kind \in {"claim", "skip"} :
            op' = [op EXCEPT ![e] = [Resting EXCEPT !.pc = "insert", !.kind = kind, !.seen = document.due]]
    BY DEF ReadsDue
  <1> DEFINE x == [Resting EXCEPT !.pc = "insert", !.kind = kind, !.seen = document.due]
  <1>2. x \in OpType /\ x.pc = "insert" /\ x.seen = document.due
    BY DEF MongoTypes, OpType, Resting
  <1>3. op' = [op EXCEPT ![e] = x] /\ document.due # 0
    BY <1>1 DEF ReadsDue
  <1> HIDE DEF x
  <1>4. OpBecomes(e, x)
    BY <1>2, <1>3, OpMoves
  <1>5. MongoTypes'
    BY <1>4 DEF ReadsDue, MongoTypes, bounds, OpBecomes
  <1>6. Idles
    BY <1>2, <1>3, <1>4 DEF ReadsDue, Idles, MongoFacts, bounds, OpBecomes, Between
  <1> QED
    BY <1>5, <1>6, IdleStep

LEMMA InsertsKeeps ==
    ASSUME MongoInv, NEW e \in Replicas, Inserts(e)
    PROVE  MongoInv'
  <1> USE DEF MongoInv
  <1>1. op[e].seen \in Occurrences
    BY OccurrencesAreNumbers DEF Inserts, MongoTypes, MongoFacts, OpType
  <1>2. CASE rows[op[e].seen] # NoEntry
    <2>1. OpBecomes(e, Resting) /\ rows' = rows
      BY <1>2, OpRests DEF Inserts
    <2>2. MongoTypes'
      BY <2>1 DEF Inserts, MongoTypes, bounds, OpBecomes
    <2>3. Idles
      BY <2>1, RestingIsTyped DEF Inserts, Idles, MongoFacts, bounds, OpBecomes, Between
    <2> QED
      BY <2>2, <2>3, IdleStep
  <1>3. CASE rows[op[e].seen] = NoEntry
    <2>1. PICK z \in OpType : z = op[e]
      BY DEF MongoTypes
    <2> DEFINE x == [z EXCEPT !.pc = "swap", !.put = TRUE]
    <2>2. x \in OpType /\ x.pc = "swap" /\ x.seen = z.seen
      BY <2>1 DEF OpType
    <2>3. op' = [op EXCEPT ![e] = x]
      BY <1>3, <2>1 DEF Inserts, MongoTypes, OpType
    <2> HIDE DEF x
    <2>4. OpBecomes(e, x)
      BY <2>2, <2>3, OpMoves
    <2>5. PICK y \in EntryType : y # NoEntry /\ rows' = [rows EXCEPT ![op[e].seen] = y]
      BY <1>3, EntriesAreTyped DEF Inserts
    <2>6. MongoTypes'
      BY <1>1, <2>4, <2>5 DEF Inserts, MongoTypes, bounds, OpBecomes
    <2>7. MongoFacts'
      BY <1>1, <2>1, <2>2, <2>4, OccurrencesAreNumbers DEF Inserts, MongoFacts, bounds, OpBecomes
    <2>8. document.state # "gone" => op[e].seen \notin passed /\ \A f \in Replicas : Between(f) => op[f].seen # op[e].seen
      BY <1>3 DEF RowIsALock, PassedHasItsRow
    <2>9. \A f \in Replicas : Between(f) => op[f].seen \in Occurrences
      BY OccurrencesAreNumbers DEF MongoTypes, MongoFacts, Between, OpType
    <2>10. document' = document /\ passed' = passed /\ claimed' = claimed
      BY DEF Inserts
    <2>11. rows'[op[e].seen] # NoEntry /\ \A i \in Occurrences : rows[i] # NoEntry => rows'[i] # NoEntry
      BY <1>1, <2>5 DEF MongoTypes
    <2>12. RowIsALock'
      BY <2>1, <2>2, <2>4, <2>8, <2>9, <2>10, <2>11 DEF RowIsALock, Between, OpBecomes
    <2>13. PassedHasItsRow' /\ OccurrenceRunsOnce'
      BY <2>10, <2>11 DEF PassedHasItsRow, OccurrenceRunsOnce, MongoTypes
    <2> QED
      BY <2>6, <2>7, <2>12, <2>13
  <1> QED
    BY <1>2, <1>3

LEMMA SwapsKeeps ==
    ASSUME MongoInv, NEW e \in Replicas, Swaps(e)
    PROVE  MongoInv'
  <1> USE DEF MongoInv
  <1>1. op[e].seen \in Occurrences /\ Between(e)
    BY OccurrencesAreNumbers DEF Swaps, MongoTypes, MongoFacts, OpType, Between
  <1>2. CASE ~Matches(e)
    <2>1. PICK x \in OpType : x.pc = "undo" /\ x.seen = op[e].seen /\ OpBecomes(e, x)
      BY <1>2, OpWrites DEF Swaps
    <2>2. MongoTypes'
      BY <1>2, <2>1 DEF Swaps, MongoTypes, bounds, OpBecomes
    <2>3. Idles
      BY <1>1, <1>2, <2>1 DEF Swaps, Idles, MongoFacts, bounds, OpBecomes, Between
    <2> QED
      BY <2>2, <2>3, IdleStep
  <1>3. CASE Matches(e)
    <2>1. /\ document.state # "gone" /\ document.due = op[e].seen
          /\ op[e].seen \notin passed /\ rows[op[e].seen] # NoEntry
      BY <1>1, <1>3 DEF Matches, RowIsALock
    <2>2. OpBecomes(e, Resting) /\ rows' = rows /\ admin' = admin /\ clock' = clock
      BY <1>3, OpRests DEF Swaps, bounds
    <2>3. passed' = passed \cup {op[e].seen}
      BY <1>3, <2>1 DEF Swaps
    <2>4. claimed' \subseteq claimed \cup {<<e, op[e].seen>>}
      BY <1>3 DEF Swaps
    <2>5. document' \in [state : {"idle", "running", "paused", "gone"}, due : 0 .. MaxClock] /\ document'.state # "gone"
      BY <1>3, <2>1, FollowingIsTyped DEF Swaps, MongoTypes
    <2>6. doing' \in [Replicas -> SUBSET Occurrences]
      BY <1>1, <1>3 DEF Swaps, MongoTypes
    <2>7. claimed' \in SUBSET (Replicas \X Occurrences)
      BY <1>1, <2>4 DEF MongoTypes
    <2>8. MongoTypes'
      BY <1>1, <2>2, <2>3, <2>5, <2>6, <2>7 DEF MongoTypes, OpBecomes
    <2>9. <<e, op[e].seen>>[2] = op[e].seen
      OBVIOUS
    <2>10. MongoFacts'
      BY <2>1, <2>2, <2>3, <2>4, <2>9, RestingIsTyped DEF MongoFacts, OpBecomes
    <2>11. RowIsALock'
      BY <1>1, <2>1, <2>2, <2>3, RestingIsTyped DEF RowIsALock, Between, OpBecomes
    <2>12. PassedHasItsRow'
      BY <2>1, <2>2, <2>3 DEF PassedHasItsRow
    <2>13. OccurrenceRunsOnce'
      BY <2>1, <2>4, <2>9 DEF MongoFacts, OccurrenceRunsOnce
    <2> QED
      BY <2>8, <2>10, <2>11, <2>12, <2>13
  <1> QED
    BY <1>2, <1>3

LEMMA UndoesKeeps ==
    ASSUME MongoInv, NEW e \in Replicas, Undoes(e)
    PROVE  MongoInv'
  <1> USE DEF MongoInv
  <1>1. op[e].seen \in Occurrences /\ Between(e)
    BY OccurrencesAreNumbers DEF Undoes, MongoTypes, MongoFacts, OpType, Between
  <1>2. OpBecomes(e, Resting) /\ admin' = admin /\ clock' = clock /\ document' = document /\ passed' = passed
        /\ claimed' = claimed /\ doing' = doing
    BY OpRests DEF Undoes, bounds
  <1>3. rows' \in [Occurrences -> EntryType] /\ \A i \in Occurrences : i # op[e].seen => rows'[i] = rows[i]
    BY <1>1, EntriesAreTyped DEF Undoes, MongoTypes
  <1>4. MongoTypes'
    BY <1>2, <1>3 DEF MongoTypes, OpBecomes
  <1>5. MongoFacts'
    BY <1>2, RestingIsTyped DEF MongoFacts, OpBecomes
  <1>6. \A f \in Replicas : Between(f) => op[f].seen \in Occurrences
    BY OccurrencesAreNumbers DEF MongoTypes, MongoFacts, Between, OpType
  <1>7. RowIsALock'
    BY <1>1, <1>2, <1>3, <1>6, RestingIsTyped DEF RowIsALock, Between, OpBecomes
  <1>8. PassedHasItsRow' /\ OccurrenceRunsOnce'
    BY <1>1, <1>2, <1>3 DEF PassedHasItsRow, OccurrenceRunsOnce, RowIsALock, MongoTypes
  <1> QED
    BY <1>4, <1>5, <1>7, <1>8

-----------------------------------------------------------------------------
(* The end of a run, a start, a crash, and the administration. *)

LEMMA ClosesKeeps ==
    ASSUME MongoInv, NEW e \in Replicas, NEW i \in Occurrences, Closes(e, i)
    PROVE  MongoInv'
  <1> USE DEF MongoInv
  <1>1. clock' = clock /\ document' = document /\ admin' = admin /\ claimed' = claimed /\ passed' = passed
    BY DEF Closes, bounds
  <1>2. doing' \in [Replicas -> SUBSET Occurrences]
    BY DEF Closes, MongoTypes
  <1>3. CASE rows[i].status = "running"
    <2>1. PICK x \in OpType : x.pc = "release" /\ OpBecomes(e, x)
      BY <1>3, OpWrites DEF Closes
    <2>2. PICK z \in EntryType : z = rows[i]
      BY DEF MongoTypes
    <2> DEFINE y == [z EXCEPT !.status = "ok"]
    <2>3. y \in EntryType /\ y # NoEntry
      BY DEF EntryType, NoEntry
    <2>4. rows' = [rows EXCEPT ![i] = y]
      BY <1>3, <2>2 DEF Closes
    <2> HIDE DEF y
    <2>5. MongoTypes'
      BY <1>1, <1>2, <2>1, <2>3, <2>4 DEF MongoTypes, OpBecomes
    <2>6. Idles
      BY <1>1, <2>1, <2>3, <2>4 DEF Idles, MongoTypes, MongoFacts, OpBecomes, Between
    <2> QED
      BY <2>5, <2>6, IdleStep
  <1>4. CASE rows[i].status # "running"
    <2>1. rows' = rows /\ op' = op
      BY <1>4 DEF Closes
    <2>2. MongoTypes' /\ Idles
      BY <1>1, <1>2, <2>1 DEF MongoTypes, Idles, MongoFacts, Between
    <2> QED
      BY <2>2, IdleStep
  <1> QED
    BY <1>3, <1>4

LEMMA DeclaresKeeps ==
    ASSUME MongoInv, NEW e \in Replicas, NEW i \in Occurrences, Declares(e, i)
    PROVE  MongoInv'
  <1> USE DEF MongoInv
  <1>1. /\ clock' = clock /\ document' = document /\ admin' = admin /\ claimed' = claimed /\ passed' = passed
        /\ doing' = doing
    BY DEF Declares, bounds
  <1>2. PICK z \in OpType : z = op[e]
    BY DEF MongoTypes
  <1> DEFINE x == [z EXCEPT !.pc = "free", !.todo = z.todo \ {i}]
  <1>3. x \in OpType /\ x.pc = "free"
    BY DEF OpType
  <1>4. op' = [op EXCEPT ![e] = x]
    BY <1>2 DEF Declares, MongoTypes, OpType
  <1> HIDE DEF x
  <1>5. OpBecomes(e, x)
    BY <1>3, <1>4, OpMoves
  <1>6. PICK w \in EntryType : w = rows[i]
    BY DEF MongoTypes
  <1> DEFINE y == IF w # NoEntry THEN [w EXCEPT !.status = "interrupted"] ELSE w
  <1>7. y \in EntryType /\ (w # NoEntry => y # NoEntry)
    BY DEF EntryType, NoEntry
  <1>8. rows' = [rows EXCEPT ![i] = y]
    BY <1>6 DEF Declares
  <1> HIDE DEF y
  <1>9. MongoTypes'
    BY <1>1, <1>5, <1>7, <1>8 DEF MongoTypes, OpBecomes
  <1>10. Idles
    BY <1>1, <1>3, <1>5, <1>6, <1>7, <1>8 DEF Idles, MongoTypes, MongoFacts, OpBecomes, Between
  <1> QED
    BY <1>9, <1>10, IdleStep

LEMMA ReleasesKeeps ==
    ASSUME MongoInv, NEW e \in Replicas, Releases(e)
    PROVE  MongoInv'
  <1> USE DEF MongoInv
  <1>1. OpBecomes(e, Resting)
    BY OpRests DEF Releases
  <1>2. MongoTypes'
    BY <1>1 DEF Releases, MongoTypes, bounds, OpBecomes
  <1>3. Idles
    BY <1>1, RestingIsTyped DEF Releases, Idles, MongoTypes, MongoFacts, bounds, OpBecomes, Between
  <1> QED
    BY <1>2, <1>3, IdleStep

LEMMA StartsKeeps ==
    ASSUME MongoInv, NEW e \in Replicas, Starts(e)
    PROVE  MongoInv'
  <1> USE DEF MongoInv
  <1>1. PICK z \in OpType : z = Resting
    BY RestingIsTyped
  <1> DEFINE W == {i \in Occurrences : rows[i].status = "running"}
             x == [z EXCEPT !.pc = "reclaim", !.todo = W]
  <1>2. op' = [op EXCEPT ![e] = x]
    BY <1>1 DEF Starts
  <1>3. W \in SUBSET Occurrences
    OBVIOUS
  <1> HIDE DEF W
  <1>4. x \in OpType /\ x.pc = "reclaim"
    BY <1>3 DEF OpType
  <1> HIDE DEF x
  <1>5. OpBecomes(e, x)
    BY <1>2, <1>4, OpMoves
  <1>6. MongoTypes'
    BY <1>5 DEF Starts, MongoTypes, OpBecomes
  <1>7. Idles
    BY <1>5, <1>4 DEF Starts, Idles, MongoFacts, OpBecomes, Between
  <1> QED
    BY <1>6, <1>7, IdleStep

LEMMA FreesKeeps ==
    ASSUME MongoInv, NEW e \in Replicas, Frees(e)
    PROVE  MongoInv'
  <1> USE DEF MongoInv
  <1>1. PICK x \in OpType : x.pc = "reclaim" /\ OpBecomes(e, x)
    BY OpWrites DEF Frees
  <1>2. MongoTypes'
    BY <1>1 DEF Frees, MongoTypes, bounds, OpBecomes
  <1>3. Idles
    BY <1>1 DEF Frees, Idles, MongoTypes, MongoFacts, bounds, OpBecomes, Between
  <1> QED
    BY <1>2, <1>3, IdleStep

LEMMA StopsKeep ==
    ASSUME MongoInv, NEW e \in Replicas, Started(e) \/ Crashes(e)
    PROVE  MongoInv'
  <1> USE DEF MongoInv
  <1>1. OpBecomes(e, Resting)
    BY OpRests DEF Started, Crashes
  <1>2. MongoTypes'
    BY <1>1 DEF Started, Crashes, MongoTypes, bounds, OpBecomes
  <1>3. Idles
    BY <1>1, RestingIsTyped DEF Started, Crashes, Idles, MongoFacts, bounds, OpBecomes, Between
  <1> QED
    BY <1>2, <1>3, IdleStep

LEMMA AdministrationKeeps ==
    ASSUME MongoInv, Pauses \/ Resumes \/ RunNow \/ Deletes \/ Ticks
    PROVE  MongoInv'
  <1> USE DEF MongoInv
  <1>1. rows' = rows /\ op' = op /\ doing' = doing /\ claimed' = claimed /\ passed' = passed
    BY DEF Pauses, Resumes, RunNow, Deletes, Ticks
  <1>2. clock' \in Occurrences
    BY ReplicaAssumption DEF Pauses, Resumes, RunNow, Deletes, Ticks, MongoTypes, Occurrences
  <1>3. document' \in [state : {"idle", "running", "paused", "gone"}, due : 0 .. MaxClock]
    BY FollowingIsTyped, OccurrencesAreNumbers DEF Pauses, Resumes, RunNow, Deletes, Ticks, MongoTypes
  <1>4. document.state = "gone" => document'.state = "gone"
    BY DEF Pauses, Resumes, RunNow, Deletes, Ticks
  <1>5. admin' = "history" => document'.state = "gone"
    BY DEF Pauses, Resumes, RunNow, Deletes, Ticks, MongoFacts, MongoTypes
  <1>6. MongoTypes'
    BY <1>1, <1>2, <1>3 DEF MongoTypes
  <1>7. Idles
    BY <1>1, <1>4, <1>5 DEF Idles, MongoFacts, Between
  <1> QED
    BY <1>6, <1>7, IdleStep

(* With the task gone nothing is matched any more, and no row is promised.  *)
LEMMA HistoryGoes ==
    ASSUME MongoInv, DeletesHistory
    PROVE  MongoInv'
  <1> USE DEF MongoInv
  <1>1. document.state = "gone" /\ document' = document
    BY DEF DeletesHistory, MongoFacts
  <1>2. MongoTypes'
    BY EntriesAreTyped DEF DeletesHistory, MongoTypes, bounds
  <1> QED
    BY <1>1, <1>2 DEF DeletesHistory, MongoFacts, RowIsALock, PassedHasItsRow, OccurrenceRunsOnce

LEMMA MongoSteps ==
    ASSUME MongoInv, [MongoNext]_mVars
    PROVE  MongoInv'
  <1>1. CASE UNCHANGED mVars
    BY <1>1 DEF mVars, MongoInv, MongoTypes, MongoFacts, RowIsALock, Between, PassedHasItsRow, OccurrenceRunsOnce
  <1>2. CASE MongoNext
    BY <1>2, ReadsDueKeeps, InsertsKeeps, SwapsKeeps, UndoesKeeps, ReleasesKeeps, StartsKeeps, FreesKeeps, StopsKeep,
       ClosesKeeps, DeclaresKeeps, AdministrationKeeps, HistoryGoes DEF MongoNext
  <1> QED
    BY <1>1, <1>2

(* What a step may do to a run that was declared interrupted. *)
DeclarationStands ==
    \A i \in Occurrences : (rows[i].status = "interrupted" /\ rows'[i] # NoEntry) => rows'[i] = rows[i]

LEMMA DeclarationsStand ==
    ASSUME MongoInv, MongoNext
    PROVE  DeclarationStands
  <1> USE DEF MongoInv
  <1>1. ASSUME NEW e \in Replicas, Inserts(e)
        PROVE  DeclarationStands
    <2>1. op[e].seen \in Occurrences
      BY <1>1, OccurrencesAreNumbers DEF Inserts, MongoTypes, MongoFacts, OpType
    <2>2. NoEntry.status = "none"
      BY DEF NoEntry
    <2>3. \A i \in Occurrences : rows[i] = NoEntry \/ rows'[i] = rows[i]
      BY <1>1, <2>1 DEF Inserts, MongoTypes
    <2> QED
      BY <2>2, <2>3 DEF DeclarationStands
  <1>2. ASSUME NEW e \in Replicas, Undoes(e)
        PROVE  DeclarationStands
    BY <1>2 DEF Undoes, DeclarationStands, MongoTypes
  <1>3. ASSUME NEW e \in Replicas, NEW j \in Occurrences, Closes(e, j)
        PROVE  DeclarationStands
    BY <1>3 DEF Closes, DeclarationStands, MongoTypes
  <1>4. ASSUME NEW e \in Replicas, NEW j \in Occurrences, Declares(e, j)
        PROVE  DeclarationStands
    <2>1. PICK w \in EntryType : w = rows[j]
      BY DEF MongoTypes
    <2>2. w.status = "interrupted" => [w EXCEPT !.status = "interrupted"] = w
      BY DEF EntryType
    <2>3. rows[j].status = "interrupted" => rows'[j] = rows[j]
      BY <1>4, <2>1, <2>2 DEF Declares, MongoTypes
    <2>4. \A i \in Occurrences : i # j => rows'[i] = rows[i]
      BY <1>4 DEF Declares, MongoTypes
    <2> QED
      BY <2>3, <2>4 DEF DeclarationStands
  <1>5. CASE DeletesHistory
    BY <1>5 DEF DeletesHistory, DeclarationStands
  <1>6. CASE rows' = rows
    BY <1>6 DEF DeclarationStands
  <1> QED
    BY <1>1, <1>2, <1>3, <1>4, <1>5, <1>6
       DEF MongoNext, ReadsDue, Swaps, Releases, Starts, Frees, Started, Crashes, Pauses, Resumes, RunNow, Deletes, Ticks

(* For any replicas, however many crash and start: an occurrence is handed  *)
(* to one worker, the schedule passes none without a row, a run declared    *)
(* interrupted stays so (mongo/tasks.py claim_due, complete_run).           *)
THEOREM MongoDecidesOnceAlways == MongoSpec => MongoDecidesOnce
  <1>1. MongoInit => MongoInv
    BY MongoStarts
  <1>2. MongoInv /\ [MongoNext]_mVars => MongoInv'
    BY MongoSteps
  <1>3. MongoInv /\ [MongoNext]_mVars => [DeclarationStands]_mVars
    BY DeclarationsStand
  <1>4. MongoInv => OccurrenceRunsOnce /\ PassedHasItsRow
    BY DEF MongoInv
  <1>5. DeclaredStays <=> [][DeclarationStands]_mVars
    BY DEF DeclaredStays, DeclarationStands
  <1> QED
    BY <1>1, <1>2, <1>3, <1>4, <1>5, PTL DEF MongoSpec, MongoDecidesOnce

-----------------------------------------------------------------------------
(* Admission: a conversation has one turn at work, whose process and whose  *)
(* allowlist are those its own answers gave.                                *)

AdmissionAssumptions == All \notin SUBSET Tools

Words == {""} \cup {w.words : w \in Answers}
AnswerGiven == [by : Authors, says : Answers]
TurnType == [pc : {"none", "asking", "telling", "entitling", "running", "done", "refused", "failed"},
             todo : SUBSET Authors, refused : SUBSET Authors, got : SUBSET AnswerGiven, over : SUBSET Authors, on : Nat]
ProcessType == [tools : SUBSET Tools, words : Words, shown : SUBSET Tools]

AdmissionTyped ==
    /\ answer \in [Authors -> Answers] /\ day \in Nat
    /\ turn \in [Turns -> TurnType] /\ process \in [Convs -> ProcessType]
    /\ entry \in [Convs -> {All} \cup SUBSET Tools]

WordsOf(got) == {g.says.words : g \in got}
OneAtWork == \A t, u \in Turns : AtWork(t) /\ AtWork(u) /\ ConvOf[t] = ConvOf[u] => t = u
ShownIsHad == \A c \in Convs : process[c].shown \subseteq process[c].tools
FewWords == \A t \in Turns : IsFiniteSet(WordsOf(turn[t].got))

AskedOf(t, a) == \E g \in turn[t].got : g.by = a
ToBeAsked == \A t \in Turns : turn[t].pc = "entitling" => \A a \in PeopleOf(t) : a \in turn[t].todo \/ AskedOf(t, a)

(* Each person of a running turn was asked about. *)
EveryoneWasAsked == \A t \in Turns : turn[t].pc = "running" => \A a \in PeopleOf(t) : AskedOf(t, a)

(* What the turn's process and its conversation's allowlist owe an answer. *)
Honours(g, p, e) ==
    /\ g.says.tools # All => (p.tools \cup p.shown) \subseteq g.says.tools
    /\ g.says.tools # All => e # All /\ e \subseteq g.says.tools
    /\ p.words \in {"", g.says.words}

AdmissionInv == AdmissionTyped /\ OneAtWork /\ ShownIsHad /\ FewWords /\ ToBeAsked /\ EveryoneWasAsked /\ JointlyEntitled

LEMMA PeopleAreAuthors == \A t \in Turns : PeopleOf(t) \subseteq Authors /\ ConvOf[t] \in Convs
  BY DEF PeopleOf, Authors, Convs

LEMMA AdmissionStart == AdmissionInit => AdmissionInv
  <1> SUFFICES ASSUME AdmissionInit PROVE AdmissionInv
    OBVIOUS
  <1> USE DEF AdmissionInit
  <1>1. NoTurn \in TurnType /\ NoProcess \in ProcessType /\ NoTurn.got = {} /\ NoTurn.pc = "none" /\ NoProcess.shown = {}
    BY DEF NoTurn, NoProcess, TurnType, ProcessType, Words
  <1>2. AdmissionTyped
    BY <1>1 DEF AdmissionTyped
  <1>3. \A t \in Turns : turn[t].got = {} /\ turn[t].pc = "none"
    BY <1>1
  <1>4. FewWords
    <2>1. \A t \in Turns : WordsOf(turn[t].got) = {}
      BY <1>3 DEF WordsOf
    <2> QED
      BY <2>1, FS_EmptySet DEF FewWords
  <1>5. OneAtWork /\ ToBeAsked /\ EveryoneWasAsked /\ JointlyEntitled
    BY <1>3 DEF OneAtWork, AtWork, ToBeAsked, EveryoneWasAsked, JointlyEntitled
  <1>6. ShownIsHad
    BY <1>1 DEF ShownIsHad
  <1> QED
    BY <1>2, <1>4, <1>5, <1>6 DEF AdmissionInv

(* One turn moves; the processes and allowlists stay, and it does not start *)
(* to run.                                                                  *)
TurnMoves(t, y) ==
    /\ y \in TurnType /\ turn' = [turn EXCEPT ![t] = y]
    /\ y.pc = "running" => turn[t].pc = "running" /\ y.got = turn[t].got
    /\ IsFiniteSet(WordsOf(y.got))
    /\ y.pc \in {"none", "done", "refused", "failed"} \/ AtWork(t)
         \/ \A u \in Turns : u # t /\ ConvOf[u] = ConvOf[t] => ~AtWork(u)
    /\ y.pc = "entitling" => \A a \in PeopleOf(t) : a \in y.todo \/ \E g \in y.got : g.by = a

LEMMA TurnMovesKeeps ==
    ASSUME AdmissionInv, NEW t \in Turns, NEW y, TurnMoves(t, y),
           UNCHANGED <<process, entry>>, answer' \in [Authors -> Answers], day' \in Nat
    PROVE  AdmissionInv'
  <1> USE DEF AdmissionInv
  <1>1. /\ turn'[t] = y /\ \A u \in Turns : u # t => turn'[u] = turn[u]
        /\ turn' \in [Turns -> TurnType]
    BY DEF TurnMoves, AdmissionTyped
  <1>2. AdmissionTyped'
    BY <1>1 DEF AdmissionTyped
  <1>3. OneAtWork'
    <2>1. \A u \in Turns : u # t => (AtWork(u)' <=> AtWork(u))
      BY <1>1 DEF AtWork
    <2>2. AtWork(t)' => AtWork(t) \/ \A u \in Turns : u # t /\ ConvOf[u] = ConvOf[t] => ~AtWork(u)
      BY <1>1 DEF AtWork, TurnMoves
    <2> QED
      BY <2>1, <2>2 DEF OneAtWork
  <1>4. ShownIsHad' /\ FewWords'
    BY <1>1 DEF ShownIsHad, FewWords, TurnMoves
  <1>5. ToBeAsked'
    BY <1>1 DEF ToBeAsked, TurnMoves, AskedOf
  <1>6. EveryoneWasAsked'
    BY <1>1 DEF EveryoneWasAsked, TurnMoves, AskedOf
  <1>7. JointlyEntitled'
    BY <1>1 DEF JointlyEntitled, TurnMoves
  <1> QED
    BY <1>2, <1>3, <1>4, <1>5, <1>6, <1>7

LEMMA StandsStillKeeps ==
    ASSUME AdmissionInv, UNCHANGED <<turn, process, entry>>, answer' \in [Authors -> Answers], day' \in Nat
    PROVE  AdmissionInv'
  BY DEF AdmissionInv, AdmissionTyped, OneAtWork, AtWork, ShownIsHad, FewWords, ToBeAsked, EveryoneWasAsked, AskedOf,
         JointlyEntitled

LEMMA BeginsKeeps ==
    ASSUME AdmissionInv, NEW t \in Turns, Begins(t)
    PROVE  AdmissionInv'
  <1> DEFINE late == {a \in PeopleOf(t) : OverBudget(a)}
             y == [NoTurn EXCEPT !.pc = "asking", !.todo = PeopleOf(t), !.on = day, !.over = late]
  <1>1. /\ turn' = [turn EXCEPT ![t] = y] /\ UNCHANGED <<process, entry, answer, day>>
        /\ \A u \in Turns : (u # t /\ ConvOf[u] = ConvOf[t]) => ~AtWork(u)
    BY DEF Begins, where
  <1>2. late \subseteq PeopleOf(t) /\ PeopleOf(t) \subseteq Authors
    BY PeopleAreAuthors
  <1> HIDE DEF late
  <1>3. y \in TurnType /\ y.pc = "asking" /\ y.got = {}
    BY <1>2 DEF NoTurn, TurnType, AdmissionInv, AdmissionTyped
  <1> HIDE DEF y
  <1>4. IsFiniteSet(WordsOf(y.got))
    <2>1. WordsOf(y.got) = {}
      BY <1>3 DEF WordsOf
    <2> QED
      BY <2>1, FS_EmptySet
  <1>5. TurnMoves(t, y)
    BY <1>1, <1>3, <1>4 DEF TurnMoves
  <1> QED
    BY <1>1, <1>5, TurnMovesKeeps DEF AdmissionInv, AdmissionTyped

(* The steps in which people are asked about, told, and a turn ends. *)
LEMMA TurnStepsKeep ==
    ASSUME AdmissionInv, NEW t \in Turns,
           \/ Tells(t) \/ TellFails(t) \/ Asked(t) \/ Ends(t) \/ Breaks(t)
           \/ \E a \in Authors : Admits(t, a)
    PROVE  AdmissionInv'
  <1> DEFINE x == turn[t]
             ended(pc) == [x EXCEPT !.pc = pc]
             all == [x EXCEPT !.pc = IF x.refused = {} THEN "entitling" ELSE "refused", !.todo = PeopleOf(t)]
             admitted(a) == [x EXCEPT !.todo = @ \ {a}, !.pc = IF OverBudget(a) THEN "telling" ELSE @,
                                      !.refused = IF OverBudget(a) THEN @ \cup {a} ELSE @]
  <1>1. /\ UNCHANGED <<process, entry, answer, day>>
        /\ x.pc \in {"asking", "telling", "running"}
        /\ \/ \E pc \in {"asking", "done", "failed"} : turn' = [turn EXCEPT ![t] = ended(pc)]
           \/ turn' = [turn EXCEPT ![t] = all]
           \/ \E a \in Authors : x.pc = "asking" /\ turn' = [turn EXCEPT ![t] = admitted(a)]
    <2> HIDE DEF AdmissionInv
    <2>1. CASE Tells(t)
      BY <2>1 DEF Tells, where
    <2>2. CASE TellFails(t) \/ Breaks(t)
      BY <2>2 DEF TellFails, Breaks, where
    <2>3. CASE Ends(t)
      BY <2>3 DEF Ends, where
    <2>4. CASE Asked(t)
      BY <2>4 DEF Asked, where
    <2>5. CASE \E a \in Authors : Admits(t, a)
      <3>1. PICK a \in Authors : Admits(t, a)
        BY <2>5
      <3>2. x.pc = "asking" /\ UNCHANGED <<process, entry, answer, day>>
        BY <3>1 DEF Admits, where
      <3>3. turn' = [turn EXCEPT ![t] = admitted(a)]
        BY <3>1 DEF Admits, AdmissionInv, AdmissionTyped
      <3> HIDE DEF admitted
      <3> QED
        BY <3>2, <3>3
    <2> QED
      BY <2>1, <2>2, <2>3, <2>4, <2>5
  <1>2. x \in TurnType /\ AtWork(t) /\ IsFiniteSet(WordsOf(x.got)) /\ PeopleOf(t) \subseteq Authors
    BY <1>1, PeopleAreAuthors DEF AdmissionInv, AdmissionTyped, FewWords, AtWork
  <1>3. PICK y : /\ y \in TurnType /\ turn' = [turn EXCEPT ![t] = y] /\ y.got = x.got /\ y.pc # "running"
                 /\ y.pc = "entitling" => y.todo = PeopleOf(t)
    <2> HIDE DEF x
    <2>1. \A pc \in {"asking", "done", "failed"} : ended(pc) \in TurnType /\ ended(pc).got = x.got /\ ended(pc).pc = pc
      BY <1>2 DEF TurnType
    <2>2. /\ all \in TurnType /\ all.got = x.got /\ all.todo = PeopleOf(t) /\ all.pc # "running"
      BY <1>2 DEF TurnType
    <2>3. ASSUME NEW a \in Authors, x.pc = "asking"
          PROVE  admitted(a) \in TurnType /\ admitted(a).got = x.got /\ admitted(a).pc \in {"asking", "telling"}
      <3> DEFINE b == OverBudget(a)
                 n == IF b THEN x.refused \cup {a} ELSE x.refused
                 m == x.todo \ {a}
      <3>1. n \subseteq Authors /\ m \subseteq Authors
        BY <1>2 DEF TurnType
      <3>2. admitted(a) = [x EXCEPT !.todo = m, !.pc = IF b THEN "telling" ELSE x.pc, !.refused = n]
        BY <1>2 DEF TurnType
      <3> HIDE DEF b, n, m, admitted
      <3> QED
        BY <1>2, <2>3, <3>1, <3>2 DEF TurnType
    <2> HIDE DEF ended, all, admitted
    <2> QED
      BY <1>1, <2>1, <2>2, <2>3
  <1> HIDE DEF x
  <1>4. TurnMoves(t, y)
    BY <1>2, <1>3 DEF TurnMoves
  <1> QED
    BY <1>1, <1>4, TurnMovesKeeps DEF AdmissionInv, AdmissionTyped

LEMMA EntitlesKeeps ==
    ASSUME AdmissionInv, NEW t \in Turns, NEW a \in Authors, Entitles(t, a)
    PROVE  AdmissionInv'
  <1> DEFINE x == turn[t]
             g0 == [by |-> a, says |-> answer[a]]
             y == [x EXCEPT !.todo = @ \ {a}, !.got = @ \cup {g0}]
  <1>1. x.pc = "entitling" /\ a \in x.todo /\ turn' = [turn EXCEPT ![t] = y] /\ UNCHANGED <<process, entry, answer, day>>
    BY DEF Entitles, where, AdmissionInv, AdmissionTyped
  <1>2. x \in TurnType /\ AtWork(t) /\ IsFiniteSet(WordsOf(x.got))
    BY <1>1 DEF AdmissionInv, AdmissionTyped, FewWords, AtWork
  <1>3. g0 \in AnswerGiven /\ g0.by = a
    BY DEF AnswerGiven, AdmissionInv, AdmissionTyped
  <1> HIDE DEF g0
  <1>4. y \in TurnType /\ y.pc = "entitling" /\ y.todo = x.todo \ {a} /\ y.got = x.got \cup {g0}
    <2> HIDE DEF x
    <2> QED
      BY <1>1, <1>2, <1>3 DEF TurnType
  <1>5. IsFiniteSet(WordsOf(y.got))
    <2>1. WordsOf(y.got) = WordsOf(x.got) \cup {g0.says.words}
      BY <1>4 DEF WordsOf
    <2> QED
      BY <1>2, <2>1, FS_AddElement
  <1>6. \A b \in PeopleOf(t) : b \in x.todo \/ \E g \in x.got : g.by = b
    BY <1>1 DEF AdmissionInv, ToBeAsked, AskedOf
  <1>7. \A b \in PeopleOf(t) : b \in y.todo \/ \E g \in y.got : g.by = b
    BY <1>3, <1>4, <1>6
  <1> HIDE DEF x, y
  <1>8. TurnMoves(t, y)
    BY <1>1, <1>2, <1>4, <1>5, <1>7 DEF TurnMoves
  <1> QED
    BY <1>1, <1>8, TurnMovesKeeps DEF AdmissionInv, AdmissionTyped

(* shared_entitlement gives nobody more than each was given.                *)
LEMMA SharedIsEachs ==
    ASSUME AdmissionAssumptions, NEW got \in SUBSET AnswerGiven, IsFiniteSet(WordsOf(got))
    PROVE  LET e == Shared(got) IN
           /\ e.tools = All \/ e.tools \in SUBSET Tools
           /\ e.words \in Words
           /\ \A g \in got : /\ g.says.tools # All => e.tools # All /\ e.tools \subseteq g.says.tools
                             /\ e.words \in {"", g.says.words}
  <1> DEFINE sets == {g.says.tools : g \in got} \ {All}
             T == IF sets = {} THEN All ELSE {x \in Tools : \A s \in sets : x \in s}
             W == IF Cardinality(WordsOf(got)) = 1 THEN (CHOOSE g \in got : TRUE).says.words ELSE ""
  <1>1. Shared(got).tools = T /\ Shared(got).words = W
    BY DEF Shared, WordsOf
  <1>2. (T = All \/ T \in SUBSET Tools) /\ \A g \in got : g.says.tools # All => T # All /\ T \subseteq g.says.tools
    <2>1. \A g \in got : g.says.tools # All => g.says.tools \in sets
      OBVIOUS
    <2>2. sets # {} => T \in SUBSET Tools /\ \A s \in sets : T \subseteq s
      OBVIOUS
    <2> HIDE DEF sets
    <2> QED
      BY <2>1, <2>2 DEF AdmissionAssumptions
  <1>3. W \in Words /\ \A g \in got : W \in {"", g.says.words}
    <2>1. CASE Cardinality(WordsOf(got)) = 1
      <3>1. PICK w : WordsOf(got) = {w}
        BY <2>1, FS_Singleton
      <3>2. \A g \in got : g.says.words = w
        BY <3>1 DEF WordsOf
      <3>3. PICK g0 \in got : TRUE
        BY <3>1 DEF WordsOf
      <3>4. (CHOOSE g \in got : TRUE) \in got
        BY <3>3
      <3>5. W = w
        BY <2>1, <3>2, <3>4
      <3>6. w \in Words
        BY <3>2, <3>3 DEF Words, AnswerGiven
      <3> QED
        BY <3>2, <3>5, <3>6
    <2>2. CASE Cardinality(WordsOf(got)) # 1
      BY <2>2 DEF Words
    <2> QED
      BY <2>1, <2>2
  <1> HIDE DEF T, W
  <1> QED
    BY <1>1, <1>2, <1>3

LEMMA RunsKeeps ==
    ASSUME AdmissionAssumptions, AdmissionInv, NEW t \in Turns, Runs(t)
    PROVE  AdmissionInv'
  <1> DEFINE got == turn[t].got
             e == Shared(got)
             p == Narrowed(e)
             c == ConvOf[t]
             n == IF e.tools = All THEN All ELSE Allowed(e.tools)
             new == [tools |-> p.tools, words |-> p.words, shown |-> Allowed(e.tools)]
             y == [turn[t] EXCEPT !.pc = "running"]
  <1>1. /\ turn[t].pc = "entitling" /\ turn[t].todo = {} /\ turn' = [turn EXCEPT ![t] = y]
        /\ entry' = [entry EXCEPT ![c] = n]
        /\ \/ process' = process /\ process[c].tools = p.tools /\ process[c].words = p.words
           \/ process' = [process EXCEPT ![c] = new]
        /\ answer' = answer /\ day' = day
    BY DEF Runs, where
  <1>2. /\ turn[t] \in TurnType /\ c \in Convs /\ IsFiniteSet(WordsOf(got)) /\ got \in SUBSET AnswerGiven /\ AtWork(t)
        /\ turn \in [Turns -> TurnType] /\ process \in [Convs -> ProcessType] /\ entry \in [Convs -> {All} \cup SUBSET Tools]
    <2>1. turn[t] \in TurnType
      BY DEF AdmissionInv, AdmissionTyped
    <2> QED
      BY <1>1, <2>1, PeopleAreAuthors DEF AdmissionInv, AdmissionTyped, FewWords, AtWork, TurnType
  <1>3. /\ e.tools = All \/ e.tools \in SUBSET Tools
        /\ e.words \in Words
        /\ \A g \in got : /\ g.says.tools # All => e.tools # All /\ e.tools \subseteq g.says.tools
                          /\ e.words \in {"", g.says.words}
    BY <1>2, SharedIsEachs
  <1>4. y \in TurnType /\ y.pc = "running" /\ y.got = got
    BY <1>2 DEF TurnType
  <1> HIDE DEF e, y, got
  <1>5. /\ p.tools = (IF e.tools = All THEN Tools ELSE e.tools \cap Tools) /\ p.words = e.words
        /\ Allowed(e.tools) = IF e.tools = All THEN Tools \ withdrawn ELSE e.tools \ withdrawn
    BY DEF Narrowed, Allowed
  <1> HIDE DEF p
  <1>6. /\ p.tools \subseteq Tools /\ Allowed(e.tools) \subseteq p.tools /\ p.words \in Words
        /\ n \in {All} \cup SUBSET Tools /\ (e.tools # All => n # All /\ n \subseteq e.tools /\ p.tools \subseteq e.tools)
    BY <1>3, <1>5 DEF AdmissionAssumptions
  <1>7. new \in ProcessType /\ new.tools = p.tools /\ new.words = p.words /\ new.shown = Allowed(e.tools)
    BY <1>6 DEF ProcessType
  <1> HIDE DEF new, n, c
  <1>8. /\ process' \in [Convs -> ProcessType] /\ process'[c].tools = p.tools /\ process'[c].words = p.words
        /\ process'[c].shown \subseteq p.tools /\ \A d \in Convs : d # c => process'[d] = process[d]
    BY <1>1, <1>2, <1>6, <1>7 DEF AdmissionInv, ShownIsHad
  <1>9. /\ entry' \in [Convs -> {All} \cup SUBSET Tools] /\ entry'[c] = n /\ \A d \in Convs : d # c => entry'[d] = entry[d]
    BY <1>1, <1>2, <1>6
  <1>10. /\ turn' \in [Turns -> TurnType] /\ turn'[t] = y /\ \A u \in Turns : u # t => turn'[u] = turn[u]
    BY <1>1, <1>2, <1>4
  <1>11. AdmissionTyped'
    BY <1>1, <1>8, <1>9, <1>10 DEF AdmissionTyped, AdmissionInv
  <1>12. OneAtWork'
    <2>1. \A u \in Turns : AtWork(u)' => AtWork(u)
      BY <1>2, <1>10 DEF AtWork
    <2> QED
      BY <2>1 DEF AdmissionInv, OneAtWork
  <1>13. ShownIsHad'
    BY <1>8 DEF AdmissionInv, ShownIsHad
  <1>14. FewWords'
    BY <1>2, <1>4, <1>10 DEF AdmissionInv, FewWords, got
  <1>15. ToBeAsked'
    BY <1>4, <1>10 DEF AdmissionInv, ToBeAsked, AskedOf
  <1>16. EveryoneWasAsked'
    <2>1. \A a \in PeopleOf(t) : \E g \in got : g.by = a
      BY <1>1 DEF AdmissionInv, ToBeAsked, AskedOf, got
    <2> QED
      BY <1>4, <1>10, <2>1 DEF AdmissionInv, EveryoneWasAsked, AskedOf
  <1>17. JointlyEntitled'
    <2> SUFFICES ASSUME NEW u \in Turns, turn'[u].pc = "running", NEW g \in turn'[u].got
                 PROVE  Honours(g, process'[ConvOf[u]], entry'[ConvOf[u]])
      BY DEF JointlyEntitled, Honours
    <2>1. CASE u = t
      <3>1. g \in got /\ ConvOf[u] = c
        BY <1>4, <1>10, <2>1 DEF c
      <3>2. e.words \in {"", g.says.words} /\ (g.says.tools # All => e.tools # All /\ e.tools \subseteq g.says.tools)
        BY <1>3, <3>1
      <3> QED
        BY <1>5, <1>6, <1>8, <1>9, <3>1, <3>2 DEF Honours
    <2>2. CASE u # t
      <3>1. turn'[u] = turn[u] /\ AtWork(u)
        BY <1>10, <2>2 DEF AtWork
      <3>2. ConvOf[u] # c /\ ConvOf[u] \in Convs
        BY <1>2, <2>2, <3>1, PeopleAreAuthors DEF AdmissionInv, OneAtWork, c
      <3>3. Honours(g, process[ConvOf[u]], entry[ConvOf[u]])
        BY <3>1 DEF AdmissionInv, JointlyEntitled, Honours
      <3> QED
        BY <1>8, <1>9, <3>2, <3>3
    <2> QED
      BY <2>1, <2>2
  <1> QED
    BY <1>11, <1>12, <1>13, <1>14, <1>15, <1>16, <1>17 DEF AdmissionInv

LEMMA AdmissionKeeps ==
    AdmissionAssumptions /\ AdmissionInv /\ [AdmissionNext]_adVars => AdmissionInv'
  <1> SUFFICES ASSUME AdmissionAssumptions, AdmissionInv, [AdmissionNext]_adVars PROVE AdmissionInv'
    OBVIOUS
  <1>1. answer \in [Authors -> Answers] /\ day \in Nat
    BY DEF AdmissionInv, AdmissionTyped
  <1>2. ASSUME NEW t \in Turns, Costs(t) PROVE AdmissionInv'
    BY <1>1, <1>2, StandsStillKeeps DEF Costs, where
  <1>3. ASSUME NEW a \in Authors, Changes(a) PROVE AdmissionInv'
    <2>1. answer' \in [Authors -> Answers]
      BY <1>1, <1>3 DEF Changes
    <2> QED
      BY <1>1, <1>3, <2>1, StandsStillKeeps DEF Changes
  <1>4. ASSUME NEW x \in Tools, Moves(x) PROVE AdmissionInv'
    BY <1>1, <1>4, StandsStillKeeps DEF Moves
  <1>5. CASE Midnight
    BY <1>1, <1>5, StandsStillKeeps DEF Midnight
  <1>6. CASE UNCHANGED adVars
    BY <1>1, <1>6, StandsStillKeeps DEF adVars
  <1>7. ASSUME NEW t \in Turns, Begins(t) \/ Tells(t) \/ TellFails(t) \/ Asked(t) \/ Runs(t) \/ Ends(t) \/ Breaks(t)
        PROVE  AdmissionInv'
    BY <1>7, BeginsKeeps, RunsKeeps, TurnStepsKeep
  <1>8. ASSUME NEW t \in Turns, NEW a \in Authors, Admits(t, a) \/ Entitles(t, a) PROVE AdmissionInv'
    BY <1>8, EntitlesKeeps, TurnStepsKeep
  <1> QED
    BY <1>2, <1>3, <1>4, <1>5, <1>6, <1>7, <1>8 DEF AdmissionNext

(* For any people, turns, answers and tools, over an application that       *)
(* changes its mind and tools that are withdrawn: a turn runs after each    *)
(* person of its batch was asked about, and with the tools, offered and let *)
(* through, that every one of them may use (_turn_profile).                 *)
THEOREM JointlyEntitledAlways ==
    ASSUME AdmissionAssumptions
    PROVE  AdmissionSpec => [](JointlyEntitled /\ EveryoneWasAsked)
  <1>1. AdmissionInit => AdmissionInv
    BY AdmissionStart
  <1>2. AdmissionInv /\ [AdmissionNext]_adVars => AdmissionInv'
    BY AdmissionKeeps
  <1>3. AdmissionInv => JointlyEntitled /\ EveryoneWasAsked
    BY DEF AdmissionInv
  <1> QED
    BY <1>1, <1>2, <1>3, PTL DEF AdmissionSpec
=============================================================================
