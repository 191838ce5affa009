------------------------------- MODULE Scheduler -------------------------------
(***************************************************************************)
(* The task scheduler (crucible/scheduler/service.py) over its store        *)
(* (store/sqlite/tasks.py) and its administration (scheduler/admin.py, the   *)
(* CLI's run-now).  Engines tick: a pass reads what is due with one reading  *)
(* of the clock and then decides each task in a store transaction of its     *)
(* own; other engines and administrators write in between.  A run row of     *)
(* (task, scheduled instant) is unique; a claim inserts it and advances the  *)
(* schedule in one transaction.                                              *)
(*                                                                           *)
(* An engine is one start of a process (its id is new at every start), so a  *)
(* crash and a restart are one engine dying and another starting.  Time is   *)
(* counted in the store's resolution; an interval's anchor is instant 0.     *)
(***************************************************************************)
EXTENDS Integers, FiniteSets

CONSTANTS
    Engines,        \* process starts
    Solo,           \* TRUE: an engine starts only when no other is up
    Tasks,
    Period,         \* a task's interval; 0 for a one-shot
    At,             \* the instant of a one-shot
    Jitter,         \* jitter_s
    SkipLate,       \* the tasks with on_missed = skip
    Watches,        \* the tasks of mode watch
    Expires,        \* expires_at of a watch
    Grace,          \* grace_window of a task's trigger
    Slack,          \* _fresh_slack: one tick and a bit
    StartupGrace,   \* startup_grace_s
    MaxConcurrent, MaxFailures,
    Keep, Retention,\* keep_runs, retention_days
    Admin,          \* the administrative operations asked for in an instance
    MaxAsked,       \* resumes and run-nows of a task (a bound)
    Horizon,        \* the clock stops here (a bound)
    None

Instants == 0..Horizon

ASSUME TaskAssumption ==
    /\ Period \in [Tasks -> Nat] /\ At \in [Tasks -> Nat] /\ Jitter \in [Tasks -> Nat]
    /\ Grace \in [Tasks -> Nat] /\ Expires \in [Tasks -> Nat]
    /\ SkipLate \subseteq Tasks /\ Watches \subseteq Tasks
    /\ \A t \in Watches : Period[t] > 0
ASSUME BoundAssumption ==
    /\ Slack \in Nat /\ StartupGrace \in Nat /\ Horizon \in Nat /\ MaxAsked \in Nat
    /\ MaxConcurrent \in Nat \ {0} /\ MaxFailures \in Nat \ {0}
    /\ Keep \in Nat /\ Retention \in Nat
ASSUME NoneAssumption == None \notin Nat /\ None \notin Engines
ASSUME SoloAssumption == Solo \in BOOLEAN
ASSUME AdminAssumption == Admin \subseteq {"pause", "resume", "run_now", "delete"}

VARIABLES
    now,        \* the clock
    task,       \* the tasks table
    run,        \* the task_runs table: run[t][s] is the row of occurrence s
    engine,     \* each engine: its life, start, and the pass it is in
    worker,     \* _inflight of each engine: the runs it performs
    fired,      \* history: how often an occurrence's work was started
    asked       \* history: how often somebody resumed a task or ran it now

vars == <<now, task, run, engine, worker, fired, asked>>

(* The endings that differ to the store: a failure counts towards pausing   *)
(* ("failed" stands for error, timeout, empty, deadline, no_agent), a turn  *)
(* a person stopped or the application did not admit does not.              *)
Failures == {"failed", "cancelled"}
Endings == {"ok", "stopped"} \cup Failures
Verdicts == Endings \cup {"overlap", "missed", "interrupted", "gone"}

NoRow == [status |-> "none", owner |-> None, decided |-> None, finished |-> None]
Unborn == [life |-> "unborn", born |-> 0, at |-> 0, seen |-> {}, gone |-> {}]

(* advance_past: the first occurrence strictly after a moment.  An interval *)
(* keeps its phase on its anchor; a one-shot has no successor.              *)

AdvancePast(t, scheduled, until) ==
    IF Period[t] = 0 THEN None ELSE ((until \div Period[t]) + 1) * Period[t]

(* first_run *)
FirstRun(t, moment) ==
    IF Period[t] = 0 THEN (IF At[t] > moment THEN At[t] ELSE None)
                     ELSE AdvancePast(t, 0, moment)

WithJitter(t, moment) == IF moment = None THEN None ELSE moment + Jitter[t]

Init ==
    /\ now = 0
    /\ task = [t \in Tasks |-> [state |-> "uncreated", next |-> None, due |-> None, fails |-> 0]]
    /\ run = [t \in Tasks |-> [s \in Instants |-> NoRow]]
    /\ engine = [e \in Engines |-> Unborn]
    /\ worker = [e \in Engines |-> {}]
    /\ fired = [t \in Tasks |-> [s \in Instants |-> 0]]
    /\ asked = [t \in Tasks |-> 0]

Clock ==
    /\ now < Horizon
    /\ now' = now + 1
    /\ UNCHANGED <<task, run, engine, worker, fired, asked>>

-----------------------------------------------------------------------------
(* Administration: schedule_in / watch_in, set_paused, cancel, run-now. *)

Create(t) ==
    /\ task[t].state = "uncreated"
    /\ FirstRun(t, now) # None
    /\ task' = [task EXCEPT ![t] = [state |-> "idle", next |-> FirstRun(t, now),
                                    due |-> WithJitter(t, FirstRun(t, now)), fails |-> 0]]
    /\ UNCHANGED <<now, run, engine, worker, fired, asked>>

Exists(t) == task[t].state \notin {"uncreated", "deleted"}

Ask(t) == asked[t] < MaxAsked /\ asked' = [asked EXCEPT ![t] = @ + 1]

SetPaused(t, paused) ==
    LET upcoming == IF paused THEN None ELSE FirstRun(t, now) IN
    /\ Exists(t)
    /\ task[t].state # "running"
    /\ task' = [task EXCEPT ![t].state = IF paused THEN "paused" ELSE "idle",
                            ![t].next = upcoming,
                            ![t].due = WithJitter(t, upcoming)]
    /\ IF paused THEN UNCHANGED asked ELSE Ask(t)
    /\ UNCHANGED <<now, run, engine, worker, fired>>

RequestRunNow(t) ==
    /\ task[t].state = "idle"
    /\ task' = [task EXCEPT ![t].next = now, ![t].due = now]
    /\ Ask(t)
    /\ UNCHANGED <<now, run, engine, worker, fired>>

Delete(t) ==
    /\ Exists(t)
    /\ task' = [task EXCEPT ![t] = [state |-> "deleted", next |-> None, due |-> None, fails |-> 0]]
    /\ run' = [run EXCEPT ![t] = [s \in Instants |-> NoRow]]
    /\ UNCHANGED <<now, engine, worker, fired, asked>>

-----------------------------------------------------------------------------
(***************************************************************************)
(* Starting: recover() declares every run another engine left running       *)
(* interrupted, counts it as a failure of its task and releases the task;   *)
(* then it prunes old history beyond the newest rows of each task.  (The    *)
(* lease clause of reclaim_orphans is about the engine's own runs, and it   *)
(* has none yet.)                                                           *)
(***************************************************************************)
RunningOf(t) == {s \in Instants : run[t][s].status = "running"}

Interrupted(row) == [row EXCEPT !.status = "interrupted", !.finished = now]

Reclaimed(t) ==
    IF RunningOf(t) # {} /\ task[t].state = "running"
      THEN [task[t] EXCEPT !.state = "idle", !.fails = @ + 1]
      ELSE task[t]

Newest(rows) ==
    {s \in DOMAIN rows : /\ rows[s].status # "none"
                         /\ Cardinality({r \in DOMAIN rows : r > s /\ rows[r].status # "none"}) < Keep}

Prune(rows) ==
    [s \in Instants |-> IF /\ rows[s].finished # None
                           /\ rows[s].finished < now - Retention
                           /\ s \notin Newest(rows)
                          THEN NoRow ELSE rows[s]]

Start(e) ==
    /\ engine[e].life = "unborn"
    /\ Solo => \A f \in Engines : engine[f].life \in {"unborn", "dead"}
    /\ engine' = [engine EXCEPT ![e] = [Unborn EXCEPT !.life = "up", !.born = now]]
    /\ run' = [t \in Tasks |->
                 Prune([s \in Instants |-> IF s \in RunningOf(t) THEN Interrupted(run[t][s])
                                                                 ELSE run[t][s]])]
    /\ task' = [t \in Tasks |-> Reclaimed(t)]
    /\ UNCHANGED <<now, worker, fired, asked>>

(* The process is gone, and with it its pass and its runs.  The last start  *)
(* does not crash: a bound, without which nobody is left to reclaim.        *)
Crash(e) ==
    /\ engine[e].life \in {"up", "stopping"}
    /\ \E f \in Engines : engine[f].life = "unborn"
    /\ engine' = [engine EXCEPT ![e] = [Unborn EXCEPT !.life = "dead"]]
    /\ worker' = [worker EXCEPT ![e] = {}]
    /\ UNCHANGED <<now, task, run, fired, asked>>

(* An orderly stop: the ticker ends, every run in flight is cancelled. *)
Stop(e) ==
    /\ engine[e].life = "up"
    /\ engine[e].gone = {}
    /\ engine' = [engine EXCEPT ![e] = [Unborn EXCEPT !.life = IF worker[e] = {} THEN "dead" ELSE "stopping"]]
    /\ UNCHANGED <<now, task, run, worker, fired, asked>>

-----------------------------------------------------------------------------
(***************************************************************************)
(* tick: read what is due, as records that will be stale when they are used. *)
(***************************************************************************)

Due == {t \in Tasks : task[t].state \in {"idle", "running"} /\ task[t].due # None /\ task[t].due <= now}

Ticking(e) == engine[e].life = "up" /\ engine[e].gone = {}

TickReads(e) ==
    /\ Ticking(e)
    /\ engine[e].seen = {}
    /\ Due # {}
    /\ engine' = [engine EXCEPT ![e].at = now,
                                ![e].seen = {[id |-> t, record |-> task[t]] : t \in Due}]
    /\ UNCHANGED <<now, task, run, worker, fired, asked>>

(* The earliest due of what the pass has not decided yet. *)
Decides(e, r) ==
    /\ Ticking(e)
    /\ r \in engine[e].seen
    /\ \A q \in engine[e].seen : r.record.due <= q.record.due

(* Too many runs in flight: the rest keep their due time. *)
PassIsFull(e) ==
    /\ Ticking(e)
    /\ engine[e].seen # {}
    /\ Cardinality(worker[e]) >= MaxConcurrent
    /\ engine' = [engine EXCEPT ![e].seen = {}, ![e].at = 0]
    /\ UNCHANGED <<now, task, run, worker, fired, asked>>

MayDecide(e, r) == Decides(e, r) /\ Cardinality(worker[e]) < MaxConcurrent

(* The pass goes on; its reading of the clock goes with it. *)
Decided(e, r) ==
    engine' = [engine EXCEPT ![e].seen = @ \ {r}, ![e].at = IF engine[e].seen = {r} THEN 0 ELSE @]

Lateness(e, r) == engine[e].at - r.record.next
Late(e, r) == Lateness(e, r) > Slack
StartingUp(e) == engine[e].at - engine[e].born < StartupGrace
HeldBack(e, r) == Late(e, r) /\ StartingUp(e)
TooLate(e, r) == (Late(e, r) /\ r.id \in SkipLate) \/ Lateness(e, r) > Grace[r.id]

Upcoming(e, r) == AdvancePast(r.id, r.record.next, engine[e].at)

Row(e, status) ==
    [status |-> status, owner |-> e, decided |-> engine[e].at,
     finished |-> IF status = "running" THEN None ELSE engine[e].at]

(***************************************************************************)
(* The store's compare-and-swap on due_at, and the unique row.  A claim     *)
(* that finds either spoken for changes nothing, and so does a skip.        *)
(***************************************************************************)
Unclaimed(r) == task[r.id].due = r.record.due /\ run[r.id][r.record.next].status = "none"

RecordSkip(e, r, status) ==
    LET up == Upcoming(e, r) IN
    IF Exists(r.id) /\ Unclaimed(r)
      THEN /\ task' = [task EXCEPT ![r.id].next = up, ![r.id].due = WithJitter(r.id, up)]
           /\ run' = [run EXCEPT ![r.id][r.record.next] = Row(e, status)]
      ELSE UNCHANGED <<task, run>>

(* Bug: the claim looks at the state but not at the token or the row. *)
ClaimableWhenIdle(r) == task[r.id].state = "idle"

Claimable(r) == task[r.id].state = "idle" /\ Unclaimed(r)

ClaimDue(e, r, status, up) ==
    IF Claimable(r)
      THEN /\ task' = [task EXCEPT ![r.id].state = "running", ![r.id].next = up,
                                   ![r.id].due = WithJitter(r.id, up)]
           /\ run' = [run EXCEPT ![r.id][r.record.next] = Row(e, status)]
      ELSE UNCHANGED <<task, run>>

(* A claimed occurrence is performed by a worker that keeps the record as   *)
(* it was before the claim.                                                 *)
Worker(r, final) == [id |-> r.id, instant |-> r.record.next, record |-> r.record, final |-> final]

Spawn(e, r, final) ==
    IF Claimable(r)
      THEN /\ worker' = [worker EXCEPT ![e] = @ \cup {Worker(r, final)}]
           /\ fired' = [fired EXCEPT ![r.id][r.record.next] = @ + 1]
      ELSE UNCHANGED <<worker, fired>>

(* A task still running when its time has come round again. *)
Overlaps(e, r) ==
    /\ MayDecide(e, r)
    /\ r.record.state = "running"
    /\ RecordSkip(e, r, "overlap")
    /\ Decided(e, r)
    /\ UNCHANGED <<now, worker, fired, asked>>

(* A late occurrence waits until the gateways have had time to log in. *)
WaitsForStartup(e, r) ==
    /\ MayDecide(e, r)
    /\ r.record.state # "running"
    /\ HeldBack(e, r)
    /\ Decided(e, r)
    /\ UNCHANGED <<now, task, run, worker, fired, asked>>

Misses(e, r) ==
    /\ MayDecide(e, r)
    /\ r.record.state # "running"
    /\ ~HeldBack(e, r)
    /\ r.id \notin Watches
    /\ TooLate(e, r)
    /\ RecordSkip(e, r, "missed")
    /\ Decided(e, r)
    /\ UNCHANGED <<now, worker, fired, asked>>

Claims(e, r) ==
    /\ MayDecide(e, r)
    /\ r.record.state # "running"
    /\ ~HeldBack(e, r)
    /\ r.id \notin Watches
    /\ ~TooLate(e, r)
    /\ ClaimDue(e, r, "running", Upcoming(e, r))
    /\ Spawn(e, r, FALSE)
    /\ Decided(e, r)
    /\ UNCHANGED <<now, asked>>

(***************************************************************************)
(* A watch asks the application's hook.  Not yet: the schedule moves on,    *)
(* whatever it has become meanwhile.  Done or expired: its one turn runs    *)
(* and the schedule ends with the claim.  Gone: it ends with a row.         *)
(***************************************************************************)
AsksWatch(e, r) ==
    MayDecide(e, r) /\ r.record.state # "running" /\ ~HeldBack(e, r) /\ r.id \in Watches

WatchPending(e, r) ==
    LET up == Upcoming(e, r) IN
    /\ AsksWatch(e, r)
    /\ engine[e].at < Expires[r.id]
    /\ task' = IF Exists(r.id)
                 THEN [task EXCEPT ![r.id].next = up, ![r.id].due = WithJitter(r.id, up)]
                 ELSE task
    /\ Decided(e, r)
    /\ UNCHANGED <<now, run, worker, fired, asked>>

(* Bug: the schedule goes on past the watch's answer. *)
WatchDoneGoesOn(e, r) ==
    /\ AsksWatch(e, r)
    /\ ClaimDue(e, r, "running", Upcoming(e, r))
    /\ Spawn(e, r, TRUE)
    /\ Decided(e, r)
    /\ UNCHANGED <<now, asked>>

(* The code. *)
WatchDone(e, r) ==
    /\ AsksWatch(e, r)
    /\ ClaimDue(e, r, "running", None)
    /\ Spawn(e, r, TRUE)
    /\ Decided(e, r)
    /\ UNCHANGED <<now, asked>>

(* The ticker claims the occurrence itself and finishes it. *)
WatchGone(e, r) ==
    /\ AsksWatch(e, r)
    /\ engine[e].at < Expires[r.id]
    /\ ClaimDue(e, r, "running", None)
    /\ engine' = [engine EXCEPT ![e].seen = @ \ {r},
                                ![e].at = IF engine[e].seen = {r} THEN 0 ELSE @,
                                ![e].gone = IF Claimable(r) THEN {Worker(r, TRUE)} ELSE {}]
    /\ UNCHANGED <<now, worker, fired, asked>>

-----------------------------------------------------------------------------
(***************************************************************************)
(* _finish: the run's row gets its verdict unless a reclaim wrote one, and  *)
(* with it the task its next state.  The record is the one read before the  *)
(* claim.                                                                   *)
(***************************************************************************)
ReleasedState(w) == IF w.record.next # None THEN "idle" ELSE "done"

Release(w, status) ==
    CASE status \in Failures /\ w.record.fails + 1 >= MaxFailures -> "paused"
      [] (status \in Failures => w.record.fails + 1 < MaxFailures) /\ w.final -> "done"
      [] OTHER -> ReleasedState(w)

CompleteRun(w, status) ==
    IF run[w.id][w.instant].status = "running"
      THEN /\ run' = [run EXCEPT ![w.id][w.instant].status = status,
                                 ![w.id][w.instant].finished = now]
           /\ task' = [task EXCEPT ![w.id].state = Release(w, status),
                                   ![w.id].fails = IF status \in Failures THEN @ + 1 ELSE 0]
      ELSE UNCHANGED <<task, run>>

WorkerEnds(e, w, status) ==
    /\ w \in worker[e]
    /\ engine[e].life = "stopping" <=> status = "cancelled"
    /\ worker' = [worker EXCEPT ![e] = @ \ {w}]
    /\ engine' = IF engine[e].life = "stopping" /\ worker[e] = {w}
                   THEN [engine EXCEPT ![e].life = "dead"] ELSE engine
    /\ CompleteRun(w, status)
    /\ UNCHANGED <<now, fired, asked>>

GoneEnds(e) ==
    /\ \E w \in engine[e].gone : CompleteRun(w, "gone")
    /\ engine' = [engine EXCEPT ![e].gone = {}]
    /\ UNCHANGED <<now, worker, fired, asked>>

-----------------------------------------------------------------------------
Decide(e, r) ==
    \/ Overlaps(e, r) \/ WaitsForStartup(e, r) \/ Misses(e, r) \/ Claims(e, r)
    \/ WatchPending(e, r) \/ WatchDone(e, r) \/ WatchGone(e, r)

Pass(e) == TickReads(e) \/ PassIsFull(e) \/ GoneEnds(e) \/ \E r \in engine[e].seen : Decide(e, r)

WorkEnds(e) == \E w \in worker[e], status \in Endings : WorkerEnds(e, w, status)

Administer(t) ==
    \/ "pause" \in Admin /\ SetPaused(t, TRUE)
    \/ "resume" \in Admin /\ SetPaused(t, FALSE)
    \/ "run_now" \in Admin /\ RequestRunNow(t)
    \/ "delete" \in Admin /\ Delete(t)

Next ==
    \/ Clock
    \/ \E t \in Tasks : Create(t) \/ Administer(t)
    \/ \E e \in Engines : Start(e) \/ Crash(e) \/ Stop(e) \/ Pass(e) \/ WorkEnds(e)

Spec == Init /\ [][Next]_vars

(***************************************************************************)
(* Fairness: the ticker is supervised and a failing tick is followed by     *)
(* another, a run ends or its deadline passes, and a process is started     *)
(* again after it died.                                                     *)
(***************************************************************************)
Fairness == \A e \in Engines : WF_vars(Start(e)) /\ WF_vars(Pass(e)) /\ WF_vars(WorkEnds(e))

FairSpec == Spec /\ Fairness

-----------------------------------------------------------------------------
Record == [state : {"uncreated", "idle", "running", "paused", "done", "deleted"},
           next : Nat \cup {None}, due : Nat \cup {None}, fails : Nat]
Workers == [id : Tasks, instant : Instants, record : Record, final : BOOLEAN]

(* The values of the tables; what a pass holds was due when it was read. *)
TypeOK ==
    /\ now \in Instants
    /\ task \in [Tasks -> Record]
    /\ run \in [Tasks -> [Instants -> [status : {"none", "running"} \cup Verdicts,
                                      owner : Engines \cup {None},
                                      decided : Instants \cup {None}, finished : Instants \cup {None}]]]
    /\ \A e \in Engines :
         /\ engine[e].life \in {"unborn", "up", "stopping", "dead"}
         /\ engine[e].born \in Instants /\ engine[e].at \in Instants
         /\ \A r \in engine[e].seen : r.id \in Tasks /\ r.record \in Record /\ r.record.next <= engine[e].at
         /\ engine[e].gone \subseteq Workers
         /\ worker[e] \subseteq Workers
    /\ fired \in [Tasks -> [Instants -> Nat]]
    /\ asked \in [Tasks -> 0..MaxAsked]

(* "Nothing fires twice": the work of an occurrence is started at most once, *)
(* whatever engines, crashes and administrators do.                          *)
NothingFiresTwice == \A t \in Tasks, s \in Instants : fired[t][s] <= 1

(* A task is running exactly while one of its rows is: a reclaim, a late    *)
(* verdict and a skip never part the two, and a running task never has two. *)
RunningHasOneRow ==
    \A t \in Tasks : Cardinality(RunningOf(t)) = IF task[t].state = "running" THEN 1 ELSE 0

(* "A run that came back after being declared interrupted must not          *)
(* un-declare itself": a verdict once written is never replaced by another. *)
VerdictStands ==
    [][\A t \in Tasks, s \in Instants :
         run[t][s].status \in Verdicts => run'[t][s].status \in {run[t][s].status, "none"}]_vars

(* A task that fell behind catches up once, not once per missed interval:   *)
(* after an occurrence was decided at some moment, the only ones decided    *)
(* later fall strictly after that moment.                                   *)
CatchesUpOnce ==
    \A t \in Tasks, s \in Instants, r \in Instants :
        (s < r /\ run[t][s].decided # None /\ run[t][r].decided # None) => r > run[t][s].decided

(* An occurrence of a task is decided once on one database: nothing fires   *)
(* twice, a task that runs has one row of it, a start catches up once, and  *)
(* a verdict stands (service.py, sqlite/tasks.py claim_due, complete_run).  *)
DecidedOnce == [](TypeOK /\ NothingFiresTwice /\ RunningHasOneRow /\ CatchesUpOnce) /\ VerdictStands

(* The agent gets one turn from a watch, and one more for each time somebody *)
(* resumed it or ran it now: the schedule ends with the claim.               *)
WatchFiresOnce ==
    \A t \in Watches : Cardinality({s \in Instants : fired[t][s] > 0}) <= 1 + asked[t]

(* Every run gets its verdict, from its engine or, when that died, from the *)
(* next one's recovery.                                                     *)
EveryRunGetsAVerdict ==
    \A t \in Tasks, s \in Instants : run[t][s].status = "running" ~> run[t][s].status # "running"

-----------------------------------------------------------------------------
(* What the code and its documentation say, and the code does not do. *)

(* "A one-shot is finished once it has run." *)
OneShotIsFinished ==
    [][\A t \in Tasks, s \in Instants :
         (Period[t] = 0 /\ run[t][s].status = "running" /\ run'[t][s].status = "ok")
            => task'[t].state = "done"]_vars

(* on_missed = skip: "a late occurrence is recorded as missed instead of    *)
(* caught up, while one seen on time runs as always"; on time is within a   *)
(* tick of the task's own smeared time.                                     *)
OnTimeIsNotMissed ==
    [][\A t \in SkipLate, s \in Instants :
         (run[t][s].status = "none" /\ run'[t][s].status = "missed")
            => run'[t][s].decided > s + Jitter[t] + Slack]_vars

(* "Every decision leaves a row behind": a pass that decides a task nobody  *)
(* else has touched writes a row for it.                                    *)
DecisionLeavesARow ==
    [][\A e \in Engines : \A r \in engine[e].seen :
         ( /\ r.id \notin Watches /\ MayDecide(e, r) /\ ~HeldBack(e, r)
           /\ engine'[e].life = "up" /\ r \notin engine'[e].seen
           /\ task[r.id] = r.record ) => run' # run]_vars

(* "interrupted: the engine stopped mid-run". *)
InterruptedMeansStopped ==
    [][\A t \in Tasks, s \in Instants :
         (run[t][s].status = "running" /\ run'[t][s].status = "interrupted")
            => engine[run[t][s].owner].life = "dead"]_vars

(* "After five failures in a row a task is paused." *)
FailuresPause ==
    [][\A t \in Tasks :
         (task'[t].fails > task[t].fails /\ task'[t].fails >= MaxFailures)
            => task'[t].state = "paused"]_vars
=============================================================================
