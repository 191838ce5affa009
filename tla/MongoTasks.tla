----------------------------- MODULE MongoTasks -----------------------------
(***************************************************************************)
(* A scheduled task and its runs on the MongoDB store (store/mongo/         *)
(* tasks.py), used by the schedulers of several engines                     *)
(* (scheduler/service.py).  The port asks for one step where this store has *)
(* single-document operations: a claim, a skip, a close and a removal are   *)
(* each two writes, and a crash or another's write may come between them.   *)
(*                                                                          *)
(* One periodic task; an occurrence is the instant it is due at, and the    *)
(* rows have one per occurrence (the unique index of create_indexes).       *)
(***************************************************************************)
EXTENDS Naturals, FiniteSets

CONSTANTS
    Replicas,       \* processes, each with a scheduler of its own
    FirstUp,        \* those that are up in the beginning
    Alone,          \* whether an engine is started only where no other is up
    MaxClock, MaxCrashed, MaxRemoved, \* bounds
    Nobody

ASSUME ReplicaAssumption == FirstUp \subseteq Replicas /\ Nobody \notin Replicas /\ MaxClock \in Nat \ {0}

VARIABLES
    clock,
    document,   \* the task: [state, due]; due 0: no next run
    rows,       \* per occurrence: [by, status]
    op,         \* per engine: the write it is in
    doing,      \* per engine: the occurrences its workers have
    up,
    admin,      \* the removal under way
    crashes, edits,
    claimed,    \* history: <<engine, occurrence>> handed to a worker
    passed      \* history: occurrences the schedule was advanced past

mVars == <<clock, document, rows, op, doing, up, admin, crashes, edits, claimed, passed>>

Occurrences == 1 .. MaxClock
Resting == [pc |-> "rest", kind |-> Nobody, seen |-> 0, put |-> FALSE, todo |-> {}]

NoEntry == [by |-> Nobody, status |-> "none"]

MongoInit ==
    /\ clock = 1 /\ document = [state |-> "idle", due |-> 1]
    /\ rows = [i \in Occurrences |-> NoEntry]
    /\ op = [e \in Replicas |-> Resting] /\ doing = [e \in Replicas |-> {}]
    /\ up = FirstUp /\ admin = "rest" /\ crashes = 0 /\ edits = 0
    /\ claimed = {} /\ passed = {}

Entry(e, status) == [by |-> e, status |-> status]
Writing(e, pc) == op' = [op EXCEPT ![e].pc = pc]
Rests(e) == op' = [op EXCEPT ![e] = Resting]
bounds == <<clock, up, crashes, edits>>

(* advance_past: the first occurrence after now (beyond the bound: none). *)
Following == IF clock < MaxClock THEN clock + 1 ELSE 0

-----------------------------------------------------------------------------
(* A tick: due_tasks, then _dispatch.  A task still running has outlasted   *)
(* its period and is skipped; one that is late may be claimed or skipped,   *)
(* by how late it is and what its owner said.                               *)
ReadsDue(e) ==
    /\ e \in up /\ op[e].pc = "rest"
    /\ document.state \in {"idle", "running"} /\ document.due # 0 /\ document.due <= clock
    /\ \E kind \in (IF document.state = "running" THEN {"skip"} ELSE IF document.due < clock THEN {"claim", "skip"} ELSE {"claim"}) :
         op' = [op EXCEPT ![e] = [Resting EXCEPT !.pc = "insert", !.kind = kind, !.seen = document.due]]
    /\ UNCHANGED <<bounds, document, rows, doing, admin, claimed, passed>>

(* Mutant: an upsert, which takes the row there is for its own. *)
Upserts(e) ==
    /\ op[e].pc = "insert"
    /\ rows' = [rows EXCEPT ![op[e].seen] = IF @ = NoEntry THEN Entry(e, IF op[e].kind = "claim" THEN "running" ELSE "skipped") ELSE @]
    /\ op' = [op EXCEPT ![e].pc = "swap", ![e].put = FALSE]
    /\ UNCHANGED <<bounds, document, doing, admin, claimed, passed>>

(* claim_due, record_skip: the row of the occurrence goes first, and is its *)
(* lock.                                                                    *)
Inserts(e) ==
    /\ op[e].pc = "insert"
    /\ IF rows[op[e].seen] = NoEntry
         THEN /\ rows' = [rows EXCEPT ![op[e].seen] = Entry(e, IF op[e].kind = "claim" THEN "running" ELSE "skipped")]
              /\ op' = [op EXCEPT ![e].pc = "swap", ![e].put = TRUE]
         ELSE Rests(e) /\ UNCHANGED rows
    /\ UNCHANGED <<bounds, document, doing, admin, claimed, passed>>

(* The compare and swap, on the due time that was read. *)
Matches(e) == document.due = op[e].seen /\ document.state \in (IF op[e].kind = "claim" THEN {"idle"} ELSE {"idle", "running", "paused"})

(* Then the document: the schedule is advanced, and a claim has a worker.   *)
Swaps(e) ==
    /\ op[e].pc = "swap"
    /\ IF Matches(e)
         THEN /\ document' = [state |-> IF op[e].kind = "claim" THEN "running" ELSE document.state, due |-> Following]
              /\ passed' = passed \cup {document.due}
              /\ doing' = IF op[e].kind = "claim" THEN [doing EXCEPT ![e] = @ \cup {op[e].seen}] ELSE doing
              /\ claimed' = IF op[e].kind = "claim" THEN claimed \cup {<<e, op[e].seen>>} ELSE claimed
              /\ Rests(e)
         ELSE Writing(e, "undo") /\ UNCHANGED <<document, passed, doing, claimed>>
    /\ UNCHANGED <<bounds, rows, admin>>

(* The loser removes the row it put in, by its id. *)
Undoes(e) ==
    /\ op[e].pc = "undo"
    /\ rows' = [rows EXCEPT ![op[e].seen] = IF op[e].put THEN NoEntry ELSE @]
    /\ Rests(e)
    /\ UNCHANGED <<bounds, document, doing, admin, claimed, passed>>

-----------------------------------------------------------------------------
(* complete_run: the row is closed, unless somebody has declared it ended   *)
(* ...                                                                      *)
Closes(e, i) ==
    /\ e \in up /\ op[e].pc = "rest" /\ i \in doing[e]
    /\ doing' = [doing EXCEPT ![e] = @ \ {i}]
    /\ IF rows[i].status = "running"
         THEN rows' = [rows EXCEPT ![i].status = "ok"] /\ Writing(e, "release")
         ELSE UNCHANGED <<rows, op>>
    /\ UNCHANGED <<bounds, document, admin, claimed, passed>>

(* ... and then the claim is let go.                                        *)
Releases(e) ==
    /\ op[e].pc = "release"
    /\ document' = IF document.state = "gone" THEN document ELSE [document EXCEPT !.state = "idle"]
    /\ Rests(e)
    /\ UNCHANGED <<bounds, rows, doing, admin, claimed, passed>>

-----------------------------------------------------------------------------
(* An engine starts: reclaim_orphans reads the rows that are running, none  *)
(* of which are its own, ...                                                *)
Starts(e) ==
    /\ e \notin up /\ (Alone => up = {})
    /\ up' = up \cup {e}
    /\ op' = [op EXCEPT ![e] = [Resting EXCEPT !.pc = "reclaim",
                                  !.todo = {i \in Occurrences : rows[i].status = "running"}]]
    /\ UNCHANGED <<clock, document, rows, doing, admin, crashes, edits, claimed, passed>>

(* ... and one by one declares them interrupted ...                         *)
Declares(e, i) ==
    /\ op[e].pc = "reclaim" /\ i \in op[e].todo
    /\ rows' = [rows EXCEPT ![i] = IF @ # NoEntry THEN [@ EXCEPT !.status = "interrupted"] ELSE @]
    /\ op' = [op EXCEPT ![e].pc = "free", ![e].todo = @ \ {i}]
    /\ UNCHANGED <<bounds, document, doing, admin, claimed, passed>>

(* ... and frees the task.                                                  *)
Frees(e) ==
    /\ op[e].pc = "free"
    /\ document' = IF document.state = "running" THEN [document EXCEPT !.state = "idle"] ELSE document
    /\ Writing(e, "reclaim")
    /\ UNCHANGED <<bounds, rows, doing, admin, claimed, passed>>

Started(e) ==
    /\ op[e].pc = "reclaim" /\ op[e].todo = {}
    /\ Rests(e)
    /\ UNCHANGED <<bounds, document, rows, doing, admin, claimed, passed>>

Crashes(e) ==
    /\ e \in up /\ crashes < MaxCrashed /\ crashes' = crashes + 1
    /\ up' = up \ {e} /\ Rests(e) /\ doing' = [doing EXCEPT ![e] = {}]
    /\ UNCHANGED <<clock, document, rows, admin, edits, claimed, passed>>

-----------------------------------------------------------------------------
(* The administration: set_paused (not while it runs), request_run_now, and *)
(* delete_task with the history after the task.                             *)
Edits == edits < MaxRemoved /\ edits' = edits + 1

Pauses ==
    /\ Edits /\ document.state = "idle"
    /\ document' = [state |-> "paused", due |-> 0]
    /\ UNCHANGED <<clock, up, crashes, rows, op, doing, admin, claimed, passed>>

Resumes ==
    /\ Edits /\ document.state = "paused"
    /\ document' = [state |-> "idle", due |-> Following]
    /\ UNCHANGED <<clock, up, crashes, rows, op, doing, admin, claimed, passed>>

RunNow ==
    /\ Edits /\ document.state = "idle"
    /\ document' = [document EXCEPT !.due = clock]
    /\ UNCHANGED <<clock, up, crashes, rows, op, doing, admin, claimed, passed>>

Deletes ==
    /\ Edits /\ document.state # "gone"
    /\ document' = [state |-> "gone", due |-> 0] /\ admin' = "history"
    /\ UNCHANGED <<clock, up, crashes, rows, op, doing, claimed, passed>>

DeletesHistory ==
    /\ admin = "history" /\ admin' = "rest"
    /\ rows' = [i \in Occurrences |-> NoEntry]
    /\ UNCHANGED <<bounds, document, op, doing, claimed, passed>>

Ticks == clock < MaxClock /\ clock' = clock + 1 /\ UNCHANGED <<document, rows, op, doing, up, admin, crashes, edits, claimed, passed>>

MongoNext ==
    \/ \E e \in Replicas : \/ ReadsDue(e) \/ Inserts(e) \/ Swaps(e) \/ Undoes(e) \/ Releases(e)
                          \/ Starts(e) \/ Frees(e) \/ Started(e) \/ Crashes(e)
    \/ \E e \in Replicas, i \in Occurrences : Closes(e, i) \/ Declares(e, i)
    \/ Pauses \/ Resumes \/ RunNow \/ Deletes \/ DeletesHistory \/ Ticks

MongoSpec == MongoInit /\ [][MongoNext]_mVars

-----------------------------------------------------------------------------
(* An occurrence is handed to one worker, of one engine, whoever else saw   *)
(* it due, whatever was paused, moved to now or resumed meanwhile, and      *)
(* across a crash (claim_due).                                              *)
OccurrenceRunsOnce ==
    \A c, d \in claimed : c[2] = d[2] => c = d

(* The schedule never moves past an occurrence that has no row to say what  *)
(* became of it: not by the loser of a race, and not by a crash (claim_due, *)
(* "the run row goes FIRST and the claim second").                          *)
PassedHasItsRow ==
    document.state # "gone" => \A i \in passed : rows[i] # NoEntry

(* A run declared interrupted stays so, though its worker lives and comes   *)
(* back with an answer (complete_run, "must not un-declare itself").        *)
DeclaredStays ==
    [][\A i \in Occurrences : (rows[i].status = "interrupted" /\ rows'[i] # NoEntry) => rows'[i] = rows[i]]_mVars

(* The three together: on the Mongo store an occurrence is handed to a      *)
(* worker once, what the schedule has passed has its row, and a run that    *)
(* was declared interrupted stays so (claim_due, record_skip, complete_run, *)
(* reclaim_orphans).                                                        *)
MongoDecidesOnce == [](OccurrenceRunsOnce /\ PassedHasItsRow) /\ DeclaredStays

-----------------------------------------------------------------------------
(* What the code does not keep *)

AtRest == up # {} /\ \A e \in Replicas : op[e].pc = "rest" /\ doing[e] = {}

(* "a run can never end finished-but-still-claimed" (store/base.py          *)
(* complete_run).                                                           *)
NothingStaysClaimed == AtRest => document.state # "running"

(* "advancing the schedule in the same transaction" (store/base.py          *)
(* claim_due): an occurrence that has a row is not what the task waits for. *)
NothingBlocksTheTask ==
    (AtRest /\ document.state = "idle" /\ document.due # 0) => rows[document.due] = NoEntry

(* What a run ended as stays, when an engine that starts is at its list of  *)
(* orphans (complete_run, "overwriting a verdict already written").         *)
EndedStays ==
    [][\A i \in Occurrences : (rows[i].status = "ok" /\ rows'[i] # NoEntry) => rows'[i] = rows[i]]_mVars
=============================================================================
