------------------------------ MODULE Delegation ------------------------------
(***************************************************************************)
(* Tasks one agent hands another (crucible/interactions/delegation.py):     *)
(* the record of a task, the coroutine that runs its turn, the asker's      *)
(* await, those that may end it (its own end, the asker's cancel, the end   *)
(* of the asker's turn, a recovery) and the answer that goes back.  Texts,  *)
(* files and what a trust hands over are left out; the asked agent's turn   *)
(* is what its sink does with the message: queued, running, over.           *)
(***************************************************************************)
EXTENDS Naturals, FiniteSets

CONSTANTS
    Starts,         \* process starts; a replica's id is drawn at its start
    Registry,       \* TRUE: replicas side by side, with leases; FALSE: one process after another
    Handed,         \* tasks the asker may hand on
    KeyOf,          \* _conversation_key: where a task's turn runs
    MaxAskerTurns,  \* turns of the asker's (a bound)
    Nobody

Keys == {KeyOf[t] : t \in Handed}

VARIABLES
    record,     \* the delegations table: status, the replica running it, trusted, what became of the answer
    runner,     \* the _run of each task: where it stands, on which replica, for which turn of the asker's
    turn,       \* the asked agent's turn on the task
    busyKeys,   \* _busy of each replica
    ended,      \* _ends: the tasks whose future is resolved
    answer,     \* the _answer of each task
    asker,      \* the asker's conversation: the turn running there (0: none), turns so far, where
    awaited,    \* await_answers in flight
    stops,      \* tasks called off whose turn is yet to be stopped
    replica,    \* each start: its life, its lease, what its recover() has read, whether it recovered yet
    told        \* history: turns of the asker's opened with a task's answer

vars == <<record, runner, turn, busyKeys, ended, answer, asker, awaited, stops, replica, told>>

Over == {"replied", "raised", "stopped"}
Up(r) == replica[r].life = "up"

Init ==
    /\ record = [t \in Handed |-> [status |-> "none", by |-> Nobody, trusted |-> FALSE,
                                 reason |-> "none", answer |-> "none"]]
    /\ runner = [t \in Handed |-> [pc |-> "none", at |-> Nobody, watch |-> 0]]
    /\ turn = [t \in Handed |-> "none"]
    /\ busyKeys = [r \in Starts |-> {}]
    /\ ended = {}
    /\ answer = [t \in Handed |-> [pc |-> "none", at |-> Nobody]]
    /\ asker = [turn |-> 0, last |-> 0, at |-> Nobody]
    /\ awaited = {} /\ stops = {}
    /\ replica = [r \in Starts |-> [life |-> "unborn", lease |-> FALSE, found |-> {}, recovered |-> FALSE]]
    /\ told = [t \in Handed |-> 0]

Goes(t, step) == runner' = [runner EXCEPT ![t].pc = step]

-----------------------------------------------------------------------------
(* The store. *)

(* Bug: the ending is written whatever the record says. *)
EndAnyway(t, status, reason) == record' = [record EXCEPT ![t].status = status, ![t].reason = reason]

(* end_delegation: the one write that takes a task out of running. *)
EndDelegation(t, status, reason) ==
    record' = IF record[t].status = "running"
                THEN [record EXCEPT ![t].status = status, ![t].reason = reason]
                ELSE record

Writes(t) == record[t].status = "running"
Trusted == {t \in Handed : record[t].trusted}

-----------------------------------------------------------------------------
(***************************************************************************)
(* delegate and ask: the asker's turn hands a task on.  Whether the asked   *)
(* agent is free is looked at first; then the files are copied and the      *)
(* record is saved, which awaits; then the coroutine is spawned.  The entry *)
(* of the record is made, as trusted or not, before it is saved.            *)
(***************************************************************************)
RequireFree(r, t) == KeyOf[t] \notin busyKeys[r]

HandsOn(t, trusted) ==
    /\ asker.turn > 0 /\ awaited = {}
    /\ runner[t].pc = "none"
    /\ RequireFree(asker.at, t)
    /\ runner' = [runner EXCEPT ![t] = [pc |-> "saving", at |-> asker.at, watch |-> asker.turn]]
    /\ record' = [record EXCEPT ![t].trusted = trusted]
    /\ UNCHANGED <<turn, busyKeys, ended, answer, asker, awaited, stops, replica, told>>

SaveDelegation(t) ==
    /\ runner[t].pc = "saving"
    /\ record' = [record EXCEPT ![t].status = "running", ![t].by = runner[t].at]
    /\ Goes(t, "spawned")
    /\ UNCHANGED <<turn, busyKeys, ended, answer, asker, awaited, stops, replica, told>>

(* _run, to the submission of the message. *)
RunBegins(t) ==
    /\ runner[t].pc = "spawned"
    /\ busyKeys' = [busyKeys EXCEPT ![runner[t].at] = @ \cup {KeyOf[t]}]
    /\ turn' = [turn EXCEPT ![t] = "queued"]
    /\ Goes(t, "waiting")
    /\ UNCHANGED <<record, ended, answer, asker, awaited, stops, replica, told>>

(* The asked agent's sink: what is queued for a conversation is taken as    *)
(* one batch when no turn runs there; a turn ends by itself.                *)
AtWork(k) == {t \in Handed : KeyOf[t] = k /\ turn[t] = "running"}

TurnStarts(k) ==
    /\ AtWork(k) = {}
    /\ \E t \in Handed : KeyOf[t] = k /\ turn[t] = "queued"
    /\ turn' = [t \in Handed |-> IF KeyOf[t] = k /\ turn[t] = "queued" THEN "running" ELSE turn[t]]
    /\ UNCHANGED <<record, runner, busyKeys, ended, answer, asker, awaited, stops, replica, told>>

TurnEnds(k, how) ==
    /\ AtWork(k) # {}
    /\ turn' = [t \in Handed |-> IF t \in AtWork(k) THEN how ELSE turn[t]]
    /\ UNCHANGED <<record, runner, busyKeys, ended, answer, asker, awaited, stops, replica, told>>

(* _watched looks every ASKER_WATCH_S whether the turn the task was asked   *)
(* from is still there; another turn of the same conversation is not it.    *)
AskerGone(t) == asker.turn # runner[t].watch

CallsOff(t) ==
    /\ t \in Trusted /\ runner[t].pc = "waiting" /\ turn[t] \notin Over
    /\ AskerGone(t)
    /\ EndDelegation(t, "cancelled", "asker_turn_ended")
    /\ stops' = stops \cup {t}
    /\ Goes(t, "called off")
    /\ UNCHANGED <<turn, busyKeys, ended, answer, asker, awaited, replica, told>>

(* _stop_turn: the turn running in the task's conversation is interrupted;  *)
(* one that has not started yet is not.                                     *)
StopTurn(t) ==
    /\ t \in stops
    /\ stops' = stops \ {t}
    /\ turn' = [u \in Handed |-> IF u \in AtWork(KeyOf[t]) THEN "stopped" ELSE turn[u]]
    /\ UNCHANGED <<record, runner, busyKeys, ended, answer, asker, awaited, replica, told>>

LeaveConversation(t) == busyKeys' = [busyKeys EXCEPT ![runner[t].at] = @ \ {KeyOf[t]}]

(* The outcome is in: _run leaves the conversation. *)
RunOver(t) ==
    /\ runner[t].pc \in {"waiting", "called off"} /\ turn[t] \in Over
    /\ LeaveConversation(t)
    /\ Goes(t, "ending")
    /\ UNCHANGED <<record, turn, ended, answer, asker, awaited, stops, replica, told>>

(* _STATUS_BY_OUTCOME, anything else being a failure. *)
StatusOf(how) == [replied |-> "answered", raised |-> "failed", stopped |-> "cancelled"][how]

SpawnAnswer(t, r) == answer' = [answer EXCEPT ![t] = [pc |-> "offering", at |-> r]]

(* The ending is written by whoever comes first; the waiting turn is woken, *)
(* and an answer goes back only from the one that wrote it.                 *)
RunEnds(t) ==
    /\ runner[t].pc = "ending"
    /\ EndDelegation(t, StatusOf(turn[t]), "turn")
    /\ ended' = ended \cup {t}
    /\ IF Writes(t) /\ t \notin Trusted THEN SpawnAnswer(t, runner[t].at) ELSE UNCHANGED answer
    /\ Goes(t, "done")
    /\ UNCHANGED <<turn, busyKeys, asker, awaited, stops, replica, told>>

(***************************************************************************)
(* _answer opens a turn of the asker's when its conversation is free; while *)
(* it is busy the answer is offered again, until a deadline.  Then the      *)
(* record says what became of it, unless the asker's turn raised.           *)
(***************************************************************************)
OpensAskerTurn(r) == asker' = [turn |-> asker.last + 1, last |-> asker.last + 1, at |-> r]

Answers(t) ==
    /\ answer[t].pc = "offering"
    /\ asker.turn = 0 /\ asker.last < MaxAskerTurns
    /\ OpensAskerTurn(answer[t].at)
    /\ told' = [told EXCEPT ![t] = @ + 1]
    /\ answer' = [answer EXCEPT ![t].pc = "handed"]
    /\ UNCHANGED <<record, runner, turn, busyKeys, ended, awaited, stops, replica>>

AnswerNoted(t, how) ==
    /\ <<answer[t].pc, how>> \in {<<"handed", "delivered">>, <<"handed", "none">>, <<"offering", "undelivered">>}
    /\ record' = [record EXCEPT ![t].answer = how]
    /\ answer' = [answer EXCEPT ![t].pc = "done"]
    /\ UNCHANGED <<runner, turn, busyKeys, ended, asker, awaited, stops, replica, told>>

-----------------------------------------------------------------------------
(* The asker: its turns begin on a replica and end; it awaits and cancels. *)

AskerBegins(r) ==
    /\ Up(r) /\ asker.turn = 0 /\ asker.last < MaxAskerTurns
    /\ OpensAskerTurn(r)
    /\ UNCHANGED <<record, runner, turn, busyKeys, ended, answer, awaited, stops, replica, told>>

AskerEnds ==
    /\ asker.turn > 0 /\ awaited = {}
    /\ asker' = [asker EXCEPT !.turn = 0]
    /\ UNCHANGED <<record, runner, turn, busyKeys, ended, answer, awaited, stops, replica, told>>

(* await_answers waits for the futures of the trusted tasks still running. *)
Awaits(S) ==
    /\ asker.turn > 0 /\ awaited = {}
    /\ \A t \in S : record[t].status = "running" /\ record[t].by = asker.at
    /\ awaited' = S
    /\ UNCHANGED <<record, runner, turn, busyKeys, ended, answer, asker, stops, replica, told>>

AwaitReturns ==
    /\ awaited # {} /\ awaited \subseteq ended
    /\ awaited' = {}
    /\ UNCHANGED <<record, runner, turn, busyKeys, ended, answer, asker, stops, replica, told>>

Cancel(t) ==
    /\ asker.turn > 0 /\ awaited = {} /\ Writes(t)
    /\ EndDelegation(t, "cancelled", "asker")
    /\ stops' = stops \cup {t}
    /\ UNCHANGED <<runner, turn, busyKeys, ended, answer, asker, awaited, replica, told>>

(* forget calls off everything running from the conversation; the reset of  *)
(* the asked agents' memory is the runtime's.                               *)
Forget ==
    /\ asker.turn = 0
    /\ LET running == {t \in Handed : Writes(t)} IN
       /\ running # {}
       /\ record' = [t \in Handed |-> IF t \in running
                       THEN [record[t] EXCEPT !.status = "cancelled", !.reason = "forgotten"] ELSE record[t]]
       /\ stops' = stops \cup running
    /\ UNCHANGED <<runner, turn, busyKeys, ended, answer, asker, awaited, replica, told>>

-----------------------------------------------------------------------------
(* Recovery: once at a start, when the gateways that take requests are up   *)
(* already, and among replicas again every LEASE_TTL_S.                     *)

Start(r) ==
    /\ replica[r].life = "unborn"
    /\ Registry \/ \A s \in Starts : ~Up(s)
    /\ replica' = [replica EXCEPT ![r].life = "up", ![r].lease = TRUE]
    /\ UNCHANGED <<record, runner, turn, busyKeys, ended, answer, asker, awaited, stops, told>>

RecoverReads(r) ==
    /\ Up(r) /\ replica[r].found = {}
    /\ ~replica[r].recovered \/ (Registry /\ \E t \in Handed : Writes(t))
    /\ replica' = [replica EXCEPT ![r].recovered = TRUE, ![r].found = {t \in Handed : Writes(t)}]
    /\ UNCHANGED <<record, runner, turn, busyKeys, ended, answer, asker, awaited, stops, told>>

(* _lost: one process, or a task under this replica's own id, or one whose  *)
(* replica holds no lease.                                                  *)
Lost(r, t) == ~Registry \/ record[t].by = r \/ ~replica[record[t].by].lease

RecoverEnds(r, t) ==
    /\ Up(r) /\ t \in replica[r].found
    /\ replica' = [replica EXCEPT ![r].found = @ \ {t}]
    /\ IF Lost(r, t) THEN EndDelegation(t, "failed", "engine_restarted") ELSE UNCHANGED record
    /\ IF Lost(r, t) /\ Writes(t) /\ t \notin Trusted THEN SpawnAnswer(t, r) ELSE UNCHANGED answer
    /\ UNCHANGED <<runner, turn, busyKeys, ended, asker, awaited, stops, told>>

(* A replica dies with its coroutines, its turns and its futures; its lease *)
(* lapses later.  The last start does not die: a bound.                     *)
Dies(r) ==
    /\ Up(r) /\ \E s \in Starts \ {r} : replica[s].life # "dead"
    /\ replica' = [replica EXCEPT ![r].life = "dead", ![r].found = {}]
    /\ runner' = [t \in Handed |-> IF runner[t].at = r THEN [runner[t] EXCEPT !.pc = "gone"] ELSE runner[t]]
    /\ answer' = [t \in Handed |-> IF answer[t].at = r THEN [answer[t] EXCEPT !.pc = "gone"] ELSE answer[t]]
    /\ turn' = [t \in Handed |-> IF runner[t].at = r THEN "none" ELSE turn[t]]
    /\ stops' = {t \in stops : runner[t].at # r}
    /\ asker' = IF asker.at = r THEN [asker EXCEPT !.turn = 0] ELSE asker
    /\ awaited' = IF asker.at = r THEN {} ELSE awaited
    /\ UNCHANGED <<record, busyKeys, ended, told>>

LeaseLapses(r) ==
    /\ replica[r].life = "dead" /\ replica[r].lease
    /\ replica' = [replica EXCEPT ![r].lease = FALSE]
    /\ UNCHANGED <<record, runner, turn, busyKeys, ended, answer, asker, awaited, stops, told>>

-----------------------------------------------------------------------------
Runs(t) ==
    \/ SaveDelegation(t) \/ RunBegins(t) \/ CallsOff(t) \/ StopTurn(t) \/ RunOver(t) \/ RunEnds(t)

Recovers(r) == RecoverReads(r) \/ \E t \in Handed : RecoverEnds(r, t)

Next ==
    \/ \E t \in Handed : HandsOn(t, TRUE) \/ HandsOn(t, FALSE) \/ Runs(t) \/ Answers(t) \/ Cancel(t)
    \/ \E t \in Handed, how \in {"delivered", "undelivered", "none"} : AnswerNoted(t, how)
    \/ \E k \in Keys : TurnStarts(k) \/ TurnEnds(k, "replied") \/ TurnEnds(k, "raised")
    \/ \E S \in (SUBSET Trusted) \ {{}} : Awaits(S)
    \/ AskerEnds \/ AwaitReturns \/ Forget
    \/ \E r \in Starts : Start(r) \/ AskerBegins(r) \/ Recovers(r) \/ Dies(r) \/ LeaseLapses(r)

Spec == Init /\ [][Next]_vars

(* The event loop runs what is ready, a replica looks for lost tasks again  *)
(* and again, a dead one's lease lapses, and somebody starts the engine.    *)
(* The asked agent's turn owes nothing.                                     *)
Fairness ==
    /\ \A t \in Handed : WF_vars(Runs(t))
    /\ \A r \in Starts : WF_vars(Start(r)) /\ WF_vars(LeaseLapses(r)) /\ WF_vars(Recovers(r))

-----------------------------------------------------------------------------
(* An ended task stays as it ended: of its own end, the asker's cancel, the *)
(* end of the asker's turn, a start over and the recoveries of several      *)
(* replicas, in any order and over a crash, one writes the ending.          *)
StaysEnded ==
    \A t \in Handed : record[t].status \notin {"none", "running"} =>
        record'[t].status = record[t].status /\ record'[t].reason = record[t].reason
EndingStands == [][StaysEnded]_vars

(* The asker is told of a task at most once, and never of one it called off *)
(* itself or that went with its turn.                                       *)
ToldOnceIfAtAll ==
    \A t \in Handed :
        /\ told[t] <= 1
        /\ told[t] = 1 => record[t].reason \in {"turn", "engine_restarted"}

(* What await_answers hands the asker's turn is how the tasks ended: none   *)
(* is still running when the wait is over.                                  *)
AnswersAreIn ==
    [][(awaited # {} /\ awaited' = {} /\ asker' = asker)
         => \A t \in awaited : record[t].status # "running"]_vars

(* A trusted task goes with the turn that asked, whatever its own turn does *)
(* and although the conversation goes on: as long as its replica lives.     *)
TrustedEndWithTheirTurn ==
    \A t \in Handed :
        (t \in Trusted /\ runner[t].pc = "waiting" /\ asker.turn # runner[t].watch)
            ~> (record[t].status # "running" \/ runner[t].pc = "gone")

(* A task whose replica is gone does not stay running in the store. *)
LostTasksEnd ==
    \A t \in Handed : (record[t].status = "running" /\ runner[t].pc = "gone") ~> (record[t].status # "running")

(* Recovery ends lost tasks only: "a task running on a replica that lives   *)
(* is left to it" (recover).                                                *)
LiveTasksAreLeft ==
    [][\A t \in Handed : (record[t].reason # "engine_restarted" /\ record'[t].reason = "engine_restarted")
          => runner[t].pc = "gone"]_vars

(* One task at a time in each conversation (_busy): no turn answers two. *)
OneTaskPerTurn == \A k \in Keys : Cardinality(AtWork(k)) <= 1
=============================================================================
