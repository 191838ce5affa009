-------------------------------- MODULE Notices --------------------------------
(***************************************************************************)
(* How a person hears of a scheduled run (_deliver_notices in                *)
(* crucible/scheduler/service.py).  Every finished run's row starts with     *)
(* notified = 0.  A delivery pass reads the oldest unnotified rows, posts a   *)
(* notice for each that deserves one and marks it; a notice that could not   *)
(* be posted stays unmarked for a later pass.  The ticker makes a pass every  *)
(* tick and every run makes one of its own when it ends, so passes overlap.   *)
(***************************************************************************)
EXTENDS Naturals, Sequences

CONSTANTS
    Runs,       \* runs that will finish, in any order
    Silent,     \* runs _notice_for has nothing to say about
    Deaf,       \* runs whose conversation refuses every post
    Limit,      \* unnotified_runs(limit): 20
    MaxCrashes, \* engine deaths in an instance (a bound)
    Ticker      \* the ticker's own passes

ASSUME RunAssumption == Silent \subseteq Runs /\ Deaf \subseteq Runs /\ Silent \cap Deaf = {}
ASSUME TickerAssumption == Ticker \notin Runs
ASSUME LimitAssumption == Limit \in Nat \ {0} /\ MaxCrashes \in Nat

VARIABLES
    finished,   \* the ended runs, in the order of finished_at
    notified,   \* the runs marked notified
    said,       \* how often each run's notice was posted
    pass,       \* the rows each delivery pass has left to do
    posted,     \* the passes that have posted their head's notice and not marked it
    waiting,    \* runs that ended and have not begun their own pass
    crashes

vars == <<finished, notified, said, pass, posted, waiting, crashes>>

Passes == Runs \cup {Ticker}
Ended == {finished[i] : i \in 1..Len(finished)}

Init ==
    /\ finished = <<>>
    /\ notified = {}
    /\ said = [r \in Runs |-> 0]
    /\ pass = [p \in Passes |-> <<>>]
    /\ posted = {}
    /\ waiting = {}
    /\ crashes = 0

(* complete_run (the run's worker goes on to a pass of its own) or          *)
(* record_skip (the ticker's pass at the end of its tick).                  *)
RunEnds(r, worker) ==
    /\ r \notin Ended
    /\ finished' = Append(finished, r)
    /\ waiting' = IF worker THEN waiting \cup {r} ELSE waiting
    /\ UNCHANGED <<notified, said, pass, posted, crashes>>

(* unnotified_runs: the oldest rows not yet marked. *)
Owed == SelectSeq(finished, LAMBDA r : r \notin notified)

Oldest == IF Len(Owed) <= Limit THEN Owed ELSE SubSeq(Owed, 1, Limit)

PassReads(p) ==
    /\ pass[p] = <<>>
    /\ p # Ticker => p \in waiting
    /\ Owed # <<>>
    /\ pass' = [pass EXCEPT ![p] = Oldest]
    /\ waiting' = waiting \ {p}
    /\ UNCHANGED <<finished, notified, said, posted, crashes>>

NextRow(p) == pass' = [pass EXCEPT ![p] = Tail(@)]

(* announce: the notice of the pass's head reaches the conversation. *)
Announces(p) ==
    /\ pass[p] # <<>> /\ p \notin posted
    /\ Head(pass[p]) \notin Silent \cup Deaf
    /\ said' = [said EXCEPT ![Head(pass[p])] = @ + 1]
    /\ posted' = posted \cup {p}
    /\ UNCHANGED <<finished, notified, pass, waiting, crashes>>

(* Bug: a notice that could not be posted is marked like the others. *)
AnnounceFailsAndMarks(p) ==
    /\ pass[p] # <<>> /\ p \notin posted
    /\ Head(pass[p]) \notin Silent
    /\ notified' = notified \cup {Head(pass[p])}
    /\ NextRow(p)
    /\ UNCHANGED <<finished, said, posted, waiting, crashes>>

(* The post fails, and the row waits for a later pass. *)
AnnounceFails(p) ==
    /\ pass[p] # <<>> /\ p \notin posted
    /\ Head(pass[p]) \notin Silent
    /\ NextRow(p)
    /\ UNCHANGED <<finished, notified, said, posted, waiting, crashes>>

(* mark_notified, after the post or when there was nothing to say. *)
Marks(p) ==
    /\ pass[p] # <<>>
    /\ p \in posted \/ Head(pass[p]) \in Silent
    /\ notified' = notified \cup {Head(pass[p])}
    /\ posted' = posted \ {p}
    /\ NextRow(p)
    /\ UNCHANGED <<finished, said, waiting, crashes>>

(* The engine dies and starts again: its passes are lost, the rows are not. *)
Crash ==
    /\ crashes < MaxCrashes
    /\ crashes' = crashes + 1
    /\ pass' = [p \in Passes |-> <<>>]
    /\ posted' = {}
    /\ waiting' = {}
    /\ UNCHANGED <<finished, notified, said>>

Next ==
    \/ \E r \in Runs, worker \in BOOLEAN : RunEnds(r, worker)
    \/ \E p \in Passes : PassReads(p) \/ Announces(p) \/ AnnounceFails(p) \/ Marks(p)
    \/ Crash

(***************************************************************************)
(* Fairness: the ticker keeps passing over the ledger, and a conversation   *)
(* that is not deaf takes a post when it is asked often enough.             *)
(***************************************************************************)
Fairness ==
    /\ \A p \in Passes : WF_vars(PassReads(p) \/ AnnounceFails(p) \/ Marks(p))
    /\ \A r \in Runs \ (Silent \cup Deaf) :
         SF_vars(pass[Ticker] # <<>> /\ Head(pass[Ticker]) = r /\ Announces(Ticker))

Spec == Init /\ [][Next]_vars
FairSpec == Spec /\ Fairness

-----------------------------------------------------------------------------
(* The rows a pass holds and marks are of finished runs. *)
TypeOK ==
    /\ finished \in Seq(Runs)
    /\ notified \subseteq Ended
    /\ said \in [Runs -> Nat]
    /\ \A p \in Passes : pass[p] \in Seq(Ended) /\ Len(pass[p]) <= Limit
    /\ posted \subseteq {p \in Passes : pass[p] # <<>>}
    /\ waiting \subseteq Ended
    /\ crashes \in 0..MaxCrashes

(* A run is marked only once its notice was posted, if it deserves one:     *)
(* with two passes on one row, failures in one of them, and crashes.        *)
MarkedWasSaid == \A r \in notified : r \in Silent \/ said[r] > 0

(* "A failure always reaches a human": a run that ended and deserves a      *)
(* notice is told, if its conversation takes posts.                         *)
EveryFailureIsTold ==
    \A r \in Runs \ (Silent \cup Deaf) : r \in Ended ~> said[r] > 0

(* "A failure is never silent, and never said twice." *)
NeverSaidTwice == \A r \in Runs : said[r] <= 1
=============================================================================
