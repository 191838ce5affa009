---------------------------- MODULE LeasedGateway ----------------------------
(***************************************************************************)
(* A gateway that runs in one process of several (gateways/leased.py): the  *)
(* row of the leases table (store/sqlite/leases.py), the loop that waits    *)
(* for the lease and runs the gateway while it is held, the renewals, the   *)
(* stop and the crash.  Time is what is left of the lease and of each       *)
(* process's sleep.                                                         *)
(***************************************************************************)
EXTENDS Naturals, TLAPS

CONSTANTS
    Procs,
    Ttl, RenewEvery,    \* LEASE_TTL_S, LEASE_RENEW_S, in ticks
    OnTime,         \* TRUE: no process is held up for as long as a tick
    Nobody

VARIABLES
    lease,      \* the row: its owner, ticks until it has lapsed (0: it has)
    proc,       \* the loop of run(): where it stands, ticks it still sleeps
    renewal,    \* the renewal under way in a thread of each process: none, called, or what it came back with
    stopped     \* _stopped

lgVars == <<lease, proc, renewal, stopped>>

Connected(p) == proc[p].pc \in {"running", "closing"}

LeaseInit ==
    /\ lease = [owner |-> Nobody, left |-> 0]
    /\ proc = [p \in Procs |-> [pc |-> "asking", sleep |-> 0]]
    /\ renewal = [p \in Procs |-> "none"]
    /\ stopped = {}

Goes(p, step, ticks) == proc' = [proc EXCEPT ![p] = [pc |-> step, sleep |-> ticks]]

-----------------------------------------------------------------------------
(* Bug: a lapsed lease is not free. *)
CanHaveFree(p) == lease.owner = Nobody \/ lease.owner = p

(* acquire_lease: free, lapsed, or mine already. *)
CanHave(p) == lease.owner = Nobody \/ lease.owner = p \/ lease.left = 0

Take(p) == lease' = [owner |-> p, left |-> Ttl + 1]

(* release_lease deletes the row if it is p's. *)
Release(p) == lease' = IF lease.owner = p THEN [owner |-> Nobody, left |-> 0] ELSE lease

Acquire(p) ==
    /\ proc[p].pc = "asking" /\ proc[p].sleep = 0
    /\ IF p \in stopped THEN Goes(p, "over", 0) /\ UNCHANGED lease
       ELSE IF CanHave(p) THEN Take(p) /\ Goes(p, "running", RenewEvery)
       ELSE Goes(p, "asking", RenewEvery) /\ UNCHANGED lease
    /\ UNCHANGED <<renewal, stopped>>

(* _keep: a renewal is asked for after each sleep; the row is written in a  *)
(* thread, which nothing stops once it is called.                           *)
RenewCalls(p) ==
    /\ proc[p].pc = "running" /\ proc[p].sleep = 0 /\ renewal[p] = "none"
    /\ renewal' = [renewal EXCEPT ![p] = "called"]
    /\ UNCHANGED <<lease, proc, stopped>>

RenewLands(p) ==
    /\ renewal[p] = "called"
    /\ IF CanHave(p) THEN Take(p) ELSE UNCHANGED lease
    /\ renewal' = [renewal EXCEPT ![p] = IF proc[p].pc # "running" THEN "none"
                                        ELSE IF CanHave(p) THEN "kept" ELSE "lost"]
    /\ UNCHANGED <<proc, stopped>>

RenewReturns(p) ==
    /\ proc[p].pc = "running" /\ renewal[p] \in {"kept", "lost"}
    /\ Goes(p, IF renewal[p] = "kept" THEN "running" ELSE "closing", IF renewal[p] = "kept" THEN RenewEvery ELSE 0)
    /\ renewal' = [renewal EXCEPT ![p] = "none"]
    /\ UNCHANGED <<lease, stopped>>

(* The lease was lost: the connection is closed, and p queues up again. *)
Closes(p) ==
    /\ proc[p].pc = "closing"
    /\ Goes(p, "asking", 0)
    /\ UNCHANGED <<lease, renewal, stopped>>

(* The gateway's own run returned: the renewal is cancelled, and the lease  *)
(* is let go.                                                               *)
RunReturns(p) ==
    /\ proc[p].pc = "running"
    /\ Goes(p, "releasing", 0)
    /\ renewal' = [renewal EXCEPT ![p] = IF @ = "called" THEN @ ELSE "none"]
    /\ UNCHANGED <<lease, stopped>>

(* Bug: the lease is let go before the gateway is stopped. *)
StopReleasing(p) ==
    /\ proc[p].pc \in {"asking", "running", "closing"} /\ p \notin stopped
    /\ stopped' = stopped \cup {p}
    /\ Release(p)
    /\ renewal' = [renewal EXCEPT ![p] = IF @ = "called" THEN @ ELSE "none"]
    /\ UNCHANGED proc

(* Shutdown: run() is cancelled with its two tasks, then stop() closes the  *)
(* gateway, and after that lets the lease go if it was held.                *)
Stop(p) ==
    /\ proc[p].pc \in {"asking", "running", "closing"} /\ p \notin stopped
    /\ stopped' = stopped \cup {p}
    /\ Goes(p, IF proc[p].pc = "running" THEN "releasing" ELSE "over", 0)
    /\ renewal' = [renewal EXCEPT ![p] = IF @ = "called" THEN @ ELSE "none"]
    /\ UNCHANGED lease

Releases(p) ==
    /\ proc[p].pc = "releasing"
    /\ Release(p)
    /\ Goes(p, "over", 0)
    /\ UNCHANGED <<renewal, stopped>>

(* The process is gone, its threads with it. *)
Crash(p) ==
    /\ proc[p].pc \notin {"over", "dead"}
    /\ Goes(p, "dead", 0)
    /\ renewal' = [renewal EXCEPT ![p] = "none"]
    /\ UNCHANGED <<lease, stopped>>

(* A tick passes.  A process that is on time has nothing left to do by then *)
(* that it could have done before.                                          *)
Busy(p) ==
    \/ proc[p].pc \in {"closing", "releasing"}
    \/ proc[p].pc \in {"asking", "running"} /\ proc[p].sleep = 0
    \/ renewal[p] # "none"

Less(n) == IF n = 0 THEN 0 ELSE n - 1

Tick ==
    /\ OnTime => \A p \in Procs : ~Busy(p)
    /\ lease' = [lease EXCEPT !.left = Less(@)]
    /\ proc' = [p \in Procs |-> [proc[p] EXCEPT !.sleep = Less(@)]]
    /\ UNCHANGED <<renewal, stopped>>

-----------------------------------------------------------------------------
Works(p) == Acquire(p) \/ RenewCalls(p) \/ RenewLands(p) \/ RenewReturns(p) \/ Closes(p) \/ Releases(p)

LeaseNext ==
    \/ \E p \in Procs : Works(p) \/ RunReturns(p) \/ Stop(p) \/ Crash(p)
    \/ Tick

LeaseSpec == LeaseInit /\ [][LeaseNext]_lgVars

(* The loops and their threads run, and time passes. *)
LeaseFairness == (\A p \in Procs : WF_lgVars(Works(p))) /\ WF_lgVars(Tick)

-----------------------------------------------------------------------------
Abstract == INSTANCE SoleHolder WITH Holders <- Procs, having <- {p \in Procs : Connected(p)}

(* "a gateway that runs in exactly one process": with the processes on      *)
(* time, the connection is open in one at a time, and is taken over only    *)
(* once it is closed (gateways/leased.py run).                              *)
OneConnection == Abstract!Spec

(* A holder that ends, by its own end, a stop or a crash, is followed:      *)
(* while a process asks for the lease, somebody comes to run the gateway.   *)
HolderIsFollowed ==
    (\E p \in Procs : proc[p].pc = "asking" /\ p \notin stopped)
        ~> (\E p \in Procs : Connected(p)) \/ (\A p \in Procs : proc[p].pc \in {"over", "dead", "releasing"})

(* A process that was stopped holds no lease ("one still in flight when     *)
(* stop releases the lease would take it again").                           *)
StoppedHoldsNothing == \A p \in Procs : proc[p].pc = "over" => lease.owner # p
-----------------------------------------------------------------------------
(***************************************************************************)
(* The leased gateway implements SoleHolder, for any number of processes    *)
(* and any lease that outlives a renewal interval, with its processes on    *)
(* time: whoever runs the gateway has the row, and the row has not lapsed   *)
(* before its renewal is due.                                               *)
(***************************************************************************)

(* LEASE_RENEW_S is within LEASE_TTL_S (gateways/leased.py). *)
LeaseOutlivesRenewal == Ttl \in Nat /\ RenewEvery \in 0..Ttl /\ Nobody \notin Procs

Types ==
    /\ lease \in [owner : Procs \cup {Nobody}, left : Nat]
    /\ proc \in [Procs -> [pc : {"asking", "running", "releasing", "over", "dead"}, sleep : 0..RenewEvery]]
    /\ renewal \in [Procs -> {"none", "called", "kept"}]

(* Whoever runs the gateway has the row, and sleeps no longer than the row  *)
(* lasts; a renewal that came back leaves room for a whole sleep.           *)
Covered ==
    \A p \in Procs : proc[p].pc = "running" =>
        /\ lease.owner = p /\ lease.left > proc[p].sleep
        /\ renewal[p] = "kept" => lease.left > RenewEvery

HoldInv == Types /\ Covered

LEMMA HoldInit == LeaseOutlivesRenewal /\ LeaseInit => HoldInv
  BY DEF LeaseOutlivesRenewal, LeaseInit, HoldInv, Types, Covered

LEMMA HoldStep == LeaseOutlivesRenewal /\ OnTime /\ HoldInv /\ [LeaseNext]_lgVars => HoldInv'
  <1> SUFFICES ASSUME LeaseOutlivesRenewal, OnTime, HoldInv, [LeaseNext]_lgVars
               PROVE  HoldInv'
    OBVIOUS
  <1> USE DEF LeaseOutlivesRenewal, HoldInv, Types, Covered, Goes
  <1>1. ASSUME NEW p \in Procs, Acquire(p) PROVE HoldInv'
    BY <1>1 DEF Acquire, CanHave, Take
  <1>2. ASSUME NEW p \in Procs, RenewCalls(p) PROVE HoldInv'
    BY <1>2 DEF RenewCalls
  <1>3. ASSUME NEW p \in Procs, RenewLands(p) PROVE HoldInv'
    BY <1>3 DEF RenewLands, CanHave, Take
  <1>4. ASSUME NEW p \in Procs, RenewReturns(p) PROVE HoldInv'
    BY <1>4 DEF RenewReturns
  <1>5. ASSUME NEW p \in Procs, Closes(p) PROVE HoldInv'
    BY <1>5 DEF Closes
  <1>6. ASSUME NEW p \in Procs, RunReturns(p) PROVE HoldInv'
    BY <1>6 DEF RunReturns
  <1>7. ASSUME NEW p \in Procs, Stop(p) PROVE HoldInv'
    BY <1>7 DEF Stop
  <1>8. ASSUME NEW p \in Procs, Releases(p) PROVE HoldInv'
    BY <1>8 DEF Releases, Release
  <1>9. ASSUME NEW p \in Procs, Crash(p) PROVE HoldInv'
    BY <1>9 DEF Crash
  <1>10. ASSUME Tick PROVE HoldInv'
    <2> DEFINE left == Less(lease.left)
    <2> DEFINE sleep(p) == Less(proc[p].sleep)
    <2>1. left \in Nat /\ (lease.left > 0 => left = lease.left - 1)
      BY DEF Less
    <2>2. \A p \in Procs : sleep(p) \in 0..RenewEvery /\ (proc[p].sleep > 0 => sleep(p) = proc[p].sleep - 1)
      BY DEF Less
    <2>3. \A p \in Procs : proc[p].pc = "running" => proc[p].sleep > 0 /\ renewal[p] = "none"
      BY <1>10 DEF Tick, Busy
    <2>4. lease' = [owner |-> lease.owner, left |-> left] /\ UNCHANGED renewal
      BY <1>10 DEF Tick
    <2>5. proc' = [p \in Procs |-> [pc |-> proc[p].pc, sleep |-> sleep(p)]]
      BY <1>10 DEF Tick
    <2> HIDE DEF left, sleep
    <2> QED
      BY <2>1, <2>2, <2>3, <2>4, <2>5
  <1>11. CASE UNCHANGED lgVars
    BY <1>11 DEF lgVars
  <1> QED
    BY <1>1, <1>2, <1>3, <1>4, <1>5, <1>6, <1>7, <1>8, <1>9, <1>10, <1>11 DEF LeaseNext, Works

(* Every step of the gateway is a step of SoleHolder's or leaves who has    *)
(* the connection as it is.                                                 *)
LEMMA StepRefines ==
    LeaseOutlivesRenewal /\ OnTime /\ HoldInv /\ HoldInv' /\ [LeaseNext]_lgVars
        => [Abstract!Next]_{p \in Procs : Connected(p)}
  <1> SUFFICES ASSUME LeaseOutlivesRenewal, OnTime, HoldInv, HoldInv', [LeaseNext]_lgVars
               PROVE  [Abstract!Next]_{p \in Procs : Connected(p)}
    OBVIOUS
  <1> DEFINE having == {p \in Procs : Connected(p)}
  <1>0. \A p \in Procs : (Connected(p) <=> proc[p].pc = "running") /\ (Connected(p) <=> proc[p].pc = "running")'
    BY DEF HoldInv, Types, Connected
  <1>1. \A p, q \in having : p = q
    BY <1>0 DEF HoldInv, Covered
  <1>2. ASSUME NEW p \in Procs, proc[p].pc # "running", having = {},
               NEW r, r.pc = "running", proc' = [proc EXCEPT ![p] = r]
        PROVE  Abstract!Next
    <2>1. having' = {p}
      BY <1>0, <1>2 DEF HoldInv, Types
    <2> QED
      BY <1>2, <2>1 DEF Abstract!Next, Abstract!Take
  <1>3. ASSUME NEW p \in Procs, NEW r, r.pc # "running", proc' = [proc EXCEPT ![p] = r]
        PROVE  [Abstract!Next]_having
    <2>1. CASE proc[p].pc = "running"
      <3>1. having = {p} /\ having' = {}
        BY <1>0, <1>1, <1>3, <2>1 DEF HoldInv, Types
      <3> QED
        BY <3>1 DEF Abstract!Next, Abstract!LetGo
    <2>2. CASE proc[p].pc # "running"
      <3>1. having' = having
        BY <1>0, <1>3, <2>2 DEF HoldInv, Types
      <3> QED
        BY <3>1
    <2> QED
      BY <2>1, <2>2
  <1>4. ASSUME \A p \in Procs : proc'[p].pc = proc[p].pc
        PROVE  having' = having
    BY <1>0, <1>4
  <1>5. ASSUME NEW p \in Procs, Acquire(p)
        PROVE  [Abstract!Next]_having
    <2>1. CASE p \notin stopped /\ CanHave(p)
      <3>1. proc[p].pc # "running" /\ (lease.owner = Nobody \/ lease.owner = p \/ lease.left = 0)
        BY <1>5, <2>1 DEF Acquire, CanHave
      <3>2. \A q \in Procs : proc[q].pc = "running" => lease.owner = q /\ lease.left # 0 /\ q # Nobody
        BY DEF HoldInv, Types, Covered, LeaseOutlivesRenewal
      <3>3. having = {}
        BY <1>0, <3>1, <3>2
      <3> QED
        BY <1>2, <1>5, <2>1, <3>1, <3>3 DEF Acquire, Goes
    <2>2. CASE p \in stopped \/ ~CanHave(p)
      BY <1>3, <1>5, <2>2 DEF Acquire, Goes
    <2> QED
      BY <2>1, <2>2
  <1>6. ASSUME NEW p \in Procs, RenewCalls(p) \/ RenewLands(p)
        PROVE  having' = having
    BY <1>4, <1>6 DEF RenewCalls, RenewLands
  <1>7. ASSUME NEW p \in Procs, RenewReturns(p)
        PROVE  having' = having
    BY <1>4, <1>7 DEF RenewReturns, Goes, HoldInv, Types
  <1>8. ASSUME NEW p \in Procs, Closes(p) \/ Releases(p) \/ RunReturns(p) \/ Stop(p) \/ Crash(p)
        PROVE  [Abstract!Next]_having
    BY <1>3, <1>8 DEF Closes, Releases, RunReturns, Stop, Crash, Goes
  <1>9. ASSUME Tick \/ UNCHANGED lgVars
        PROVE  having' = having
    BY <1>4, <1>9 DEF Tick, lgVars, HoldInv, Types
  <1> QED
    BY <1>5, <1>6, <1>7, <1>8, <1>9 DEF LeaseNext, Works

(* "a gateway that runs in exactly one process" (gateways/leased.py): with  *)
(* its processes on time and a lease that outlives the interval between two *)
(* renewals, the gateway's connection is one process's at a time and is     *)
(* taken only when nobody has it, through renewals that land late, stops,   *)
(* crashes and lapses, for any number of processes.                         *)
THEOREM LeaseHasOneHolder == ASSUME LeaseOutlivesRenewal, OnTime PROVE LeaseSpec => OneConnection
  <1>1. LeaseInit => HoldInv /\ Abstract!Init
    BY HoldInit DEF LeaseInit, Abstract!Init, Connected
  <1>2. HoldInv /\ [LeaseNext]_lgVars => HoldInv'
    BY HoldStep
  <1>3. HoldInv /\ HoldInv' /\ [LeaseNext]_lgVars => [Abstract!Next]_{p \in Procs : Connected(p)}
    BY StepRefines
  <1> QED
    BY <1>1, <1>2, <1>3, PTL DEF LeaseSpec, OneConnection, Abstract!Spec
=============================================================================
