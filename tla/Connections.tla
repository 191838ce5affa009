------------------------------ MODULE Connections ------------------------------
(***************************************************************************)
(* One person's account at one OAuth provider (connections/service.py over  *)
(* store/sqlite/connections.py): connects, refreshes by tool calls in       *)
(* several replicas under a lease in the store, a disconnect, a forget      *)
(* after a 401, and a move to another owner.                                *)
(*                                                                         *)
(* The provider is what its answers tell: a grant per connect, and a new    *)
(* refresh token at every refresh that makes the old one useless.  A token  *)
(* is the pair of its grant and its generation.  Revocations are confirmed. *)
(* Each await is a step; a store call is one.                               *)
(***************************************************************************)
EXTENDS Naturals, FiniteSets

CONSTANTS
    Connects,       \* started connects; each names its link, its grant and its connect_id
    Refreshers,     \* grant() calls that meet a token about to end
    ReplicaOf,      \* the process each runs in
    Enders,         \* disconnect() and forget() calls
    Forgets,        \* those among them that are forget()
    MaxGen,         \* a bound: refreshes of one grant
    Moving,         \* whether the application moves the connection to another owner
    Nobody

VARIABLES
    link,           \* connection_links: the started connects nobody has come back from
    record,         \* connections: the row of the owner
    moved,          \* the row under the other owner
    provider,       \* per grant: not issued / live / ended, and its current generation
    connect,        \* per connect: how far finish is, and the row it found
    refresh,        \* per refresher: how far, the row it saw, what the provider gave it
    ender,          \* per disconnect or forget: how far, the row it saw, what it ends
    lost,           \* history: grants whose refresh was answered and the answer never came
    unseen          \* history: grants a connect replaced that it had not read, or not as they were

cVars == <<link, record, moved, provider, connect, refresh, ender, lost, unseen>>

NoRow == [cid |-> Nobody, version |-> 0, gen |-> 0, fresh |-> FALSE, lease |-> Nobody]
Credential(row) == <<row.cid, row.version>>

CInit ==
    /\ link = Connects
    /\ record = NoRow /\ moved = NoRow
    /\ provider = [g \in Connects |-> [st |-> "none", gen |-> 0]]
    /\ connect = [k \in Connects |-> [pc |-> "none", prev |-> NoRow]]
    /\ refresh = [r \in Refreshers |-> [pc |-> "none", seen |-> NoRow, gen |-> 0, tries |-> 0]]
    /\ ender = [x \in Enders |-> [pc |-> "none", seen |-> NoRow, ends |-> NoRow]]
    /\ lost = {} /\ unseen = {}

(* revoke at the provider: a token that is current ends its grant. *)
Revoked(g, gen) ==
    provider' = IF g # Nobody /\ provider[g].gen = gen THEN [provider EXCEPT ![g].st = "ended"] ELSE provider

-----------------------------------------------------------------------------
(* begin has put the link.  finish: *)

(* the link is taken in one step, whether it then works or not; *)
ComeBack(k) ==
    /\ k \in link
    /\ link' = link \ {k}
    /\ \E ok \in BOOLEAN : connect' = [connect EXCEPT ![k].pc = IF ok THEN "taken" ELSE "refused"]
    /\ UNCHANGED <<record, moved, provider, refresh, ender, lost, unseen>>

(* the code is exchanged for tokens, or the provider will not; *)
Exchange(k) ==
    /\ connect[k].pc = "taken"
    /\ \/ /\ connect' = [connect EXCEPT ![k].pc = "exchanged"]
          /\ provider' = [provider EXCEPT ![k].st = "live"]
       \/ connect' = [connect EXCEPT ![k].pc = "refused"] /\ UNCHANGED provider
    /\ UNCHANGED <<link, record, moved, refresh, ender, lost, unseen>>

(* the account is known and allowed; else the tokens are revoked; *)
Identify(k) ==
    /\ connect[k].pc = "exchanged"
    /\ \/ connect' = [connect EXCEPT ![k].pc = "identified"] /\ UNCHANGED provider
       \/ connect' = [connect EXCEPT ![k].pc = "refused"] /\ Revoked(k, 0)
    /\ UNCHANGED <<link, record, moved, refresh, ender, lost, unseen>>

(* the row that is there is read, the new one saved over whatever is there  *)
(* by then, and the grant that was read revoked.                            *)
ReadPrevious(k) ==
    /\ connect[k].pc = "identified"
    /\ connect' = [connect EXCEPT ![k] = [pc |-> "saving", prev |-> record]]
    /\ UNCHANGED <<link, record, moved, provider, refresh, ender, lost, unseen>>

Save(k) ==
    /\ connect[k].pc = "saving"
    /\ record' = [NoRow EXCEPT !.cid = k, !.fresh = TRUE]
    /\ connect' = [connect EXCEPT ![k].pc = "saved"]
    /\ unseen' = IF Credential(record) = Credential(connect[k].prev) THEN unseen ELSE unseen \cup {record.cid}
    /\ UNCHANGED <<link, moved, provider, refresh, ender, lost>>

RevokePrevious(k) ==
    /\ connect[k].pc = "saved"
    /\ Revoked(connect[k].prev.cid, connect[k].prev.gen)
    /\ connect' = [connect EXCEPT ![k] = [pc |-> "done", prev |-> NoRow]]
    /\ UNCHANGED <<link, record, moved, refresh, ender, lost, unseen>>

-----------------------------------------------------------------------------
(* grant, when the token is about to end: _refresh, _rotate. *)

Holds(r) == refresh[r].pc \in {"claiming", "waiting", "asking", "answered", "rejected", "late"}
Step(r, pc) == refresh' = [refresh EXCEPT ![r].pc = pc]

(* Under the process's lock the row is read; two rounds at most. *)
Load(r) ==
    /\ refresh[r].pc \in {"none", "again"}
    /\ \A s \in Refreshers : s # r /\ ReplicaOf[s] = ReplicaOf[r] => ~Holds(s)
    /\ IF record = NoRow THEN Step(r, "not_connected")
       ELSE IF record.fresh THEN Step(r, "done")
       ELSE IF refresh[r].tries = 2 THEN Step(r, "unavailable")
       ELSE refresh' = [refresh EXCEPT ![r] = [@ EXCEPT !.pc = "claiming", !.seen = record, !.tries = @ + 1]]
    /\ UNCHANGED <<link, record, moved, provider, connect, ender, lost, unseen>>

(* Bug: the claim does not look at the lease. *)
ClaimRefreshFree(r) == Credential(record) = Credential(refresh[r].seen)

(* claim_refresh: the row is still what was seen, and no lease runs. *)
ClaimRefresh(r) == Credential(record) = Credential(refresh[r].seen) /\ record.lease = Nobody

Claim(r) ==
    /\ refresh[r].pc = "claiming"
    /\ IF ClaimRefresh(r)
         THEN record' = [record EXCEPT !.lease = r] /\ Step(r, "asking")
         ELSE UNCHANGED record /\ Step(r, "waiting")
    /\ UNCHANGED <<link, moved, provider, connect, ender, lost, unseen>>

(* _wait_for_rotation: the row changed, or the time of a lease has passed. *)
WaitEnds(r) ==
    /\ refresh[r].pc = "waiting"
    /\ Credential(record) # Credential(refresh[r].seen) \/ record.lease = Nobody
    /\ Step(r, "again")
    /\ UNCHANGED <<link, record, moved, provider, connect, ender, lost, unseen>>

(* release_refresh after a failure: the next try may come in at once. *)
Released(r) == IF Credential(record) = Credential(refresh[r].seen) THEN [record EXCEPT !.lease = Nobody] ELSE record

(* oauth.refresh: a current token is rotated; the answer comes, or it is    *)
(* lost; any other token is refused; or the provider is not reached.        *)
Ask(r) ==
    LET seen == refresh[r].seen
        current == provider[seen.cid].st = "live" /\ provider[seen.cid].gen = seen.gen IN
    /\ refresh[r].pc = "asking"
    /\ \/ /\ current /\ seen.gen < MaxGen
          /\ provider' = [provider EXCEPT ![seen.cid].gen = @ + 1]
          /\ \/ /\ refresh' = [refresh EXCEPT ![r].pc = "answered", ![r].gen = seen.gen + 1]
                /\ UNCHANGED <<record, lost, unseen>>
             \/ /\ Step(r, "unavailable")
                /\ record' = Released(r) /\ lost' = lost \cup {seen.cid}
       \/ ~current /\ Step(r, "rejected") /\ UNCHANGED <<record, provider, lost, unseen>>
       \/ Step(r, "unavailable") /\ record' = Released(r) /\ UNCHANGED <<provider, lost, unseen>>
    /\ UNCHANGED <<link, moved, connect, ender, unseen>>

(* replace_connection: the new pair, if the row is still what was seen. *)
Replace(r) ==
    LET seen == refresh[r].seen IN
    /\ refresh[r].pc = "answered"
    /\ IF Credential(record) = Credential(seen)
         THEN /\ record' = [record EXCEPT !.version = @ + 1, !.gen = refresh[r].gen, !.fresh = TRUE, !.lease = Nobody]
              /\ Step(r, "done")
         ELSE UNCHANGED record /\ Step(r, "late")
    /\ UNCHANGED <<link, moved, provider, connect, ender, lost, unseen>>

(* It is not: a pair of a grant that is gone from the row is revoked. *)
Late(r) ==
    /\ refresh[r].pc = "late"
    /\ IF record.cid # refresh[r].seen.cid THEN Revoked(refresh[r].seen.cid, refresh[r].gen) ELSE UNCHANGED provider
    /\ Step(r, "done")
    /\ UNCHANGED <<link, record, moved, connect, ender, lost, unseen>>

(* Refused: somebody else rotated it, or the connection is over. *)
Rejected(r) ==
    /\ refresh[r].pc = "rejected"
    /\ record' = IF Credential(record) = Credential(refresh[r].seen) THEN NoRow ELSE record
    /\ Step(r, "done")
    /\ UNCHANGED <<link, moved, provider, connect, ender, lost, unseen>>

Expires ==
    /\ record # NoRow /\ record.fresh
    /\ record' = [record EXCEPT !.fresh = FALSE]
    /\ UNCHANGED <<link, moved, provider, connect, refresh, ender, lost, unseen>>

(* The lease (45 s) outlives the call it is for (15 s), not its holder.     *)
LeaseLapses ==
    /\ record.lease # Nobody /\ refresh[record.lease].pc \notin {"asking", "answered"}
    /\ record' = [record EXCEPT !.lease = Nobody]
    /\ UNCHANGED <<link, moved, provider, connect, refresh, ender, lost, unseen>>

-----------------------------------------------------------------------------
(* disconnect and forget: the row is read, deleted if it is still that      *)
(* credential (a forget: the one its tool was given), and its grant revoked.*)

(* The call a tool made with the grant it had was answered with 401. *)
Handed(x) ==
    /\ x \in Forgets /\ ender[x].pc = "none" /\ record # NoRow /\ record.fresh
    /\ ender' = [ender EXCEPT ![x] = [@ EXCEPT !.pc = "calling", !.ends = record]]
    /\ UNCHANGED <<link, record, moved, provider, connect, refresh, lost, unseen>>

ReadToEnd(x) ==
    /\ ender[x].pc = IF x \in Forgets THEN "calling" ELSE "none"
    /\ ender' = [ender EXCEPT ![x] = [pc |-> IF record = NoRow /\ x \notin Forgets THEN "done" ELSE "ending",
                                      seen |-> record, ends |-> IF x \in Forgets THEN @.ends ELSE record]]
    /\ UNCHANGED <<link, record, moved, provider, connect, refresh, lost, unseen>>

EndRow(x) ==
    LET hit == record # NoRow /\ Credential(record) = Credential(ender[x].ends) IN
    /\ ender[x].pc = "ending"
    /\ record' = IF hit THEN NoRow ELSE record
    /\ ender' = [ender EXCEPT ![x].pc = IF hit /\ Credential(ender[x].seen) = Credential(ender[x].ends) THEN "ended"
                                        ELSE IF x \in Forgets THEN "done" ELSE "none"]
    /\ UNCHANGED <<link, moved, provider, connect, refresh, lost, unseen>>

RevokeEnded(x) ==
    /\ ender[x].pc = "ended"
    /\ Revoked(ender[x].seen.cid, ender[x].seen.gen)
    /\ ender' = [ender EXCEPT ![x].pc = "done"]
    /\ UNCHANGED <<link, record, moved, connect, refresh, lost, unseen>>

(* move_connection: the row with all it holds goes to another owner. *)
Move ==
    /\ Moving /\ record # NoRow /\ moved = NoRow
    /\ moved' = record /\ record' = NoRow
    /\ UNCHANGED <<link, provider, connect, refresh, ender, lost, unseen>>

-----------------------------------------------------------------------------
CNext ==
    \/ \E k \in Connects : ComeBack(k) \/ Exchange(k) \/ Identify(k) \/ ReadPrevious(k) \/ Save(k) \/ RevokePrevious(k)
    \/ \E r \in Refreshers : \/ Load(r) \/ Claim(r) \/ WaitEnds(r) \/ Ask(r) \/ Replace(r) \/ Late(r) \/ Rejected(r)
    \/ Expires \/ LeaseLapses
    \/ \E x \in Enders : Handed(x) \/ ReadToEnd(x) \/ EndRow(x) \/ RevokeEnded(x)
    \/ Move

CSpec == CInit /\ [][CNext]_cVars

-----------------------------------------------------------------------------
CTypeOK ==
    /\ link \subseteq Connects /\ lost \subseteq Connects
    /\ record.cid \in Connects \cup {Nobody} /\ record.gen \in 0..MaxGen
    /\ record.lease \in Refreshers \cup {Nobody}

(* One refresh of a credential runs at a time, across replicas: the second  *)
(* would be refused by a provider that rotates, and end the connection.     *)
OneRefreshAtOnce ==
    \A r, s \in Refreshers : r # s /\ refresh[r].pc \in {"asking", "answered"} /\ refresh[s].pc \in {"asking", "answered"}
        => Credential(refresh[r].seen) # Credential(refresh[s].seen)

Renewing(row) == \E r \in Refreshers : refresh[r].pc = "answered" /\ Credential(refresh[r].seen) = Credential(row)

(* The stored token works: the row's grant lives and its refresh token is   *)
(* the current one, or the refresh that replaced it is about to store the   *)
(* next (but for an answer the provider gave and the engine never got).     *)
StoredTokenWorks ==
    record # NoRow /\ record.cid \notin lost =>
        provider[record.cid].st = "live" /\ (provider[record.cid].gen = record.gen \/ Renewing(record))

Settled == /\ \A k \in Connects : connect[k].pc \in {"none", "refused", "done"}
           /\ \A r \in Refreshers : ~Holds(r)
           /\ \A x \in Enders : ender[x].pc \in {"none", "done"}

(* Nothing is left behind at the provider: once everything has settled, the *)
(* only grant that lives there is the one in the row (but for one that a    *)
(* connect overwrote without having seen it).                               *)
NoStrayGrant ==
    Settled => \A g \in Connects \ (lost \cup unseen) : provider[g].st = "live" => g \in {record.cid, moved.cid}

(* ... which never happens ("the grant a reconnect replaces" is revoked).   *)
ReplacesWhatItRead == unseen \subseteq {Nobody}

(* A connect made after something began stands against it: a row changes    *)
(* its connect_id only by a connect, an end of that very credential or its  *)
(* refusal by the provider.                                                 *)
RowGoesByRight ==
    record # NoRow /\ record'.cid # record.cid /\ moved' = moved =>
      \/ record'.cid \in Connects /\ connect[record'.cid].pc = "saving"
      \/ \E x \in Enders : ender'[x].pc \in {"ended", "done"} /\ ender'[x] # ender[x] /\ Credential(ender[x].ends) = Credential(record)
      \/ provider[record.cid].st = "ended" \/ provider[record.cid].gen # record.gen
ConnectStands == [][RowGoesByRight]_cVars

(* A moved connection keeps working ("the one record, with its grant, its   *)
(* version and any refresh lease").                                         *)
MovedWorks ==
    moved # NoRow /\ moved.cid \notin lost =>
        provider[moved.cid].st = "live" /\ (provider[moved.cid].gen = moved.gen \/ Renewing(moved))
================================================================================
