------------------------------- MODULE WardVault -------------------------------
(***************************************************************************)
(* The broker's credential (ward/vault.py): setting the store up, unlocking *)
(* it, logging in, calls that survive their token's expiry, replacing the   *)
(* credential.  Every request to the vault is an await, and can fail after  *)
(* the vault has acted on it.  The vault itself is external: sealed or not, *)
(* the secret ids it accepts, whether a token it gave is still good.        *)
(***************************************************************************)
EXTENDS Naturals, FiniteSets, FiniteSetsExt

CONSTANTS
    Setups,         \* `ward init`, again where the first failed
    Kvs,            \* calls for a value: read, write, delete, names
    Unlocks,        \* POST /unlock, an operator's or the start's own
    GivenId,        \* the secret id each supplies, Newest for the one last handed out
    Rotations,
    MaxIds,         \* a bound: secret ids ever minted
    MaxExpiries,    \* a bound: expiries of a token
    Faults,         \* whether requests may fail
    Newest, NoId

VARIABLES
    vault,          \* external: initialized, sealed, the accepted ids, ids minted
    token,          \* _token: none, live or expired
    secretId,       \* _secret_id
    handed,         \* secret ids an operator was given
    keyKept,        \* whether the unseal key was handed out
    op,             \* per operation: how far it is and what it holds
    expiries,
    disturbed,      \* history: a wrong unlock, a seal, a rotation or a fault has happened
    crossed         \* history: a rotation ended while it destroyed, or listed what another had just minted

vVars == <<vault, token, secretId, handed, keyKept, op, expiries, disturbed, crossed>>

Ops == Setups \cup Kvs \cup Unlocks \cup Rotations
Ready == [pc |-> "none", id |-> NoId, ok |-> FALSE, back |-> "none"]

VInit ==
    /\ vault = [init |-> Setups = {}, sealed |-> TRUE, ids |-> IF Setups = {} THEN {1} ELSE {}, minted |-> IF Setups = {} THEN 1 ELSE 0]
    /\ token = "none" /\ secretId = NoId
    /\ handed = IF Setups = {} THEN {1} ELSE {}
    /\ keyKept = (Setups = {})
    /\ op = [t \in Ops |-> Ready]
    /\ expiries = 0 /\ disturbed = FALSE /\ crossed = FALSE

At(t, pc) == op[t].pc = pc
Moves(t, pc) == op' = [op EXCEPT ![t].pc = pc]
Step(t, r) == op' = [op EXCEPT ![t] = r]

-----------------------------------------------------------------------------
(* _login: the id is read when the request goes out, the token is set or    *)
(* cleared when the answer is in.  back is where the caller goes on.        *)
SendLogin(t) ==
    /\ At(t, "login")
    /\ IF secretId = NoId THEN Step(t, [op[t] EXCEPT !.pc = "failed"])
       ELSE Step(t, [op[t] EXCEPT !.pc = "logging in", !.ok = secretId \in vault.ids /\ ~vault.sealed])
    /\ UNCHANGED <<vault, token, secretId, handed, keyKept, expiries, disturbed, crossed>>

LoggedIn(t) ==
    /\ At(t, "logging in")
    /\ token' = IF op[t].ok THEN "live" ELSE "none"
    /\ Moves(t, IF op[t].ok THEN op[t].back ELSE "failed")
    /\ UNCHANGED <<vault, secretId, handed, keyKept, expiries, disturbed, crossed>>

(* _kv: nothing without a token; forbidden once logs in and tries again;    *)
(* a sealed store, or a second refusal, is the answer.                      *)
Kv(t, again, then, refused) ==
    IF token = "none" THEN [op[t] EXCEPT !.pc = "failed"]
    ELSE IF vault.sealed THEN refused
    ELSE IF token = "live" THEN then
    ELSE IF op[t].pc = again THEN refused
    ELSE [op[t] EXCEPT !.pc = "login", !.back = again]

Failed(t) == [op[t] EXCEPT !.pc = "failed"]

CallsVault(t) ==
    /\ t \in Kvs /\ op[t].pc \in {"none", "retry"}
    /\ Step(t, Kv(t, "retry", [op[t] EXCEPT !.pc = "done"], Failed(t)))
    /\ UNCHANGED <<vault, token, secretId, handed, keyKept, expiries, disturbed, crossed>>

-----------------------------------------------------------------------------
(* unlock: unseal if the store is sealed, then log in with what was given.  *)
Given(t) == IF GivenId[t] = Newest THEN Max(handed) ELSE GivenId[t]

Unlock(t) ==
    /\ t \in Unlocks /\ At(t, "none") /\ vault.init /\ handed # {}
    /\ vault' = [vault EXCEPT !.sealed = FALSE]
    /\ secretId' = Given(t)
    /\ Step(t, [op[t] EXCEPT !.pc = "login", !.back = "done"])
    /\ disturbed' = (disturbed \/ Given(t) \notin vault.ids)
    /\ UNCHANGED <<token, handed, keyKept, expiries, crossed>>

-----------------------------------------------------------------------------
(* rotate: a new id is minted, every other one destroyed, then kept and     *)
(* handed out.                                                              *)
Mint(t) ==
    /\ t \in Rotations /\ op[t].pc \in {"none", "mint", "mint again"} /\ vault.minted < MaxIds
    /\ disturbed' = TRUE
    /\ IF At(t, "none") /\ token = "none"
         THEN Step(t, [op[t] EXCEPT !.pc = "login", !.back = "mint"]) /\ UNCHANGED vault
         ELSE LET r == Kv(t, "mint again", [op[t] EXCEPT !.pc = "list", !.id = vault.minted + 1], Failed(t)) IN
              /\ Step(t, r)
              /\ vault' = IF r.pc = "list" THEN [vault EXCEPT !.ids = @ \cup {r.id}, !.minted = r.id] ELSE vault
    /\ UNCHANGED <<token, secretId, handed, keyKept, expiries, crossed>>

(* The ids of other rotations under way. *)
Others(t) == {op[u].id : u \in {u \in Rotations \ {t} : op[u].pc \notin {"none", "done", "failed"}}}

(* The accessors are listed now, none where the listing is refused; back is *)
(* those listed and not yet destroyed.                                      *)
ListIds(t) ==
    LET r == Kv(t, "list again", [op[t] EXCEPT !.pc = "destroy", !.back = vault.ids],
                                 [op[t] EXCEPT !.pc = "destroy", !.back = {}]) IN
    /\ t \in Rotations /\ op[t].pc \in {"list", "list again"}
    /\ Step(t, r)
    /\ crossed' = IF r.pc = "destroy" /\ Others(t) \cap r.back # {} THEN TRUE ELSE crossed
    /\ UNCHANGED <<vault, token, secretId, handed, keyKept, expiries, disturbed>>

(* Bug: the new id is destroyed with the rest. *)
DestroyAll(t) ==
    LET left == op[t].back IN
    /\ At(t, "destroy") /\ left # {}
    /\ vault' = IF token = "live" /\ ~vault.sealed THEN [vault EXCEPT !.ids = @ \ {Min(left)}] ELSE vault
    /\ op' = [op EXCEPT ![t].back = left \ {Min(left)}]
    /\ UNCHANGED <<token, secretId, handed, keyKept, expiries, disturbed, crossed>>

(* One by one; whether the vault agreed is not looked at. *)
Destroy(t) ==
    LET left == op[t].back \ {op[t].id} IN
    /\ At(t, "destroy") /\ left # {}
    /\ vault' = IF token = "live" /\ ~vault.sealed THEN [vault EXCEPT !.ids = @ \ {Min(left)}] ELSE vault
    /\ op' = [op EXCEPT ![t].back = left \ {Min(left)}]
    /\ UNCHANGED <<token, secretId, handed, keyKept, expiries, disturbed, crossed>>

KeepNew(t) ==
    /\ At(t, "destroy") /\ op[t].back \subseteq {op[t].id}
    /\ secretId' = op[t].id /\ handed' = handed \cup {op[t].id}
    /\ Step(t, [op[t] EXCEPT !.pc = "done", !.back = "none"])
    /\ UNCHANGED <<vault, token, keyKept, expiries, disturbed, crossed>>

-----------------------------------------------------------------------------
(* bootstrap: a fresh store is initialised, unsealed, provisioned as root,  *)
(* logged in to and the root token destroyed; only then is anything handed  *)
(* out.                                                                     *)
InitStore(t) ==
    /\ t \in Setups /\ At(t, "none")
    /\ IF vault.init THEN Moves(t, "failed") /\ UNCHANGED vault
       ELSE /\ Moves(t, "provision")
            /\ vault' = [vault EXCEPT !.init = TRUE, !.sealed = FALSE]
    /\ UNCHANGED <<token, secretId, handed, keyKept, expiries, disturbed, crossed>>

Provision(t) ==
    /\ At(t, "provision") /\ vault.minted < MaxIds
    /\ vault' = [vault EXCEPT !.ids = @ \cup {vault.minted + 1}, !.minted = @ + 1]
    /\ secretId' = vault.minted + 1
    /\ Step(t, [op[t] EXCEPT !.pc = "login", !.back = "hand out", !.id = vault.minted + 1])
    /\ UNCHANGED <<token, handed, keyKept, expiries, disturbed, crossed>>

HandOut(t) ==
    /\ At(t, "hand out")
    /\ handed' = handed \cup {op[t].id} /\ keyKept' = TRUE
    /\ Moves(t, "done")
    /\ UNCHANGED <<vault, token, secretId, expiries, disturbed, crossed>>

-----------------------------------------------------------------------------
(* A request to the vault is lost or times out: the operation raises. *)
Fails(t) ==
    /\ Faults /\ op[t].pc \notin {"none", "done", "failed", "logging in"}
    /\ Moves(t, "failed") /\ disturbed' = TRUE
    /\ crossed' = (crossed \/ At(t, "destroy"))
    /\ UNCHANGED <<vault, token, secretId, handed, keyKept, expiries>>

Expires ==
    /\ token = "live" /\ expiries < MaxExpiries
    /\ token' = "expired" /\ expiries' = expiries + 1
    /\ UNCHANGED <<vault, secretId, handed, keyKept, op, disturbed, crossed>>

(* The store restarts: sealed, its tokens kept. *)
Seals ==
    /\ Faults /\ vault.init /\ ~vault.sealed
    /\ vault' = [vault EXCEPT !.sealed = TRUE] /\ disturbed' = TRUE
    /\ UNCHANGED <<token, secretId, handed, keyKept, op, expiries, crossed>>

VNext ==
    \/ \E t \in Ops : \/ SendLogin(t) \/ LoggedIn(t) \/ CallsVault(t) \/ Unlock(t)
                      \/ Mint(t) \/ ListIds(t) \/ Destroy(t) \/ KeepNew(t)
                      \/ InitStore(t) \/ Provision(t) \/ HandOut(t) \/ Fails(t)
    \/ Expires \/ Seals

VSpec == VInit /\ [][VNext]_vVars

-----------------------------------------------------------------------------
VTypeOK ==
    /\ token \in {"none", "live", "expired"} /\ secretId \in 0..MaxIds \cup {NoId}
    /\ vault.ids \subseteq 1..MaxIds /\ handed \subseteq 1..MaxIds

SomeoneHolds ==
    handed # {} =>
        \E i \in vault.ids : i \in handed \/ i = secretId \/ \E t \in Rotations : op[t].id = i /\ op[t].pc # "failed"

(* Somebody can still log in: of the ids the vault accepts, one is with an  *)
(* operator, is the broker's own or is held by a rotation under way, which  *)
(* hands it out at its end.  Without it the store is closed for good: the   *)
(* root token is destroyed.  It takes a rotation that fails among its       *)
(* destructions, or one that lists the id another has just minted, to lose  *)
(* the last: requests that fail before, a store that seals, tokens that     *)
(* expire and rotations in a row do not.                                    *)
SomebodyCanLogIn == ~crossed => SomeoneHolds

Unnoticed == \A t \in Kvs : ~disturbed /\ token # "none" /\ op[t].pc # "failed" => op'[t].pc # "failed"

(* The expiry of a token is not noticed by whoever asks for a value: with   *)
(* nothing else wrong, a call of an unlocked broker does not fail (_kv:     *)
(* "survives its own token expiring"), several at a time included.          *)
ExpiryIsInvisible == [][Unnoticed]_vVars

-----------------------------------------------------------------------------
(* What the code does not keep *)

(* "Idempotent: unlocking an already-usable backend is a no-op"             *)
(* (SecretBackend.unlock).                                                  *)
UnlockIsANoOp ==
    [][~vault.sealed /\ token = "live" => token' # "none"]_vVars

(* "keeps serving on the token it already has, so this does not interrupt   *)
(* anything" (rotate_credential): the broker of a running rotation stays    *)
(* logged in.                                                               *)
RotationInterruptsNothing ==
    [][(\A t \in Unlocks : op[t].pc \in {"none", "done"}) /\ token # "none" => token' # "none"]_vVars

(* "mints a new one, destroys the old" (docs/secrets.md): somebody can log  *)
(* in whatever becomes of a rotation and however many there are.            *)
RotationLeavesALogin == SomeoneHolds

(* "re-running setup is allowed" (_provision): a setup that failed left     *)
(* the store as it was, or handed its key out.                              *)
SetupCanBeRerun == (\A t \in Setups : op[t].pc \in {"none", "failed"}) /\ vault.init => keyKept
================================================================================
