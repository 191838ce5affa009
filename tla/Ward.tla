--------------------------------- MODULE Ward ---------------------------------
(***************************************************************************)
(* The secret broker (ward): a lease of several secrets decided from        *)
(* policies, open windows and a person's answer; the operator's edits,      *)
(* deletions and chat forms beside it; a restart.                           *)
(*                                                                         *)
(* A lease is a request handler: what it does between two awaits is one     *)
(* action, and every store or backend call is an await.  The vault is its   *)
(* outcome here (module WardVault has its credential); wording, reasons and *)
(* certificates are left out.                                               *)
(***************************************************************************)
EXTENDS Naturals, Sequences, FiniteSets, SequencesExt, FiniteSetsExt

CONSTANTS
    Secrets,
    Leases,         \* requests for secrets
    NamesOf,        \* the secrets each names, in order
    AgentOf,
    CommandOf,      \* the argv each declares
    Edits,          \* policies an operator writes,
    EditOf,         \* each: the secret and its fields, Keep where one is left empty
    Chat,           \* those that come from a form in chat
    Deletes,        \* DELETE /secrets/{name}: the secret each removes
    NameOfDelete,
    FirstPolicy,    \* the policies to begin with
    Ladder,         \* windows a card can offer
    MaxGrantS,      \* the deployment's ceiling
    MaxNow,         \* a bound: the clock
    MaxRestarts,    \* a bound: restarts of the broker
    Rest,           \* "*", the rest of a command
    Keep, NoPolicy, NoGrant

VARIABLES
    policy,         \* secret_policies
    stored,         \* the secrets the backend holds
    grants,         \* approval_grants
    ledger,         \* approval_audit
    cards,          \* PendingApprovals: leases with a card up
    lease,          \* per lease: how far it is and what it holds
    edit,           \* per edit, likewise
    deletion,       \* per deletion: how far it is
    overtaken,      \* the leases under way when a secret's policy was deleted
    notices,        \* SecretBroker._notices: the posts repeats are folded into
    posts,          \* per key: the posts made, each with the grants it says it stands for
    now, restarts

wardVars == <<policy, stored, grants, ledger, cards, lease, edit, deletion, overtaken, notices, posts, now, restarts>>
operator == <<edit, deletion, overtaken>>

Names(l) == ToSet(NamesOf[l])
KeyOf(l) == <<AgentOf[l], NamesOf[l]>>
Keys == {KeyOf(l) : l \in Leases}
NoNotice == [post |-> 0, repeats |-> 0]
NewPolicy == [subjects |-> {}, approval |-> "always", max |-> 0, rules |-> {}]

Idle == [pc |-> "none", at |-> 1, read |-> <<>>, covered |-> <<>>, answer |-> 0,
         got |-> {}, governing |-> "", seen |-> NoNotice, told |-> FALSE]

WardInit ==
    /\ policy = FirstPolicy /\ stored = Secrets /\ grants = {} /\ ledger = {} /\ cards = {}
    /\ lease = [l \in Leases |-> Idle]
    /\ edit = [e \in Edits |-> [pc |-> IF e \in Chat THEN "none" ELSE "sent", read |-> NoPolicy, wrote |-> NoPolicy]]
    /\ deletion = [d \in Deletes |-> "none"]
    /\ overtaken = [s \in Secrets |-> {}]
    /\ notices = [k \in Keys |-> NoNotice] /\ posts = [k \in Keys |-> <<>>]
    /\ now = 0 /\ restarts = 0

-----------------------------------------------------------------------------
(* policy.py and autorules.py: decided from the record alone. *)

(* matches: a trailing "*" takes the rest, nothing included. *)
Matches(rule, command) ==
    IF Last(rule) = Rest THEN IsPrefix(Front(rule), command) ELSE command = rule

Verdict(p, l) ==
    CASE p = NoPolicy -> "no_policy"
      [] p # NoPolicy /\ AgentOf[l] \notin p.subjects -> "not_permitted"
      [] p # NoPolicy /\ AgentOf[l] \in p.subjects /\ p.approval = "never" -> "auto"
      [] OTHER -> IF \E rule \in p.rules : Matches(rule, CommandOf[l]) THEN "auto_command" ELSE "ask"

Refusals == {"no_policy", "not_permitted"}
Ceiling(p) == IF p.max < MaxGrantS THEN p.max ELSE MaxGrantS

V(l, s) == Verdict(lease[l].read[s], l)
Asking(l) == SelectSeq(NamesOf[l], LAMBDA s : V(l, s) = "ask")
Uncovered(l) == {s \in ToSet(Asking(l)) : lease[l].covered[s] = NoGrant}
Longest(l) == Min({Ceiling(lease[l].read[s]) : s \in Uncovered(l)})

(* live_grant: the window that stays open longest. *)
LiveGrant(agent, s) ==
    LET live == {g \in grants : g.agent = agent /\ g.name = s /\ ~g.revoked /\ g.until > now} IN
    IF live = {} THEN NoGrant ELSE CHOOSE g \in live : \A h \in live : h.until <= g.until

-----------------------------------------------------------------------------
(* A lease *)

Goes(l, pc) == [lease[l] EXCEPT !.pc = pc, !.at = 1]
To(l, r) == lease' = [lease EXCEPT ![l] = r]
Refusing(l, why) == [Goes(l, "refusing") EXCEPT !.governing = why]
(* The loop over the names of a list: the next one, or on to pc. *)
Loop(l, r, list, onward) == IF lease[l].at < Len(list) THEN [r EXCEPT !.at = lease[l].at + 1] ELSE onward
Current(l, list) == list[lease[l].at]

Begin(l) ==
    /\ lease[l].pc = "none"
    /\ To(l, Goes(l, "policies"))
    /\ UNCHANGED <<policy, stored, grants, ledger, cards, operator, notices, posts, now, restarts>>

(* get_policy per name; after the last, the verdicts: one refusal refuses   *)
(* the whole request.                                                       *)
ReadPolicy(l) ==
    LET s == Current(l, NamesOf[l])
        r == [lease[l] EXCEPT !.read = [n \in DOMAIN @ \cup {s} |-> IF n = s THEN policy[s] ELSE @[n]]]
        refused == {n \in Names(l) : n \in DOMAIN r.read /\ Verdict(r.read[n], l) \in Refusals}
        onward == IF refused = {} THEN [r EXCEPT !.pc = "status", !.at = 1]
                  ELSE LET first == SelectSeq(NamesOf[l], LAMBDA n : n \in refused)[1] IN
                       [r EXCEPT !.pc = "refusing", !.at = 1, !.governing = Verdict(r.read[first], l)] IN
    /\ lease[l].pc = "policies"
    /\ To(l, Loop(l, r, NamesOf[l], onward))
    /\ UNCHANGED <<policy, stored, grants, ledger, cards, operator, notices, posts, now, restarts>>

(* backend.status: unreachable, sealed or locked refuses. *)
Status(l) ==
    /\ lease[l].pc = "status"
    /\ \/ To(l, Refusing(l, "locked"))
       \/ To(l, Goes(l, IF Asking(l) = <<>> THEN "reading" ELSE "windows"))
    /\ UNCHANGED <<policy, stored, grants, ledger, cards, operator, notices, posts, now, restarts>>

LookForWindow(l) ==
    LET s == Current(l, Asking(l))
        g == LiveGrant(AgentOf[l], s)
        r == [lease[l] EXCEPT !.covered = [n \in DOMAIN @ \cup {s} |-> IF n = s THEN g ELSE @[n]]]
        all == \A n \in ToSet(Asking(l)) : n \in DOMAIN r.covered /\ r.covered[n] # NoGrant IN
    /\ lease[l].pc = "windows"
    /\ To(l, Loop(l, r, Asking(l), [r EXCEPT !.pc = IF all THEN "reading" ELSE "asking", !.at = 1]))
    /\ UNCHANGED <<policy, stored, grants, ledger, cards, operator, notices, posts, now, restarts>>

(* _ask: nobody to ask, or the card could not be posted; or it is up. *)
Ask(l) ==
    /\ lease[l].pc = "asking"
    /\ \/ To(l, Refusing(l, "no_approver")) /\ UNCHANGED cards
       \/ To(l, Goes(l, "waiting")) /\ cards' = cards \cup {l}
    /\ UNCHANGED <<policy, stored, grants, ledger, operator, notices, posts, now, restarts>>

(* A person's answer: no, this once (0), or for a while. *)
Answer(l) ==
    /\ l \in cards
    /\ cards' = cards \ {l}
    /\ \/ To(l, Refusing(l, "denied"))
       \/ To(l, [Goes(l, "reading") EXCEPT !.answer = 0])
       \/ \E s \in {x \in Ladder : x <= Longest(l)} : To(l, [Goes(l, "opening") EXCEPT !.answer = s])
    /\ UNCHANGED <<policy, stored, grants, ledger, operator, notices, posts, now, restarts>>

AskTimesOut(l) ==
    /\ l \in cards
    /\ cards' = cards \ {l} /\ To(l, Refusing(l, "timeout"))
    /\ UNCHANGED <<policy, stored, grants, ledger, operator, notices, posts, now, restarts>>

OpenWindow(l) ==
    LET list == SelectSeq(NamesOf[l], LAMBDA n : n \in Uncovered(l))
        s == Current(l, list)
        c == Ceiling(lease[l].read[s])
        for == IF lease[l].answer < c THEN lease[l].answer ELSE c IN
    /\ lease[l].pc = "opening"
    /\ grants' = grants \cup {[by |-> l, name |-> s, agent |-> AgentOf[l], until |-> now + for, revoked |-> FALSE]}
    /\ To(l, Loop(l, lease[l], list, Goes(l, "reading")))
    /\ UNCHANGED <<policy, stored, ledger, cards, operator, notices, posts, now, restarts>>

(* backend.read per reference; one that fails refuses everything.  (A       *)
(* reference per secret: fields are left out.)                              *)
ReadValue(l) ==
    LET s == Current(l, NamesOf[l]) IN
    /\ lease[l].pc = "reading"
    /\ \/ /\ s \in stored
          /\ LET r == [lease[l] EXCEPT !.got = @ \cup {s}] IN
             To(l, Loop(l, r, NamesOf[l], [r EXCEPT !.pc = "recording", !.at = 1]))
       \/ To(l, Refusing(l, "backend_error"))
    /\ UNCHANGED <<policy, stored, grants, ledger, cards, operator, notices, posts, now, restarts>>

Opened(l, s) == {g \in grants : g.by = l /\ g.name = s}
GrantId(l, s) ==
    IF Opened(l, s) # {} THEN <<l, s>>
    ELSE IF s \in DOMAIN lease[l].covered /\ lease[l].covered[s] # NoGrant
           THEN <<lease[l].covered[s].by, s>> ELSE <<>>

(* What authorised each secret of a request that is served. *)
Served(l, s) ==
    LET asked == DOMAIN lease[l].covered # {} /\ Uncovered(l) # {} IN
    IF s \in DOMAIN lease[l].covered /\ lease[l].covered[s] # NoGrant THEN "reused_grant"
    ELSE IF asked /\ V(l, s) \in {"ask", "auto_command"}
           THEN IF lease[l].answer > 0 /\ s \in Uncovered(l) THEN "approved_grant" ELSE "approved_once"
    ELSE V(l, s)

Row(l, s, decision, grant) == [lease |-> l, name |-> s, decision |-> decision, grant |-> grant]

ByRule(l) == \E s \in Names(l) : V(l, s) = "auto_command"

(* A row per secret, then, if nobody was asked and a rule decided, the      *)
(* notice.                                                                  *)
Record(l) ==
    LET s == Current(l, NamesOf[l])
        asked == DOMAIN lease[l].covered # {} /\ Uncovered(l) # {} IN
    /\ lease[l].pc = "recording"
    /\ ledger' = ledger \cup {Row(l, s, Served(l, s), GrantId(l, s))}
    /\ To(l, Loop(l, lease[l], NamesOf[l], Goes(l, IF ~asked /\ ByRule(l) THEN "notifying" ELSE "granted")))
    /\ UNCHANGED <<policy, stored, grants, cards, operator, notices, posts, now, restarts>>

RefusedAs(l, s) ==
    IF V(l, s) \in Refusals THEN V(l, s)
    ELSE IF lease[l].governing \in Refusals THEN "not_reached" ELSE lease[l].governing

(* _refuse: a row per secret; the one that earned the refusal says so. *)
Refuse(l) ==
    LET s == Current(l, NamesOf[l])
        id == IF lease[l].governing = "backend_error" THEN GrantId(l, s) ELSE <<>> IN
    /\ lease[l].pc = "refusing"
    /\ ledger' = ledger \cup {Row(l, s, RefusedAs(l, s), id)}
    /\ To(l, Loop(l, lease[l], NamesOf[l], Goes(l, "refused")))
    /\ UNCHANGED <<policy, stored, grants, cards, operator, notices, posts, now, restarts>>

(* _notify: the notice to fold into is read, then posted or rewritten, then *)
(* written back.                                                            *)
ReadNotice(l) ==
    /\ lease[l].pc = "notifying"
    /\ To(l, [Goes(l, "telling") EXCEPT !.seen = notices[KeyOf(l)]])
    /\ UNCHANGED <<policy, stored, grants, ledger, cards, operator, notices, posts, now, restarts>>

Tell(l) ==
    LET k == KeyOf(l)
        seen == lease[l].seen
        fold == IF seen.repeats > 0 THEN [seen EXCEPT !.repeats = @ + 1] ELSE [post |-> Len(posts[k]) + 1, repeats |-> 1] IN
    /\ lease[l].pc = "telling"
    /\ \/ To(l, Goes(l, "granted")) /\ UNCHANGED <<notices, posts>>
       \/ /\ To(l, [Goes(l, "granted") EXCEPT !.told = TRUE])
          /\ notices' = [notices EXCEPT ![k] = fold]
          /\ posts' = [posts EXCEPT ![k] = IF seen.repeats > 0 THEN [@ EXCEPT ![fold.post] = fold.repeats]
                                                               ELSE Append(@, 1)]
    /\ UNCHANGED <<policy, stored, grants, ledger, cards, operator, now, restarts>>

FoldEnds(k) ==
    /\ notices[k] # NoNotice
    /\ notices' = [notices EXCEPT ![k] = NoNotice]
    /\ UNCHANGED <<policy, stored, grants, ledger, cards, lease, operator, posts, now, restarts>>

LeaseStep(l) ==
    \/ Begin(l) \/ ReadPolicy(l) \/ Status(l) \/ LookForWindow(l) \/ Ask(l) \/ AskTimesOut(l)
    \/ OpenWindow(l) \/ ReadValue(l) \/ Record(l) \/ Refuse(l) \/ ReadNotice(l) \/ Tell(l)

-----------------------------------------------------------------------------
(* The operator, at the door or in chat *)

(* _form_action and PendingOperatorForms: a button holds a token; the verb  *)
(* behind it is this process's, and is taken by the first submission.       *)
DrawForm(e) ==
    /\ edit[e].pc = "none"
    /\ edit' = [edit EXCEPT ![e].pc = "drawn"]
    /\ UNCHANGED <<policy, stored, grants, ledger, cards, lease, deletion, overtaken, notices, posts, now, restarts>>

(* put_policy, and the form's _policy before it: the policy is read.        *)
ReadForEdit(e) ==
    /\ edit[e].pc \in {"sent", "drawn"}
    /\ edit' = [edit EXCEPT ![e].pc = "read", ![e].read = policy[EditOf[e].name]]
    /\ UNCHANGED <<policy, stored, grants, ledger, cards, lease, deletion, overtaken, notices, posts, now, restarts>>

(* From chat a field left empty is left as it was; at the door only the     *)
(* rules are, and the rest takes its default.                               *)
Merged(e) ==
    LET was == IF edit[e].read = NoPolicy THEN NewPolicy ELSE edit[e].read
        Left(f) == IF e \in Chat \/ f = "rules" THEN was[f] ELSE NewPolicy[f]
    IN  [f \in DOMAIN NewPolicy |-> IF EditOf[e].set[f] = Keep THEN Left(f) ELSE EditOf[e].set[f]]

(* A first policy from chat that names nobody is refused. *)
WritePolicy(e) ==
    LET refused == e \in Chat /\ edit[e].read = NoPolicy /\ Merged(e).subjects = {} IN
    /\ edit[e].pc = "read"
    /\ policy' = IF refused THEN policy ELSE [policy EXCEPT ![EditOf[e].name] = Merged(e)]
    /\ edit' = [edit EXCEPT ![e].pc = IF ~refused /\ e \in Chat THEN "recording" ELSE "done",
                            ![e].wrote = IF refused THEN NoPolicy ELSE Merged(e)]
    /\ UNCHANGED <<stored, grants, ledger, cards, lease, deletion, overtaken, notices, posts, now, restarts>>

(* _record_operator: who did what from chat. *)
RecordEdit(e) ==
    /\ edit[e].pc = "recording"
    /\ ledger' = ledger \cup {Row(e, EditOf[e].name, "policy", <<>>)}
    /\ edit' = [edit EXCEPT ![e].pc = "done"]
    /\ UNCHANGED <<policy, stored, grants, cards, lease, deletion, overtaken, notices, posts, now, restarts>>

UnderWay == {l \in Leases : lease[l].pc \notin {"none", "granted", "refused", "cut"}}
Closed(s) == {IF g.name = s THEN [g EXCEPT !.revoked = TRUE] ELSE g : g \in grants}

(* Bug: the windows are closed first. *)
DeleteStepClosing(d) ==
    LET s == NameOfDelete[d] IN
    /\ \/ deletion[d] = "none" /\ stored' = stored \ {s} /\ grants' = Closed(s)
          /\ deletion' = [deletion EXCEPT ![d] = "value"] /\ UNCHANGED <<policy, overtaken>>
       \/ deletion[d] = "value" /\ policy' = [policy EXCEPT ![s] = NoPolicy] /\ overtaken' = [overtaken EXCEPT ![s] = UnderWay]
          /\ deletion' = [deletion EXCEPT ![d] = "done"] /\ UNCHANGED <<stored, grants>>
    /\ UNCHANGED <<ledger, cards, lease, edit, notices, posts, now, restarts>>

(* delete_secret: the value, the policy, then the windows over it. *)
DeleteStep(d) ==
    LET s == NameOfDelete[d] IN
    /\ \/ deletion[d] = "none" /\ stored' = stored \ {s}
          /\ deletion' = [deletion EXCEPT ![d] = "value"] /\ UNCHANGED <<policy, grants, overtaken>>
       \/ deletion[d] = "value" /\ policy' = [policy EXCEPT ![s] = NoPolicy] /\ overtaken' = [overtaken EXCEPT ![s] = UnderWay]
          /\ deletion' = [deletion EXCEPT ![d] = "policy"] /\ UNCHANGED <<stored, grants>>
       \/ deletion[d] = "policy" /\ grants' = Closed(s)
          /\ deletion' = [deletion EXCEPT ![d] = "done"] /\ UNCHANGED <<policy, stored, overtaken>>
    /\ UNCHANGED <<ledger, cards, lease, edit, notices, posts, now, restarts>>

PutSecret(s) ==
    /\ s \notin stored
    /\ stored' = stored \cup {s}
    /\ UNCHANGED <<policy, grants, ledger, cards, lease, operator, notices, posts, now, restarts>>

RevokeGrant(g) ==
    /\ ~g.revoked
    /\ grants' = (grants \ {g}) \cup {[g EXCEPT !.revoked = TRUE]}
    /\ UNCHANGED <<policy, stored, ledger, cards, lease, operator, notices, posts, now, restarts>>

Tick ==
    /\ now < MaxNow
    /\ now' = now + 1
    /\ UNCHANGED <<policy, stored, grants, ledger, cards, lease, operator, notices, posts, restarts>>

(* The tables stay; cards, notices, forms and whatever was under way go. *)
Restart ==
    /\ restarts < MaxRestarts
    /\ restarts' = restarts + 1
    /\ cards' = {} /\ notices' = [k \in Keys |-> NoNotice]
    /\ lease' = [l \in Leases |-> IF l \in UnderWay THEN [lease[l] EXCEPT !.pc = "cut"] ELSE lease[l]]
    /\ edit' = [e \in Edits |-> IF edit[e].pc \in {"drawn", "read", "recording"} THEN [edit[e] EXCEPT !.pc = "cut"] ELSE edit[e]]
    /\ deletion' = [d \in Deletes |-> IF deletion[d] \in {"value", "policy"} THEN "cut" ELSE deletion[d]]
    /\ UNCHANGED <<policy, stored, grants, ledger, overtaken, posts, now>>

-----------------------------------------------------------------------------
WardNext ==
    \/ \E l \in Leases : LeaseStep(l) \/ Answer(l)
    \/ \E k \in Keys : FoldEnds(k)
    \/ \E e \in Edits : DrawForm(e) \/ ReadForEdit(e) \/ WritePolicy(e) \/ RecordEdit(e)
    \/ \E d \in Deletes : DeleteStep(d)
    \/ \E s \in Secrets : PutSecret(s)
    \/ \E g \in grants : RevokeGrant(g)
    \/ Tick \/ Restart

WardSpec == WardInit /\ [][WardNext]_wardVars

-----------------------------------------------------------------------------
WardTypeOK ==
    /\ cards \subseteq Leases /\ stored \subseteq Secrets
    /\ \A l \in Leases : lease[l].at \in 1..Len(NamesOf[l])
    /\ \A g \in grants : g.by \in Leases /\ g.name \in Secrets

Rows(l) == {row \in ledger : row.lease = l}
Positive == {"approved_once", "approved_grant", "reused_grant", "auto", "auto_command"}

(* All or nothing: a request that was granted had every secret it names     *)
(* read and recorded as granted, one that was refused none, whatever the    *)
(* store did between the two (lease: "every secret the request names, or    *)
(* none of them").                                                          *)
AllOrNothing ==
    \A l \in Leases :
        /\ lease[l].pc = "granted" => /\ {row.name : row \in Rows(l)} = Names(l)
                                      /\ \A row \in Rows(l) : row.decision \in Positive
                                      /\ lease[l].got = Names(l)
        /\ lease[l].pc = "refused" => /\ {row.name : row \in Rows(l)} = Names(l)
                                      /\ \A row \in Rows(l) : row.decision \notin Positive

(* Nothing is served on another's word: a secret served without a question  *)
(* because a window was open was opened by a person's answer to an earlier  *)
(* request of this very agent for this very secret.                         *)
ServedOnAuthority ==
    \A row \in ledger : row.decision = "reused_grant" =>
        \E h \in Leases : /\ row.grant = <<h, row.name>>
                          /\ AgentOf[h] = AgentOf[row.lease] /\ lease[h].answer > 0

(* Every window can be traced: the request it was opened by is under way,   *)
(* was cut off by a restart, or left a row that names it, the refused ones  *)
(* included (the read may fail after the windows were opened).              *)
WindowsAreLedgered ==
    \A g \in grants :
        \/ lease[g.by].pc \in {"opening", "reading", "recording", "refusing", "cut"}
        \/ \E row \in Rows(g.by) : row.name = g.name /\ row.grant = <<g.by, g.name>>

(* A secret that was removed leaves no window open, but for those a request *)
(* under way at the time opens afterwards.                                  *)
DeletedLeavesNoWindow ==
    \A d \in Deletes : deletion[d] = "done" =>
        \A g \in grants : g.name = NameOfDelete[d] /\ policy[g.name] = NoPolicy /\ ~g.revoked
                          => g.by \in overtaken[g.name]

-----------------------------------------------------------------------------
(* What the code does not keep *)

(* "The windows go with it" (delete_secret), without the exception. *)
DeleteClosesEveryWindow ==
    \A d \in Deletes : deletion[d] = "done" /\ policy[NameOfDelete[d]] = NoPolicy =>
        \A g \in grants : g.name = NameOfDelete[d] => g.revoked

(* "0 means no window may be opened at all and every single use is asked    *)
(* about" (SecretPolicyRecord).                                             *)
ZeroMeansAsked ==
    [][\A row \in ledger' \ ledger : row.decision = "reused_grant" => lease[row.lease].read[row.name].max > 0]_wardVars

(* "clearing a field leaves the current value in place" (_policy_form): a   *)
(* field the form leaves alone is not changed by it.                        *)
LeavesTheRest ==
    [][\A e \in Edits : edit[e].pc = "read" /\ edit'[e].pc = "recording" /\ policy[EditOf[e].name] # NoPolicy =>
          \A f \in DOMAIN NewPolicy : EditOf[e].set[f] = Keep =>
              policy'[EditOf[e].name][f] = policy[EditOf[e].name][f]]_wardVars

(* "how many grants it now stands for" (Folded): no grant that was told is  *)
(* missing from the counts.                                                 *)
FoldCounts ==
    \A k \in Keys :
        FoldFunction(+, 0, posts[k]) = Cardinality({l \in Leases : KeyOf(l) = k /\ lease[l].told})
===============================================================================
