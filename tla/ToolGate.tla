------------------------------- MODULE ToolGate -------------------------------
(***************************************************************************)
(* The question in front of a tool call (interactions/toolgate.py), the     *)
(* registry of questions waiting on a person (approvals/pending.py), the    *)
(* windows and the ledger (store/sqlite/approvals.py), and the way a click  *)
(* takes to the replica that asked (InteractionDispatcher.resolve_approval  *)
(* and _forward).  Wording, previews and layout of a card are left out: a   *)
(* copy of it is shown, open to clicks or closed with a verdict.            *)
(***************************************************************************)
EXTENDS Naturals, FiniteSets

CONSTANTS
    Calls,          \* gated calls
    HostOf,         \* the replica a call runs on
    GateHosts,      \* the replicas
    Tools, Grantable,       \* tools, and those a window may be opened for
    Convs, AskerOf, \* conversations, and the person whose message the turn answers (Nobody: none known)
    People,
    Approvers,      \* TOOL_APPROVERS; {}: the asker decides
    ShownIn,       \* the gateways a conversation is live in
    Ladder,         \* GRANT_LADDER
    MaxGrant,       \* max_grant_s
    MaxNow, MaxAtOnce,      \* bounds: how far the clock goes, calls under way at once
    Nobody

VARIABLES
    call,       \* each confirm(): where it stands, tool, conversation, addressees, gateways left to post in, what was decided
    pending,    \* _by_token of every replica: the calls whose question can be answered
    future,     \* what the future of a question holds
    card,       \* the gateways where a copy of the card is open to clicks
    grants,     \* approval_grants
    audit,      \* approval_audit
    hostUp,     \* the replicas that live
    taken,      \* history: clicks on a call's card whose clicker was told the answer was taken
    now

gateVars == <<call, pending, future, card, grants, audit, hostUp, taken, now>>

NoAnswer == [by |-> Nobody, value |-> "none", window |-> 0]

Init ==
    /\ call = [c \in Calls |-> [pc |-> "idle", tool |-> Nobody, conv |-> Nobody, who |-> {}, left |-> {},
                              answer |-> NoAnswer, decision |-> "none"]]
    /\ pending = {} /\ future = [c \in Calls |-> NoAnswer]
    /\ card = [c \in Calls |-> {}]
    /\ grants = {} /\ audit = {}
    /\ hostUp = GateHosts
    /\ now = 0 /\ taken = [c \in Calls |-> 0]

Becomes(c, r) == call' = [call EXCEPT ![c] = r]
Running(c) == call[c].pc \notin {"idle", "done", "gone"}

-----------------------------------------------------------------------------
(* live_grant over tool_scope: the windows open for the tool in the         *)
(* conversation.                                                            *)
LiveGrant(tool, k) ==
    {g \in grants : g.tool = tool /\ g.conv = k /\ ~g.revoked /\ g.until > now}

(* Who is addressed: the people the deployment names, or else the person    *)
(* the turn answers, or else, with nobody known, anyone.                    *)
Addressed(k) == IF Approvers # {} THEN Approvers
                ELSE IF AskerOf[k] # Nobody THEN {AskerOf[k]} ELSE {}
MayAnswer(c, p) == call[c].who = {} \/ p \in call[c].who

(* confirm: an open window settles it; else a question is registered, and   *)
(* nobody can be asked where the conversation is live in no gateway.        *)
Confirm(c, tool, k) ==
    /\ call[c].pc = "idle" /\ HostOf[c] \in hostUp
    /\ Cardinality({d \in Calls : Running(d)}) < MaxAtOnce
    /\ LET fresh == [call[c] EXCEPT !.tool = tool, !.conv = k] IN
       \/ /\ tool \in Grantable /\ LiveGrant(tool, k) # {}
          /\ Becomes(c, [fresh EXCEPT !.pc = "recording", !.decision = "reused_grant"])
          /\ UNCHANGED pending
       \/ /\ tool \notin Grantable \/ LiveGrant(tool, k) = {}
          /\ ShownIn[k] = {}
          /\ Becomes(c, [fresh EXCEPT !.pc = "recording", !.decision = "no_approver"])
          /\ UNCHANGED pending
       \/ /\ tool \notin Grantable \/ LiveGrant(tool, k) = {}
          /\ ShownIn[k] # {}
          /\ Becomes(c, [fresh EXCEPT !.pc = "posting", !.who = Addressed(k), !.left = ShownIn[k]])
          /\ pending' = pending \cup {c}
    /\ UNCHANGED <<future, card, grants, audit, hostUp, taken, now>>

(* One copy after another, in the gateways' order, each an await. *)
NextGateway(c) == CHOOSE g \in call[c].left : TRUE

PostCopy(c, ok) ==
    /\ call[c].pc = "posting" /\ call[c].left # {}
    /\ card' = IF ok THEN [card EXCEPT ![c] = @ \cup {NextGateway(c)}] ELSE card
    /\ Becomes(c, [call[c] EXCEPT !.left = @ \ {NextGateway(c)}])
    /\ UNCHANGED <<pending, future, grants, audit, hostUp, taken, now>>

Posted(c) ==
    /\ call[c].pc = "posting" /\ call[c].left = {}
    /\ IF card[c] = {}
         THEN /\ pending' = pending \ {c}
              /\ Becomes(c, [call[c] EXCEPT !.pc = "recording", !.decision = "no_approver"])
         ELSE Becomes(c, [call[c] EXCEPT !.pc = "waiting"]) /\ UNCHANGED pending
    /\ UNCHANGED <<future, card, grants, audit, hostUp, taken, now>>

(* The timer: it may fire as the answer comes in, and then it wins.  A      *)
(* question asked of nobody who answers is withdrawn first.                 *)
TimesOut(c) ==
    /\ call[c].pc = "waiting"
    /\ pending' = pending \ {c}
    /\ Becomes(c, [call[c] EXCEPT !.pc = "closing", !.decision = "timeout"])
    /\ future' = [future EXCEPT ![c] = NoAnswer]
    /\ UNCHANGED <<card, grants, audit, hostUp, taken, now>>

DecisionOn(a) == CASE a.value = "deny" -> "denied"
                   [] a.value = "once" -> "approved_once"
                   [] OTHER -> "approved_grant"

Answered(c) ==
    /\ call[c].pc = "waiting" /\ future[c] # NoAnswer
    /\ Becomes(c, [call[c] EXCEPT !.pc = "closing", !.answer = future[c], !.decision = DecisionOn(future[c])])
    /\ future' = [future EXCEPT ![c] = NoAnswer]
    /\ UNCHANGED <<pending, card, grants, audit, hostUp, taken, now>>

(* _rewrite_all: every copy posted says the verdict, with nothing left to   *)
(* click (a copy a platform failed to rewrite is clicked in vain).          *)
RewriteAll(c) ==
    /\ call[c].pc = "closing"
    /\ card' = [card EXCEPT ![c] = {}]
    /\ Becomes(c, [call[c] EXCEPT !.pc = IF call[c].decision = "approved_grant" THEN "opening"
                                        ELSE IF call[c].decision = "withdrawn" THEN "abandoned" ELSE "recording"])
    /\ UNCHANGED <<pending, future, grants, audit, hostUp, taken, now>>

MinOf(a, b) == IF a < b THEN a ELSE b

(* _open_window: no longer than the ceiling. *)
Window(c) == [call |-> c, tool |-> call[c].tool, conv |-> call[c].conv, by |-> call[c].answer.by,
              until |-> now + MinOf(call[c].answer.window, MaxGrant), revoked |-> FALSE]

OpenWindow(c) ==
    /\ call[c].pc = "opening"
    /\ grants' = grants \cup {Window(c)}
    /\ Becomes(c, [call[c] EXCEPT !.pc = "recording"])
    /\ UNCHANGED <<pending, future, card, audit, hostUp, taken, now>>

Row(c) == [call |-> c, decision |-> call[c].decision, by |-> call[c].answer.by]

(* _record, and then the outcome the tool's server acts on. *)
Record(c) ==
    /\ call[c].pc = "recording"
    /\ audit' = audit \cup {Row(c)}
    /\ Becomes(c, [call[c] EXCEPT !.pc = "done"])
    /\ UNCHANGED <<pending, future, card, grants, hostUp, taken, now>>

(* The caller hangs up (the turn was stopped or timed out) while the card   *)
(* is up: the question is retired, the copies are rewritten, and the row    *)
(* says so.                                                                 *)
HangsUp(c) ==
    /\ call[c].pc = "waiting"
    /\ pending' = pending \ {c}
    /\ Becomes(c, [call[c] EXCEPT !.pc = "closing", !.decision = "withdrawn"])
    /\ future' = [future EXCEPT ![c] = NoAnswer]
    /\ UNCHANGED <<card, grants, audit, hostUp, taken, now>>

(* ... while it is being posted or rewritten: only the row says so.  Later, *)
(* nothing does, and the write under way happens or not.                    *)
HangsUpBetween(c) ==
    /\ call[c].pc \in {"posting", "closing", "opening", "recording"}
    /\ Becomes(c, [call[c] EXCEPT !.pc = IF call[c].pc \in {"posting", "closing"} THEN "abandoned" ELSE "gone"])
    /\ UNCHANGED <<pending, future, card, grants, audit, hostUp, taken, now>>

HangsUpWriting(c) ==
    /\ call[c].pc \in {"opening", "recording"}
    /\ IF call[c].pc = "opening" THEN grants' = grants \cup {Window(c)} /\ UNCHANGED audit
                                 ELSE audit' = audit \cup {Row(c)} /\ UNCHANGED grants
    /\ Becomes(c, [call[c] EXCEPT !.pc = "gone"])
    /\ UNCHANGED <<pending, future, card, hostUp, taken, now>>

Abandon(c) ==
    /\ call[c].pc = "abandoned"
    /\ audit' = audit \cup {[call |-> c, decision |-> "abandoned", by |-> Nobody]}
    /\ Becomes(c, [call[c] EXCEPT !.pc = "gone"])
    /\ UNCHANGED <<pending, future, card, grants, hostUp, taken, now>>

-----------------------------------------------------------------------------
(* Clicks. *)

(* windows: what the card's dropdown offers; "once" and "deny" always. *)
Offers(tool) == IF tool \in Grantable THEN {w \in Ladder : w <= MaxGrant} ELSE {}
Controls(c) == {[value |-> v, window |-> 0] : v \in {"once", "deny"}}
                  \cup {[value |-> "grant", window |-> w] : w \in Offers(call[c].tool)}

(* Bug: the token stays. *)
ResolveKeeping(c, p, a) ==
    /\ future' = IF MayAnswer(c, p) THEN [future EXCEPT ![c] = [by |-> p, value |-> a.value, window |-> a.window]] ELSE future
    /\ UNCHANGED pending

(* resolve and decide: the first answer of somebody addressed takes the     *)
(* token with it.                                                           *)
Resolve(c, p, a) ==
    IF MayAnswer(c, p)
      THEN /\ pending' = pending \ {c}
           /\ future' = [future EXCEPT ![c] = [by |-> p, value |-> a.value, window |-> a.window]]
      ELSE UNCHANGED <<pending, future>>

(* A click on a copy people have seen, however old, that finds the question *)
(* waiting: on the replica that asked, there at once or handed on by        *)
(* another.  One that finds none, or is not allowed to answer, or whose     *)
(* forwarding failed before it got there, changes nothing.                  *)
ClickReaches(c, p, a) ==
    /\ c \in pending /\ card[c] # {} /\ a \in Controls(c)
    /\ Resolve(c, p, a)
    /\ taken' = IF future' # future THEN [taken EXCEPT ![c] = @ + 1] ELSE taken
    /\ UNCHANGED <<call, card, grants, audit, hostUp, now>>

(* _forward fails once the question was reached: the clicker is told that   *)
(* nothing waits.                                                           *)
ReplyLost(c, p, a) ==
    /\ c \in pending /\ card[c] # {} /\ a \in Controls(c)
    /\ \E r \in hostUp : r # HostOf[c]
    /\ Resolve(c, p, a)
    /\ UNCHANGED <<call, card, grants, audit, hostUp, taken, now>>

Revoke(g) ==
    /\ ~g.revoked
    /\ grants' = (grants \ {g}) \cup {[g EXCEPT !.revoked = TRUE]}
    /\ UNCHANGED <<call, pending, future, card, audit, hostUp, taken, now>>

Tick ==
    /\ now < MaxNow
    /\ now' = now + 1
    /\ UNCHANGED <<call, pending, future, card, grants, audit, hostUp, taken>>

(* A replica dies with its questions and its calls; one of them, a bound. *)
HostDies(r) ==
    /\ hostUp = GateHosts /\ r \in hostUp
    /\ hostUp' = hostUp \ {r}
    /\ pending' = {c \in pending : HostOf[c] # r}
    /\ call' = [c \in Calls |-> IF HostOf[c] = r /\ Running(c) THEN [call[c] EXCEPT !.pc = "gone"] ELSE call[c]]
    /\ UNCHANGED <<future, card, grants, audit, taken, now>>

-----------------------------------------------------------------------------
Proceeds(c) ==
    \/ PostCopy(c, TRUE) \/ PostCopy(c, FALSE)
    \/ Posted(c) \/ TimesOut(c) \/ Answered(c)
    \/ RewriteAll(c)
    \/ OpenWindow(c) \/ Record(c) \/ Abandon(c)

Next ==
    \/ \E c \in Calls : Proceeds(c) \/ HangsUp(c) \/ HangsUpBetween(c) \/ HangsUpWriting(c)
    \/ \E c \in Calls, tool \in Tools, k \in Convs : Confirm(c, tool, k)
    \/ \E c \in Calls, p \in People : \E a \in Controls(c) :
          ClickReaches(c, p, a) \/ ReplyLost(c, p, a)
    \/ \E g \in grants : Revoke(g)
    \/ Tick
    \/ \E r \in GateHosts : HostDies(r)

Spec == Init /\ [][Next]_gateVars

-----------------------------------------------------------------------------
TypeOK ==
    /\ pending \subseteq Calls /\ hostUp \subseteq GateHosts /\ now \in 0..MaxNow
    /\ \A c \in Calls : call[c].pc \in {"idle", "posting", "waiting", "closing", "opening", "recording",
                                         "abandoned", "done", "gone"}
    /\ \A a \in audit : a.call \in Calls

Ran(c) == call[c].pc = "done" /\ call[c].decision \in {"approved_once", "approved_grant", "reused_grant"}

(* A gated call runs on an answer to its own question by somebody it was    *)
(* addressed to, or in a window such a person opened for that tool in that  *)
(* conversation; whatever was clicked by whom, late, twice or through       *)
(* another replica.                                                         *)
RunsOnAYes ==
    \A c \in Calls : Ran(c) =>
        \/ /\ call[c].answer.value \in {"once", "grant"}
           /\ MayAnswer(c, call[c].answer.by)
        \/ /\ call[c].tool \in Grantable
           /\ \E g \in grants : /\ g.tool = call[c].tool /\ g.conv = call[c].conv
                                /\ Addressed(g.conv) = {} \/ g.by \in Addressed(g.conv)

(* Once the wait for an answer is over, by an answer, the timer or a caller *)
(* that hung up on an open card, no click finds the question any more.      *)
NoQuestionAfterTheWait ==
    \A c \in pending : call[c].pc \in {"posting", "waiting", "abandoned", "gone"}

(* The first answer is the answer: no two people are told theirs was taken. *)
OneAnswerTaken ==
    \A c \in Calls : taken[c] <= 1

(* The ledger and the tool agree: a call that ran or was refused has one    *)
(* row and the row says which, and no row of a yes is anybody's but a       *)
(* person's the question was addressed to.                                  *)
LedgerSaysWhatRan ==
    \A c \in Calls :
        LET rows == {a \in audit : a.call = c} IN
        /\ Cardinality(rows) <= 1
        /\ call[c].pc = "done" => rows = {Row(c)}
        /\ \A a \in rows : a.decision \in {"approved_once", "approved_grant"} => MayAnswer(c, a.by)

(* What the gate promises, of the above: a call runs on an answer somebody  *)
(* addressed gave to its question, once, or in a window such a person       *)
(* opened, and the ledger says so (toolgate.py confirm, pending.py          *)
(* resolve).                                                                *)
CallsRunOnAnswers == TypeOK /\ RunsOnAYes /\ NoQuestionAfterTheWait /\ OneAnswerTaken /\ LedgerSaysWhatRan

(* A caller that hangs up leaves no question behind (_ask: "Retire the card *)
(* first: a click after this must find no question").                       *)
HangingUpRetires == \A c \in pending : Running(c)
=============================================================================
