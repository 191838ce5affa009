-------------------------- MODULE InteractionsProofs --------------------------
(***************************************************************************)
(* Questions to people and frames to services.  The tool gate: for any      *)
(* calls, replicas, tools, conversations and people, over clicks that are   *)
(* late, repeated or forwarded, timers, callers that hang up and a replica  *)
(* that dies, a gated call runs on an answer somebody addressed gave to its *)
(* own question, or in a window such a person opened, and the ledger says   *)
(* so.  After it the websocket gateway, widgets and forms, the batches of a *)
(* conversation among the replicas, and the calls of an MCP server's tools. *)
(***************************************************************************)
EXTENDS ToolGate, WsHub, Widgets, Replicas, McpCalls, FiniteSetTheorems, TLAPS

(* Times are numbers. *)
GateAssumptions == MaxNow \in Nat /\ MaxGrant \in Nat /\ Ladder \subseteq Nat

Steps == {"idle", "posting", "waiting", "closing", "opening", "recording", "abandoned", "done", "gone"}
Decisions == {"none", "reused_grant", "no_approver", "timeout", "denied", "approved_once", "approved_grant", "withdrawn"}
Yes == {"approved_once", "approved_grant"}
Answers == [by : People \cup {Nobody}, value : {"none", "once", "deny", "grant"}, window : Nat]
CallType == [pc : Steps, tool : Tools \cup {Nobody}, conv : Convs \cup {Nobody},
             who : SUBSET (UNION {Addressed(k) : k \in Convs}), left : SUBSET (UNION {ShownIn[k] : k \in Convs}),
             answer : Answers, decision : Decisions]
GrantType == [call : Calls, tool : Tools \cup {Nobody}, conv : Convs \cup {Nobody}, by : People \cup {Nobody},
              until : Nat, revoked : BOOLEAN]
RowType == [call : Calls, decision : Decisions \cup {"abandoned"}, by : People \cup {Nobody}]

Types ==
    /\ call \in [Calls -> CallType] /\ future \in [Calls -> Answers] /\ card \in [Calls -> SUBSET (UNION {ShownIn[k] : k \in Convs})]
    /\ taken \in [Calls -> Nat]
    /\ pending \subseteq Calls /\ grants \subseteq GrantType
    /\ audit \subseteq RowType
    /\ hostUp \subseteq GateHosts /\ now \in 0..MaxNow

(* A question somebody can still answer has no answer yet, and nobody was   *)
(* told that theirs was taken.                                              *)
OpenQuestions ==
    /\ \A c \in Calls : taken[c] <= 1
    /\ \A c \in pending : taken[c] = 0 /\ future[c] = NoAnswer /\ call[c].pc \in {"posting", "waiting", "abandoned", "gone"}
    /\ \A c \in Calls : call[c].pc = "idle" => taken[c] = 0 /\ future[c] = NoAnswer /\ call[c].decision = "none"

(* An answer is of somebody the question was addressed to: the one that     *)
(* waits to be read, and the one a yes was read from.                       *)
AnsweredByAddressees ==
    \A c \in Calls :
        /\ future[c] # NoAnswer => future[c].value # "none" /\ MayAnswer(c, future[c].by)
        /\ call[c].pc \in {"posting", "waiting"} => call[c].who = Addressed(call[c].conv)
        /\ call[c].decision \in Yes => /\ call[c].answer.value \in {"once", "grant"}
                                       /\ MayAnswer(c, call[c].answer.by)
                                       /\ call[c].who = Addressed(call[c].conv)
        /\ call[c].pc = "opening" => call[c].decision = "approved_grant"

ByAddressee(g) == Addressed(g.conv) = {} \/ g.by \in Addressed(g.conv)

(* A window is one such a person opened, and a call that went through one   *)
(* is of its tool and its conversation.                                     *)
Windows ==
    /\ \A g \in grants : ByAddressee(g)
    /\ \A c \in Calls : call[c].decision = "reused_grant" =>
          call[c].tool \in Grantable /\ \E g \in grants : g.tool = call[c].tool /\ g.conv = call[c].conv

(* A row is of a call that is over, the only one of it, and what it says. *)
Ledger ==
    /\ \A a \in audit : /\ call[a.call].pc \in {"done", "gone"}
                        /\ call[a.call].pc = "done" => a = Row(a.call)
                        /\ a.decision \in Yes => MayAnswer(a.call, a.by)
    /\ \A a, b \in audit : a.call = b.call => a = b
    /\ \A c \in Calls : call[c].pc = "done" => Row(c) \in audit

GateInv == Types /\ OpenQuestions /\ AnsweredByAddressees /\ Windows /\ Ledger

LEMMA GateInit == GateAssumptions /\ Init => GateInv
  <1> SUFFICES ASSUME GateAssumptions, Init PROVE GateInv
    OBVIOUS
  <1> USE DEF GateAssumptions, Init, Steps, Decisions, Yes, NoAnswer
  <1>1. Types
    BY DEF Types, CallType, Answers
  <1>2. OpenQuestions /\ AnsweredByAddressees /\ Windows /\ Ledger
    BY DEF OpenQuestions, AnsweredByAddressees, Windows, Ledger
  <1> QED
    BY <1>1, <1>2 DEF GateInv

(* A step of one call c, to the record r: it keeps its tool, conversation   *)
(* and addressees, a yes is read from an answer, questions go and none      *)
(* comes, a window is an addressee's, and a row is written as it ends.      *)
StepOf(c, r, opened, entries) ==
    /\ r \in CallType /\ Becomes(c, r)
    /\ call[c].pc \notin {"idle", "done", "gone"} /\ r.pc # "idle"
    /\ r.tool = call[c].tool /\ r.conv = call[c].conv /\ r.who = call[c].who
    /\ r.pc \in {"posting", "waiting"} => call[c].pc \in {"posting", "waiting"}
    /\ r.pc = "opening" => r.decision = "approved_grant"
    /\ r.decision \in Yes => /\ r.answer.value \in {"once", "grant"} /\ MayAnswer(c, r.answer.by)
                             /\ r.who = Addressed(r.conv)
    /\ r.decision = "reused_grant" => call[c].decision = "reused_grant"
    /\ future' = future \/ future' = [future EXCEPT ![c] = NoAnswer]
    /\ pending' \subseteq pending /\ (c \in pending' => r.pc \in {"posting", "waiting", "abandoned", "gone"})
    /\ card' \in [Calls -> SUBSET (UNION {ShownIn[k] : k \in Convs})]
    /\ opened \subseteq GrantType /\ grants' = grants \cup opened /\ \A g \in opened : ByAddressee(g)
    /\ entries \subseteq RowType /\ audit' = audit \cup entries /\ \A a, b \in entries : a = b
    /\ \A a \in entries : a.call = c /\ r.pc \in {"done", "gone"} /\ (a.decision \in Yes => MayAnswer(c, a.by))
    /\ r.pc = "done" => entries = {[call |-> c, decision |-> r.decision, by |-> r.answer.by]}
    /\ UNCHANGED <<hostUp, taken, now>>

LEMMA CallSteps ==
    ASSUME GateInv, NEW c \in Calls, NEW r, NEW opened, NEW entries, StepOf(c, r, opened, entries)
    PROVE  GateInv'
  <1> USE DEF GateInv, StepOf
  <1>1. /\ call' \in [Calls -> CallType]
        /\ call'[c] = r
        /\ \A d \in Calls : d # c => call'[d] = call[d]
    BY DEF Types, Becomes
  <1>2. \A d \in Calls : \A p : MayAnswer(d, p)' <=> MayAnswer(d, p)
    BY <1>1 DEF MayAnswer
  <1>3. \A d \in Calls : Row(d)' = IF d = c THEN [call |-> c, decision |-> r.decision, by |-> r.answer.by] ELSE Row(d)
    BY <1>1 DEF Row
  <1>4. Types'
    <2>1. future' \in [Calls -> Answers]
      BY DEF Types, NoAnswer, Answers
    <2> QED
      BY <1>1, <2>1 DEF Types
  <1>5. OpenQuestions'
    BY <1>1 DEF Types, OpenQuestions
  <1>6. AnsweredByAddressees'
    <2> SUFFICES ASSUME NEW d \in Calls
                 PROVE  /\ future'[d] # NoAnswer => future'[d].value # "none" /\ MayAnswer(d, future'[d].by)
                        /\ call'[d].pc \in {"posting", "waiting"} => call'[d].who = Addressed(call'[d].conv)
                        /\ call'[d].decision \in Yes => /\ call'[d].answer.value \in {"once", "grant"}
                                                        /\ MayAnswer(d, call'[d].answer.by)
                                                        /\ call'[d].who = Addressed(call'[d].conv)
                        /\ call'[d].pc = "opening" => call'[d].decision = "approved_grant"
      BY <1>2 DEF AnsweredByAddressees
    <2>1. future'[d] # NoAnswer => future'[d] = future[d]
      BY DEF Types
    <2>2. CASE d = c
      BY <1>1, <2>1, <2>2 DEF AnsweredByAddressees
    <2>3. CASE d # c
      BY <1>1, <2>1, <2>3 DEF AnsweredByAddressees
    <2> QED
      BY <2>2, <2>3
  <1>7. Windows'
    <2>1. \A g \in grants' : ByAddressee(g)
      BY DEF Windows
    <2>2. \A d \in Calls : call'[d].decision = "reused_grant" => call[d].decision = "reused_grant"
                            /\ call'[d].tool = call[d].tool /\ call'[d].conv = call[d].conv
      BY <1>1
    <2>3. \A d \in Calls : call'[d].decision = "reused_grant" =>
              call'[d].tool \in Grantable /\ \E g \in grants' : g.tool = call'[d].tool /\ g.conv = call'[d].conv
      BY <2>2 DEF Windows
    <2> QED
      BY <2>1, <2>3 DEF Windows
  <1>8. Ledger'
    <2>1. \A a \in audit : a.call \in Calls /\ a.call # c
      BY DEF Types, RowType, Ledger
    <2>2. \A a \in entries : a.call = c
      OBVIOUS
    <2> QED
      BY <1>1, <1>2, <1>3, <2>1, <2>2 DEF Types, Ledger
  <1> QED
    BY <1>4, <1>5, <1>6, <1>7, <1>8

(* A window of a call whose answer was a yes is an addressee's. *)
LEMMA WindowOpens ==
    ASSUME GateAssumptions, GateInv, NEW c \in Calls, call[c].pc = "opening"
    PROVE  Window(c) \in GrantType /\ ByAddressee(Window(c))
  <1>1. MinOf(call[c].answer.window, MaxGrant) \in Nat /\ now \in Nat
    BY DEF GateAssumptions, GateInv, Types, CallType, Answers, MinOf
  <1>2. /\ call[c].decision \in Yes /\ call[c].who = Addressed(call[c].conv) /\ MayAnswer(c, call[c].answer.by)
    BY DEF GateInv, AnsweredByAddressees, Yes
  <1>3. Window(c) \in GrantType
    BY <1>1 DEF Window, GrantType, GateInv, Types, CallType, Answers
  <1>4. ByAddressee(Window(c))
    BY <1>2 DEF Window, ByAddressee, MayAnswer
  <1> QED
    BY <1>3, <1>4

LEMMA GateStep == ASSUME GateAssumptions, GateInv, [Next]_gateVars PROVE GateInv'
  <1> USE DEF GateInv
  <1>1. ASSUME NEW c \in Calls, NEW ok \in BOOLEAN, PostCopy(c, ok) PROVE GateInv'
    <2> DEFINE r == [call[c] EXCEPT !.left = @ \ {NextGateway(c)}]
    <2>1. NextGateway(c) \in call[c].left
      BY <1>1 DEF PostCopy, NextGateway
    <2>2. /\ r \in CallType /\ call[c].pc = "posting" /\ r.pc = "posting"
          /\ r.tool = call[c].tool /\ r.conv = call[c].conv /\ r.who = call[c].who
          /\ r.decision = call[c].decision /\ r.answer = call[c].answer
      BY <1>1 DEF PostCopy, Types, CallType
    <2>3. card' \in [Calls -> SUBSET (UNION {ShownIn[k] : k \in Convs})]
      BY <1>1, <2>1 DEF PostCopy, Types, CallType
    <2>4. Becomes(c, r) /\ UNCHANGED <<pending, future, grants, audit, hostUp, taken, now>>
      BY <1>1 DEF PostCopy
    <2>5. grants' = grants \cup {} /\ audit' = audit \cup {}
      BY <2>4
    <2> HIDE DEF r
    <2>6. StepOf(c, r, {}, {})
      BY <2>2, <2>3, <2>4, <2>5 DEF StepOf, AnsweredByAddressees, MayAnswer
    <2> QED
      BY <2>6, CallSteps
  <1>2. ASSUME NEW c \in Calls, Posted(c), card[c] = {} PROVE GateInv'
    <2> DEFINE r == [call[c] EXCEPT !.pc = "recording", !.decision = "no_approver"]
    <2>1. /\ r \in CallType /\ r.pc = "recording" /\ r.decision = "no_approver" /\ r.answer = call[c].answer
          /\ r.tool = call[c].tool /\ r.conv = call[c].conv /\ r.who = call[c].who
      <3>1. PICK x \in CallType : x = call[c]
        BY DEF Types
      <3> QED
        BY <3>1 DEF CallType, Steps, Decisions
    <2>2. Becomes(c, r) /\ UNCHANGED <<card, future, grants, audit, hostUp, taken, now>>
      BY <1>2 DEF Posted
    <2> HIDE DEF r
    <2>6. StepOf(c, r, {}, {})
      BY <1>2, <2>1, <2>2 DEF Posted, StepOf, Types, AnsweredByAddressees, OpenQuestions, MayAnswer, Yes
    <2> QED
      BY <2>6, CallSteps
  <1>3. ASSUME NEW c \in Calls, Posted(c), card[c] # {} PROVE GateInv'
    <2> DEFINE r == [call[c] EXCEPT !.pc = "waiting"]
    <2>1. /\ r \in CallType /\ r.pc = "waiting" /\ r.decision = call[c].decision /\ r.answer = call[c].answer
          /\ r.tool = call[c].tool /\ r.conv = call[c].conv /\ r.who = call[c].who
      BY <1>3 DEF Posted, Types, CallType, Steps, Decisions
    <2>2. Becomes(c, r) /\ UNCHANGED <<pending, card, future, grants, audit, hostUp, taken, now>>
      BY <1>3 DEF Posted
    <2> HIDE DEF r
    <2>6. StepOf(c, r, {}, {})
      BY <1>3, <2>1, <2>2 DEF Posted, StepOf, Types, AnsweredByAddressees, OpenQuestions, MayAnswer, Yes
    <2> QED
      BY <2>6, CallSteps
  <1>4. ASSUME NEW c \in Calls, TimesOut(c) PROVE GateInv'
    <2> DEFINE r == [call[c] EXCEPT !.pc = "closing", !.decision = "timeout"]
    <2>1. /\ r \in CallType /\ r.pc = "closing" /\ r.decision = "timeout" /\ r.answer = call[c].answer
          /\ r.tool = call[c].tool /\ r.conv = call[c].conv /\ r.who = call[c].who
      <3>1. PICK x \in CallType : x = call[c]
        BY DEF Types
      <3> QED
        BY <3>1 DEF CallType, Steps, Decisions
    <2>2. Becomes(c, r) /\ UNCHANGED <<card, grants, audit, hostUp, taken, now>>
      BY <1>4 DEF TimesOut
    <2> HIDE DEF r
    <2>6. StepOf(c, r, {}, {})
      BY <1>4, <2>1, <2>2 DEF TimesOut, StepOf, Types, AnsweredByAddressees, OpenQuestions, MayAnswer, Yes
    <2> QED
      BY <2>6, CallSteps
  <1>5. ASSUME NEW c \in Calls, HangsUp(c) PROVE GateInv'
    <2> DEFINE r == [call[c] EXCEPT !.pc = "closing", !.decision = "withdrawn"]
    <2>1. /\ r \in CallType /\ r.pc = "closing" /\ r.decision = "withdrawn" /\ r.answer = call[c].answer
          /\ r.tool = call[c].tool /\ r.conv = call[c].conv /\ r.who = call[c].who
      <3>1. PICK x \in CallType : x = call[c]
        BY DEF Types
      <3> QED
        BY <3>1 DEF CallType, Steps, Decisions
    <2>2. Becomes(c, r) /\ UNCHANGED <<card, grants, audit, hostUp, taken, now>>
      BY <1>5 DEF HangsUp
    <2> HIDE DEF r
    <2>6. StepOf(c, r, {}, {})
      BY <1>5, <2>1, <2>2 DEF HangsUp, StepOf, Types, AnsweredByAddressees, OpenQuestions, MayAnswer, Yes
    <2> QED
      BY <2>6, CallSteps
  <1>6. ASSUME NEW c \in Calls, Answered(c) PROVE GateInv'
    <2> DEFINE r == [call[c] EXCEPT !.pc = "closing", !.answer = future[c], !.decision = DecisionOn(future[c])]
    <2>1. /\ r \in CallType /\ r.pc = "closing" /\ r.decision = DecisionOn(future[c]) /\ r.answer = future[c]
          /\ r.tool = call[c].tool /\ r.conv = call[c].conv /\ r.who = call[c].who
      <3>1. PICK x \in CallType, a \in Answers, d \in Decisions : x = call[c] /\ a = future[c] /\ d = DecisionOn(future[c])
        BY DEF Types, DecisionOn, Decisions
      <3> QED
        BY <3>1 DEF CallType, Steps
    <2>2. Becomes(c, r) /\ UNCHANGED <<pending, card, grants, audit, hostUp, taken, now>>
      BY <1>6 DEF Answered
    <2> HIDE DEF r
    <2>6. StepOf(c, r, {}, {})
      <3>1. r.decision \in Yes => r.answer.value \in {"once", "grant"}
        BY <2>1, <1>6 DEF DecisionOn, Yes, Answered, AnsweredByAddressees, Types, Answers
      <3>2. r.decision # "reused_grant"
        BY <2>1 DEF DecisionOn
      <3>3. c \notin pending /\ call[c].who = Addressed(call[c].conv) /\ MayAnswer(c, future[c].by)
        BY <1>6 DEF Answered, OpenQuestions, AnsweredByAddressees
      <3> QED
        BY <1>6, <2>1, <2>2, <3>1, <3>2, <3>3 DEF Answered, StepOf, Types, AnsweredByAddressees, OpenQuestions, MayAnswer, Yes, DecisionOn, Answers
    <2> QED
      BY <2>6, CallSteps
  <1>7. ASSUME NEW c \in Calls, RewriteAll(c) PROVE GateInv'
    <2> DEFINE s == IF call[c].decision = "approved_grant" THEN "opening"
                    ELSE IF call[c].decision = "withdrawn" THEN "abandoned" ELSE "recording"
               r == [call[c] EXCEPT !.pc = s]
    <2>1. s \in Steps /\ s \notin {"idle", "posting", "waiting", "done"} /\ (s = "opening" => call[c].decision = "approved_grant")
      BY DEF Steps
    <2>2. Becomes(c, r) /\ UNCHANGED <<pending, future, grants, audit, hostUp, taken, now>>
      BY <1>7 DEF RewriteAll
    <2> HIDE DEF s
    <2>3. /\ r \in CallType /\ r.pc = s /\ r.decision = call[c].decision /\ r.answer = call[c].answer
          /\ r.tool = call[c].tool /\ r.conv = call[c].conv /\ r.who = call[c].who
      BY <2>1 DEF Types, CallType
    <2> HIDE DEF r
    <2>6. StepOf(c, r, {}, {})
      BY <1>7, <2>1, <2>2, <2>3 DEF RewriteAll, StepOf, Types, AnsweredByAddressees, OpenQuestions, MayAnswer, Yes
    <2> QED
      BY <2>6, CallSteps
  <1>8. ASSUME NEW c \in Calls, HangsUpBetween(c) PROVE GateInv'
    <2> DEFINE r == [call[c] EXCEPT !.pc = IF call[c].pc \in {"posting", "closing"} THEN "abandoned" ELSE "gone"]
    <2>1. /\ r \in CallType /\ r.pc = (IF call[c].pc \in {"posting", "closing"} THEN "abandoned" ELSE "gone")
          /\ r.decision = call[c].decision /\ r.answer = call[c].answer
          /\ r.tool = call[c].tool /\ r.conv = call[c].conv /\ r.who = call[c].who
      BY <1>8 DEF HangsUpBetween, Types, CallType, Steps, Decisions
    <2>2. Becomes(c, r) /\ UNCHANGED <<pending, card, future, grants, audit, hostUp, taken, now>>
      BY <1>8 DEF HangsUpBetween
    <2> HIDE DEF r
    <2>6. StepOf(c, r, {}, {})
      BY <1>8, <2>1, <2>2 DEF HangsUpBetween, StepOf, Types, AnsweredByAddressees, OpenQuestions, MayAnswer, Yes
    <2> QED
      BY <2>6, CallSteps
  <1>9. ASSUME NEW c \in Calls, Record(c) PROVE GateInv'
    <2> DEFINE r == [call[c] EXCEPT !.pc = "done"]
    <2>1. /\ r \in CallType /\ r.pc = "done" /\ r.decision = call[c].decision /\ r.answer = call[c].answer
          /\ r.tool = call[c].tool /\ r.conv = call[c].conv /\ r.who = call[c].who
      BY <1>9 DEF Record, Types, CallType, Steps, Decisions
    <2>2. Becomes(c, r) /\ UNCHANGED <<pending, card, future, grants, hostUp, taken, now>>
      BY <1>9 DEF Record
    <2> HIDE DEF r
    <2>6. StepOf(c, r, {}, {Row(c)})
      BY <1>9, <2>1, <2>2 DEF Record, StepOf, Types, AnsweredByAddressees, OpenQuestions, MayAnswer, Yes, Row, RowType, CallType, Answers
    <2> QED
      BY <2>6, CallSteps
  <1>10. ASSUME NEW c \in Calls, HangsUpWriting(c), call[c].pc = "recording" PROVE GateInv'
    <2> DEFINE r == [call[c] EXCEPT !.pc = "gone"]
    <2>1. /\ r \in CallType /\ r.pc = "gone" /\ r.decision = call[c].decision /\ r.answer = call[c].answer
          /\ r.tool = call[c].tool /\ r.conv = call[c].conv /\ r.who = call[c].who
      BY <1>10 DEF HangsUpWriting, Types, CallType, Steps, Decisions
    <2>2. Becomes(c, r) /\ UNCHANGED <<pending, card, future, grants, hostUp, taken, now>>
      BY <1>10 DEF HangsUpWriting
    <2> HIDE DEF r
    <2>6. StepOf(c, r, {}, {Row(c)})
      BY <1>10, <2>1, <2>2 DEF HangsUpWriting, StepOf, Types, AnsweredByAddressees, OpenQuestions, MayAnswer, Yes, Row, RowType, CallType, Answers
    <2> QED
      BY <2>6, CallSteps
  <1>11. ASSUME NEW c \in Calls, Abandon(c) PROVE GateInv'
    <2> DEFINE r == [call[c] EXCEPT !.pc = "gone"]
    <2>1. /\ r \in CallType /\ r.pc = "gone" /\ r.decision = call[c].decision /\ r.answer = call[c].answer
          /\ r.tool = call[c].tool /\ r.conv = call[c].conv /\ r.who = call[c].who
      BY <1>11 DEF Abandon, Types, CallType, Steps, Decisions
    <2>2. Becomes(c, r) /\ UNCHANGED <<pending, card, future, grants, hostUp, taken, now>>
      BY <1>11 DEF Abandon
    <2> HIDE DEF r
    <2>6. StepOf(c, r, {}, {[call |-> c, decision |-> "abandoned", by |-> Nobody]})
      BY <1>11, <2>1, <2>2 DEF Abandon, StepOf, Types, AnsweredByAddressees, OpenQuestions, MayAnswer, Yes, RowType
    <2> QED
      BY <2>6, CallSteps
  <1>12. ASSUME NEW c \in Calls, OpenWindow(c) PROVE GateInv'
    <2> DEFINE r == [call[c] EXCEPT !.pc = "recording"]
    <2>1. /\ r \in CallType /\ r.pc = "recording" /\ r.decision = call[c].decision /\ r.answer = call[c].answer
          /\ r.tool = call[c].tool /\ r.conv = call[c].conv /\ r.who = call[c].who
      BY <1>12 DEF OpenWindow, Types, CallType, Steps, Decisions
    <2>2. Becomes(c, r) /\ UNCHANGED <<pending, card, future, audit, hostUp, taken, now>>
      BY <1>12 DEF OpenWindow
    <2> HIDE DEF r
    <2>6. StepOf(c, r, {Window(c)}, {})
      BY <1>12, <2>1, <2>2, WindowOpens DEF OpenWindow, StepOf, Types, AnsweredByAddressees, OpenQuestions, MayAnswer, Yes
    <2> QED
      BY <2>6, CallSteps
  <1>13. ASSUME NEW c \in Calls, HangsUpWriting(c), call[c].pc = "opening" PROVE GateInv'
    <2> DEFINE r == [call[c] EXCEPT !.pc = "gone"]
    <2>1. /\ r \in CallType /\ r.pc = "gone" /\ r.decision = call[c].decision /\ r.answer = call[c].answer
          /\ r.tool = call[c].tool /\ r.conv = call[c].conv /\ r.who = call[c].who
      BY <1>13 DEF HangsUpWriting, Types, CallType, Steps, Decisions
    <2>2. Becomes(c, r) /\ UNCHANGED <<pending, card, future, audit, hostUp, taken, now>>
      BY <1>13 DEF HangsUpWriting
    <2> HIDE DEF r
    <2>6. StepOf(c, r, {Window(c)}, {})
      BY <1>13, <2>1, <2>2, WindowOpens DEF HangsUpWriting, StepOf, Types, AnsweredByAddressees, OpenQuestions, MayAnswer, Yes
    <2> QED
      BY <2>6, CallSteps
  <1>14. ASSUME NEW c \in Calls, NEW tool \in Tools, NEW k \in Convs, Confirm(c, tool, k) PROVE GateInv'
    <2>1. PICK x \in CallType : x = call[c]
      BY DEF Types
    <2>2. PICK r \in CallType :
             /\ Becomes(c, r) /\ r.tool = tool /\ r.conv = k /\ r.answer = call[c].answer
             /\ \/ /\ r.pc = "recording" /\ r.decision \in {"reused_grant", "no_approver"} /\ UNCHANGED pending
                   /\ r.decision = "reused_grant" => tool \in Grantable /\ LiveGrant(tool, k) # {}
                \/ /\ r.pc = "posting" /\ r.decision = call[c].decision /\ r.who = Addressed(k)
                   /\ pending' = pending \cup {c}
      <3>1. CASE /\ tool \in Grantable /\ LiveGrant(tool, k) # {} /\ UNCHANGED pending
                 /\ Becomes(c, [x EXCEPT !.tool = tool, !.conv = k, !.pc = "recording", !.decision = "reused_grant"])
        <4> DEFINE r == [x EXCEPT !.tool = tool, !.conv = k, !.pc = "recording", !.decision = "reused_grant"]
        <4>2. r \in CallType /\ r.tool = tool /\ r.conv = k /\ r.answer = x.answer /\ r.pc = "recording" /\ r.decision = "reused_grant"
          BY <2>1 DEF CallType, Steps, Decisions
        <4>3. Becomes(c, r)
          BY <3>1
        <4> HIDE DEF r
        <4> QED
          BY <2>1, <3>1, <4>2, <4>3
      <3>2. CASE /\ UNCHANGED pending
                 /\ Becomes(c, [x EXCEPT !.tool = tool, !.conv = k, !.pc = "recording", !.decision = "no_approver"])
        <4> DEFINE r == [x EXCEPT !.tool = tool, !.conv = k, !.pc = "recording", !.decision = "no_approver"]
        <4>2. r \in CallType /\ r.tool = tool /\ r.conv = k /\ r.answer = x.answer /\ r.pc = "recording" /\ r.decision = "no_approver"
          BY <2>1 DEF CallType, Steps, Decisions
        <4>3. Becomes(c, r)
          BY <3>2
        <4> HIDE DEF r
        <4> QED
          BY <2>1, <3>2, <4>2, <4>3
      <3>3. CASE /\ pending' = pending \cup {c}
                 /\ Becomes(c, [x EXCEPT !.tool = tool, !.conv = k, !.pc = "posting", !.who = Addressed(k), !.left = ShownIn[k]])
        <4> DEFINE r == [x EXCEPT !.tool = tool, !.conv = k, !.pc = "posting", !.who = Addressed(k), !.left = ShownIn[k]]
        <4>1. /\ Addressed(k) \in SUBSET (UNION {Addressed(j) : j \in Convs})
              /\ ShownIn[k] \in SUBSET (UNION {ShownIn[j] : j \in Convs})
          OBVIOUS
        <4>2. r \in CallType /\ r.tool = tool /\ r.conv = k /\ r.answer = x.answer /\ r.pc = "posting" /\ r.decision = x.decision /\ r.who = Addressed(k)
          BY <4>1, <2>1 DEF CallType, Steps, Decisions
        <4>3. Becomes(c, r)
          BY <3>3
        <4> HIDE DEF r
        <4> QED
          BY <2>1, <3>3, <4>2, <4>3
      <3> QED
        BY <1>14, <2>1, <3>1, <3>2, <3>3 DEF Confirm
    <2>3. /\ UNCHANGED <<future, card, grants, audit, hostUp, taken, now>> /\ call[c].pc = "idle" /\ c \notin pending
      BY <1>14 DEF Confirm, OpenQuestions
    <2>4. call' \in [Calls -> CallType] /\ call'[c] = r /\ \A d \in Calls : d # c => call'[d] = call[d]
      BY <2>2 DEF Types, Becomes
    <2>5. /\ \A d \in Calls : \A p : d # c => (MayAnswer(d, p)' <=> MayAnswer(d, p))
          /\ \A d \in Calls : d # c => Row(d)' = Row(d)
      BY <2>4 DEF MayAnswer, Row
    <2>6. Types'
      BY <2>2, <2>3, <2>4 DEF Types
    <2>7. OpenQuestions'
      BY <2>2, <2>3, <2>4 DEF Types, OpenQuestions
    <2>8. AnsweredByAddressees'
      BY <2>2, <2>3, <2>4, <2>5 DEF Types, AnsweredByAddressees, OpenQuestions, Yes
    <2>9. Windows'
      BY <2>2, <2>3, <2>4 DEF Types, Windows, OpenQuestions, LiveGrant
    <2>10. Ledger'
      <3>1. \A a \in audit : a.call \in Calls /\ a.call # c
        BY <2>3 DEF Types, RowType, Ledger
      <3> QED
        BY <2>2, <2>3, <2>4, <2>5, <3>1 DEF Types, Ledger
    <2> QED
      BY <2>6, <2>7, <2>8, <2>9, <2>10
  <1>15. ASSUME NEW c \in Calls, NEW p \in People, NEW a \in Controls(c), ClickReaches(c, p, a) \/ ReplyLost(c, p, a)
         PROVE  GateInv'
    <2> DEFINE answer == [by |-> p, value |-> a.value, window |-> a.window]
    <2>1. answer \in Answers /\ answer.value # "none" /\ answer.by = p
      <3>1. PICK w \in Nat, v \in {"once", "deny", "grant"} : a = [value |-> v, window |-> w]
        <4>1. Offers(call[c].tool) \subseteq Nat
          BY DEF Offers, GateAssumptions
        <4> QED
          BY <1>15, <4>1 DEF Controls
      <3> QED
        BY <3>1 DEF Answers
    <2> HIDE DEF answer
    <2>2. UNCHANGED <<call, card, grants, audit, hostUp, now>> /\ c \in pending
      BY <1>15 DEF ClickReaches, ReplyLost
    <2>3. /\ \A d \in Calls : \A q : MayAnswer(d, q)' <=> MayAnswer(d, q)
          /\ \A d \in Calls : Row(d)' = Row(d)
      BY <2>2 DEF MayAnswer, Row
    <2>4. \/ UNCHANGED <<pending, future, taken>>
          \/ /\ MayAnswer(c, p) /\ pending' = pending \ {c} /\ future' = [future EXCEPT ![c] = answer]
             /\ UNCHANGED taken \/ taken' = [taken EXCEPT ![c] = @ + 1]
      BY <1>15 DEF ClickReaches, ReplyLost, Resolve, answer
    <2>5. Types'
      BY <2>1, <2>2, <2>4 DEF Types
    <2>6. OpenQuestions'
      BY <2>2, <2>4 DEF Types, OpenQuestions
    <2>7. AnsweredByAddressees'
      BY <2>1, <2>2, <2>3, <2>4 DEF Types, AnsweredByAddressees
    <2>8. Windows' /\ Ledger'
      <3>1. \A x \in audit : x.call \in Calls
        BY DEF Types, RowType
      <3> QED
        BY <2>2, <2>3, <3>1 DEF Windows, Ledger
    <2> QED
      BY <2>5, <2>6, <2>7, <2>8
  <1>16. ASSUME NEW g \in grants, Revoke(g) PROVE GateInv'
    <2> DEFINE h == [g EXCEPT !.revoked = TRUE]
    <2>1. h \in GrantType /\ h.tool = g.tool /\ h.conv = g.conv /\ h.by = g.by
      BY DEF Types, GrantType
    <2>2. grants' = (grants \ {g}) \cup {h} /\ UNCHANGED <<call, pending, future, card, audit, hostUp, taken, now>>
      BY <1>16 DEF Revoke
    <2> HIDE DEF h
    <2>3. /\ \A d \in Calls : \A q : MayAnswer(d, q)' <=> MayAnswer(d, q)
          /\ \A d \in Calls : Row(d)' = Row(d)
      BY <2>2 DEF MayAnswer, Row
    <2>4. Types' /\ OpenQuestions'
      BY <2>1, <2>2 DEF Types, OpenQuestions
    <2>5. AnsweredByAddressees' /\ Ledger'
      <3>1. \A a \in audit : a.call \in Calls
        BY DEF Types, RowType
      <3> QED
        BY <2>2, <2>3, <3>1 DEF AnsweredByAddressees, Ledger
    <2>6. Windows'
      BY <2>1, <2>2 DEF Windows, ByAddressee
    <2> QED
      BY <2>4, <2>5, <2>6
  <1>17. ASSUME Tick PROVE GateInv'
    <2>1. Types'
      BY <1>17 DEF Tick, Types, GateAssumptions
    <2> QED
      BY <1>17, <2>1 DEF Tick, OpenQuestions, AnsweredByAddressees, Windows, Ledger, MayAnswer, Row
  <1>18. ASSUME NEW r \in GateHosts, HostDies(r) PROVE GateInv'
    <2>1. PICK gone \in [Calls -> CallType] :
             /\ call' = gone
             /\ \A d \in Calls : \/ gone[d] = call[d]
                                 \/ /\ call[d].pc \notin {"idle", "done", "gone"} /\ gone[d].pc = "gone"
                                    /\ gone[d].tool = call[d].tool /\ gone[d].conv = call[d].conv /\ gone[d].who = call[d].who
                                    /\ gone[d].answer = call[d].answer /\ gone[d].decision = call[d].decision
      <3> DEFINE next(d) == IF HostOf[d] = r /\ Running(d) THEN [call[d] EXCEPT !.pc = "gone"] ELSE call[d]
      <3>1. ASSUME NEW d \in Calls
            PROVE  /\ next(d) \in CallType
                   /\ \/ next(d) = call[d]
                      \/ /\ call[d].pc \notin {"idle", "done", "gone"} /\ next(d).pc = "gone"
                         /\ next(d).tool = call[d].tool /\ next(d).conv = call[d].conv /\ next(d).who = call[d].who
                         /\ next(d).answer = call[d].answer /\ next(d).decision = call[d].decision
        <4>1. PICK x \in CallType : x = call[d]
          BY DEF Types
        <4>2. next(d) = x \/ (next(d) = [x EXCEPT !.pc = "gone"] /\ call[d].pc \notin {"idle", "done", "gone"})
          BY <4>1 DEF Running
        <4> HIDE DEF next
        <4> QED
          BY <4>1, <4>2 DEF CallType, Steps
      <3>2. call' = [d \in Calls |-> next(d)]
        BY <1>18 DEF HostDies
      <3> HIDE DEF next
      <3> QED
        BY <3>1, <3>2
    <2>2. pending' \subseteq pending /\ hostUp' \subseteq hostUp /\ UNCHANGED <<future, card, grants, audit, taken, now>>
      BY <1>18 DEF HostDies
    <2>3. /\ \A d \in Calls : \A q : MayAnswer(d, q)' <=> MayAnswer(d, q)
          /\ \A d \in Calls : Row(d)' = Row(d)
      BY <2>1 DEF MayAnswer, Row
    <2>4. Types' /\ OpenQuestions'
      BY <2>1, <2>2 DEF Types, OpenQuestions
    <2>5. AnsweredByAddressees'
      BY <2>1, <2>2, <2>3 DEF AnsweredByAddressees
    <2>6. Windows'
      BY <2>1, <2>2 DEF Windows
    <2>7. Ledger'
      <3>1. \A a \in audit : a.call \in Calls
        BY DEF Types, RowType
      <3> QED
        BY <2>1, <2>2, <2>3, <3>1 DEF Ledger
    <2> QED
      BY <2>4, <2>5, <2>6, <2>7
  <1>19. CASE UNCHANGED gateVars
    BY <1>19 DEF gateVars, Types, OpenQuestions, AnsweredByAddressees, Windows, Ledger, MayAnswer, Row
  <1> QED
    <2>1. ASSUME NEW c \in Calls, Posted(c) PROVE GateInv'
      BY <2>1, <1>2, <1>3
    <2>2. ASSUME NEW c \in Calls, HangsUpWriting(c) PROVE GateInv'
      BY <2>2, <1>10, <1>13 DEF HangsUpWriting
    <2> QED
      BY <1>1, <2>1, <1>4, <1>5, <1>6, <1>7, <1>8, <1>9, <2>2, <1>11, <1>12, <1>14, <1>15, <1>16, <1>17, <1>18, <1>19
         DEF Next, Proceeds

(* The gate's promise (toolgate.py confirm, pending.py resolve), for any    *)
(* calls, replicas, tools, conversations and people.                        *)
THEOREM CallsRunOnAnswersAlways == ASSUME GateAssumptions PROVE Spec => []CallsRunOnAnswers
  <1>1. Init => GateInv
    BY GateInit
  <1>2. GateInv /\ [Next]_gateVars => GateInv'
    BY GateStep
  <1>3. GateInv => CallsRunOnAnswers
    <2> SUFFICES ASSUME GateInv PROVE CallsRunOnAnswers
      OBVIOUS
    <2> USE DEF GateInv
    <2>1. TypeOK
      BY DEF TypeOK, Types, CallType, Steps, RowType
    <2>2. RunsOnAYes
      BY DEF RunsOnAYes, Ran, AnsweredByAddressees, Windows, ByAddressee, Yes
    <2>3. NoQuestionAfterTheWait /\ OneAnswerTaken
      BY DEF NoQuestionAfterTheWait, OneAnswerTaken, OpenQuestions
    <2>4. LedgerSaysWhatRan
      <3> SUFFICES ASSUME NEW c \in Calls
                   PROVE  LET entries == {a \in audit : a.call = c} IN
                          /\ Cardinality(entries) <= 1
                          /\ call[c].pc = "done" => entries = {Row(c)}
                          /\ \A a \in entries : a.decision \in {"approved_once", "approved_grant"} => MayAnswer(c, a.by)
        BY DEF LedgerSaysWhatRan
      <3> DEFINE entries == {a \in audit : a.call = c}
      <3>1. entries = {} \/ \E a \in audit : entries = {a}
        BY DEF Ledger
      <3>2. Cardinality(entries) <= 1
        <4>1. CASE entries = {}
          BY <4>1, FS_EmptySet
        <4>2. ASSUME NEW a \in audit, entries = {a} PROVE Cardinality(entries) = 1
          BY <4>2, FS_Singleton
        <4> HIDE DEF entries
        <4> QED
          BY <3>1, <4>1, <4>2
      <3>3. call[c].pc = "done" => entries = {Row(c)}
        <4>1. Row(c).call = c
          BY DEF Row
        <4> QED
          BY <4>1 DEF Ledger
      <3>4. \A a \in entries : a.decision \in {"approved_once", "approved_grant"} => MayAnswer(c, a.by)
        BY DEF Ledger, Yes
      <3> QED
        BY <3>2, <3>3, <3>4
    <2> QED
      BY <2>1, <2>2, <2>3, <2>4 DEF CallsRunOnAnswers
  <1> QED
    BY <1>1, <1>2, <1>3, PTL DEF Spec

-----------------------------------------------------------------------------
(***************************************************************************)
(* For any sockets, frames and buffer limit: a connected service is reached *)
(* over its latest socket, no frame reaches it twice, and every frame is    *)
(* accounted for, but those handed to a peer that had gone.                 *)
(***************************************************************************)

(* _BUFFER_LIMIT is positive. *)
WsAssumptions == Limit \in Nat \ {0} /\ NoSocket \notin Sockets

-----------------------------------------------------------------------------
(* What the two ends of a queue do to what is in it. *)

Distinct(s) == \A i, j \in DOMAIN s : i # j => s[i] # s[j]

(* s has nothing twice that is not of U. *)
OnceBut(s, U) == \A i, j \in DOMAIN s : i # j => s[i] # s[j] \/ s[i] \in U

LEMMA AppendAdds ==
    ASSUME NEW S, NEW s \in Seq(S), NEW e \in S, NEW U
    PROVE  /\ Append(s, e) \in Seq(S) /\ Len(Append(s, e)) = Len(s) + 1
           /\ ToSet(Append(s, e)) = ToSet(s) \cup {e}
           /\ Distinct(s) /\ e \notin ToSet(s) => Distinct(Append(s, e))
           /\ OnceBut(s, U) /\ (e \notin ToSet(s) \/ e \in U) => OnceBut(Append(s, e), U)
  <1>0. /\ Append(s, e) \in Seq(S) /\ Len(Append(s, e)) = Len(s) + 1 /\ Len(s) \in Nat
        /\ DOMAIN s = 1..Len(s) /\ DOMAIN Append(s, e) = 1..(Len(s) + 1)
        /\ \A i \in DOMAIN s : i \in DOMAIN Append(s, e) /\ Append(s, e)[i] = s[i]
        /\ Append(s, e)[Len(s) + 1] = e
    OBVIOUS
  <1>1. ToSet(Append(s, e)) = ToSet(s) \cup {e}
    <2>1. ToSet(s) \cup {e} \subseteq ToSet(Append(s, e))
      BY <1>0 DEF ToSet
    <2>2. \A i \in DOMAIN Append(s, e) : i \in DOMAIN s \/ i = Len(s) + 1
      BY <1>0
    <2> QED
      BY <1>0, <2>1, <2>2 DEF ToSet
  <1>2. Distinct(s) /\ e \notin ToSet(s) => Distinct(Append(s, e))
    BY DEF ToSet, Distinct
  <1>3. OnceBut(s, U) /\ (e \notin ToSet(s) \/ e \in U) => OnceBut(Append(s, e), U)
    BY DEF ToSet, OnceBut
  <1> QED
    BY <1>0, <1>1, <1>2, <1>3

LEMMA TailTakes ==
    ASSUME NEW S, NEW s \in Seq(S), s # <<>>
    PROVE  /\ Tail(s) \in Seq(S) /\ Len(Tail(s)) = Len(s) - 1 /\ Head(s) \in S
           /\ ToSet(s) = ToSet(Tail(s)) \cup {Head(s)}
           /\ Distinct(s) => Distinct(Tail(s)) /\ Head(s) \notin ToSet(Tail(s))
  <1>1. /\ Tail(s) \in Seq(S) /\ Len(Tail(s)) = Len(s) - 1 /\ Head(s) \in S
        /\ \A i \in 1..Len(Tail(s)) : Tail(s)[i] = s[i + 1]
        /\ Head(s) = s[1] /\ Len(s) \in Nat \ {0} /\ DOMAIN s = 1..Len(s) /\ DOMAIN Tail(s) = 1..Len(Tail(s))
    OBVIOUS
  <1>2. \A j \in DOMAIN s : j = 1 \/ (j - 1 \in DOMAIN Tail(s) /\ Tail(s)[j - 1] = s[j])
    BY <1>1
  <1>3. \A i \in DOMAIN Tail(s) : i + 1 \in DOMAIN s /\ Tail(s)[i] = s[i + 1] /\ 1 \in DOMAIN s /\ i + 1 # 1
    BY <1>1
  <1>4. ToSet(s) = ToSet(Tail(s)) \cup {Head(s)}
    BY <1>1, <1>2, <1>3 DEF ToSet
  <1>5. ASSUME Distinct(s) PROVE Head(s) \notin ToSet(Tail(s))
    BY <1>1, <1>3, <1>5 DEF ToSet, Distinct
  <1>6. ASSUME Distinct(s) PROVE Distinct(Tail(s))
    BY <1>1, <1>3, <1>6 DEF Distinct
  <1> QED
    BY <1>1, <1>4, <1>5, <1>6

-----------------------------------------------------------------------------
Stages == {"none", "superseding", "flushing", "open", "over"}
Socket == [st : Stages, peer : BOOLEAN, closed : BOOLEAN]

WsTypes ==
    /\ conn \in Sockets \cup {NoSocket}
    /\ socket \in [Sockets -> Socket]
    /\ buffer \in Seq(Frames) /\ Len(buffer) <= Limit
    /\ sending \in [Frames -> [pc : {"none", "sending", "done"}, on : Sockets \cup {NoSocket}]]
    /\ received \in Seq(Frames)

LEMMA SocketBecomes ==
    ASSUME NEW x \in Socket, NEW v
    PROVE  /\ [x EXCEPT !.st = v] = [st |-> v, peer |-> x.peer, closed |-> x.closed]
           /\ [x EXCEPT !.peer = v] = [st |-> x.st, peer |-> v, closed |-> x.closed]
           /\ [x EXCEPT !.closed = v] = [st |-> x.st, peer |-> x.peer, closed |-> v]
  BY DEF Socket

(* A frame waits or was received once, and then its delivery is over; one   *)
(* that does both was handed to a peer that went.                           *)
OnePlacePerFrame ==
    /\ Distinct(buffer) /\ OnceBut(received, unsure)
    /\ ToSet(buffer) \cap ToSet(received) \subseteq unsure
    /\ \A f \in ToSet(buffer) \cup ToSet(received) : sending[f].pc = "done"

WsInv == WsTypes /\ ConnectedIsReached /\ OnePlacePerFrame /\ FramesAreAccounted

LEMMA WsInvInit == WsAssumptions /\ WsInit => WsInv
  BY DEF WsAssumptions, WsInit, WsInv, WsTypes, Stages, Socket, ConnectedIsReached, OnePlacePerFrame, FramesAreAccounted,
         Distinct, OnceBut, ToSet

(* A frame goes into the buffer: the oldest makes room in a full one.  The  *)
(* service may have got it all the same, when its end went.                 *)
LEMMA BufferedKeeps ==
    ASSUME WsAssumptions, WsInv, NEW f \in Frames, sending[f].pc # "done", Buffered(f),
           NEW on \in Sockets \cup {NoSocket}, sending' = [sending EXCEPT ![f] = [pc |-> "done", on |-> on]],
           UNCHANGED <<received, unsure>> \/ (received' = Append(received, f) /\ unsure' = unsure \cup {f})
    PROVE  /\ buffer' \in Seq(Frames) /\ Len(buffer') <= Limit /\ received' \in Seq(Frames)
           /\ OnePlacePerFrame' /\ FramesAreAccounted'
  <1> DEFINE kept == IF Len(buffer) = Limit THEN Tail(buffer) ELSE buffer
  <1>1. /\ kept \in Seq(Frames) /\ Len(kept) < Limit /\ Distinct(kept)
        /\ ToSet(kept) \subseteq ToSet(buffer) /\ ToSet(buffer) \subseteq ToSet(kept) \cup dropped'
    BY TailTakes DEF WsAssumptions, WsInv, WsTypes, OnePlacePerFrame, Buffered
  <1>2. buffer' = Append(kept, f) /\ dropped \subseteq dropped'
    BY DEF Buffered
  <1>3. f \notin ToSet(buffer) /\ f \notin ToSet(received)
    BY DEF WsInv, OnePlacePerFrame
  <1> HIDE DEF kept
  <1>4. /\ buffer' \in Seq(Frames) /\ Len(buffer') <= Limit
        /\ ToSet(buffer') = ToSet(kept) \cup {f} /\ Distinct(buffer')
    BY <1>1, <1>2, <1>3, AppendAdds DEF WsAssumptions
  <1>5. \A g \in Frames : sending'[g].pc = IF g = f THEN "done" ELSE sending[g].pc
    BY DEF WsInv, WsTypes
  <1>6. ToSet(buffer) \subseteq Frames /\ ToSet(received) \subseteq Frames
    BY DEF WsInv, WsTypes, ToSet
  <1>7. /\ received' \in Seq(Frames) /\ OnceBut(received', unsure') /\ unsure \subseteq unsure'
        /\ ToSet(received) \subseteq ToSet(received')
        /\ ToSet(received') \subseteq ToSet(received) \cup {f} /\ (f \in ToSet(received') => f \in unsure')
    <2>1. CASE UNCHANGED <<received, unsure>>
      BY <1>3, <2>1 DEF WsInv, WsTypes, OnePlacePerFrame
    <2>2. CASE received' = Append(received, f) /\ unsure' = unsure \cup {f}
      <3>1. received \in Seq(Frames) /\ OnceBut(received, unsure')
        BY <2>2 DEF WsInv, WsTypes, OnePlacePerFrame, OnceBut
      <3> QED
        BY <2>2, <3>1, AppendAdds
    <2> QED
      BY <2>1, <2>2
  <1>8. OnePlacePerFrame'
    BY <1>1, <1>3, <1>4, <1>5, <1>6, <1>7 DEF WsInv, OnePlacePerFrame
  <1>9. FramesAreAccounted'
    BY <1>1, <1>2, <1>4, <1>5, <1>7 DEF WsInv, FramesAreAccounted
  <1> QED
    BY <1>4, <1>7, <1>8, <1>9

(* A frame is received, or lost: to a peer that had gone, or with a flush. *)
LEMMA HandledKeeps ==
    ASSUME WsInv, NEW f \in Frames, f \notin ToSet(buffer'),
           buffer' \in Seq(Frames), ToSet(buffer') \subseteq ToSet(buffer), ToSet(buffer) \subseteq ToSet(buffer') \cup {f},
           Distinct(buffer'), \A g \in Frames : sending'[g].pc = IF g = f THEN "done" ELSE sending[g].pc,
           \/ /\ f \notin ToSet(received) \/ f \in unsure
              /\ received' = Append(received, f) /\ UNCHANGED <<dropped, unsure>>
           \/ /\ f \in unsure' \cup dropped'
              /\ unsure \subseteq unsure' /\ dropped \subseteq dropped' /\ UNCHANGED received
    PROVE  received' \in Seq(Frames) /\ OnePlacePerFrame' /\ FramesAreAccounted'
  <1>1. ToSet(buffer) \subseteq Frames /\ ToSet(received) \subseteq Frames
    BY DEF WsInv, WsTypes, ToSet
  <1>2. /\ received' \in Seq(Frames) /\ OnceBut(received', unsure')
        /\ unsure \subseteq unsure' /\ dropped \subseteq dropped'
        /\ ToSet(received) \subseteq ToSet(received') /\ ToSet(received') \subseteq ToSet(received) \cup {f}
        /\ f \in ToSet(received') \cup unsure' \cup dropped'
    <2>1. CASE received' = Append(received, f) /\ UNCHANGED <<dropped, unsure>> /\ (f \notin ToSet(received) \/ f \in unsure)
      BY <2>1, AppendAdds DEF WsInv, WsTypes, OnePlacePerFrame
    <2>2. CASE /\ f \in unsure' \cup dropped'
               /\ unsure \subseteq unsure' /\ dropped \subseteq dropped' /\ UNCHANGED received
      BY <2>2 DEF WsInv, WsTypes, OnePlacePerFrame, OnceBut
    <2> QED
      BY <2>1, <2>2
  <1>3. OnePlacePerFrame'
    BY <1>1, <1>2 DEF WsInv, OnePlacePerFrame
  <1>4. FramesAreAccounted'
    BY <1>1, <1>2 DEF WsInv, FramesAreAccounted
  <1> QED
    BY <1>2, <1>3, <1>4

(* The frames are as they were. *)
LEMMA FramesKeep ==
    ASSUME WsInv, UNCHANGED <<buffer, received, dropped, unsure>>, \A g \in Frames : sending'[g].pc = sending[g].pc
    PROVE  OnePlacePerFrame' /\ FramesAreAccounted'
  <1>1. ToSet(buffer) \subseteq Frames /\ ToSet(received) \subseteq Frames
    BY DEF WsInv, WsTypes, ToSet
  <1> QED
    BY <1>1 DEF WsInv, OnePlacePerFrame, FramesAreAccounted

(* A step of one socket s that leaves the registration, or is of a handler  *)
(* that ends: the sockets no later one closed are still the registered one. *)
LEMMA SocketMoves ==
    ASSUME WsInv, NEW s \in Sockets, NEW r \in Socket, socket' = [socket EXCEPT ![s] = r], r.closed = socket[s].closed,
           r.st \in {"superseding", "flushing", "open"} => socket[s].st \in {"superseding", "flushing", "open"},
           conn' = conn \/ (conn' = Gone(s) /\ r.st = "over")
    PROVE  conn' \in Sockets \cup {NoSocket} /\ socket' \in [Sockets -> Socket] /\ ConnectedIsReached'
  <1>1. conn' \in Sockets \cup {NoSocket} /\ socket' \in [Sockets -> Socket]
    BY DEF WsInv, WsTypes, Gone
  <1>2. \A z \in Sockets : socket'[z] = IF z = s THEN r ELSE socket[z]
    BY DEF WsInv, WsTypes
  <1>3. ASSUME NEW z \in Sockets, socket'[z].st \in {"superseding", "flushing", "open"}, ~socket'[z].closed
        PROVE  conn' = z
    BY <1>2, <1>3 DEF WsInv, ConnectedIsReached, Gone
  <1> QED
    BY <1>1, <1>3 DEF ConnectedIsReached

LEMMA WsInvStep == ASSUME WsAssumptions, WsInv, [WsNext]_wsVars PROVE WsInv'
  <1>1. ASSUME NEW s \in Sockets, Connect(s) PROVE WsInv'
    <2>1. UNCHANGED <<buffer, received, dropped, unsure, sending>> /\ conn' = s
      BY <1>1 DEF Connect
    <2> DEFINE mine == [st |-> IF conn # NoSocket /\ ~socket[conn].closed THEN "superseding" ELSE "flushing",
                        peer |-> TRUE, closed |-> FALSE]
               old(z) == [st |-> socket[z].st, peer |-> socket[z].peer, closed |-> TRUE]
               next(z) == IF z = s THEN mine ELSE IF z = conn THEN old(z) ELSE socket[z]
    <2>2. \A z \in Sockets : socket[z] \in Socket /\ [socket[z] EXCEPT !.closed = TRUE] = old(z)
      BY SocketBecomes DEF WsInv, WsTypes
    <2>3. mine \in Socket /\ \A z \in Sockets : next(z) \in Socket
      BY <2>2 DEF Socket, Stages
    <2>4. socket' = [z \in Sockets |-> next(z)]
      BY <1>1, <2>2 DEF Connect
    <2>5. ASSUME NEW z \in Sockets, z # s, next(z).st \in {"superseding", "flushing", "open"} PROVE next(z).closed
      BY <2>5 DEF WsInv, ConnectedIsReached
    <2> HIDE DEF next, mine, old
    <2>6. WsTypes'
      BY <2>1, <2>3, <2>4 DEF WsInv, WsTypes
    <2>7. ConnectedIsReached'
      BY <2>1, <2>4, <2>5 DEF ConnectedIsReached
    <2> QED
      BY <2>1, <2>6, <2>7, FramesKeep DEF WsInv
  <1>2. ASSUME NEW s \in Sockets, Supersede(s) \/ Flushed(s) \/ Leave(s) \/ PeerGoes(s) PROVE WsInv'
    <2>1. UNCHANGED <<buffer, received, dropped, unsure, sending>>
      BY <1>2 DEF Supersede, Flushed, Leave, PeerGoes
    <2>2. socket[s] \in Socket
      BY DEF WsInv, WsTypes
    <2>3. PICK r \in Socket : /\ socket' = [socket EXCEPT ![s] = r] /\ r.closed = socket[s].closed
                              /\ r.st \in {"superseding", "flushing", "open"}
                                   => socket[s].st \in {"superseding", "flushing", "open"}
                              /\ conn' = conn \/ (conn' = Gone(s) /\ r.st = "over")
      <3> DEFINE to(a, p) == [st |-> a, peer |-> p, closed |-> socket[s].closed]
      <3>1. \A a \in Stages, p \in BOOLEAN : to(a, p) \in Socket
        BY <2>2 DEF Socket
      <3>2. CASE Supersede(s)
        <4>1. socket' = [socket EXCEPT ![s] = to("flushing", socket[s].peer)] /\ conn' = conn /\ socket[s].st \in {"superseding", "flushing"}
          BY <2>2, <3>2, SocketBecomes DEF Supersede
        <4>2. to("flushing", socket[s].peer) \in Socket
          BY <2>2, <3>1 DEF Socket, Stages
        <4> QED
          BY <4>1, <4>2
      <3>3. CASE Flushed(s)
        <4>1. socket' = [socket EXCEPT ![s] = to("open", socket[s].peer)] /\ conn' = conn /\ socket[s].st \in {"superseding", "flushing"}
          BY <2>2, <3>3, SocketBecomes DEF Flushed
        <4>2. to("open", socket[s].peer) \in Socket
          BY <2>2, <3>1 DEF Socket, Stages
        <4> QED
          BY <4>1, <4>2
      <3>4. CASE Leave(s)
        <4>1. socket' = [socket EXCEPT ![s] = to("over", socket[s].peer)] /\ conn' = Gone(s)
          BY <2>2, <3>4, SocketBecomes DEF Leave
        <4>2. to("over", socket[s].peer) \in Socket
          BY <2>2, <3>1 DEF Socket, Stages
        <4> QED
          BY <4>1, <4>2
      <3>5. CASE PeerGoes(s)
        <4>1. socket' = [socket EXCEPT ![s] = to(socket[s].st, FALSE)] /\ conn' = conn
          BY <2>2, <3>5, SocketBecomes DEF PeerGoes
        <4>2. to(socket[s].st, FALSE) \in Socket
          BY <2>2, <3>1 DEF Socket
        <4> QED
          BY <4>1, <4>2
      <3> QED
        BY <1>2, <3>2, <3>3, <3>4, <3>5
    <2>4. conn' \in Sockets \cup {NoSocket} /\ socket' \in [Sockets -> Socket] /\ ConnectedIsReached'
      BY <2>3, SocketMoves
    <2> QED
      BY <2>1, <2>4, FramesKeep DEF WsInv, WsTypes
  <1>3. ASSUME NEW s \in Sockets, Flush(s) PROVE WsInv'
    <2>1. /\ buffer' \in Seq(Frames) /\ Len(buffer') <= Limit /\ Head(buffer) \in Frames
          /\ ToSet(buffer) = ToSet(buffer') \cup {Head(buffer)}
          /\ Distinct(buffer') /\ Head(buffer) \notin ToSet(buffer')
          /\ Head(buffer) \notin ToSet(received) \/ Head(buffer) \in unsure
          /\ sending[Head(buffer)].pc = "done"
      BY <1>3, TailTakes DEF WsAssumptions, WsInv, WsTypes, OnePlacePerFrame, Flush
    <2>2. UNCHANGED <<conn, sending>> /\ socket[s].st = "flushing" /\ socket[s] \in Socket
      BY <1>3 DEF Flush, WsInv, WsTypes
    <2>3. \A g \in Frames : sending'[g].pc = IF g = Head(buffer) THEN "done" ELSE sending[g].pc
      BY <2>1, <2>2
    <2>4. CASE FlushSends(s)
      <3>1. received' \in Seq(Frames) /\ OnePlacePerFrame' /\ FramesAreAccounted'
        BY <2>1, <2>3, <2>4, HandledKeeps DEF FlushSends
      <3>2. UNCHANGED socket
        BY <2>4 DEF FlushSends
      <3> QED
        BY <2>1, <2>2, <3>1, <3>2 DEF WsInv, WsTypes, ConnectedIsReached
    <2>5. CASE FlushRaises(s)
      <3>1. received' \in Seq(Frames) /\ OnePlacePerFrame' /\ FramesAreAccounted'
        BY <2>1, <2>3, <2>5, HandledKeeps DEF FlushRaises
      <3> DEFINE r == [st |-> "over", peer |-> socket[s].peer, closed |-> socket[s].closed]
      <3>2. socket' = [socket EXCEPT ![s] = r] /\ r \in Socket /\ r.closed = socket[s].closed /\ r.st = "over"
        <4>1. socket' = [socket EXCEPT ![s] = r]
          BY <2>2, <2>5, SocketBecomes DEF FlushRaises
        <4> QED
          BY <2>2, <4>1 DEF Socket, Stages
      <3> HIDE DEF r
      <3>3. conn' \in Sockets \cup {NoSocket} /\ socket' \in [Sockets -> Socket] /\ ConnectedIsReached'
        BY <2>2, <3>2, SocketMoves
      <3> QED
        BY <2>1, <2>2, <3>1, <3>3 DEF WsInv, WsTypes
    <2> QED
      BY <1>3, <2>4, <2>5 DEF Flush
  <1>4. ASSUME NEW f \in Frames, Deliver(f) PROVE WsInv'
    <2>1. UNCHANGED <<conn, socket, received, unsure>> /\ sending[f].pc = "none"
      BY <1>4 DEF Deliver
    <2>2. CASE conn # NoSocket /\ ~socket[conn].closed
      <3>1. /\ sending' = [sending EXCEPT ![f] = [pc |-> "sending", on |-> conn]]
            /\ UNCHANGED <<buffer, dropped>>
        BY <1>4, <2>2 DEF Deliver
      <3>2. WsTypes' /\ ConnectedIsReached'
        BY <2>1, <3>1 DEF WsInv, WsTypes, ConnectedIsReached
      <3>3. OnePlacePerFrame'
        BY <2>1, <3>1 DEF WsInv, WsTypes, OnePlacePerFrame
      <3>4. FramesAreAccounted'
        BY <2>1, <3>1 DEF WsInv, WsTypes, FramesAreAccounted
      <3> QED
        BY <3>2, <3>3, <3>4 DEF WsInv
    <2>3. CASE ~(conn # NoSocket /\ ~socket[conn].closed)
      <3>1. Buffered(f) /\ sending' = [sending EXCEPT ![f] = [pc |-> "done", on |-> sending[f].on]]
        BY <1>4, <2>3 DEF Deliver, WsInv, WsTypes
      <3>2. sending[f].on \in Sockets \cup {NoSocket}
        BY DEF WsInv, WsTypes
      <3>3. /\ buffer' \in Seq(Frames) /\ Len(buffer') <= Limit
            /\ OnePlacePerFrame' /\ FramesAreAccounted'
        BY <2>1, <3>1, <3>2, BufferedKeeps
      <3> QED
        BY <2>1, <3>1, <3>2, <3>3 DEF WsInv, WsTypes, ConnectedIsReached
    <2> QED
      BY <2>2, <2>3
  <1>5. ASSUME NEW f \in Frames, SendEnds(f) PROVE WsInv'
    <2>0. sending[f] \in [pc : {"none", "sending", "done"}, on : Sockets \cup {NoSocket}]
      BY DEF WsInv, WsTypes
    <2>1. /\ UNCHANGED <<conn, socket>> /\ sending[f].pc = "sending"
          /\ sending' = [sending EXCEPT ![f] = [pc |-> "done", on |-> sending[f].on]]
          /\ sending[f].on \in Sockets \cup {NoSocket}
      <3>1. [sending[f] EXCEPT !.pc = "done"] = [pc |-> "done", on |-> sending[f].on]
        BY <2>0
      <3>2. UNCHANGED <<conn, socket>> /\ sending[f].pc = "sending" /\ sending' = [sending EXCEPT ![f].pc = "done"]
        BY <1>5 DEF SendEnds
      <3> QED
        BY <2>0, <3>1, <3>2
    <2>2. \A g \in Frames : sending'[g].pc = IF g = f THEN "done" ELSE sending[g].pc
      BY <2>1 DEF WsInv, WsTypes
    <2>3. /\ received' \in Seq(Frames) /\ buffer' \in Seq(Frames) /\ Len(buffer') <= Limit
          /\ OnePlacePerFrame' /\ FramesAreAccounted'
      <3>0. f \notin ToSet(buffer) /\ f \notin ToSet(received) /\ Distinct(buffer)
        BY <2>1 DEF WsInv, OnePlacePerFrame
      <3>1. CASE SendArrives(f, sending[f].on)
        <4>1. received' = Append(received, f) /\ UNCHANGED <<buffer, dropped, unsure>>
          BY <3>1 DEF SendArrives
        <4>2. /\ buffer' \in Seq(Frames) /\ Len(buffer') <= Limit
              /\ ToSet(buffer') \subseteq ToSet(buffer)
              /\ ToSet(buffer) \subseteq ToSet(buffer') \cup {f}
              /\ Distinct(buffer') /\ f \notin ToSet(buffer')
          BY <3>0, <4>1 DEF WsInv, WsTypes, Distinct
        <4> QED
          BY <2>2, <3>0, <4>1, <4>2, HandledKeeps
      <3>2. CASE SendFails(f, sending[f].on)
        BY <2>1, <3>2, BufferedKeeps DEF SendFails
      <3>3. CASE GoesNowhere(f, sending[f].on)
        <4>1. CASE UNCHANGED <<received, buffer, dropped>>
          BY <2>2, <3>0, <3>3, <4>1, HandledKeeps DEF GoesNowhere, WsInv, WsTypes
        <4>2. CASE received' = Append(received, f) /\ Buffered(f)
          BY <2>1, <3>3, <4>2, BufferedKeeps DEF GoesNowhere
        <4> QED
          BY <3>3, <4>1, <4>2 DEF GoesNowhere
      <3>4. SendArrives(f, sending[f].on) \/ SendFails(f, sending[f].on) \/ GoesNowhere(f, sending[f].on)
        BY <1>5 DEF SendEnds
      <3> QED
        BY <3>1, <3>2, <3>3, <3>4
    <2>4. sending' \in [Frames -> [pc : {"none", "sending", "done"}, on : Sockets \cup {NoSocket}]]
      BY <2>1 DEF WsInv, WsTypes
    <2> QED
      BY <2>1, <2>3, <2>4 DEF WsInv, WsTypes, ConnectedIsReached
  <1>6. CASE UNCHANGED wsVars
    BY <1>6, FramesKeep DEF wsVars, WsInv, WsTypes, ConnectedIsReached
  <1> QED
    BY <1>1, <1>2, <1>3, <1>4, <1>5, <1>6 DEF WsNext

(* What the hub promises of its frames (gateways/ws/hub.py _handle,         *)
(* _deliver), for any sockets, frames and buffer limit, over sends that     *)
(* fail or say nothing, sockets that supersede each other and peers that go *)
(* at any moment.                                                           *)
THEOREM FramesAreKeptAlways == ASSUME WsAssumptions PROVE WsSpec => []FramesAreKept
  <1>1. WsInit => WsInv
    BY WsInvInit
  <1>2. WsInv /\ [WsNext]_wsVars => WsInv'
    BY WsInvStep
  <1>3. WsInv => FramesAreKept
    BY DEF WsInv, WsTypes, Socket, Stages, OnePlacePerFrame, OnceBut, FramesAreKept, WsTypeOK, NoFrameTwice
  <1> QED
    BY <1>1, <1>2, <1>3, PTL DEF WsSpec

-----------------------------------------------------------------------------
(* Widgets and forms *)

QuestionType == [pc : {"idle", "posting", "shown", "waiting", "retracting", "answered", "declined", "gone"},
                 future : {"none", "clicked", "cancelled", "off"}, late : BOOLEAN]
FormType == [pc : {"idle", "posted", "open"}, button : BOOLEAN, early : BOOLEAN]
SubmitType == [pc : {"closed", "filling", "found", "deleted", "over"}, form : Forms \cup {NotAsked}]

QuestionTypes == question \in [Questions -> QuestionType] /\ waitingOn \in SUBSET Questions
ShownTypes ==
    /\ widget \in [Shown -> {"idle", "registered", "shown", "clicked", "refused"}]
    /\ rows \in SUBSET (Shown \cup Forms)
    /\ fed \in [Shown \cup Forms -> Nat]
FormTypes == form \in [Forms -> FormType] /\ submit \in [Submits -> SubmitType]

(* A question whose token is known has no answer yet and its turn waits for *)
(* one, or that turn is gone.                                               *)
Awaited ==
    \A q \in Questions :
        /\ question[q].late => question[q].pc = "gone"
        /\ question[q].pc = "idle" => question[q].future = "none"
        /\ q \in waitingOn => \/ question[q].pc = "gone"
                              \/ question[q].future = "none" /\ question[q].pc \in {"posting", "shown", "waiting"}

(* The row of a widget is there until its message is made. *)
Claimed ==
    \A w \in Shown :
        /\ widget[w] = "idle" \/ w \in rows => fed[w] = 0
        /\ fed[w] <= 1
        /\ widget[w] \in {"registered", "shown"} => w \in rows
        /\ widget[w] # "refused"

(* A dialog is of a registered form, a row too; the button of one that is   *)
(* not registered is up or was clicked too early.                           *)
DialogsOpen ==
    \A s \in Submits : IF submit[s].pc = "closed" THEN submit[s].form = NotAsked
                       ELSE submit[s].form \in Forms /\ form[submit[s].form].pc = "open"
RowsOpen == \A f \in Forms : f \in rows => form[f].pc = "open"
ButtonsUp == \A f \in Forms : form[f].pc = "posted" => form[f].button \/ form[f].early

Answerable == DialogsOpen /\ RowsOpen /\ ButtonsUp /\ FormStaysAnswerable

QuestionInv == QuestionTypes /\ Awaited
WidgetsInv == QuestionInv /\ ShownTypes /\ FormTypes /\ Claimed /\ Answerable

LEMMA WidgetsStart ==
    ASSUME WidgetsInit
    PROVE  WidgetsInv
  <1> USE DEF WidgetsInit
  <1>1. QuestionInv
    BY DEF QuestionInv, QuestionTypes, QuestionType, Awaited
  <1>2. ShownTypes /\ Claimed
    BY DEF ShownTypes, Claimed
  <1>3. FormTypes /\ Answerable
    BY DEF FormTypes, FormType, SubmitType, Answerable, DialogsOpen, RowsOpen, ButtonsUp, FormStaysAnswerable
  <1> QED
    BY <1>1, <1>2, <1>3 DEF WidgetsInv

(* One question becomes x. *)
QuestionBecomes(q, x) ==
    /\ question' \in [Questions -> QuestionType] /\ question'[q] = x
    /\ \A p \in Questions : p # q => question'[p] = question[p]

LEMMA QuestionMoves ==
    ASSUME QuestionTypes, NEW q \in Questions, NEW x \in QuestionType, question' = [question EXCEPT ![q] = x]
    PROVE  QuestionBecomes(q, x)
  BY DEF QuestionTypes, QuestionBecomes

LEMMA QuestionGoes ==
    ASSUME QuestionTypes, NEW q \in Questions,
           NEW pc \in {"posting", "shown", "waiting", "retracting", "answered", "declined", "gone"},
           question' = [question EXCEPT ![q].pc = pc]
    PROVE  \E x \in QuestionType : /\ x.pc = pc /\ x.future = question[q].future /\ x.late = question[q].late
                                   /\ QuestionBecomes(q, x)
  <1>1. PICK z \in QuestionType : z = question[q]
    BY DEF QuestionTypes
  <1> DEFINE x == [z EXCEPT !.pc = pc]
  <1>2. x \in QuestionType /\ x.pc = pc /\ x.future = z.future /\ x.late = z.late
    BY DEF QuestionType
  <1>3. question' = [question EXCEPT ![q] = x]
    BY <1>1
  <1> HIDE DEF x
  <1> QED
    BY <1>1, <1>2, <1>3, QuestionMoves

LEMMA QuestionIsResolved ==
    ASSUME QuestionInv, NEW q \in Questions, q \in waitingOn, NEW how \in {"clicked", "cancelled"},
           question' = Resolved(q, how), waitingOn' = waitingOn \ {q}
    PROVE  QuestionInv'
  <1> USE DEF QuestionInv
  <1>1. PICK z \in QuestionType : z = question[q]
    BY DEF QuestionTypes
  <1> DEFINE to == IF z.future = "none" THEN how ELSE z.future
             after == z.future = "none" /\ z.pc \notin {"posting", "shown", "waiting"}
             x == [z EXCEPT !.future = to, !.late = after]
  <1>2. question' = [question EXCEPT ![q] = x]
    BY <1>1 DEF Resolved
  <1>3. after \in BOOLEAN /\ to \in {"none", "clicked", "cancelled", "off"}
    BY <1>1 DEF QuestionType
  <1>4. x \in QuestionType /\ x.pc = z.pc /\ x.late = after
    BY <1>3 DEF QuestionType
  <1>5. z.pc # "idle" /\ (after => z.pc = "gone")
    BY <1>1 DEF Awaited
  <1> HIDE DEF x, to, after
  <1>6. QuestionBecomes(q, x)
    BY <1>2, <1>4, QuestionMoves
  <1> QED
    BY <1>4, <1>5, <1>6 DEF QuestionBecomes, QuestionTypes, Awaited

QuestionStep(q) == Ask(q) \/ Blocked(q) \/ CalledOff(q) \/ ClickAnswers(q)

LEMMA QuestionStepKeeps ==
    ASSUME QuestionInv, NEW q \in Questions, QuestionStep(q)
    PROVE  QuestionInv'
  <1> USE DEF QuestionInv
  <1>1. CASE Ask(q)
    <2>1. PICK x \in QuestionType : x.pc = "posting" /\ x.future = question[q].future /\ x.late = question[q].late
                                    /\ QuestionBecomes(q, x)
      BY <1>1, QuestionGoes DEF Ask
    <2> QED
      BY <1>1, <2>1 DEF Ask, QuestionBecomes, QuestionTypes, Awaited
  <1>0. CASE Appears(q)
    <2>1. PICK x \in QuestionType : x.pc = "shown" /\ x.future = question[q].future /\ x.late = question[q].late
                                    /\ QuestionBecomes(q, x)
      BY <1>0, QuestionGoes DEF Appears
    <2> QED
      BY <1>0, <2>1 DEF Appears, QuestionBecomes, QuestionTypes, Awaited
  <1>2. ASSUME NEW ok \in BOOLEAN, Posts(q, ok)
        PROVE  QuestionInv'
    <2>1. PICK x \in QuestionType : x.pc = (IF ok THEN "waiting" ELSE "declined") /\ x.future = question[q].future
                                    /\ x.late = question[q].late /\ QuestionBecomes(q, x)
      BY <1>2, QuestionGoes DEF Posts
    <2> QED
      BY <1>2, <2>1 DEF Posts, QuestionBecomes, QuestionTypes, Awaited
  <1>3. CASE QuestionTimesOut(q)
    <2>1. PICK x \in QuestionType : x.pc = "retracting" /\ x.future = question[q].future /\ x.late = question[q].late
                                    /\ QuestionBecomes(q, x)
      BY <1>3, QuestionGoes DEF QuestionTimesOut
    <2> QED
      BY <1>3, <2>1 DEF QuestionTimesOut, QuestionBecomes, QuestionTypes, Awaited
  <1>4. CASE GoesOn(q)
    <2>1. PICK x \in QuestionType : x.pc \in {"retracting", "answered"} /\ x.future = question[q].future
                                    /\ x.late = question[q].late /\ QuestionBecomes(q, x)
      BY <1>4, QuestionGoes DEF GoesOn
    <2> QED
      BY <1>4, <2>1 DEF GoesOn, QuestionBecomes, QuestionTypes, Awaited
  <1>5. CASE Retract(q)
    <2>1. PICK x \in QuestionType : x.pc = "declined" /\ x.future = question[q].future /\ x.late = question[q].late
                                    /\ QuestionBecomes(q, x)
      BY <1>5, QuestionGoes DEF Retract
    <2> QED
      BY <1>5, <2>1 DEF Retract, QuestionBecomes, QuestionTypes, Awaited
  <1>6. CASE CalledOff(q)
    <2>1. PICK z \in QuestionType : z = question[q]
      BY DEF QuestionTypes
    <2> DEFINE to == IF z.pc = "waiting" /\ z.future = "none" THEN "off" ELSE z.future
               x == [z EXCEPT !.pc = "gone", !.future = to]
    <2>2. question' = [question EXCEPT ![q] = x]
      BY <1>6, <2>1 DEF CalledOff
    <2>3. to \in {"none", "clicked", "cancelled", "off"}
      BY DEF QuestionType
    <2>4. x \in QuestionType /\ x.pc = "gone"
      BY <2>3 DEF QuestionType
    <2> HIDE DEF x, to
    <2>5. QuestionBecomes(q, x)
      BY <2>2, <2>4, QuestionMoves
    <2> QED
      BY <1>6, <2>4, <2>5 DEF CalledOff, QuestionBecomes, QuestionTypes, Awaited
  <1>7. CASE ClickAnswers(q)
    <2>1. CASE q \in waitingOn
      BY <1>7, <2>1, QuestionIsResolved DEF ClickAnswers
    <2>2. CASE q \notin waitingOn
      BY <1>7, <2>2 DEF ClickAnswers, QuestionTypes, Awaited
    <2> QED
      BY <2>1, <2>2
  <1> QED
    BY <1>0, <1>1, <1>2, <1>3, <1>4, <1>5, <1>6, <1>7 DEF QuestionStep, Blocked

LEMMA TypedKeeps ==
    ASSUME QuestionInv, NEW k, Typed(k)
    PROVE  QuestionInv'
  <1> USE DEF QuestionInv
  <1> DEFINE hit == {q \in waitingOn : ConvOfQ[q] = k /\ k \notin Keyed}
  <1>1. /\ waitingOn' = waitingOn \ hit
        /\ question' = [q \in Questions |-> IF q \in hit /\ question[q].future = "none"
                                            THEN [question[q] EXCEPT !.future = "cancelled"] ELSE question[q]]
    BY DEF Typed
  <1>2. hit \subseteq waitingOn
    OBVIOUS
  <1> HIDE DEF hit
  <1>3. ASSUME NEW q \in Questions
        PROVE  /\ question'[q] \in QuestionType /\ question'[q].pc = question[q].pc /\ question'[q].late = question[q].late
               /\ q \notin hit => question'[q] = question[q]
    <2>1. PICK z \in QuestionType : z = question[q]
      BY DEF QuestionTypes
    <2>2. [z EXCEPT !.future = "cancelled"] \in QuestionType /\ [z EXCEPT !.future = "cancelled"].pc = z.pc
          /\ [z EXCEPT !.future = "cancelled"].late = z.late
      BY DEF QuestionType
    <2>3. question'[q] = IF q \in hit /\ z.future = "none" THEN [z EXCEPT !.future = "cancelled"] ELSE z
      BY <1>1, <2>1
    <2> QED
      BY <2>1, <2>2, <2>3
  <1>4. QuestionTypes'
    <2>1. question' \in [Questions -> QuestionType]
      BY <1>1, <1>3
    <2> QED
      BY <1>1, <2>1 DEF QuestionTypes
  <1>5. \A q \in Questions : question[q].pc = "idle" => q \notin hit
    BY <1>2 DEF Awaited
  <1>6. Awaited'
    BY <1>1, <1>3, <1>5 DEF Awaited
  <1> QED
    BY <1>4, <1>6

ShownStep(w) == Register(w) \/ ShowWidget(w) \/ ClickWidget(w) \/ ClickInVain(w)

LEMMA ShownStepKeeps ==
    ASSUME WidgetsInv, NEW w \in Shown, ShownStep(w)
    PROVE  WidgetsInv'
  <1> USE DEF WidgetsInv
  <1>1. UNCHANGED <<question, waitingOn, form, submit>>
    BY DEF ShownStep, Register, ShowWidget, ClickWidget, ClickInVain
  <1>2. QuestionInv' /\ FormTypes'
    BY <1>1 DEF QuestionInv, QuestionTypes, Awaited, FormTypes
  <1>3. ShownTypes'
    BY DEF ShownStep, Register, ShowWidget, ClickWidget, ClickInVain, Take, ShownTypes
  <1>4. Claimed'
    BY DEF ShownStep, Register, ShowWidget, ClickWidget, ClickInVain, Take, ShownTypes, Claimed
  <1>5. \A f \in Forms : f \in rows <=> f \in rows'
    BY WidgetAssumption DEF ShownStep, Register, ShowWidget, ClickWidget, ClickInVain, Take
  <1>6. Answerable'
    <2>1. DialogsOpen'
      BY <1>1, <1>5 DEF Answerable, DialogsOpen
    <2>2. RowsOpen'
      BY <1>1, <1>5 DEF Answerable, RowsOpen
    <2>3. ButtonsUp'
      BY <1>1, <1>5 DEF Answerable, ButtonsUp
    <2>4. FormStaysAnswerable'
      BY <1>1, <1>5 DEF Answerable, FormStaysAnswerable
    <2> QED
      BY <2>1, <2>2, <2>3, <2>4 DEF Answerable
  <1> QED
    BY <1>2, <1>3, <1>4, <1>6

(* One form, or one dialog, becomes x. *)
FormBecomes(f, x) ==
    form' \in [Forms -> FormType] /\ form'[f] = x /\ \A g \in Forms : g # f => form'[g] = form[g]
SubmitBecomes(s, x) ==
    submit' \in [Submits -> SubmitType] /\ submit'[s] = x /\ \A z \in Submits : z # s => submit'[z] = submit[z]

LEMMA FormMoves ==
    ASSUME FormTypes, NEW f \in Forms, NEW x \in FormType, form' = [form EXCEPT ![f] = x]
    PROVE  FormBecomes(f, x)
  BY DEF FormTypes, FormBecomes

LEMMA SubmitMoves ==
    ASSUME FormTypes, NEW s \in Submits, NEW x \in SubmitType, submit' = [submit EXCEPT ![s] = x]
    PROVE  SubmitBecomes(s, x)
  BY DEF FormTypes, SubmitBecomes

LEMMA SubmitGoes ==
    ASSUME FormTypes, NEW s \in Submits, NEW pc \in {"found", "deleted", "over"}, submit' = [submit EXCEPT ![s].pc = pc]
    PROVE  \E x \in SubmitType : x.pc = pc /\ x.form = submit[s].form /\ SubmitBecomes(s, x)
  <1>1. PICK z \in SubmitType : z = submit[s]
    BY DEF FormTypes
  <1> DEFINE x == [z EXCEPT !.pc = pc]
  <1>2. x \in SubmitType /\ x.pc = pc /\ x.form = z.form
    BY DEF SubmitType
  <1>3. submit' = [submit EXCEPT ![s] = x]
    BY <1>1
  <1> HIDE DEF x
  <1> QED
    BY <1>1, <1>2, <1>3, SubmitMoves

(* A button goes. *)
LEMMA ButtonGoes ==
    ASSUME FormTypes, NEW f \in Forms, form' = [form EXCEPT ![f].button = FALSE]
    PROVE  \E x \in FormType : x.pc = form[f].pc /\ x.early = form[f].early /\ FormBecomes(f, x)
  <1>1. PICK z \in FormType : z = form[f]
    BY DEF FormTypes
  <1> DEFINE x == [z EXCEPT !.button = FALSE]
  <1>2. x \in FormType /\ x.pc = z.pc /\ x.early = z.early
    BY DEF FormType
  <1>3. form' = [form EXCEPT ![f] = x]
    BY <1>1
  <1> HIDE DEF x
  <1> QED
    BY <1>1, <1>2, <1>3, FormMoves

(* The part of the invariant a step on forms may disturb. *)
LEMMA FormStepFrame ==
    ASSUME WidgetsInv, FormTypes', Answerable', UNCHANGED <<question, waitingOn, widget>>,
           NEW f \in Forms, rows' \in {rows, rows \cup {f}, rows \ {f}},
           fed' = fed \/ fed' = [fed EXCEPT ![f] = @ + 1]
    PROVE  WidgetsInv'
  <1> USE DEF WidgetsInv
  <1>1. QuestionInv'
    BY DEF QuestionInv, QuestionTypes, Awaited
  <1>2. ShownTypes'
    BY DEF ShownTypes
  <1>3. \A w \in Shown : w # f
    BY WidgetAssumption
  <1>4. \A w \in Shown : fed'[w] = fed[w] /\ (w \in rows' <=> w \in rows)
    BY <1>3 DEF ShownTypes
  <1>5. Claimed'
    BY <1>4 DEF Claimed
  <1> QED
    BY <1>1, <1>2, <1>5

LEMMA ShowFormKeeps ==
    ASSUME WidgetsInv, NEW f \in Forms, ShowForm(f) \/ RegisterForm(f)
    PROVE  WidgetsInv'
  <1> USE DEF WidgetsInv
  <1>1. CASE ShowForm(f)
    <2> DEFINE x == [pc |-> "posted", button |-> TRUE, early |-> FALSE]
    <2>1. x \in FormType /\ x.pc = "posted" /\ x.button
      BY DEF FormType
    <2>2. form' = [form EXCEPT ![f] = x]
      BY <1>1 DEF ShowForm
    <2> HIDE DEF x
    <2>3. FormBecomes(f, x)
      BY <2>1, <2>2, FormMoves
    <2>4. FormTypes'
      BY <1>1, <2>3 DEF ShowForm, FormBecomes, FormTypes
    <2>5. Answerable'
      <3>1. DialogsOpen'
        BY <1>1, <2>1, <2>3 DEF ShowForm, FormBecomes, Answerable, DialogsOpen
      <3>2. RowsOpen'
        BY <1>1, <2>1, <2>3 DEF ShowForm, FormBecomes, Answerable, RowsOpen
      <3>3. ButtonsUp'
        BY <1>1, <2>1, <2>3 DEF ShowForm, FormBecomes, Answerable, ButtonsUp
      <3>4. FormStaysAnswerable'
        BY <1>1, <2>1, <2>3 DEF ShowForm, FormBecomes, Answerable, FormStaysAnswerable
      <3> QED
        BY <3>1, <3>2, <3>3, <3>4 DEF Answerable
    <2> QED
      BY <1>1, <2>4, <2>5, FormStepFrame DEF ShowForm
  <1>2. CASE RegisterForm(f)
    <2>1. PICK z \in FormType : z = form[f]
      BY DEF FormTypes
    <2> DEFINE x == [z EXCEPT !.pc = "open"]
    <2>2. x \in FormType /\ x.pc = "open" /\ x.button = z.button /\ x.early = z.early
      BY DEF FormType
    <2>3. form' = [form EXCEPT ![f] = x]
      BY <1>2, <2>1 DEF RegisterForm
    <2> HIDE DEF x
    <2>4. FormBecomes(f, x)
      BY <2>2, <2>3, FormMoves
    <2>5. z.button \/ z.early
      BY <1>2, <2>1 DEF RegisterForm, Answerable, ButtonsUp
    <2>6. FormTypes'
      BY <1>2, <2>4 DEF RegisterForm, FormBecomes, FormTypes
    <2>7. Answerable'
      <3>1. DialogsOpen'
        BY <1>2, <2>1, <2>2, <2>4, <2>5 DEF RegisterForm, FormBecomes, Answerable, DialogsOpen
      <3>2. RowsOpen'
        BY <1>2, <2>1, <2>2, <2>4, <2>5 DEF RegisterForm, FormBecomes, Answerable, RowsOpen
      <3>3. ButtonsUp'
        BY <1>2, <2>1, <2>2, <2>4, <2>5 DEF RegisterForm, FormBecomes, Answerable, ButtonsUp
      <3>4. FormStaysAnswerable'
        BY <1>2, <2>1, <2>2, <2>4, <2>5 DEF RegisterForm, FormBecomes, Answerable, FormStaysAnswerable
      <3> QED
        BY <3>1, <3>2, <3>3, <3>4 DEF Answerable
    <2> QED
      BY <1>2, <2>6, <2>7, FormStepFrame DEF RegisterForm
  <1> QED
    BY <1>1, <1>2

LEMMA OpenDialogKeeps ==
    ASSUME WidgetsInv, NEW f \in Forms, NEW s \in Submits, OpenDialog(f, s)
    PROVE  WidgetsInv'
  <1> USE DEF WidgetsInv
  <1>0. /\ UNCHANGED <<question, waitingOn, widget, rows, fed, form>> /\ form[f].pc = "open"
        /\ submit[s].pc = "closed" /\ submit[s].form = NotAsked
    BY DEF OpenDialog, Answerable, DialogsOpen, RowsOpen
  <1> DEFINE x == [pc |-> "filling", form |-> f]
  <1>1. x \in SubmitType /\ x.pc = "filling" /\ x.form = f
    BY DEF SubmitType
  <1>2. submit' = [submit EXCEPT ![s] = x]
    BY DEF OpenDialog
  <1> HIDE DEF x
  <1>3. SubmitBecomes(s, x)
    BY <1>1, <1>2, SubmitMoves
  <1>4. FormTypes'
    BY <1>0, <1>3 DEF SubmitBecomes, FormTypes
  <1>5. Answerable'
    <2>1. DialogsOpen'
      BY <1>0, <1>1, <1>3, WidgetAssumption DEF SubmitBecomes, Answerable, DialogsOpen
    <2>2. RowsOpen'
      BY <1>0, <1>1, <1>3, WidgetAssumption DEF SubmitBecomes, Answerable, RowsOpen
    <2>3. ButtonsUp'
      BY <1>0, <1>1, <1>3, WidgetAssumption DEF SubmitBecomes, Answerable, ButtonsUp
    <2>4. FormStaysAnswerable'
      BY <1>0, <1>1, <1>3, WidgetAssumption DEF SubmitBecomes, Answerable, FormStaysAnswerable
    <2> QED
      BY <2>1, <2>2, <2>3, <2>4 DEF Answerable
  <1> QED
    BY <1>0, <1>4, <1>5, FormStepFrame

LEMMA ClickRetiresKeeps ==
    ASSUME WidgetsInv, NEW f \in Forms, ClickRetires(f)
    PROVE  WidgetsInv'
  <1> USE DEF WidgetsInv
  <1>0. UNCHANGED <<question, waitingOn, widget, rows, fed, submit>> /\ f \notin rows
    BY DEF ClickRetires
  <1>1. PICK z \in FormType : z = form[f]
    BY DEF FormTypes
  <1> DEFINE x == [z EXCEPT !.button = FALSE, !.early = z.early \/ z.pc = "posted"]
  <1>2. x \in FormType /\ x.pc = z.pc /\ x.early = (z.early \/ z.pc = "posted")
    BY DEF FormType
  <1>3. form' = [form EXCEPT ![f] = x]
    BY <1>1 DEF ClickRetires
  <1> HIDE DEF x
  <1>4. FormBecomes(f, x)
    BY <1>2, <1>3, FormMoves
  <1>5. FormTypes'
    BY <1>0, <1>4 DEF FormBecomes, FormTypes
  <1>6. Answerable'
    <2>1. DialogsOpen'
      BY <1>0, <1>1, <1>2, <1>4 DEF FormBecomes, Answerable, DialogsOpen
    <2>2. RowsOpen'
      BY <1>0, <1>1, <1>2, <1>4 DEF FormBecomes, Answerable, RowsOpen
    <2>3. ButtonsUp'
      BY <1>0, <1>1, <1>2, <1>4 DEF FormBecomes, Answerable, ButtonsUp
    <2>4. FormStaysAnswerable'
      BY <1>0, <1>1, <1>2, <1>4 DEF FormBecomes, Answerable, FormStaysAnswerable
    <2> QED
      BY <2>1, <2>2, <2>3, <2>4 DEF Answerable
  <1> QED
    BY <1>0, <1>5, <1>6, FormStepFrame

LEMMA CloseDialogKeeps ==
    ASSUME WidgetsInv, NEW s \in Submits, CloseDialog(s)
    PROVE  WidgetsInv'
  <1> USE DEF WidgetsInv
  <1>0. UNCHANGED <<question, waitingOn, widget, rows, fed, form>> /\ submit[s].pc = "filling" /\ submit[s].form \in Forms
    BY DEF CloseDialog, Answerable, DialogsOpen
  <1> DEFINE x == [pc |-> "closed", form |-> NotAsked]
  <1>1. x \in SubmitType /\ x.pc = "closed" /\ x.form = NotAsked
    BY DEF SubmitType
  <1>2. submit' = [submit EXCEPT ![s] = x]
    BY DEF CloseDialog
  <1> HIDE DEF x
  <1>3. SubmitBecomes(s, x)
    BY <1>1, <1>2, SubmitMoves
  <1>4. FormTypes'
    BY <1>0, <1>3 DEF SubmitBecomes, FormTypes
  <1>5. Answerable'
    <2>1. DialogsOpen'
      BY <1>0, <1>1, <1>3, WidgetAssumption DEF SubmitBecomes, Answerable, DialogsOpen
    <2>2. RowsOpen'
      BY <1>0, <1>1, <1>3, WidgetAssumption DEF SubmitBecomes, Answerable, RowsOpen
    <2>3. ButtonsUp'
      BY <1>0, <1>1, <1>3, WidgetAssumption DEF SubmitBecomes, Answerable, ButtonsUp
    <2>4. FormStaysAnswerable'
      BY <1>0, <1>1, <1>3, WidgetAssumption DEF SubmitBecomes, Answerable, FormStaysAnswerable
    <2> QED
      BY <2>1, <2>2, <2>3, <2>4 DEF Answerable
  <1> QED
    BY <1>0, <1>4, <1>5, FormStepFrame

LEMMA SubmissionKeeps ==
    ASSUME WidgetsInv, NEW s \in Submits, SubmitReads(s) \/ SubmitDeletes(s) \/ SubmitHandsOn(s)
    PROVE  WidgetsInv'
  <1> USE DEF WidgetsInv
  <1>0. submit[s].form \in Forms /\ UNCHANGED <<question, waitingOn, widget>>
    BY DEF SubmitReads, SubmitDeletes, SubmitHandsOn, Answerable, DialogsOpen
  <1>1. CASE SubmitReads(s)
    <2>1. PICK x \in SubmitType : /\ x.pc = (IF submit[s].form \in rows THEN "found" ELSE "over")
                                  /\ x.form = submit[s].form /\ SubmitBecomes(s, x)
      BY <1>1, SubmitGoes DEF SubmitReads
    <2>2. FormTypes'
      BY <1>1, <2>1 DEF SubmitReads, SubmitBecomes, FormTypes
    <2>3. Answerable'
      <3>1. DialogsOpen'
        BY <1>0, <1>1, <2>1 DEF SubmitReads, SubmitBecomes, Answerable, DialogsOpen
      <3>2. RowsOpen'
        BY <1>0, <1>1, <2>1 DEF SubmitReads, SubmitBecomes, Answerable, RowsOpen
      <3>3. ButtonsUp'
        BY <1>0, <1>1, <2>1 DEF SubmitReads, SubmitBecomes, Answerable, ButtonsUp
      <3>4. FormStaysAnswerable'
        BY <1>0, <1>1, <2>1 DEF SubmitReads, SubmitBecomes, Answerable, FormStaysAnswerable
      <3> QED
        BY <3>1, <3>2, <3>3, <3>4 DEF Answerable
    <2> QED
      BY <1>0, <1>1, <2>2, <2>3, FormStepFrame DEF SubmitReads
  <1>2. CASE SubmitDeletes(s)
    <2>1. PICK x \in SubmitType : x.pc = "deleted" /\ x.form = submit[s].form /\ SubmitBecomes(s, x)
      BY <1>2, SubmitGoes DEF SubmitDeletes
    <2>2. FormTypes'
      BY <1>2, <2>1 DEF SubmitDeletes, SubmitBecomes, FormTypes
    <2>3. Answerable'
      <3>1. DialogsOpen'
        BY <1>0, <1>2, <2>1 DEF SubmitDeletes, SubmitBecomes, Answerable, DialogsOpen
      <3>2. RowsOpen'
        BY <1>0, <1>2, <2>1 DEF SubmitDeletes, SubmitBecomes, Answerable, RowsOpen
      <3>3. ButtonsUp'
        BY <1>0, <1>2, <2>1 DEF SubmitDeletes, SubmitBecomes, Answerable, ButtonsUp
      <3>4. FormStaysAnswerable'
        BY <1>0, <1>2, <2>1 DEF SubmitDeletes, SubmitBecomes, Answerable, FormStaysAnswerable
      <3> QED
        BY <3>1, <3>2, <3>3, <3>4 DEF Answerable
    <2> QED
      BY <1>0, <1>2, <2>2, <2>3, FormStepFrame DEF SubmitDeletes
  <1>3. CASE SubmitHandsOn(s)
    <2>1. PICK x \in SubmitType : x.pc = "over" /\ x.form = submit[s].form /\ SubmitBecomes(s, x)
      BY <1>3, SubmitGoes DEF SubmitHandsOn
    <2>2. /\ rows' = rows /\ submit[s].pc = "deleted"
          /\ fed' = fed \/ fed' = [fed EXCEPT ![submit[s].form] = @ + 1]
      BY <1>3 DEF SubmitHandsOn
    <2>3. PICK y \in FormType : /\ y.pc = form[submit[s].form].pc /\ y.early = form[submit[s].form].early
                                /\ FormBecomes(submit[s].form, y)
      <3>1. CASE form' = form
        BY <1>0, <3>1 DEF FormTypes, FormBecomes
      <3>2. CASE form' = [form EXCEPT ![submit[s].form].button = FALSE]
        BY <1>0, <3>2, ButtonGoes
      <3> QED
        BY <1>3, <3>1, <3>2 DEF SubmitHandsOn
    <2>4. FormTypes'
      BY <2>1, <2>3 DEF SubmitBecomes, FormBecomes, FormTypes
    <2>5. \A f \in Forms : form[f].pc = "posted" => form'[f].button \/ form'[f].early
      BY <1>0, <1>3, <2>2, <2>3 DEF SubmitHandsOn, FormBecomes, Answerable, ButtonsUp, DialogsOpen
    <2>6. Answerable'
      <3>1. DialogsOpen'
        BY <1>0, <2>1, <2>2, <2>3, <2>5 DEF SubmitBecomes, FormBecomes, Answerable, DialogsOpen
      <3>2. RowsOpen'
        BY <1>0, <2>1, <2>2, <2>3, <2>5 DEF SubmitBecomes, FormBecomes, Answerable, RowsOpen
      <3>3. ButtonsUp'
        BY <1>0, <2>1, <2>2, <2>3, <2>5 DEF SubmitBecomes, FormBecomes, Answerable, ButtonsUp
      <3>4. FormStaysAnswerable'
        BY <1>0, <2>1, <2>2, <2>3, <2>5 DEF SubmitBecomes, FormBecomes, Answerable, FormStaysAnswerable
      <3> QED
        BY <3>1, <3>2, <3>3, <3>4 DEF Answerable
    <2> QED
      BY <1>0, <2>2, <2>4, <2>6, FormStepFrame
  <1> QED
    BY <1>1, <1>2, <1>3

LEMMA WidgetsStep ==
    ASSUME WidgetsInv, [WidgetsNext]_wVars
    PROVE  WidgetsInv'
  <1> USE DEF WidgetsInv
  <1>1. CASE UNCHANGED <<widget, rows, fed, form, submit>> /\ QuestionInv'
    BY <1>1 DEF ShownTypes, FormTypes, Claimed, Answerable, DialogsOpen, RowsOpen, ButtonsUp, FormStaysAnswerable
  <1>2. CASE UNCHANGED wVars
    <2>1. QuestionInv'
      BY <1>2 DEF wVars, QuestionInv, QuestionTypes, Awaited
    <2> QED
      BY <1>1, <1>2, <2>1 DEF wVars
  <1>3. ASSUME NEW q \in Questions, QuestionStep(q) \/ Typed(ConvOfQ[q])
        PROVE  WidgetsInv'
    <2>1. QuestionInv'
      BY <1>3, QuestionStepKeeps, TypedKeeps
    <2>2. UNCHANGED <<widget, rows, fed, form, submit>>
      BY <1>3 DEF QuestionStep, Ask, Blocked, Appears, Posts, QuestionTimesOut, GoesOn, Retract, CalledOff, ClickAnswers, Typed
    <2> QED
      BY <1>1, <2>1, <2>2
  <1>4. CASE \E w \in Shown : ShownStep(w)
    BY <1>4, ShownStepKeeps
  <1>5. CASE \E f \in Forms : ShowForm(f) \/ RegisterForm(f) \/ ClickRetires(f) \/ \E s \in Submits : OpenDialog(f, s)
    BY <1>5, ShowFormKeeps, ClickRetiresKeeps, OpenDialogKeeps
  <1>6. CASE \E s \in Submits : CloseDialog(s) \/ SubmitReads(s) \/ SubmitDeletes(s) \/ SubmitHandsOn(s)
    BY <1>6, CloseDialogKeeps, SubmissionKeeps
  <1> QED
    BY <1>2, <1>3, <1>4, <1>5, <1>6 DEF WidgetsNext, QuestionStep, ShownStep

(* For any questions, widgets, forms and dialogs, clicked late, twice and   *)
(* side by side: what is shown is answered once (ui_bridge.py request,      *)
(* dispatcher.py consume_action, load_form, submit_form).                   *)
THEOREM WidgetsAnswerOnceAlways == WidgetsSpec => []WidgetsAnswerOnce
  <1>1. WidgetsInit => WidgetsInv
    BY WidgetsStart
  <1>2. WidgetsInv /\ [WidgetsNext]_wVars => WidgetsInv'
    BY WidgetsStep
  <1>3. WidgetsInv => WidgetsAnswerOnce
    BY DEF WidgetsInv, QuestionInv, Awaited, Claimed, Answerable, WidgetsAnswerOnce, NoLateAnswer, OneMessagePerWidget,
           FirstClickCounts, FormStaysAnswerable
  <1> QED
    BY <1>1, <1>2, <1>3, PTL DEF WidgetsSpec

-----------------------------------------------------------------------------
(* Replicas: a coalescer has one batch of the conversation in hand, and the *)
(* row of the owner is never that of a replica that waits for another.      *)

Hand == {"claiming", "awaiting", "overtaking", "serving", "running"}
Ahead == {"none", "sent", "queued", "claiming"}
HopStages == Hand \cup Ahead \cup {"done", "failed"}
HopType == [pc : HopStages, at : Replica \cup {NoOne}]

OwnersTyped ==
    /\ hop \in [Batches -> [Hops -> HopType]]
    /\ \A m \in Batches, h \in Hops : hop[m][h].pc # "none" => hop[m][h].at \in Replica
    /\ owner \in Replica \cup {NoOne}

OneInHand ==
    \A m, n \in Batches, g, h \in Hops :
        (hop[m][g].pc \in Hand /\ hop[n][h].pc \in Hand /\ hop[m][g].at = hop[n][h].at) => m = n /\ g = h

(* A hop that was not claimed yet has passed its batch to nobody. *)
PassedWhenClaimed ==
    \A m \in Batches, g, h \in Hops : g < h /\ hop[m][g].pc \in Ahead => hop[m][h] = Idle

WaitersDoNotOwn ==
    \A m \in Batches, h \in Hops : hop[m][h].pc = "awaiting" => hop[m][h].at # owner

NotToAWaiter ==
    \A m \in Batches, g, h \in Hops :
        g < h /\ hop[m][g].pc = "awaiting" /\ hop[m][h].pc \in {"sent", "queued"} => hop[m][g].at # hop[m][h].at

RanIsProcessed ==
    /\ DOMAIN ranAt = Batches
    /\ \A m \in Batches : \/ ranAt[m] = {}
                          \/ m \in processed /\ \E r : ranAt[m] = {r}

OwnersInv ==
    OwnersTyped /\ OneInHand /\ PassedWhenClaimed /\ WaitersDoNotOwn /\ NotToAWaiter /\ RanIsProcessed

LEMMA OwnersStart == OwnersInit => OwnersInv
  <1> SUFFICES ASSUME OwnersInit PROVE OwnersInv
    OBVIOUS
  <1>1. /\ hop = [m \in Batches |-> [h \in Hops |-> Idle]] /\ owner \in Replica \cup {NoOne}
        /\ ranAt = [m \in Batches |-> {}]
    BY DEF OwnersInit
  <1>2. Idle \in HopType /\ Idle.pc = "none"
    BY DEF Idle, HopType, HopStages, Ahead
  <1>3. hop \in [Batches -> [Hops -> HopType]] /\ \A m \in Batches, h \in Hops : hop[m][h] = Idle
    BY <1>1, <1>2
  <1>4. RanIsProcessed
    BY <1>1 DEF RanIsProcessed
  <1> QED
    BY <1>1, <1>2, <1>3, <1>4
       DEF OwnersInv, OwnersTyped, OneInHand, PassedWhenClaimed, WaitersDoNotOwn, NotToAWaiter, Hand

(* A step that claims nothing and passes nothing on: what is in hand goes   *)
(* on, ends or fails, and the row stays or goes to who has a batch in hand. *)
HopGoesOn(x, y) ==
    /\ y.at = x.at
    /\ \/ y.pc = x.pc
       \/ x.pc # "none" /\ y.pc \in {"done", "failed"}
       \/ x.pc \in Hand /\ y.pc \in {"overtaking", "serving", "running"}
       \/ x.pc = "sent" /\ y.pc = "queued"

Quiet ==
    /\ hop' \in [Batches -> [Hops -> HopType]]
    /\ \A m \in Batches, h \in Hops : HopGoesOn(hop[m][h], hop'[m][h])

OwnerMoves ==
    \/ owner' = owner
    \/ \E m \in Batches, h \in Hops : hop[m][h].pc \in Hand \ {"awaiting"} /\ owner' = hop[m][h].at

LEMMA QuietOwners ==
    ASSUME OwnersInv, Quiet, OwnerMoves, RanIsProcessed'
    PROVE  OwnersInv'
  <1> USE DEF OwnersInv
  <1>0. \A m \in Batches, h \in Hops : hop'[m][h].pc # "none" => hop[m][h].pc # "none" /\ hop'[m][h].at = hop[m][h].at
    BY DEF Quiet, HopGoesOn, Hand
  <1>1. OwnersTyped'
    <2>1. owner' \in Replica \cup {NoOne}
      BY DEF OwnersTyped, OwnerMoves, Hand
    <2>2. \A m \in Batches, h \in Hops : hop'[m][h].pc # "none" => hop'[m][h].at \in Replica
      BY <1>0 DEF OwnersTyped
    <2> QED
      BY <2>1, <2>2 DEF OwnersTyped, Quiet
  <1>2. \A m \in Batches, h \in Hops : hop'[m][h].at = hop[m][h].at /\ (hop'[m][h].pc \in Hand => hop[m][h].pc \in Hand)
    BY DEF Quiet, HopGoesOn, Hand
  <1>3. OneInHand'
    BY <1>2 DEF OneInHand
  <1>4. PassedWhenClaimed'
    <2> SUFFICES ASSUME NEW m \in Batches, NEW g \in Hops, NEW h \in Hops, g < h, hop'[m][g].pc \in Ahead
                 PROVE  hop'[m][h] = Idle
      BY DEF PassedWhenClaimed
    <2>1. hop[m][g].pc \in Ahead
      BY DEF Quiet, HopGoesOn, Ahead, Hand
    <2>2. hop[m][h] = Idle
      BY <2>1 DEF PassedWhenClaimed
    <2>3. hop'[m][h] \in HopType /\ hop'[m][h].at = Idle.at /\ hop'[m][h].pc = Idle.pc
      BY <2>2 DEF Quiet, HopGoesOn, Idle, Hand
    <2> QED
      BY <2>3 DEF HopType, Idle
  <1>5. \A m \in Batches, h \in Hops : hop'[m][h].pc = "awaiting" => hop[m][h].pc = "awaiting"
    BY DEF Quiet, HopGoesOn
  <1>6. WaitersDoNotOwn'
    <2> SUFFICES ASSUME NEW m \in Batches, NEW h \in Hops, hop'[m][h].pc = "awaiting", hop'[m][h].at = owner'
                 PROVE  FALSE
      BY DEF WaitersDoNotOwn
    <2>1. hop[m][h].pc = "awaiting" /\ hop[m][h].at = owner'
      BY <1>2, <1>5
    <2>2. PICK n \in Batches, g \in Hops : hop[n][g].pc \in Hand \ {"awaiting"} /\ owner' = hop[n][g].at
      BY <2>1 DEF OwnerMoves, WaitersDoNotOwn
    <2> QED
      BY <2>1, <2>2 DEF OneInHand, Hand
  <1>7. NotToAWaiter'
    <2> SUFFICES ASSUME NEW m \in Batches, NEW g \in Hops, NEW h \in Hops, g < h, hop'[m][g].pc = "awaiting",
                        hop'[m][h].pc \in {"sent", "queued"}
                 PROVE  hop'[m][g].at # hop'[m][h].at
      BY DEF NotToAWaiter
    <2>1. hop[m][g].pc = "awaiting" /\ hop[m][h].pc \in {"sent", "queued"}
      BY <1>5 DEF Quiet, HopGoesOn
    <2> QED
      BY <1>2, <2>1 DEF NotToAWaiter
  <1> QED
    BY <1>1, <1>3, <1>4, <1>6, <1>7

(* One hop of one batch changes. *)
LEMMA HopBecomes ==
    ASSUME OwnersTyped, NEW m \in Batches, NEW h \in Hops, NEW pc \in HopStages, Step(m, h, pc)
    PROVE  /\ hop' \in [Batches -> [Hops -> HopType]]
           /\ hop'[m][h].pc = pc /\ hop'[m][h].at = hop[m][h].at
           /\ \A n \in Batches, g \in Hops : n # m \/ g # h => hop'[n][g] = hop[n][g]
  <1>1. hop[m][h] \in HopType /\ hop[m] \in [Hops -> HopType]
    BY DEF OwnersTyped
  <1> DEFINE x == [hop[m][h] EXCEPT !.pc = pc]
  <1>2. x \in HopType /\ x.pc = pc /\ x.at = hop[m][h].at
    BY <1>1 DEF HopType
  <1>3. hop' = [hop EXCEPT ![m] = [hop[m] EXCEPT ![h] = x]]
    BY <1>1 DEF OwnersTyped, Step
  <1> HIDE DEF x
  <1>4. [hop[m] EXCEPT ![h] = x] \in [Hops -> HopType]
    BY <1>1, <1>2
  <1> QED
    BY <1>1, <1>2, <1>3, <1>4 DEF OwnersTyped

(* What goes on in one hop goes on. *)
LEMMA StepGoesOn ==
    ASSUME OwnersTyped, NEW m \in Batches, NEW h \in Hops, NEW pc \in HopStages, Step(m, h, pc),
           \/ hop[m][h].pc # "none" /\ pc \in {"done", "failed"}
           \/ hop[m][h].pc \in Hand /\ pc \in {"overtaking", "serving", "running"}
           \/ hop[m][h].pc = "sent" /\ pc = "queued"
    PROVE  Quiet
  <1>1. /\ hop' \in [Batches -> [Hops -> HopType]]
        /\ hop'[m][h].pc = pc /\ hop'[m][h].at = hop[m][h].at
        /\ \A n \in Batches, g \in Hops : n # m \/ g # h => hop'[n][g] = hop[n][g]
    BY HopBecomes
  <1> QED
    BY <1>1 DEF Quiet, HopGoesOn

(* What is in hand was in hand before, in the same place. *)
LEMMA InHandStays ==
    ASSUME OneInHand,
           \A m \in Batches, h \in Hops :
               hop'[m][h].pc \in Hand => hop[m][h].pc \in Hand /\ hop'[m][h].at = hop[m][h].at
    PROVE  OneInHand'
  BY DEF OneInHand

LEMMA RanStays ==
    ASSUME RanIsProcessed, UNCHANGED <<processed, ranAt>>
    PROVE  RanIsProcessed'
  BY DEF RanIsProcessed

LEMMA ArrivesKeeps ==
    ASSUME OwnersInv, NEW m \in Batches, NEW r \in Replica, 1 \in Hops, Arrives(m, r)
    PROVE  OwnersInv'
  <1> USE DEF OwnersInv
  <1> DEFINE x == [pc |-> "queued", at |-> r]
  <1>1. hop[m][1] = Idle /\ hop' = [hop EXCEPT ![m][1] = x] /\ UNCHANGED <<owner, processed, ranAt>>
    BY DEF Arrives
  <1>2. x \in HopType /\ x.pc = "queued" /\ x.at = r
    BY DEF HopType, HopStages, Ahead
  <1> HIDE DEF x
  <1>3. hop[m] \in [Hops -> HopType]
    BY DEF OwnersTyped
  <1>4. hop' = [hop EXCEPT ![m] = [hop[m] EXCEPT ![1] = x]]
    BY <1>1
  <1>5. /\ hop' \in [Batches -> [Hops -> HopType]] /\ hop'[m][1] = x
        /\ \A n \in Batches, g \in Hops : n # m \/ g # 1 => hop'[n][g] = hop[n][g]
    BY <1>2, <1>3, <1>4 DEF OwnersTyped
  <1>6. \A h \in Hops : ~(h < 1)
    BY DEF Hops
  <1>7. OwnersTyped'
    BY <1>1, <1>2, <1>5 DEF OwnersTyped
  <1>8. OneInHand' /\ WaitersDoNotOwn'
    BY <1>1, <1>2, <1>5 DEF OneInHand, WaitersDoNotOwn, Hand
  <1>9. PassedWhenClaimed'
    BY <1>1, <1>2, <1>5, <1>6 DEF PassedWhenClaimed, Ahead, Idle
  <1>10. NotToAWaiter'
    BY <1>2, <1>5, <1>6 DEF NotToAWaiter
  <1> QED
    BY <1>1, <1>7, <1>8, <1>9, <1>10, RanStays

LEMMA BeginsKeeps ==
    ASSUME OwnersInv, NEW m \in Batches, NEW h \in Hops, Begins(m, h)
    PROVE  OwnersInv'
  <1> USE DEF OwnersInv
  <1>1. /\ hop[m][h].pc = "queued" /\ InHand(hop[m][h].at) = {} /\ Step(m, h, "claiming")
        /\ UNCHANGED <<owner, processed, ranAt>>
    BY DEF Begins, At
  <1>2. "claiming" \in HopStages /\ OwnersTyped
    BY DEF HopStages, Ahead
  <1>3. /\ hop' \in [Batches -> [Hops -> HopType]]
        /\ hop'[m][h].pc = "claiming" /\ hop'[m][h].at = hop[m][h].at
        /\ \A n \in Batches, g \in Hops : n # m \/ g # h => hop'[n][g] = hop[n][g]
    BY Zenon, <1>1, <1>2, HopBecomes
  <1>4. \A n \in Batches, g \in Hops : hop[n][g].pc \in Hand => hop[n][g].at # hop[m][h].at
    <2> SUFFICES ASSUME NEW n \in Batches, NEW g \in Hops, hop[n][g].pc \in Hand, hop[n][g].at = hop[m][h].at
                 PROVE  FALSE
      OBVIOUS
    <2>1. <<n, g>> \in InHand(hop[m][h].at)
      BY DEF InHand, Hand
    <2> QED
      BY <1>1, <2>1
  <1>5. OwnersTyped'
    BY <1>1, <1>3 DEF OwnersTyped
  <1>6. OneInHand'
    BY <1>3, <1>4 DEF OneInHand
  <1>7. WaitersDoNotOwn'
    BY <1>1, <1>3 DEF WaitersDoNotOwn
  <1>8. PassedWhenClaimed'
    <2>1. \A g \in Hops : hop[m][g] = Idle => g # h
      BY <1>1 DEF Idle
    <2>2. \A n \in Batches, g \in Hops : hop'[n][g].pc \in Ahead => hop[n][g].pc \in Ahead
      BY <1>1, <1>3 DEF Ahead
    <2> QED
      BY <1>3, <2>1, <2>2 DEF PassedWhenClaimed
  <1>9. NotToAWaiter'
    BY <1>3 DEF NotToAWaiter
  <1> QED
    BY <1>1, <1>5, <1>6, <1>7, <1>8, <1>9, RanStays

(* The owner has it: the row is its, and was no waiter's. *)
LEMMA PassesOn ==
    ASSUME OwnersInv, NEW m \in Batches, NEW h \in Hops, h + 1 \in Hops, NEW o \in Replica,
           hop[m][h].pc = "claiming", o # hop[m][h].at, o = owner, owner' = owner,
           hop' = [hop EXCEPT ![m][h].pc = "awaiting", ![m][h + 1] = [pc |-> "sent", at |-> o]],
           UNCHANGED <<processed, ranAt>>
    PROVE  OwnersInv'
  <1> USE DEF OwnersInv
  <1> DEFINE w == [hop[m][h] EXCEPT !.pc = "awaiting"]
             x == [pc |-> "sent", at |-> o]
             k == h + 1
  <1>1. k \in Hops /\ h < k /\ h # k /\ \A g \in Hops : h < g => k <= g
    BY DEF Hops
  <1>2. hop[m] \in [Hops -> HopType] /\ hop[m][h] \in HopType
    BY DEF OwnersTyped
  <1>3. w \in HopType /\ w.pc = "awaiting" /\ w.at = hop[m][h].at /\ x \in HopType /\ x.pc = "sent" /\ x.at = o
    BY <1>2 DEF HopType, HopStages, Hand, Ahead
  <1>4. hop' = [hop EXCEPT ![m] = [[hop[m] EXCEPT ![h] = w] EXCEPT ![k] = x]]
    BY <1>1, <1>2 DEF OwnersTyped
  <1> HIDE DEF w, x, k
  <1>5. /\ hop' \in [Batches -> [Hops -> HopType]] /\ hop'[m][h] = w /\ hop'[m][k] = x
        /\ \A n \in Batches, g \in Hops : n # m \/ (g # h /\ g # k) => hop'[n][g] = hop[n][g]
    <2> DEFINE f == [hop[m] EXCEPT ![h] = w]
    <2>1. f \in [Hops -> HopType] /\ f[h] = w /\ \A g \in Hops : g # h => f[g] = hop[m][g]
      BY <1>2, <1>3
    <2>2. hop' = [hop EXCEPT ![m] = [f EXCEPT ![k] = x]]
      BY <1>4
    <2> HIDE DEF f
    <2> DEFINE F == [f EXCEPT ![k] = x]
    <2>3. F \in [Hops -> HopType] /\ F[h] = w /\ F[k] = x /\ \A g \in Hops : g # h /\ g # k => F[g] = hop[m][g]
      BY <1>1, <1>3, <2>1
    <2>4. hop' = [hop EXCEPT ![m] = F] /\ hop \in [Batches -> [Hops -> HopType]]
      BY <2>2 DEF OwnersTyped
    <2> HIDE DEF F
    <2> QED
      BY <2>3, <2>4
  <1>6. \A g \in Hops : h < g => hop[m][g] = Idle
    BY DEF PassedWhenClaimed, Ahead
  <1>7. OwnersTyped'
    <2>1. \A n \in Batches, g \in Hops : hop'[n][g].pc # "none" => hop'[n][g].at \in Replica
      <3> SUFFICES ASSUME NEW n \in Batches, NEW g \in Hops, hop'[n][g].pc # "none" PROVE hop'[n][g].at \in Replica
        OBVIOUS
      <3>1. CASE n = m /\ g = h
        BY <1>3, <1>5, <3>1 DEF OwnersTyped
      <3>2. CASE n = m /\ g = k
        BY <1>3, <1>5, <3>2
      <3>3. CASE n # m \/ (g # h /\ g # k)
        BY <1>5, <3>3 DEF OwnersTyped
      <3> QED
        BY <3>1, <3>2, <3>3
    <2> QED
      BY <1>5, <2>1 DEF OwnersTyped
  <1>8. OneInHand'
    <2>1. \A n \in Batches, g \in Hops : hop'[n][g].pc \in Hand => hop[n][g].pc \in Hand /\ hop'[n][g].at = hop[n][g].at
      <3> SUFFICES ASSUME NEW n \in Batches, NEW g \in Hops, hop'[n][g].pc \in Hand
                   PROVE  hop[n][g].pc \in Hand /\ hop'[n][g].at = hop[n][g].at
        OBVIOUS
      <3>1. ~(n = m /\ g = k)
        BY <1>3, <1>5 DEF Hand
      <3>2. CASE n = m /\ g = h
        BY <1>3, <1>5, <3>2 DEF Hand
      <3> QED
        BY <1>5, <3>1, <3>2
    <2> QED
      BY Zenon, <2>1, InHandStays
  <1>9. WaitersDoNotOwn'
    BY <1>3, <1>5 DEF WaitersDoNotOwn
  <1>10. PassedWhenClaimed'
    <2> SUFFICES ASSUME NEW n \in Batches, NEW g \in Hops, NEW i \in Hops, g < i, hop'[n][g].pc \in Ahead
                 PROVE  hop'[n][i] = Idle
      BY DEF PassedWhenClaimed
    <2>1. CASE n # m
      BY <1>5, <2>1 DEF PassedWhenClaimed
    <2>2. CASE n = m /\ g = k
      <3>1. h < i /\ i # h /\ i # k
        BY <1>1, <2>2 DEF Hops
      <3> QED
        BY <1>5, <1>6, <2>2, <3>1
    <2>3. CASE n = m /\ g # k
      <3>1. g # h
        BY <1>3, <1>5, <2>3 DEF Ahead
      <3>2. hop[m][g].pc \in Ahead
        BY <1>5, <2>3, <3>1
      <3>3. ~(g < h)
        BY <2>3, <3>2 DEF PassedWhenClaimed, Idle
      <3>4. h < g /\ i # h /\ i # k
        BY <1>1, <2>3, <3>1, <3>3 DEF Hops
      <3>5. h < i
        BY <1>1, <3>4 DEF Hops
      <3> QED
        BY <1>5, <1>6, <2>3, <3>4, <3>5
    <2> QED
      BY <2>1, <2>2, <2>3
  <1>11. NotToAWaiter'
    <2> SUFFICES ASSUME NEW n \in Batches, NEW g \in Hops, NEW i \in Hops, g < i, hop'[n][g].pc = "awaiting",
                        hop'[n][i].pc \in {"sent", "queued"}
                 PROVE  hop'[n][g].at # hop'[n][i].at
      BY DEF NotToAWaiter
    <2>1. CASE n # m
      BY <1>5, <2>1 DEF NotToAWaiter
    <2>2. CASE n = m /\ i = k
      <3>1. g # k
        BY <2>2 DEF Hops
      <3>2. CASE g = h
        BY <1>3, <1>5, <2>2, <3>2
      <3>3. CASE g # h
        BY <1>3, <1>5, <2>2, <3>1, <3>3 DEF WaitersDoNotOwn
      <3> QED
        BY <3>2, <3>3
    <2>3. CASE n = m /\ i # k
      <3>1. i # h
        BY <1>3, <1>5, <2>3
      <3>2. hop'[m][i] = hop[m][i] /\ hop[m][i].pc # "none"
        BY <1>5, <2>3, <3>1
      <3>3. ~(h < i)
        BY <1>6, <3>2 DEF Idle
      <3>4. g # h /\ g # k
        BY <1>1, <3>1, <3>3 DEF Hops
      <3> QED
        BY <1>5, <2>3, <3>2, <3>4 DEF NotToAWaiter
    <2> QED
      BY <2>1, <2>2, <2>3
  <1> QED
    BY <1>7, <1>8, <1>9, <1>10, <1>11, RanStays

LEMMA ClaimKeeps ==
    ASSUME OwnersInv, NEW m \in Batches, NEW h \in Hops, MaxHops \in Nat, Claim(m, h)
    PROVE  OwnersInv'
  <1> USE DEF OwnersInv
  <1> DEFINE r == hop[m][h].at
             o == OwnerAfter(r, m \in Pinned)
  <1>1. /\ hop[m][h].pc = "claiming" /\ owner' = o /\ UNCHANGED <<processed, ranAt>>
        /\ \/ o = r /\ Step(m, h, "serving")
           \/ o # r /\ h < MaxHops
              /\ hop' = [hop EXCEPT ![m][h].pc = "awaiting", ![m][h + 1] = [pc |-> "sent", at |-> o]]
           \/ o # r /\ Step(m, h, "overtaking")
    BY DEF Claim, At
  <1>2. r \in Replica /\ (o = r \/ (o = owner /\ o \in Replica)) /\ hop[m][h].pc \in Hand \ {"awaiting"}
    BY <1>1 DEF OwnersTyped, OwnerAfter, Hand
  <1>3. OwnerMoves
    BY <1>1, <1>2 DEF OwnerMoves
  <1> HIDE DEF o, r
  <1>4. ASSUME NEW pc \in {"serving", "overtaking"}, Step(m, h, pc) PROVE OwnersInv'
    <2>1. pc \in HopStages /\ pc \in {"overtaking", "serving", "running"}
      BY DEF HopStages, Hand
    <2>2. Quiet
      BY <1>2, <1>4, <2>1, StepGoesOn
    <2> QED
      BY <1>1, <1>3, <2>2, QuietOwners, RanStays
  <1>5. CASE o # r /\ h < MaxHops
             /\ hop' = [hop EXCEPT ![m][h].pc = "awaiting", ![m][h + 1] = [pc |-> "sent", at |-> o]]
    <2>1. h + 1 \in Hops
      BY <1>5 DEF Hops
    <2>2. o \in Replica /\ o = owner /\ owner' = owner /\ o # hop[m][h].at
      BY <1>1, <1>2, <1>5 DEF r
    <2> QED
      BY <1>1, <1>5, <2>1, <2>2, PassesOn
  <1> QED
    BY <1>1, <1>4, <1>5

(* The steps of one hop that go on with what it has in hand. *)
LEMMA WorksOn ==
    ASSUME OwnersInv, NEW m \in Batches, NEW h \in Hops,
           TakenIn(m, h) \/ Overtake(m, h) \/ ForwardAnswered(m, h) \/ TurnEnds(m, h)
    PROVE  OwnersInv'
  <1> USE DEF OwnersInv
  <1>1. RanIsProcessed'
    BY RanStays DEF TakenIn, Overtake, ForwardAnswered, TurnEnds
  <1>2. OwnerMoves
    BY DEF OwnerMoves, TakenIn, Overtake, ForwardAnswered, TurnEnds, At, Hand
  <1>3. PICK pc \in {"queued", "serving", "done"} : Step(m, h, pc)
    BY DEF TakenIn, Overtake, ForwardAnswered, TurnEnds
  <1>4. Quiet
    <2>1. {"queued", "serving", "done"} \subseteq HopStages
      BY DEF HopStages, Hand, Ahead
    <2>2. CASE TakenIn(m, h)
      <3>1. hop[m][h].pc = "sent" /\ Step(m, h, "queued")
        BY <2>2 DEF TakenIn, At
      <3> QED
        BY <2>1, <3>1, StepGoesOn
    <2>3. CASE Overtake(m, h)
      <3>1. hop[m][h].pc \in Hand /\ Step(m, h, "serving")
        BY <2>3 DEF Overtake, At, Hand
      <3> QED
        BY <2>1, <3>1, StepGoesOn
    <2>4. CASE ForwardAnswered(m, h) \/ TurnEnds(m, h)
      <3>1. hop[m][h].pc # "none" /\ Step(m, h, "done")
        BY <2>4 DEF ForwardAnswered, TurnEnds, At
      <3> QED
        BY <2>1, <3>1, StepGoesOn
    <2> QED
      BY <2>2, <2>3, <2>4
  <1> QED
    BY <1>1, <1>2, <1>4, QuietOwners

LEMMA ServeKeeps ==
    ASSUME OwnersInv, NEW m \in Batches, NEW h \in Hops, Serve(m, h)
    PROVE  OwnersInv'
  <1> USE DEF OwnersInv
  <1>1. /\ hop[m][h].pc = "serving" /\ processed' = processed \cup {m} /\ owner' = owner
        /\ \/ m \notin processed /\ ranAt' = [ranAt EXCEPT ![m] = @ \cup {hop[m][h].at}] /\ Step(m, h, "running")
           \/ m \in processed /\ Step(m, h, "done") /\ UNCHANGED ranAt
    BY DEF Serve, Fresh, At
  <1>2. RanIsProcessed'
    <2>1. CASE m \notin processed /\ ranAt' = [ranAt EXCEPT ![m] = @ \cup {hop[m][h].at}]
      <3>1. ranAt[m] = {}
        BY <2>1 DEF RanIsProcessed
      <3>2. /\ DOMAIN ranAt' = Batches /\ ranAt'[m] = {hop[m][h].at}
            /\ \A n \in Batches : n # m => ranAt'[n] = ranAt[n]
        BY <2>1, <3>1 DEF RanIsProcessed
      <3> QED
        BY <1>1, <3>2 DEF RanIsProcessed
    <2>2. CASE UNCHANGED ranAt
      BY <1>1, <2>2 DEF RanIsProcessed
    <2> QED
      BY <1>1, <2>1, <2>2
  <1>3. PICK pc \in {"running", "done"} : Step(m, h, pc)
    BY <1>1
  <1>4. Quiet
    <2>1. pc \in HopStages /\ hop[m][h].pc \in Hand /\ hop[m][h].pc # "none"
          /\ (pc \in {"done", "failed"} \/ pc \in {"overtaking", "serving", "running"})
      BY <1>1 DEF HopStages, Hand
    <2> QED
      BY <1>3, <2>1, StepGoesOn
  <1> QED
    BY <1>1, <1>2, <1>4, QuietOwners DEF OwnerMoves

LEMMA ForwardFailsKeeps ==
    ASSUME OwnersInv, NEW m \in Batches, NEW h \in Hops, h + 1 \in Hops, ForwardFails(m, h)
    PROVE  OwnersInv'
  <1> USE DEF OwnersInv
  <1> DEFINE k == h + 1
             w == [hop[m][h] EXCEPT !.pc = "overtaking"]
             x == IF hop[m][k].pc = "sent" THEN [pc |-> "failed", at |-> hop[m][k].at] ELSE hop[m][k]
  <1>1. /\ hop[m][h].pc = "awaiting" /\ UNCHANGED <<owner, processed, ranAt>>
        /\ hop' = [hop EXCEPT ![m][h].pc = "overtaking",
                              ![m][k] = IF hop[m][k].pc = "sent" THEN [pc |-> "failed", at |-> @.at] ELSE @]
    BY DEF ForwardFails, At
  <1>2. hop[m] \in [Hops -> HopType] /\ hop[m][h] \in HopType /\ hop[m][k] \in HopType
    BY DEF OwnersTyped
  <1>3. h # k /\ k \in Hops
    BY DEF Hops
  <1>4. /\ w \in HopType /\ w.pc = "overtaking" /\ w.at = hop[m][h].at
        /\ x \in HopType /\ x.at = hop[m][k].at /\ (x.pc = hop[m][k].pc \/ (hop[m][k].pc # "none" /\ x.pc = "failed"))
    BY <1>2 DEF HopType, HopStages, Hand
  <1>5. hop' = [hop EXCEPT ![m] = [[hop[m] EXCEPT ![h] = w] EXCEPT ![k] = x]]
    BY <1>1, <1>2, <1>3 DEF OwnersTyped
  <1> HIDE DEF w, x, k
  <1>6. /\ hop' \in [Batches -> [Hops -> HopType]] /\ hop'[m][h] = w /\ hop'[m][k] = x
        /\ \A n \in Batches, g \in Hops : n # m \/ (g # h /\ g # k) => hop'[n][g] = hop[n][g]
    <2> DEFINE f == [hop[m] EXCEPT ![h] = w]
    <2>1. f \in [Hops -> HopType] /\ f[h] = w /\ \A g \in Hops : g # h => f[g] = hop[m][g]
      BY <1>2, <1>4
    <2>2. hop' = [hop EXCEPT ![m] = [f EXCEPT ![k] = x]]
      BY <1>5
    <2> HIDE DEF f
    <2> DEFINE F == [f EXCEPT ![k] = x]
    <2>3. F \in [Hops -> HopType] /\ F[h] = w /\ F[k] = x /\ \A g \in Hops : g # h /\ g # k => F[g] = hop[m][g]
      BY <1>3, <1>4, <2>1
    <2>4. hop' = [hop EXCEPT ![m] = F] /\ hop \in [Batches -> [Hops -> HopType]]
      BY <2>2 DEF OwnersTyped
    <2> HIDE DEF F
    <2> QED
      BY <2>3, <2>4
  <1>7. Quiet
    <2>1. HopGoesOn(hop[m][h], w) /\ HopGoesOn(hop[m][k], x)
      BY <1>1, <1>4 DEF HopGoesOn, Hand
    <2>2. \A n \in Batches, g \in Hops : HopGoesOn(hop[n][g], hop[n][g])
      BY DEF HopGoesOn
    <2> QED
      BY <1>6, <2>1, <2>2 DEF Quiet
  <1> QED
    BY <1>1, <1>7, QuietOwners, RanStays DEF OwnerMoves

LEMMA DiesKeeps ==
    ASSUME OwnersInv, NEW r \in Replica, Dies(r)
    PROVE  OwnersInv'
  <1> USE DEF OwnersInv
  <1> DEFINE Lost(x) == IF x.at = r /\ x.pc \notin {"none", "sent", "done"} THEN [x EXCEPT !.pc = "failed"] ELSE x
  <1>1. /\ hop' = [m \in Batches |-> [h \in Hops |-> Lost(hop[m][h])]]
        /\ UNCHANGED <<owner, processed, ranAt>>
    BY DEF Dies
  <1>2. \A m \in Batches, h \in Hops : hop[m][h] \in HopType
    BY DEF OwnersTyped
  <1>3. \A x \in HopType : Lost(x) \in HopType /\ HopGoesOn(x, Lost(x))
    BY DEF HopType, HopStages, HopGoesOn
  <1> HIDE DEF Lost
  <1>4. Quiet
    BY <1>1, <1>2, <1>3 DEF Quiet
  <1> QED
    BY <1>1, <1>4, QuietOwners, RanStays DEF OwnerMoves

LEMMA OwnersKeep ==
    ASSUME OwnersInv, MaxHops \in Nat \ {0}, [OwnersNext]_rVars
    PROVE  OwnersInv'
  <1>1. ASSUME NEW m \in Batches, NEW r \in Replica, Arrives(m, r) PROVE OwnersInv'
    <2>1. 1 \in Hops
      BY DEF Hops
    <2> QED
      BY <1>1, <2>1, ArrivesKeeps
  <1>2. ASSUME NEW m \in Batches, NEW h \in Hops, Works(m, h) PROVE OwnersInv'
    <2>1. CASE Begins(m, h)
      BY <2>1, BeginsKeeps
    <2>2. CASE Claim(m, h)
      BY <2>2, ClaimKeeps
    <2>3. CASE Serve(m, h)
      BY <2>3, ServeKeeps
    <2>4. CASE h < MaxHops /\ ForwardFails(m, h)
      <3>1. h + 1 \in Hops
        BY <2>4 DEF Hops
      <3> QED
        BY <2>4, <3>1, ForwardFailsKeeps
    <2>5. CASE TakenIn(m, h) \/ Overtake(m, h) \/ ForwardAnswered(m, h) \/ TurnEnds(m, h)
      BY <2>5, WorksOn
    <2> QED
      BY <1>2, <2>1, <2>2, <2>3, <2>4, <2>5 DEF Works
  <1>3. ASSUME NEW r \in Replica, Dies(r) PROVE OwnersInv'
    BY <1>3, DiesKeeps
  <1>4. ASSUME UNCHANGED <<hop, owner, processed, ranAt>> PROVE OwnersInv'
    <2>1. RanIsProcessed'
      BY <1>4, RanStays DEF OwnersInv
    <2>2. Quiet
      BY <1>4 DEF OwnersInv, OwnersTyped, Quiet, HopGoesOn
    <2> QED
      BY <1>4, <2>1, <2>2, QuietOwners DEF OwnerMoves
  <1>5. ASSUME NEW r \in Replica, LetsGo(r) PROVE OwnersInv'
    BY <1>4, <1>5 DEF LetsGo
  <1>6. CASE UNCHANGED rVars
    BY <1>4, <1>6 DEF rVars
  <1> QED
    BY <1>1, <1>2, <1>3, <1>5, <1>6 DEF OwnersNext

LEMMA OwnersPromise ==
    ASSUME OwnersInv, MaxHops \in Nat
    PROVE  OneTurnPerBatch /\ NeverSentBack
  <1> USE DEF OwnersInv
  <1>1. OneTurnPerBatch
    <2> SUFFICES ASSUME NEW m \in Batches PROVE Cardinality(ranAt[m]) <= 1
      BY DEF OneTurnPerBatch
    <2>1. CASE ranAt[m] = {}
      <3>1. Cardinality({}) = 0
        BY FS_EmptySet
      <3> QED
        BY <2>1, <3>1
    <2>2. CASE ranAt[m] # {}
      <3>1. PICK r : ranAt[m] = {r}
        BY <2>2 DEF RanIsProcessed
      <3>2. Cardinality({r}) = 1
        BY FS_Singleton
      <3> QED
        BY <3>1, <3>2
    <2> QED
      BY <2>1, <2>2
  <1>2. NeverSentBack
    <2> SUFFICES ASSUME NEW m \in Batches, NEW h \in Hops, NEW g \in 1..(h - 1), hop[m][g].pc = "awaiting",
                        hop[m][h].pc \in Hand \cup {"sent", "queued"}
                 PROVE  hop[m][g].at # hop[m][h].at
      BY DEF NeverSentBack, At, Hand
    <2>1. g \in Hops /\ g < h /\ g # h
      BY DEF Hops
    <2>2. CASE hop[m][h].pc \in {"sent", "queued"}
      BY <2>1, <2>2 DEF NotToAWaiter
    <2>3. CASE hop[m][h].pc \in Hand
      BY <2>1, <2>3 DEF OneInHand, Hand
    <2> QED
      BY <2>2, <2>3
  <1> QED
    BY <1>1, <1>2

(* For any replicas, batches and number of hops, over claims, pinned        *)
(* batches, forwards that fail while they arrive, leases let go and         *)
(* crashes: a batch makes one turn, and is never passed to a replica that   *)
(* still waits for its outcome (flows/owned.py, store/sqlite/replicas.py).  *)
THEOREM BatchesRunOnceAlways ==
    ASSUME MaxHops \in Nat \ {0}
    PROVE  OwnersSpec => [](OneTurnPerBatch /\ NeverSentBack)
  <1>1. OwnersInit => OwnersInv
    BY OwnersStart
  <1>2. OwnersInv /\ [OwnersNext]_rVars => OwnersInv'
    BY OwnersKeep
  <1>3. OwnersInv => OneTurnPerBatch /\ NeverSentBack
    BY OwnersPromise
  <1> QED
    BY <1>1, <1>2, <1>3, PTL DEF OwnersSpec

-----------------------------------------------------------------------------
(* McpCalls: what left is known by the client and the id it left under, and *)
(* a call that is still to be made, or made again, has nothing at the       *)
(* server that could run.                                                   *)

AskedType == [purpose : Purposes, id : Nat, on : Nat, try : Nat]
ClientType == [version : {"modern", "legacy"}, probed : BOOLEAN, initialized : BOOLEAN,
               proc : 0 .. MaxProcs, next : Nat, waiting : SUBSET [id : Nat, call : Callers]]
RequestType == [call : Callers, id : Nat, on : Nat, modern : BOOLEAN, purpose : Purposes \cup {"list", "ran"}]
Stands == {"idle", "again", "spawning", "waiting", "closing", "done"}
Boxes == 0 .. MaxProcs
Built == 1 .. clients

CallsTyped ==
    /\ clients \in 0 .. MaxClients /\ standing \in 0 .. clients
    /\ client \in [Clients -> ClientType]
    /\ at \in [Callers -> Stands] /\ asked \in [Callers -> AskedType]
    /\ got \in [Callers -> Futures] /\ told \in [Callers -> Told] /\ runs \in [Callers -> Nat]
    /\ box \in [Boxes -> SUBSET RequestType]

(* Ids go up, on a client each. *)
IdsAreOld ==
    /\ \A p \in Boxes : \A q \in box[p] : q.on \in Built /\ q.id <= client[q.on].next
    /\ \A c \in Built : \A x \in client[c].waiting : x.id <= client[c].next
    /\ \A k \in Callers : at[k] \in {"waiting", "spawning"} => asked[k].on \in Built
    /\ \A k \in Callers : at[k] = "waiting" => asked[k].id <= client[asked[k].on].next

SameRequest(q, s) == q.on = s.on /\ q.id = s.id
IdsAreUnique ==
    /\ \A p, o \in Boxes : \A q \in box[p], s \in box[o] : SameRequest(q, s) => p = o /\ q = s
    /\ \A p \in Boxes : \A q \in box[p] : \A x \in client[q.on].waiting : x.id = q.id => x.call = q.call

(* A request is the one its call awaits. *)
IsAwaited(q) == at[q.call] = "waiting" /\ SameRequest(q, asked[q.call])
Linked ==
    \A p \in Boxes : \A q \in box[p] :
        /\ IsAwaited(q) => (asked[q.call].purpose = "call" <=> q.purpose \in {"call", "ran", "list"})
        /\ q.purpose = "list" => q.call \in Lists
        /\ q.purpose \in {"call", "ran"} => q.call \notin Lists

(* What the server may still run has not been run, and its call waits for  *)
(* it or was given up as one that may have run.                             *)
ToRun ==
    /\ \A p \in Boxes : \A q \in box[p] : q.purpose = "call" =>
          /\ runs[q.call] = 0
          /\ \/ IsAwaited(q) /\ got[q.call] \in {"nothing", "exited"}
             \/ at[q.call] = "done" /\ told[q.call] = "unanswered"
    /\ \A p, o \in Boxes : \A q \in box[p], s \in box[o] :
          q.purpose = "call" /\ s.purpose = "call" /\ q.call = s.call => p = o /\ q = s

RanOnce ==
    /\ \A k \in Callers : runs[k] = 0 \/
          /\ runs[k] = 1 /\ k \notin Lists
          /\ \/ at[k] = "done" /\ told[k] \in {"ok", "unanswered"}
             \/ at[k] = "waiting" /\ asked[k].purpose = "call" /\ got[k] \in {"nothing", "exited", "ok"}
    /\ \A p \in Boxes : \A q \in box[p] : q.purpose = "ran" => runs[q.call] = 1

Said ==
    \A k \in Callers \ Lists :
        /\ told[k] # "none" => at[k] = "done"
        /\ at[k] = "done" => told[k] # "none"
        /\ told[k] = "ok" => runs[k] = 1
        /\ at[k] = "waiting" /\ asked[k].purpose = "call" /\ got[k] = "ok" => runs[k] = 1

CallsInv == CallsTyped /\ IdsAreOld /\ IdsAreUnique /\ Linked /\ ToRun /\ RanOnce /\ Said

CallsBounds == MaxClients \in Nat /\ MaxProcs \in Nat

LEMMA CallsStart == CallsBounds /\ CallsInit => CallsInv
  <1> SUFFICES ASSUME CallsBounds, CallsInit PROVE CallsInv
    OBVIOUS
  <1> USE DEF CallsInit, CallsBounds
  <1>1. NewClient \in ClientType /\ NoRequest \in AskedType
    BY DEF NewClient, ClientType, NoRequest, AskedType, Purposes
  <1>2. CallsTyped
    BY <1>1 DEF CallsTyped, Stands, Futures, Told, Boxes
  <1>3. IdsAreOld /\ IdsAreUnique /\ Linked /\ ToRun
    BY DEF IdsAreOld, IdsAreUnique, Linked, ToRun, Built, Boxes
  <1>4. RanOnce /\ Said
    BY DEF RanOnce, Said, Boxes
  <1> QED
    BY <1>2, <1>3, <1>4 DEF CallsInv

(* Nothing of the call ran, and the server has nothing of it to run. *)
Unrun(k) == runs[k] = 0 /\ \A p \in Boxes : \A q \in box[p] : q.call = k => q.purpose # "call"

LEMMA NothingLeft ==
    ASSUME CallsInv, NEW k \in Callers, at[k] # "done",
           at[k] = "waiting" => asked[k].purpose # "call" \/ got[k] \in {"status", "version", "refused"}
    PROVE  Unrun(k)
  <1>1. runs[k] = 0
    BY DEF CallsInv, RanOnce
  <1>2. ASSUME NEW p \in Boxes, NEW q \in box[p], q.call = k, q.purpose = "call" PROVE FALSE
    <2>1. IsAwaited(q) /\ got[k] \in {"nothing", "exited"}
      BY <1>2 DEF CallsInv, ToRun
    <2>2. asked[k].purpose = "call" /\ at[k] = "waiting"
      BY <1>2, <2>1 DEF CallsInv, Linked, IsAwaited
    <2> QED
      BY <2>1, <2>2
  <1> QED
    BY <1>1, <1>2 DEF Unrun

-----------------------------------------------------------------------------
(* A step that sends nothing: ids stay or go up, requests and futures may   *)
(* go, a call that moves on is given up unsure or has nothing to run.       *)
ClientsGoOn ==
    /\ clients' \in 0 .. MaxClients /\ clients <= clients' /\ standing' \in 0 .. clients'
    /\ client' \in [Clients -> ClientType]
    /\ \A c \in 1 .. clients' :
         \/ c \in Built /\ client[c].next <= client'[c].next /\ client'[c].waiting \subseteq client[c].waiting
         \/ c \notin Built /\ client'[c].waiting = {}

NothingToRun(k) == runs[k] = 0 /\ \A p \in Boxes : \A q \in box'[p] : q.call = k => q.purpose # "call"

CallStays(k) ==
    /\ at'[k] = at[k] /\ asked'[k] = asked[k] /\ told'[k] = told[k]
    /\ got'[k] = got[k] \/ (got[k] = "nothing" /\ got'[k] = "exited")

(* An answer to a request that was made for the call. *)
CallAnswered(k) ==
    /\ at'[k] = at[k] /\ asked'[k] = asked[k] /\ told'[k] = told[k]
    /\ \/ k \in Lists
       \/ at[k] = "waiting" /\ asked[k].purpose # "call"
       \/ runs[k] = 1 /\ got'[k] = "ok"
       \/ NothingToRun(k) /\ got'[k] \in {"refused", "status", "version"}

CallEnds(k) ==
    /\ at'[k] = "done"
    /\ \/ k \in Lists
       \/ at[k] # "done" /\ told'[k] = "unanswered"
       \/ at[k] = "waiting" /\ asked[k].purpose = "call" /\ got[k] = "ok" /\ told'[k] = "ok"
       \/ NothingToRun(k) /\ told'[k] \in {"unreachable", "refused"}

CallMoves(k) ==
    /\ at'[k] \in {"spawning", "closing", "again"}
    /\ at'[k] = "spawning" => asked'[k].on \in 1 .. clients'
    /\ k \in Lists \/ (NothingToRun(k) /\ told'[k] = "none")

BoxesEmpty == box' \in [Boxes -> SUBSET RequestType] /\ \A p \in Boxes : box'[p] \subseteq box[p]

SendsNothing ==
    /\ ClientsGoOn
    /\ at' \in [Callers -> Stands] /\ asked' \in [Callers -> AskedType]
    /\ got' \in [Callers -> Futures] /\ told' \in [Callers -> Told] /\ runs' = runs
    /\ BoxesEmpty
    /\ \A k \in Callers : CallStays(k) \/ CallAnswered(k) \/ CallEnds(k) \/ CallMoves(k)

LEMMA SendsNothingKeeps ==
    ASSUME CallsBounds, CallsInv, SendsNothing
    PROVE  CallsInv'
  <1> USE DEF CallsInv
  <1>1. CallsTyped'
    BY DEF CallsTyped, SendsNothing, ClientsGoOn, BoxesEmpty
  <1>a. /\ \A k \in Callers : CallStays(k) \/ CallAnswered(k) \/ CallEnds(k) \/ CallMoves(k)
        /\ \A p \in Boxes : \A q \in box'[p] : q \in box[p] /\ q \in RequestType /\ q.call \in Callers
        /\ runs' = runs /\ runs \in [Callers -> Nat]
    BY DEF SendsNothing, BoxesEmpty, RequestType, CallsTyped
  <1>b. \A k \in Callers : at'[k] = "waiting" =>
            at[k] = "waiting" /\ asked'[k] = asked[k] /\ told'[k] = told[k]
    BY <1>a DEF CallStays, CallAnswered, CallEnds, CallMoves
  <1>c. \A c \in Built : /\ c \in Clients /\ c \in 1 .. clients' /\ client[c].next \in Nat /\ client'[c].next \in Nat
                         /\ client[c].next <= client'[c].next /\ client'[c].waiting \subseteq client[c].waiting
    <2>1. \A c \in Built : c \in Clients /\ c \in 1 .. clients'
      BY DEF Built, Clients, CallsTyped, SendsNothing, ClientsGoOn, CallsBounds
    <2>2. \A c \in Built : client[c] \in ClientType /\ client'[c] \in ClientType
      BY <2>1 DEF CallsTyped, SendsNothing, ClientsGoOn
    <2> QED
      BY <2>1, <2>2 DEF SendsNothing, ClientsGoOn, ClientType
  <1>2. IdsAreOld'
    <2>1. \A p \in Boxes : \A q \in box'[p] : q.on \in Built' /\ q.id <= client'[q.on].next
      <3> SUFFICES ASSUME NEW p \in Boxes, NEW q \in box'[p] PROVE q.on \in Built' /\ q.id <= client'[q.on].next
        OBVIOUS
      <3>1. q.on \in Built /\ q.id <= client[q.on].next /\ q.id \in Nat
        BY <1>a DEF IdsAreOld, RequestType
      <3> QED
        BY <1>c, <3>1 DEF Built
    <2>2. \A c \in Built' : \A x \in client'[c].waiting : x.id <= client'[c].next
      <3> SUFFICES ASSUME NEW c \in Built', NEW x \in client'[c].waiting PROVE x.id <= client'[c].next
        OBVIOUS
      <3>1. c \in Built /\ x \in client[c].waiting
        BY DEF SendsNothing, ClientsGoOn, Built
      <3>2. x.id <= client[c].next /\ x.id \in Nat
        BY <1>c, <3>1 DEF IdsAreOld, CallsTyped, ClientType
      <3> QED
        BY <1>c, <3>1, <3>2
    <2>3. \A k \in Callers : at'[k] \in {"waiting", "spawning"} => asked'[k].on \in Built'
      <3> SUFFICES ASSUME NEW k \in Callers, at'[k] \in {"waiting", "spawning"} PROVE asked'[k].on \in Built'
        OBVIOUS
      <3>1. CASE CallStays(k) \/ CallAnswered(k)
        BY <1>c, <3>1 DEF CallStays, CallAnswered, IdsAreOld, Built
      <3>2. CASE CallMoves(k)
        BY <1>b, <1>c, <3>2 DEF CallMoves, IdsAreOld, Built
      <3> QED
        BY <1>a, <3>1, <3>2 DEF CallEnds
    <2>4. \A k \in Callers : at'[k] = "waiting" => asked'[k].id <= client'[asked'[k].on].next
      <3> SUFFICES ASSUME NEW k \in Callers, at'[k] = "waiting" PROVE asked'[k].id <= client'[asked'[k].on].next
        OBVIOUS
      <3>1. asked'[k] = asked[k] /\ asked[k].on \in Built /\ asked[k].id <= client[asked[k].on].next /\ asked[k].id \in Nat
        BY <1>b DEF IdsAreOld, CallsTyped, AskedType
      <3> QED
        BY <1>c, <3>1
    <2> QED
      BY <2>1, <2>2, <2>3, <2>4 DEF IdsAreOld
  <1>3. IdsAreUnique'
    <2>1. \A p \in Boxes : \A q \in box'[p] : \A x \in client'[q.on].waiting : x.id = q.id => x.call = q.call
      <3> SUFFICES ASSUME NEW p \in Boxes, NEW q \in box'[p], NEW x \in client'[q.on].waiting, x.id = q.id
                   PROVE  x.call = q.call
        OBVIOUS
      <3>1. q \in box[p] /\ q.on \in Built
        BY <1>a DEF IdsAreOld
      <3>2. x \in client[q.on].waiting
        BY <1>c, <3>1
      <3> QED
        BY <3>1, <3>2 DEF IdsAreUnique
    <2> QED
      BY <1>a, <2>1 DEF IdsAreUnique
  <1>d. \A p \in Boxes : \A q \in box'[p] : IsAwaited(q)' => IsAwaited(q) /\ asked'[q.call] = asked[q.call]
    BY <1>a, <1>b DEF IsAwaited, SameRequest
  <1>4. Linked'
    BY <1>a, <1>d DEF Linked
  <1>5. ToRun'
    <2>1. ASSUME NEW p \in Boxes, NEW q \in box'[p], q.purpose = "call"
          PROVE  /\ runs'[q.call] = 0
                 /\ \/ IsAwaited(q)' /\ got'[q.call] \in {"nothing", "exited"}
                    \/ at'[q.call] = "done" /\ told'[q.call] = "unanswered"
      <3>1. /\ q \in box[p] /\ q.call \in Callers /\ q.call \notin Lists /\ runs[q.call] = 0
            /\ \/ IsAwaited(q) /\ got[q.call] \in {"nothing", "exited"}
               \/ at[q.call] = "done" /\ told[q.call] = "unanswered"
        BY <1>a, <2>1 DEF ToRun, Linked
      <3>2. CASE CallStays(q.call)
        BY <1>a, <3>1, <3>2 DEF CallStays, IsAwaited, SameRequest
      <3>3. ~NothingToRun(q.call)
        BY <2>1 DEF NothingToRun
      <3>4. CASE CallEnds(q.call)
        BY <1>a, <3>1, <3>3, <3>4 DEF CallEnds, IsAwaited
      <3>5. ~CallMoves(q.call)
        BY <3>1, <3>3 DEF CallMoves
      <3>6. CASE CallAnswered(q.call)
        <4>1. ~IsAwaited(q) \/ asked[q.call].purpose = "call"
          BY <2>1, <3>1 DEF Linked
        <4> QED
          BY <1>a, <3>1, <3>3, <3>6, <4>1 DEF CallAnswered, IsAwaited
      <3> QED
        BY <1>a, <3>1, <3>2, <3>4, <3>5, <3>6
    <2>2. \A p, o \in Boxes : \A q \in box'[p], s \in box'[o] :
              q.purpose = "call" /\ s.purpose = "call" /\ q.call = s.call => p = o /\ q = s
      BY <1>a DEF ToRun
    <2> QED
      BY <2>1, <2>2 DEF ToRun
  <1>6. RanOnce'
    <2>1. ASSUME NEW k \in Callers, runs[k] # 0
          PROVE  /\ runs'[k] = 1 /\ k \notin Lists
                 /\ \/ at'[k] = "done" /\ told'[k] \in {"ok", "unanswered"}
                    \/ at'[k] = "waiting" /\ asked'[k].purpose = "call" /\ got'[k] \in {"nothing", "exited", "ok"}
      <3>1. /\ runs[k] = 1 /\ k \notin Lists
            /\ \/ at[k] = "done" /\ told[k] \in {"ok", "unanswered"}
               \/ at[k] = "waiting" /\ asked[k].purpose = "call" /\ got[k] \in {"nothing", "exited", "ok"}
        BY <2>1 DEF RanOnce
      <3>2. ~NothingToRun(k)
        BY <2>1 DEF NothingToRun
      <3>3. CASE CallStays(k)
        BY <1>a, <3>1, <3>3 DEF CallStays
      <3>4. CASE CallEnds(k)
        BY <1>a, <3>1, <3>2, <3>4 DEF CallEnds
      <3>5. CASE CallAnswered(k)
        BY <1>a, <3>1, <3>2, <3>5 DEF CallAnswered
      <3> QED
        BY <1>a, <3>1, <3>2, <3>3, <3>4, <3>5 DEF CallMoves
    <2>2. \A p \in Boxes : \A q \in box'[p] : q.purpose = "ran" => runs'[q.call] = 1
      BY <1>a DEF RanOnce
    <2> QED
      BY <1>a, <2>1, <2>2 DEF RanOnce
  <1>7. Said'
    <2> SUFFICES ASSUME NEW k \in Callers \ Lists
                 PROVE  /\ told'[k] # "none" => at'[k] = "done"
                        /\ at'[k] = "done" => told'[k] # "none"
                        /\ told'[k] = "ok" => runs'[k] = 1
                        /\ at'[k] = "waiting" /\ asked'[k].purpose = "call" /\ got'[k] = "ok" => runs'[k] = 1
      BY DEF Said
    <2>1. /\ told[k] # "none" => at[k] = "done"
          /\ at[k] = "done" => told[k] # "none"
          /\ told[k] = "ok" => runs[k] = 1
          /\ at[k] = "waiting" /\ asked[k].purpose = "call" /\ got[k] = "ok" => runs[k] = 1
      BY DEF Said
    <2>2. CASE CallStays(k)
      BY <1>a, <2>1, <2>2 DEF CallStays
    <2>3. CASE CallEnds(k)
      BY <1>a, <2>1, <2>3 DEF CallEnds
    <2>4. CASE CallMoves(k)
      BY <1>a, <2>4 DEF CallMoves
    <2>5. CASE CallAnswered(k)
      BY <1>a, <2>1, <2>5 DEF CallAnswered, NothingToRun
    <2> QED
      BY <1>a, <2>2, <2>3, <2>4, <2>5
  <1> QED
    BY <1>1, <1>2, <1>3, <1>4, <1>5, <1>6, <1>7

-----------------------------------------------------------------------------
(* A client as it stands when a step is through with it: one in use, whose  *)
(* ids are no lower, or the next to be built.                               *)
Fits(c, v) ==
    /\ v \in ClientType /\ clients' \in 0 .. MaxClients
    /\ \/ clients' = clients /\ c \in Built /\ client[c].next <= v.next /\ v.waiting \subseteq client[c].waiting
       \/ clients' = clients + 1 /\ c = clients' /\ v.waiting = {}

LEMMA FitsWhere ==
    ASSUME CallsBounds, CallsInv, NEW c, NEW v, Fits(c, v)
    PROVE  /\ c \in Clients /\ c \in 1 .. clients' /\ clients <= clients' /\ v.next \in Nat
           /\ \A d \in 1 .. clients' : d \in Clients /\ (d = c \/ d \in Built)
           /\ \A d \in Built : d \in Clients /\ d \in 1 .. clients'
           /\ c \in Built => client[c].next <= v.next /\ v.waiting \subseteq client[c].waiting
           /\ c \notin Built => v.waiting = {}
  BY DEF Fits, CallsBounds, CallsInv, CallsTyped, Clients, Built, ClientType

LEMMA WritesKeep ==
    ASSUME CallsBounds, CallsInv, NEW k \in Callers, NEW r \in AskedType, NEW v, NEW p \in Boxes,
           Fits(r.on, v), Unrun(k), at[k] # "done", Written(k, r, v, p), runs' = runs, standing' \in 0 .. clients'
    PROVE  CallsInv'
  <1> USE DEF CallsInv
  <1> DEFINE c == r.on
             i == v.next + 1
             entry == [id |-> i, call |-> k]
             w == [v EXCEPT !.next = @ + 1, !.waiting = @ \cup {entry}]
             a == [r EXCEPT !.id = i]
             q0 == [call |-> k, id |-> i, on |-> c, modern |-> v.version = "modern",
                    purpose |-> IF k \in Lists /\ r.purpose = "call" THEN "list" ELSE r.purpose]
  <1>a. /\ c \in Clients /\ c \in 1 .. clients' /\ clients <= clients' /\ v.next \in Nat
        /\ \A d \in 1 .. clients' : d \in Clients /\ (d = c \/ d \in Built)
        /\ \A d \in Built : d \in Clients /\ d \in 1 .. clients'
        /\ c \in Built => client[c].next <= v.next /\ v.waiting \subseteq client[c].waiting
        /\ c \notin Built => v.waiting = {}
    BY FitsWhere
  <1>b. v \in ClientType /\ i \in Nat /\ i > v.next
    BY <1>a DEF Fits
  <1>c. entry \in [id : Nat, call : Callers] /\ entry.id = i /\ entry.call = k
    BY <1>b
  <1>d. w \in ClientType /\ w.next = i /\ w.waiting = v.waiting \cup {entry}
    <2> HIDE DEF entry
    <2> QED
      BY <1>b, <1>c DEF ClientType
  <1>e. a \in AskedType /\ a.id = i /\ a.on = c /\ a.purpose = r.purpose /\ r.purpose \in Purposes
    BY <1>b DEF AskedType
  <1>f. /\ q0 \in RequestType /\ q0.call = k /\ q0.id = i /\ q0.on = c
        /\ q0.purpose = IF k \in Lists /\ r.purpose = "call" THEN "list" ELSE r.purpose
    BY <1>b, <1>e DEF RequestType, AskedType, Purposes
  <1>g. /\ client' = [client EXCEPT ![c] = w] /\ box' = [box EXCEPT ![p] = @ \cup {q0}]
        /\ asked' = [asked EXCEPT ![k] = a] /\ at' = [at EXCEPT ![k] = "waiting"]
        /\ got' = [got EXCEPT ![k] = "nothing"] /\ told' = told
    BY DEF Written
  <1> HIDE DEF c, i, entry, w, a, q0
  <1>h. /\ client' \in [Clients -> ClientType] /\ client'[c] = w /\ \A d \in Clients : d # c => client'[d] = client[d]
        /\ box' \in [Boxes -> SUBSET RequestType] /\ box'[p] = box[p] \cup {q0}
        /\ \A o \in Boxes : o # p => box'[o] = box[o]
    BY <1>a, <1>d, <1>f, <1>g DEF CallsTyped
  <1>i. /\ at' \in [Callers -> Stands] /\ asked' \in [Callers -> AskedType] /\ got' \in [Callers -> Futures]
        /\ at'[k] = "waiting" /\ asked'[k] = a /\ got'[k] = "nothing"
        /\ \A j \in Callers : j # k => at'[j] = at[j] /\ asked'[j] = asked[j] /\ got'[j] = got[j]
    BY <1>e, <1>g DEF CallsTyped, Stands, Futures
  <1>1. CallsTyped'
    BY <1>g, <1>h, <1>i DEF CallsTyped, Fits
  (* What was there before has a lower id on this client. *)
  <1>j. \A o \in Boxes : \A q \in box'[o] : (q = q0 /\ o = p) \/ q \in box[o]
    BY <1>h
  <1>k. \A o \in Boxes : \A q \in box[o] :
            /\ q \in RequestType /\ q.call \in Callers /\ q.id \in Nat /\ q.on \in Built /\ q.id <= client[q.on].next
            /\ q.on = c => q.id < i
    <2> SUFFICES ASSUME NEW o \in Boxes, NEW q \in box[o]
                 PROVE  /\ q \in RequestType /\ q.call \in Callers /\ q.id \in Nat
                        /\ q.on \in Built /\ q.id <= client[q.on].next
                        /\ q.on = c => q.id < i
      OBVIOUS
    <2>1. q \in RequestType /\ q.call \in Callers /\ q.id \in Nat
      BY DEF CallsTyped, RequestType
    <2>2. q.on \in Built /\ q.id <= client[q.on].next
      BY DEF IdsAreOld
    <2>3. client[q.on].next \in Nat
      BY <1>a, <2>2 DEF CallsTyped, ClientType
    <2> QED
      BY <1>a, <1>b, <2>1, <2>2, <2>3
  <1>l. \A d \in 1 .. clients' : \A x \in client'[d].waiting :
            \/ d = c /\ x = entry
            \/ d \in Built /\ x \in client[d].waiting /\ x.id \in Nat /\ x.id <= client[d].next /\ (d = c => x.id < i)
    <2> SUFFICES ASSUME NEW d \in 1 .. clients', NEW x \in client'[d].waiting, ~(d = c /\ x = entry)
                 PROVE  d \in Built /\ x \in client[d].waiting /\ x.id \in Nat /\ x.id <= client[d].next /\ (d = c => x.id < i)
      OBVIOUS
    <2>1. d \in Built /\ x \in client[d].waiting /\ d \in Clients
      BY <1>a, <1>d, <1>h
    <2>2. client[d] \in ClientType
      BY <2>1 DEF CallsTyped
    <2>3. x.id \in Nat /\ client[d].next \in Nat /\ x.id <= client[d].next
      BY <2>1, <2>2 DEF IdsAreOld, ClientType
    <2> QED
      BY <1>a, <1>b, <2>1, <2>3
  <1>m. \A d \in Built : client[d].next \in Nat /\ client'[d].next \in Nat /\ client[d].next <= client'[d].next
    <2> SUFFICES ASSUME NEW d \in Built
                 PROVE  client[d].next \in Nat /\ client'[d].next \in Nat /\ client[d].next <= client'[d].next
      OBVIOUS
    <2>1. d \in Clients /\ client[d].next \in Nat
      BY <1>a DEF CallsTyped, ClientType
    <2>2. CASE d = c
      BY <1>a, <1>b, <1>d, <1>h, <2>1, <2>2
    <2>3. CASE d # c
      BY <1>h, <2>1, <2>3
    <2> QED
      BY <2>2, <2>3
  <1>2. IdsAreOld'
    <2>1. \A o \in Boxes : \A q \in box'[o] : q.on \in 1 .. clients' /\ q.id <= client'[q.on].next
      <3> SUFFICES ASSUME NEW o \in Boxes, NEW q \in box'[o] PROVE q.on \in 1 .. clients' /\ q.id <= client'[q.on].next
        OBVIOUS
      <3>1. CASE q = q0
        BY <1>a, <1>b, <1>d, <1>f, <1>h, <3>1
      <3>2. CASE q \in box[o]
        BY <1>a, <1>k, <1>m, <3>2
      <3> QED
        BY <1>j, <3>1, <3>2
    <2>2. \A d \in 1 .. clients' : \A x \in client'[d].waiting : x.id <= client'[d].next
      <3> SUFFICES ASSUME NEW d \in 1 .. clients', NEW x \in client'[d].waiting PROVE x.id <= client'[d].next
        OBVIOUS
      <3>1. CASE d = c /\ x = entry
        BY <1>b, <1>c, <1>d, <1>h, <3>1
      <3>2. CASE d \in Built /\ x.id \in Nat /\ x.id <= client[d].next
        BY <1>m, <3>2
      <3> QED
        BY <1>l, <3>1, <3>2
    <2>3. \A j \in Callers : at'[j] \in {"waiting", "spawning"} => asked'[j].on \in 1 .. clients'
      BY <1>a, <1>e, <1>i DEF IdsAreOld
    <2>4. \A j \in Callers : at'[j] = "waiting" => asked'[j].id <= client'[asked'[j].on].next
      <3> SUFFICES ASSUME NEW j \in Callers, at'[j] = "waiting" PROVE asked'[j].id <= client'[asked'[j].on].next
        OBVIOUS
      <3>1. CASE j = k
        BY <1>b, <1>d, <1>e, <1>h, <1>i, <3>1
      <3>2. CASE j # k
        <4>1. asked'[j] = asked[j] /\ asked[j].on \in Built /\ asked[j].id <= client[asked[j].on].next /\ asked[j].id \in Nat
          BY <1>i, <3>2 DEF IdsAreOld, CallsTyped, AskedType
        <4> QED
          BY <1>m, <4>1
      <3> QED
        BY <3>1, <3>2
    <2> QED
      BY <2>1, <2>2, <2>3, <2>4 DEF IdsAreOld, Built
  <1>3. IdsAreUnique'
    <2>1. ASSUME NEW o \in Boxes, NEW u \in Boxes, NEW q \in box'[o], NEW s \in box'[u], SameRequest(q, s)
          PROVE  o = u /\ q = s
      <3>1. CASE q = q0 /\ o = p /\ s = q0 /\ u = p
        BY <3>1
      <3>2. CASE q = q0 /\ s \in box[u]
        BY <1>b, <1>f, <1>k, <2>1, <3>2 DEF SameRequest
      <3>3. CASE s = q0 /\ q \in box[o]
        BY <1>b, <1>f, <1>k, <2>1, <3>3 DEF SameRequest
      <3>4. CASE q \in box[o] /\ s \in box[u]
        BY <2>1, <3>4 DEF IdsAreUnique
      <3> QED
        BY <1>j, <3>1, <3>2, <3>3, <3>4
    <2>2. ASSUME NEW o \in Boxes, NEW q \in box'[o], NEW x \in client'[q.on].waiting, x.id = q.id
          PROVE  x.call = q.call
      <3>1. q.on \in 1 .. clients'
        BY <1>2 DEF IdsAreOld, Built
      <3>2. CASE q = q0 /\ x = entry
        BY <1>c, <1>f, <3>2
      <3>3. CASE q = q0 /\ x # entry
        BY <1>b, <1>f, <1>l, <2>2, <3>1, <3>3
      <3>4. CASE q \in box[o] /\ q.on = c /\ x = entry
        BY <1>b, <1>c, <1>k, <2>2, <3>4
      <3>5. CASE q \in box[o] /\ ~(q.on = c /\ x = entry)
        BY <1>l, <2>2, <3>1, <3>5 DEF IdsAreUnique
      <3> QED
        BY <1>j, <3>2, <3>3, <3>4, <3>5
    <2> QED
      BY <2>1, <2>2 DEF IdsAreUnique
  (* An old request of the call is awaited no more. *)
  <1>n. \A o \in Boxes : \A q \in box[o] : IsAwaited(q)' => IsAwaited(q) /\ q.call # k
    <2> SUFFICES ASSUME NEW o \in Boxes, NEW q \in box[o], IsAwaited(q)' PROVE IsAwaited(q) /\ q.call # k
      OBVIOUS
    <2>1. q.call # k
      BY <1>b, <1>e, <1>i, <1>k DEF IsAwaited, SameRequest
    <2> QED
      BY <1>i, <1>k, <2>1 DEF IsAwaited, SameRequest
  <1>4. Linked'
    <2> SUFFICES ASSUME NEW o \in Boxes, NEW q \in box'[o]
                 PROVE  /\ IsAwaited(q)' => (asked'[q.call].purpose = "call" <=> q.purpose \in {"call", "ran", "list"})
                        /\ q.purpose = "list" => q.call \in Lists
                        /\ q.purpose \in {"call", "ran"} => q.call \notin Lists
      BY DEF Linked
    <2>1. CASE q = q0
      BY <1>e, <1>f, <1>i, <2>1 DEF Purposes
    <2>2. CASE q \in box[o]
      <3>1. IsAwaited(q)' => IsAwaited(q) /\ asked'[q.call] = asked[q.call]
        BY <1>i, <1>k, <1>n, <2>2
      <3> QED
        BY <2>2, <3>1 DEF Linked
    <2> QED
      BY <1>j, <2>1, <2>2
  <1>o. \A o \in Boxes : \A q \in box[o] : q.purpose = "call" => q.call # k
    BY DEF Unrun
  <1>5. ToRun'
    <2>1. ASSUME NEW o \in Boxes, NEW q \in box'[o], q.purpose = "call"
          PROVE  /\ runs'[q.call] = 0
                 /\ \/ IsAwaited(q)' /\ got'[q.call] \in {"nothing", "exited"}
                    \/ at'[q.call] = "done" /\ told'[q.call] = "unanswered"
      <3>1. CASE q = q0
        BY <1>e, <1>f, <1>i, <3>1 DEF IsAwaited, SameRequest, Unrun
      <3>2. CASE q \in box[o]
        <4>1. q.call # k /\ q.call \in Callers
          BY <1>k, <1>o, <2>1, <3>2
        <4> QED
          BY <1>g, <1>i, <2>1, <3>2, <4>1 DEF ToRun, IsAwaited, SameRequest
      <3> QED
        BY <1>j, <3>1, <3>2
    <2>2. ASSUME NEW o \in Boxes, NEW u \in Boxes, NEW q \in box'[o], NEW s \in box'[u],
                 q.purpose = "call", s.purpose = "call", q.call = s.call
          PROVE  o = u /\ q = s
      <3>1. CASE q \in box[o] /\ s \in box[u]
        BY <2>2, <3>1 DEF ToRun
      <3> QED
        BY <1>f, <1>j, <1>o, <2>2, <3>1
    <2> QED
      BY <2>1, <2>2 DEF ToRun
  <1>6. RanOnce'
    <2>1. \A j \in Callers : runs'[j] = 0 \/
              /\ runs'[j] = 1 /\ j \notin Lists
              /\ \/ at'[j] = "done" /\ told'[j] \in {"ok", "unanswered"}
                 \/ at'[j] = "waiting" /\ asked'[j].purpose = "call" /\ got'[j] \in {"nothing", "exited", "ok"}
      BY <1>g, <1>i DEF RanOnce, Unrun
    <2>2. \A o \in Boxes : \A q \in box'[o] : q.purpose = "ran" => runs'[q.call] = 1
      BY <1>e, <1>f, <1>j DEF RanOnce, Purposes
    <2> QED
      BY <2>1, <2>2 DEF RanOnce
  <1>7. Said'
    BY <1>g, <1>i DEF Said
  <1> QED
    BY <1>1, <1>2, <1>3, <1>4, <1>5, <1>6, <1>7

(* What a client holds may go with it: its process, its handshake.          *)
Puts(c, v, st) ==
    \/ client' = [client EXCEPT ![c] = v]
    \/ st # 0 /\ client' = [[client EXCEPT ![c] = v] EXCEPT ![st].proc = 0, ![st].initialized = FALSE]

LEMMA LetsItsProcessGo ==
    ASSUME CallsBounds, NEW x \in ClientType
    PROVE  /\ [x EXCEPT !.proc = 0, !.initialized = FALSE] \in ClientType
           /\ [x EXCEPT !.proc = 0, !.initialized = FALSE].next = x.next
           /\ [x EXCEPT !.proc = 0, !.initialized = FALSE].waiting = x.waiting
  <1>1. 0 \in 0 .. MaxProcs
    BY DEF CallsBounds
  <1> DEFINE N == 0 .. MaxProcs
  <1>2. 0 \in N /\ ClientType = [version : {"modern", "legacy"}, probed : BOOLEAN, initialized : BOOLEAN,
                                proc : N, next : Nat, waiting : SUBSET [id : Nat, call : Callers]]
    BY <1>1 DEF ClientType
  <1> HIDE DEF N
  <1> QED
    BY <1>2

LEMMA PutBack ==
    ASSUME CallsBounds, CallsInv, NEW c, NEW v, Fits(c, v), NEW st \in 0 .. clients',
           Puts(c, v, st), standing' \in 0 .. clients'
    PROVE  ClientsGoOn
  <1> DEFINE cs == [client EXCEPT ![c] = v]
             u == [cs[st] EXCEPT !.proc = 0, !.initialized = FALSE]
  <1>1. /\ c \in Clients /\ c \in 1 .. clients' /\ clients <= clients' /\ v.next \in Nat
        /\ \A d \in 1 .. clients' : d \in Clients /\ (d = c \/ d \in Built)
        /\ c \in Built => client[c].next <= v.next /\ v.waiting \subseteq client[c].waiting
        /\ c \notin Built => v.waiting = {}
    BY FitsWhere
  <1>2. /\ cs \in [Clients -> ClientType] /\ cs[c] = v /\ \A d \in Clients : d # c => cs[d] = client[d]
        /\ client \in [Clients -> ClientType]
    BY <1>1 DEF Fits, CallsInv, CallsTyped
  <1>3. st # 0 => st \in Clients
    BY <1>1
  <1>4. client' = cs \/ (st # 0 /\ client' = [cs EXCEPT ![st] = u])
    BY <1>2, <1>3 DEF Puts
  <1> HIDE DEF cs
  <1>5. st # 0 => u \in ClientType /\ u.next = cs[st].next /\ u.waiting = cs[st].waiting
    BY <1>2, <1>3, LetsItsProcessGo
  <1> HIDE DEF u
  <1>6. /\ client' \in [Clients -> ClientType]
        /\ \A d \in Clients : client'[d].next = cs[d].next /\ client'[d].waiting = cs[d].waiting
    BY <1>2, <1>3, <1>4, <1>5
  <1>7. \A d \in Built : client[d].next <= client[d].next
    <2>1. \A d \in Built : d \in Clients
      BY FitsWhere
    <2> QED
      BY <1>2, <2>1 DEF ClientType
  <1>8. \A d \in 1 .. clients' :
           \/ d \in Built /\ client[d].next <= client'[d].next /\ client'[d].waiting \subseteq client[d].waiting
           \/ d \notin Built /\ client'[d].waiting = {}
    BY <1>1, <1>2, <1>6, <1>7
  <1> QED
    BY <1>1, <1>6, <1>8 DEF ClientsGoOn, Fits

(* A call that is given up, or to be made again, or waits for a process.    *)
LEMMA MovesOn ==
    ASSUME CallsBounds, CallsInv, ClientsGoOn, NEW k \in Callers, NEW a \in AskedType,
           asked' = [asked EXCEPT ![k] = a] \/ asked' = asked,
           \E x \in Stands : at' = [at EXCEPT ![k] = x],
           told' = told \/ \E t \in Told : told' = [told EXCEPT ![k] = t],
           got' = got, runs' = runs, BoxesEmpty, CallEnds(k) \/ CallMoves(k)
    PROVE  CallsInv'
  <1>1. SendsNothing
    BY DEF SendsNothing, CallsInv, CallsTyped, CallStays
  <1> QED
    BY <1>1, SendsNothingKeeps

LEMMA SameBoxes ==
    ASSUME CallsInv, box' = box
    PROVE  BoxesEmpty
  BY DEF BoxesEmpty, CallsInv, CallsTyped

LEMMA RaisesKeep ==
    ASSUME CallsBounds, CallsInv, NEW k \in Callers, NEW r \in AskedType, NEW v, Fits(r.on, v),
           NEW st \in 0 .. clients', NEW sent \in BOOLEAN, NEW refused \in BOOLEAN, at[k] # "done",
           Unrun(k) \/ (sent /\ ~refused), Raises(k, r, v, st, sent, refused), runs' = runs
    PROVE  CallsInv'
  <1> DEFINE cs == [client EXCEPT ![r.on] = v]
             n == IF st # 0 THEN cs[st].proc ELSE 0
             a == [r EXCEPT !.try = 2, !.id = n, !.on = st]
             t == Word(sent, refused)
             again == Again(k, r, sent \/ refused)
  <1>1. /\ IF again
           THEN /\ at' = [at EXCEPT ![k] = IF st # 0 THEN "closing" ELSE IF k \in Lists THEN "done" ELSE "again"]
                /\ asked' = [asked EXCEPT ![k] = a]
                /\ told' = IF st = 0 /\ k \in Lists THEN [told EXCEPT ![k] = t] ELSE told
           ELSE /\ at' = [at EXCEPT ![k] = "done"] /\ told' = [told EXCEPT ![k] = t]
                /\ asked' = asked
        /\ got' = got /\ box' = box
    BY DEF Raises
  <1>2. again => k \in Lists \/ (~sent /\ ~refused)
    BY DEF Again
  <1>3. t \in Told /\ t = IF refused THEN "refused" ELSE IF sent THEN "unanswered" ELSE "unreachable"
    BY DEF Word, Told
  <1>4. ClientsGoOn
    <2>1. Puts(r.on, v, st) /\ standing' \in {0, st}
      BY DEF Raises, Puts
    <2>2. standing' \in 0 .. clients'
      BY <2>1 DEF Fits
    <2> QED
      BY <2>1, <2>2, PutBack
  <1>5. a \in AskedType
    <2>1. n \in Nat
      <3>1. cs \in [Clients -> ClientType] /\ (st # 0 => st \in Clients)
        <4>1. client \in [Clients -> ClientType] /\ v \in ClientType
          BY DEF Fits, CallsInv, CallsTyped
        <4>2. \A d \in 1 .. clients' : d \in Clients
          BY FitsWhere
        <4>3. st # 0 => st \in 1 .. clients'
          BY DEF Fits
        <4> QED
          BY <4>1, <4>2, <4>3
      <3> HIDE DEF cs
      <3>2. st # 0 => cs[st].proc \in 0 .. MaxProcs
        BY <3>1 DEF ClientType
      <3> QED
        BY <3>2 DEF CallsBounds
    <2>2. st \in Nat
      BY DEF Fits
    <2> HIDE DEF n
    <2> QED
      BY <2>1, <2>2 DEF AskedType
  <1>6. Unrun(k) => NothingToRun(k)
    BY <1>1 DEF Unrun, NothingToRun
  <1>7. k \in Lists \/ told[k] = "none"
    BY DEF CallsInv, Said
  <1> HIDE DEF cs, a, t, again
  <1>8. at \in [Callers -> Stands] /\ told \in [Callers -> Told]
    BY DEF CallsInv, CallsTyped
  <1>9. CASE again
    <2>1. \E x \in Stands : at' = [at EXCEPT ![k] = x]
      BY <1>1, <1>9 DEF Stands
    <2>2. CallEnds(k) \/ CallMoves(k)
      <3>1. CASE k \in Lists
        BY <1>1, <1>8, <1>9, <3>1 DEF CallEnds, CallMoves
      <3>2. CASE k \notin Lists
        BY <1>1, <1>2, <1>6, <1>7, <1>8, <1>9, <3>2 DEF CallMoves
      <3> QED
        BY <3>1, <3>2
    <2>3. told' = told \/ \E y \in Told : told' = [told EXCEPT ![k] = y]
      BY <1>1, <1>3, <1>9
    <2> QED
      BY <1>1, <1>4, <1>5, <1>9, <2>1, <2>2, <2>3, MovesOn, SameBoxes
  <1>10. CASE ~again
    <2>1. at'[k] = "done" /\ told'[k] = t /\ \E x \in Stands : at' = [at EXCEPT ![k] = x]
      BY <1>1, <1>8, <1>10 DEF Stands
    <2>2. CallEnds(k)
      BY <1>3, <1>6, <2>1 DEF CallEnds
    <2>3. \E y \in Told : told' = [told EXCEPT ![k] = y]
      BY <1>1, <1>3, <1>10
    <2> QED
      BY <1>1, <1>4, <1>5, <1>10, <2>1, <2>2, <2>3, MovesOn, SameBoxes
  <1> QED
    BY <1>9, <1>10

LEMMA RequestKeeps ==
    ASSUME CallsBounds, CallsInv, NEW k \in Callers, NEW r \in AskedType, NEW v, Fits(r.on, v),
           NEW st \in 0 .. clients', at[k] # "done", Unrun(k), Request(k, r, v, st), runs' = runs
    PROVE  CallsInv'
  <1>1. ASSUME NEW p \in Boxes, Written(k, r, v, p), standing' = st PROVE CallsInv'
    BY <1>1, WritesKeep
  <1>2. CASE Raises(k, r, v, st, FALSE, FALSE)
    BY <1>2, RaisesKeep
  <1>3. CASE /\ at' = [at EXCEPT ![k] = "spawning"] /\ asked' = [asked EXCEPT ![k] = r]
             /\ client' = [client EXCEPT ![r.on] = v] /\ standing' = st
             /\ UNCHANGED <<got, box, told>>
    <2>1. ClientsGoOn
      BY <1>3, PutBack DEF Puts
    <2>2. at'[k] = "spawning" /\ asked'[k] = r /\ told'[k] = told[k]
      BY <1>3 DEF CallsInv, CallsTyped
    <2>3. CallMoves(k)
      <3>1. r.on \in 1 .. clients'
        BY FitsWhere
      <3>2. k \in Lists \/ told[k] = "none"
        BY DEF CallsInv, Said
      <3> QED
        BY <1>3, <2>2, <3>1, <3>2 DEF CallMoves, Unrun, NothingToRun
    <2>4. \E x \in Stands : at' = [at EXCEPT ![k] = x]
      BY <1>3 DEF Stands
    <2> QED
      BY <1>3, <2>1, <2>3, <2>4, MovesOn, SameBoxes
  <1>4. CASE (Http \/ (v.proc # 0 /\ procs[v.proc] = "up")) /\ Written(k, r, v, IF Http THEN 0 ELSE v.proc) /\ standing' = st
    <2>1. (IF Http THEN 0 ELSE v.proc) \in Boxes
      BY DEF Fits, ClientType, Boxes, CallsBounds
    <2> QED
      BY <1>1, <1>4, <2>1
  <1> QED
    BY <1>2, <1>3, <1>4 DEF Request

-----------------------------------------------------------------------------
(* What a client and a request become on their way through McpClient. *)
LEMMA Marked ==
    ASSUME NEW x \in ClientType, NEW b \in BOOLEAN
    PROVE  LET y == [x EXCEPT !.probed = b] IN y \in ClientType /\ y.next = x.next /\ y.waiting = x.waiting
  <1> DEFINE y == [x EXCEPT !.probed = b]
  <1>1. y \in ClientType /\ y.next = x.next /\ y.waiting = x.waiting
    BY DEF ClientType
  <1> QED
    BY <1>1

LEMMA GrownOld ==
    ASSUME NEW x \in ClientType
    PROVE  LET y == [x EXCEPT !.version = "legacy"] IN y \in ClientType /\ y.next = x.next /\ y.waiting = x.waiting
  <1> DEFINE y == [x EXCEPT !.version = "legacy"]
  <1>1. y \in ClientType /\ y.next = x.next /\ y.waiting = x.waiting
    BY DEF ClientType
  <1> QED
    BY <1>1

LEMMA Greeted ==
    ASSUME NEW x \in ClientType
    PROVE  LET y == [x EXCEPT !.initialized = TRUE] IN y \in ClientType /\ y.next = x.next /\ y.waiting = x.waiting
  <1> DEFINE y == [x EXCEPT !.initialized = TRUE]
  <1>1. y \in ClientType /\ y.next = x.next /\ y.waiting = x.waiting
    BY DEF ClientType
  <1> QED
    BY <1>1

LEMMA Attached ==
    ASSUME NEW x \in ClientType, NEW p \in 0 .. MaxProcs
    PROVE  LET y == [x EXCEPT !.proc = p] IN y \in ClientType /\ y.next = x.next /\ y.waiting = x.waiting
  <1> DEFINE y == [x EXCEPT !.proc = p]
             N == 0 .. MaxProcs
  <1>1. p \in N /\ ClientType = [version : {"modern", "legacy"}, probed : BOOLEAN, initialized : BOOLEAN,
                                proc : N, next : Nat, waiting : SUBSET [id : Nat, call : Callers]]
    BY DEF ClientType
  <1> HIDE DEF N
  <1>2. y \in ClientType /\ y.next = x.next /\ y.waiting = x.waiting
    BY <1>1
  <1> QED
    BY <1>2

LEMMA WaitsLess ==
    ASSUME NEW x \in ClientType, NEW W, W \subseteq x.waiting
    PROVE  LET y == [x EXCEPT !.waiting = W] IN y \in ClientType /\ y.next = x.next /\ y.waiting = W
  <1> DEFINE y == [x EXCEPT !.waiting = W]
  <1>1. y \in ClientType /\ y.next = x.next /\ y.waiting = W
    BY DEF ClientType
  <1> QED
    BY <1>1

LEMMA AskedFor ==
    ASSUME NEW r \in AskedType, NEW u \in Purposes
    PROVE  [r EXCEPT !.purpose = u] \in AskedType /\ [r EXCEPT !.purpose = u].on = r.on
  BY DEF AskedType

LEMMA OpeningIsAPurpose == \A v : Opening(v) \in Purposes
  BY DEF Opening, Purposes

LEMMA StillFits ==
    ASSUME CallsBounds, CallsInv, NEW c \in Built, NEW v \in ClientType, clients' = clients,
           v.next = client[c].next, v.waiting \subseteq client[c].waiting
    PROVE  Fits(c, v)
  <1>1. clients \in 0 .. MaxClients /\ c \in Clients /\ client \in [Clients -> ClientType]
    BY DEF CallsInv, CallsTyped, CallsBounds, Built, Clients
  <1>2. client[c].next \in Nat
    BY <1>1 DEF ClientType
  <1> QED
    BY <1>1, <1>2 DEF Fits

LEMMA ClientInUse ==
    ASSUME CallsBounds, CallsInv, NEW c \in Built
    PROVE  c \in Clients /\ client[c] \in ClientType
  BY DEF CallsInv, CallsTyped, CallsBounds, Built, Clients

LEMMA GoesKeep ==
    ASSUME CallsBounds, CallsInv, NEW k \in Callers, NEW r \in AskedType, NEW v, Fits(r.on, v),
           NEW st \in 0 .. clients', at[k] # "done", Unrun(k), Goes(k, r, v, st), runs' = runs
    PROVE  CallsInv'
  <1> DEFINE what == Opening(v)
             s == [r EXCEPT !.purpose = what]
             u == [v EXCEPT !.probed = TRUE]
  <1>1. Request(k, s, u, st)
    BY DEF Goes
  <1>2. s \in AskedType /\ s.on = r.on
    BY OpeningIsAPurpose, AskedFor
  <1>3. v \in ClientType
    BY DEF Fits
  <1>4. u \in ClientType /\ u.next = v.next /\ u.waiting = v.waiting
    BY <1>3, Marked
  <1> HIDE DEF u, s
  <1>5. Fits(s.on, u)
    BY <1>2, <1>4 DEF Fits
  <1> QED
    BY <1>1, <1>2, <1>5, RequestKeeps

LEMMA BeginKeeps ==
    ASSUME CallsBounds, CallsInv, NEW k \in Callers, Begin(k)
    PROVE  CallsInv'
  <1> DEFINE own == k \in Personal
             new == own \/ standing = 0
             c == IF new THEN clients + 1 ELSE standing
             v == IF new THEN NewClient ELSE client[c]
             what == Opening(v)
             r == [purpose |-> what, id |-> 0, on |-> c, try |-> asked[k].try]
             b == v.probed \/ what # "call"
             u == [v EXCEPT !.probed = b]
             st == IF own THEN standing ELSE c
  <1>1. /\ at[k] \in {"idle", "again"} /\ c <= MaxClients /\ clients' = (IF new THEN c ELSE clients)
        /\ Request(k, r, u, st) /\ runs' = runs
    BY DEF Begin
  <1>2. standing \in 0 .. clients /\ clients \in 0 .. MaxClients /\ asked[k] \in AskedType
    BY DEF CallsInv, CallsTyped
  <1>3. c \in Nat /\ st \in 0 .. clients' /\ clients' \in 0 .. MaxClients
    BY <1>1, <1>2 DEF CallsBounds
  <1>4. r \in AskedType /\ r.on = c
    <2>1. what \in Purposes /\ asked[k].try \in Nat
      BY <1>2, OpeningIsAPurpose DEF AskedType
    <2> HIDE DEF c, what
    <2> QED
      BY <1>3, <2>1 DEF AskedType
  <1>5. NewClient \in ClientType /\ NewClient.waiting = {}
    BY DEF NewClient, ClientType, CallsBounds
  <1>6. ~new => c \in Built /\ client[c] \in ClientType
    <2>1. ~new => c \in Built
      BY <1>2 DEF Built
    <2> HIDE DEF c, new
    <2> QED
      BY <2>1, ClientInUse
  <1>7. v \in ClientType
    BY <1>5, <1>6
  <1>8. u \in ClientType /\ u.next = v.next /\ u.waiting = v.waiting
    <2>1. b \in BOOLEAN
      OBVIOUS
    <2> HIDE DEF b, v
    <2> QED
      BY <1>7, <2>1, Marked
  <1>9. Fits(c, u)
    <2>1. CASE new
      <3>1. clients' = clients + 1 /\ c = clients' /\ v = NewClient
        BY <1>1, <2>1
      <3> HIDE DEF u, v, c, new
      <3> QED
        BY <1>3, <1>5, <1>8, <3>1 DEF Fits
    <2>2. CASE ~new
      <3>1. clients' = clients /\ v = client[c] /\ c \in Built
        BY <1>1, <1>6, <2>2
      <3> HIDE DEF u, v, c, new
      <3> QED
        BY <1>8, <3>1, StillFits
    <2> QED
      BY <2>1, <2>2
  <1>10. Unrun(k)
    BY <1>1, NothingLeft
  <1> HIDE DEF r, u, c, st
  <1> QED
    BY <1>1, <1>3, <1>4, <1>9, <1>10, RequestKeeps

LEMMA SpawnedKeeps ==
    ASSUME CallsBounds, CallsInv, NEW k \in Callers, Spawned(k)
    PROVE  CallsInv'
  <1> DEFINE r == asked[k]
  <1>1. at[k] = "spawning" /\ clients' = clients /\ runs' = runs
    BY DEF Spawned
  <1>2. r \in AskedType /\ r.on \in Built /\ standing \in 0 .. clients
    BY <1>1 DEF CallsInv, CallsTyped, IdsAreOld
  <1>3. client[r.on] \in ClientType
    BY <1>2, ClientInUse
  <1>4. Unrun(k)
    BY <1>1, NothingLeft
  <1>5. ASSUME NEW p \in Procs, standing' = standing,
               LET s == Sends(r, [client[r.on] EXCEPT !.proc = p]) IN Written(k, s[1], s[2], p)
        PROVE  CallsInv'
    <2> DEFINE y == [client[r.on] EXCEPT !.proc = p]
               z == [y EXCEPT !.initialized = TRUE]
               q == [r EXCEPT !.purpose = "call"]
    <2>1. p \in 0 .. MaxProcs /\ p \in Boxes
      BY DEF Procs, Boxes, CallsBounds
    <2>2. y \in ClientType /\ y.next = client[r.on].next /\ y.waiting = client[r.on].waiting
      BY <1>3, <2>1, Attached
    <2>3. Written(k, r, y, p) \/ Written(k, q, z, p)
      BY <1>5 DEF Sends
    <2>4. "call" \in Purposes
      BY DEF Purposes
    <2>5. q \in AskedType /\ q.on = r.on
      BY <1>2, <2>4, AskedFor
    <2> HIDE DEF y
    <2>6. z \in ClientType /\ z.next = y.next /\ z.waiting = y.waiting
      BY <2>2, Greeted
    <2> HIDE DEF z
    <2>7. Fits(r.on, y) /\ Fits(r.on, z)
      BY <1>1, <1>2, <2>2, <2>6, StillFits
    <2>8. standing' \in 0 .. clients'
      BY <1>1, <1>2, <1>5
    <2> HIDE DEF q, r
    <2>9. CASE Written(k, r, y, p)
      BY <1>1, <1>2, <1>4, <2>1, <2>7, <2>8, <2>9, WritesKeep
    <2>10. CASE Written(k, q, z, p)
      BY <1>1, <1>4, <2>1, <2>5, <2>7, <2>8, <2>10, WritesKeep
    <2> QED
      BY <2>3, <2>9, <2>10
  <1>6. CASE Raises(k, r, client[r.on], standing, FALSE, FALSE)
    <2>1. Fits(r.on, client[r.on])
      BY <1>1, <1>2, <1>3, StillFits
    <2>2. standing \in 0 .. clients'
      BY <1>1, <1>2
    <2> HIDE DEF r
    <2> QED
      BY <1>1, <1>2, <1>4, <1>6, <2>1, <2>2, RaisesKeep
  <1> QED
    BY <1>5, <1>6 DEF Spawned

LEMMA ResumeKeeps ==
    ASSUME CallsBounds, CallsInv, NEW k \in Callers, Resume(k)
    PROVE  CallsInv'
  <1> DEFINE r == asked[k]
             v == client[r.on]
             old == [v EXCEPT !.version = "legacy", !.probed = TRUE]
             rc == [r EXCEPT !.purpose = "call"]
             rn == [r EXCEPT !.purpose = "notify"]
             vi == [v EXCEPT !.initialized = TRUE]
  <1>1. at[k] = "waiting" /\ got[k] # "nothing" /\ clients' = clients /\ runs' = runs
    BY DEF Resume
  <1>2. \/ r.purpose = "discover" /\ got[k] = "ok" /\ Request(k, rc, v, standing)
        \/ r.purpose = "discover" /\ Goes(k, r, old, standing)
        \/ r.purpose = "initialize" /\ Request(k, rc, vi, standing)
        \/ r.purpose = "initialize" /\ Request(k, rn, v, standing)
        \/ /\ r.purpose = "call" /\ got[k] = "ok" /\ standing' = standing
           /\ at' = [at EXCEPT ![k] = "done"] /\ told' = [told EXCEPT ![k] = "ok"]
           /\ UNCHANGED <<client, asked, got, box>>
        \/ got[k] \in {"status", "version"} /\ Goes(k, r, old, standing)
        \/ got[k] \in {"refused", "exited"} /\ Raises(k, r, v, standing, got[k] = "exited", got[k] = "refused")
    BY DEF Resume
  <1>3. /\ r \in AskedType /\ r.on \in Built /\ standing \in 0 .. clients'
        /\ at \in [Callers -> Stands] /\ told \in [Callers -> Told]
    BY <1>1 DEF CallsInv, CallsTyped, IdsAreOld
  <1>4. v \in ClientType
    BY <1>3, ClientInUse
  <1>5. r.purpose # "call" \/ got[k] \in {"status", "version", "refused"} => Unrun(k)
    BY <1>1, NothingLeft
  <1>6. rc \in AskedType /\ rc.on = r.on /\ rn \in AskedType /\ rn.on = r.on
    <2>1. "call" \in Purposes /\ "notify" \in Purposes
      BY DEF Purposes
    <2> QED
      BY <1>3, <2>1, AskedFor
  <1>7. old \in ClientType /\ old.next = v.next /\ old.waiting = v.waiting
    <2> DEFINE y == [v EXCEPT !.version = "legacy"]
    <2>1. y \in ClientType /\ y.next = v.next /\ y.waiting = v.waiting
      BY <1>4, GrownOld
    <2>2. old = [y EXCEPT !.probed = TRUE]
      BY <1>4 DEF ClientType
    <2> HIDE DEF y
    <2>3. TRUE \in BOOLEAN
      OBVIOUS
    <2> HIDE DEF old, v
    <2> QED
      BY <2>1, <2>2, <2>3, Marked
  <1>8. vi \in ClientType /\ vi.next = v.next /\ vi.waiting = v.waiting
    BY <1>4, Greeted
  <1>9. Fits(r.on, v) /\ Fits(r.on, old) /\ Fits(r.on, vi)
    <2> HIDE DEF old, vi
    <2> QED
      BY <1>1, <1>3, <1>4, <1>7, <1>8, StillFits
  <1> HIDE DEF old, vi, rc, rn
  <1>10. at[k] # "done"
    BY <1>1
  <1>11. CASE Unrun(k) /\ Goes(k, r, old, standing)
    BY <1>1, <1>3, <1>9, <1>10, <1>11, GoesKeep
  <1>12. CASE Unrun(k) /\ (Request(k, rc, v, standing) \/ Request(k, rc, vi, standing) \/ Request(k, rn, v, standing))
    BY <1>1, <1>3, <1>6, <1>9, <1>10, <1>12, RequestKeeps
  <1>13. CASE /\ r.purpose = "call" /\ got[k] = "ok" /\ standing' = standing
              /\ at' = [at EXCEPT ![k] = "done"] /\ told' = [told EXCEPT ![k] = "ok"]
              /\ UNCHANGED <<client, asked, got, box>>
    <2>1. ClientsGoOn
      <3>1. client' = [client EXCEPT ![r.on] = v]
        BY <1>13 DEF CallsInv, CallsTyped
      <3>2. standing' \in 0 .. clients'
        BY <1>3, <1>13
      <3> QED
        BY <1>3, <1>9, <3>1, <3>2, PutBack DEF Puts
    <2>2. at'[k] = "done" /\ told'[k] = "ok"
      BY <1>3, <1>13
    <2>3. CallEnds(k)
      BY <1>1, <1>13, <2>2 DEF CallEnds
    <2>4. "done" \in Stands /\ "ok" \in Told
      BY DEF Stands, Told
    <2> QED
      BY <1>1, <1>3, <1>13, <2>1, <2>3, <2>4, MovesOn, SameBoxes
  <1>14. CASE got[k] \in {"refused", "exited"} /\ Raises(k, r, v, standing, got[k] = "exited", got[k] = "refused")
    <2>1. CASE got[k] = "refused"
      <3>1. Unrun(k) /\ Raises(k, r, v, standing, FALSE, TRUE)
        BY <1>5, <1>14, <2>1
      <3> QED
        BY <1>1, <1>3, <1>9, <1>10, <3>1, RaisesKeep
    <2>2. CASE got[k] = "exited"
      <3>1. Raises(k, r, v, standing, TRUE, FALSE)
        BY <1>14, <2>2
      <3> QED
        BY <1>1, <1>3, <1>9, <1>10, <3>1, RaisesKeep
    <2> QED
      BY <1>14, <2>1, <2>2
  <1> QED
    BY <1>2, <1>5, <1>11, <1>12, <1>13, <1>14

LEMMA UnansweredKeeps ==
    ASSUME CallsBounds, CallsInv, NEW k \in Callers, Unanswered(k)
    PROVE  CallsInv'
  <1> DEFINE r == asked[k]
             v == client[r.on]
             W == {w \in v.waiting : w.id # Forgotten(k, v)}
             left == [v EXCEPT !.waiting = W]
             old == [left EXCEPT !.version = "legacy"]
  <1>1. /\ at[k] = "waiting" /\ got[k] = "nothing" /\ clients' = clients /\ runs' = runs
        /\ \/ r.purpose = "discover" /\ Goes(k, r, old, standing)
           \/ r.purpose # "discover" /\ Raises(k, r, left, standing, TRUE, FALSE)
    BY DEF Unanswered
  <1>2. r \in AskedType /\ r.on \in Built /\ standing \in 0 .. clients'
    BY <1>1 DEF CallsInv, CallsTyped, IdsAreOld
  <1>3. v \in ClientType
    BY <1>2, ClientInUse
  <1>4. W \subseteq v.waiting
    OBVIOUS
  <1> HIDE DEF W
  <1>5. left \in ClientType /\ left.next = v.next /\ left.waiting = W
    BY <1>3, <1>4, WaitsLess
  <1> HIDE DEF left
  <1>6. old \in ClientType /\ old.next = v.next /\ old.waiting = W
    BY <1>5, GrownOld
  <1> HIDE DEF old
  <1>7. Fits(r.on, left) /\ Fits(r.on, old)
    BY <1>1, <1>2, <1>4, <1>5, <1>6, StillFits
  <1>8. at[k] # "done"
    BY <1>1
  <1>9. CASE r.purpose = "discover" /\ Goes(k, r, old, standing)
    <2>1. Unrun(k)
      BY <1>1, <1>9, NothingLeft
    <2> QED
      BY <1>1, <1>2, <1>7, <1>8, <1>9, <2>1, GoesKeep
  <1>10. CASE Raises(k, r, left, standing, TRUE, FALSE)
    BY <1>1, <1>2, <1>7, <1>8, <1>10, RaisesKeep
  <1> QED
    BY <1>1, <1>9, <1>10

LEMMA ConnectFailsKeeps ==
    ASSUME CallsBounds, CallsInv, NEW k \in Callers, NEW q \in box[0], ConnectFails(k, q)
    PROVE  CallsInv'
  <1> DEFINE r == asked[k]
             W == {w \in client[r.on].waiting : w.id # r.id}
             v == [client[r.on] EXCEPT !.waiting = W]
             again == Again(k, r, FALSE)
             t == [r EXCEPT !.try = 2]
  <1>1. /\ at[k] = "waiting" /\ q.call = k /\ q.on = r.on /\ q.id = r.id /\ q.purpose # "ran"
        /\ box' = [box EXCEPT ![0] = @ \ {q}] /\ client' = [client EXCEPT ![r.on] = v]
        /\ standing' = IF again THEN 0 ELSE standing
        /\ at' = [at EXCEPT ![k] = IF again /\ k \notin Lists THEN "again" ELSE "done"]
        /\ asked' = [asked EXCEPT ![k].try = 2]
        /\ told' = IF again /\ k \notin Lists THEN told ELSE [told EXCEPT ![k] = "unreachable"]
        /\ UNCHANGED <<clients, got, runs>>
    BY DEF ConnectFails
  <1>2. /\ r \in AskedType /\ r.on \in Built /\ standing \in 0 .. clients
        /\ at \in [Callers -> Stands] /\ told \in [Callers -> Told] /\ box \in [Boxes -> SUBSET RequestType]
    BY <1>1 DEF CallsInv, CallsTyped, IdsAreOld
  <1>3. client[r.on] \in ClientType
    BY <1>2, ClientInUse
  <1>4. 0 \in Boxes
    BY DEF Boxes, CallsBounds
  <1>5. W \subseteq client[r.on].waiting
    OBVIOUS
  <1> HIDE DEF W
  <1>6. v \in ClientType /\ v.next = client[r.on].next /\ v.waiting = W
    BY <1>3, <1>5, WaitsLess
  <1> HIDE DEF v
  <1>7. Fits(r.on, v)
    BY <1>1, <1>2, <1>5, <1>6, StillFits
  <1>8. ClientsGoOn
    <2>1. standing' \in 0 .. clients' /\ 0 \in 0 .. clients'
      <3>1. clients \in 0 .. MaxClients /\ clients' = clients
        BY <1>1 DEF CallsInv, CallsTyped
      <3>2. standing' = 0 \/ standing' = standing
        BY <1>1
      <3> QED
        BY <1>2, <3>1, <3>2 DEF CallsBounds
    <2>2. Puts(r.on, v, 0)
      BY <1>1 DEF Puts
    <2> QED
      BY <1>7, <2>1, <2>2, PutBack
  <1>9. BoxesEmpty /\ q \notin box'[0]
    BY <1>1, <1>2, <1>4 DEF BoxesEmpty
  <1>10. IsAwaited(q)
    BY <1>1 DEF IsAwaited, SameRequest
  <1>11. k \notin Lists => NothingToRun(k)
    <2> SUFFICES ASSUME k \notin Lists PROVE NothingToRun(k)
      OBVIOUS
    <2>1. runs[k] = 0
      <3> SUFFICES ASSUME runs[k] # 0 PROVE FALSE
        OBVIOUS
      <3>1. r.purpose = "call"
        BY <1>1 DEF CallsInv, RanOnce
      <3>2. q.purpose = "call"
        BY <1>1, <1>4, <1>10, <3>1 DEF CallsInv, Linked
      <3> QED
        BY <1>1, <1>4, <3>2 DEF CallsInv, ToRun
    <2>2. ASSUME NEW p \in Boxes, NEW s \in box'[p], s.call = k, s.purpose = "call" PROVE FALSE
      <3>1. s \in box[p]
        BY <1>9 DEF BoxesEmpty
      <3>2. IsAwaited(s)
        BY <1>1, <2>2, <3>1 DEF CallsInv, ToRun
      <3>3. SameRequest(s, q)
        BY <1>1, <2>2, <3>2 DEF IsAwaited, SameRequest
      <3>4. p = 0 /\ s = q
        BY <1>4, <3>1, <3>3 DEF CallsInv, IdsAreUnique
      <3> QED
        BY <1>9, <3>4
    <2> QED
      BY <2>1, <2>2 DEF NothingToRun
  <1>12. t \in AskedType /\ asked' = [asked EXCEPT ![k] = t]
    BY <1>1, <1>2 DEF AskedType, CallsInv, CallsTyped
  <1>13. k \in Lists \/ told[k] = "none"
    BY <1>1 DEF CallsInv, Said
  <1>14. CallEnds(k) \/ CallMoves(k)
    <2>1. CASE again /\ k \notin Lists
      BY <1>1, <1>2, <1>11, <1>13, <2>1 DEF CallMoves
    <2>2. CASE ~(again /\ k \notin Lists)
      BY <1>1, <1>2, <1>11, <2>2 DEF CallEnds
    <2> QED
      BY <2>1, <2>2
  <1>15. \E x \in Stands : at' = [at EXCEPT ![k] = x]
    BY <1>1 DEF Stands
  <1>16. told' = told \/ \E y \in Told : told' = [told EXCEPT ![k] = y]
    BY <1>1 DEF Told
  <1> HIDE DEF t
  <1> QED
    BY <1>1, <1>8, <1>9, <1>12, <1>14, <1>15, <1>16, MovesOn

(* Futures that are resolved, or fail with their process, wait no more. *)
Frees(c, W) == /\ client' = [client EXCEPT ![c].waiting = W]
               /\ c \in Clients => W \subseteq client[c].waiting

LEMMA FuturesGo ==
    ASSUME CallsBounds, CallsInv, NEW c, NEW W, UNCHANGED <<clients, standing>>, Frees(c, W)
    PROVE  ClientsGoOn
  <1> DEFINE y == [client[c] EXCEPT !.waiting = W]
  <1>1. /\ client \in [Clients -> ClientType] /\ clients \in 0 .. MaxClients /\ standing \in 0 .. clients
        /\ \A d \in Built : d \in Clients
    BY ClientInUse DEF CallsInv, CallsTyped
  <1>2. c \in Clients => y \in ClientType /\ y.next = client[c].next /\ y.waiting = W /\ W \subseteq client[c].waiting
    BY <1>1, WaitsLess DEF Frees
  <1>3. client' = [client EXCEPT ![c] = y]
    BY <1>1 DEF Frees
  <1> HIDE DEF y
  <1>4. client' \in [Clients -> ClientType] /\ \A d \in Clients :
            client'[d].next = client[d].next /\ client[d].next \in Nat /\ client'[d].waiting \subseteq client[d].waiting
    <2>1. \A d \in Clients : client[d].next \in Nat
      BY <1>1 DEF ClientType
    <2>2. CASE c \in Clients
      BY <1>1, <1>2, <1>3, <2>1, <2>2
    <2>3. CASE c \notin Clients
      BY <1>1, <1>3, <2>1, <2>3
    <2> QED
      BY <2>2, <2>3
  <1> QED
    BY <1>1, <1>4 DEF ClientsGoOn, Built, CallsBounds

LEMMA ExitedGoesOn ==
    ASSUME CallsBounds, CallsInv, NEW c, UNCHANGED <<clients, standing>>, Exited(c)
    PROVE  /\ ClientsGoOn /\ got' \in [Callers -> Futures]
           /\ \A k \in Callers : got'[k] = got[k] \/ (at[k] = "waiting" /\ got[k] = "nothing" /\ got'[k] = "exited")
  <1>1. ClientsGoOn
    <2>1. Frees(c, {})
      BY DEF Exited, Frees
    <2> QED
      BY <2>1, FuturesGo
  <1>2. got \in [Callers -> Futures] /\ "exited" \in Futures
    BY DEF CallsInv, CallsTyped, Futures
  <1> DEFINE gone(k) == /\ at[k] = "waiting" /\ got[k] = "nothing"
                        /\ asked[k].on = c /\ [id |-> asked[k].id, call |-> k] \in client[c].waiting
  <1>3. got' = [k \in Callers |-> IF gone(k) THEN "exited" ELSE got[k]]
    BY DEF Exited
  <1>4. \A k \in Callers : gone(k) => at[k] = "waiting" /\ got[k] = "nothing"
    OBVIOUS
  <1> HIDE DEF gone
  <1> QED
    BY <1>1, <1>2, <1>3, <1>4

LEMMA ClientStands ==
    ASSUME CallsBounds, CallsInv, UNCHANGED <<clients, standing, client>>
    PROVE  ClientsGoOn
  <1>1. /\ client \in [Clients -> ClientType] /\ clients \in 0 .. MaxClients /\ standing \in 0 .. clients
        /\ \A d \in Built : d \in Clients
    BY ClientInUse DEF CallsInv, CallsTyped
  <1>2. \A d \in Built : client[d].next \in Nat
    BY <1>1 DEF ClientType
  <1> QED
    BY <1>1, <1>2 DEF ClientsGoOn, Built, CallsBounds

(* The process of a dropped client is ended, or a process dies. *)
LEMMA ClientClosedKeeps ==
    ASSUME CallsBounds, CallsInv, NEW k \in Callers, ClientClosed(k)
    PROVE  CallsInv'
  <1> DEFINE r == asked[k]
  <1>1. /\ at[k] = "closing" /\ UNCHANGED <<clients, standing, asked, box, runs>>
        /\ at' = [at EXCEPT ![k] = IF k \in Lists THEN "done" ELSE "again"]
        /\ told' = IF k \in Lists THEN [told EXCEPT ![k] = "unreachable"] ELSE told
        /\ Exited(r.on) \/ UNCHANGED <<client, got>>
    BY DEF ClientClosed
  <1>2. /\ at \in [Callers -> Stands] /\ told \in [Callers -> Told] /\ got \in [Callers -> Futures]
        /\ asked \in [Callers -> AskedType]
    BY DEF CallsInv, CallsTyped
  <1> HIDE DEF r
  <1>3. /\ ClientsGoOn /\ got' \in [Callers -> Futures]
        /\ \A j \in Callers : got'[j] = got[j] \/ (at[j] = "waiting" /\ got[j] = "nothing" /\ got'[j] = "exited")
    <2>1. CASE Exited(r.on)
      BY <1>1, <2>1, ExitedGoesOn
    <2>2. CASE UNCHANGED <<client, got>>
      BY <1>1, <1>2, <2>2, ClientStands
    <2> QED
      BY <1>1, <2>1, <2>2
  <1>4. Unrun(k)
    BY <1>1, NothingLeft
  <1>5. k \in Lists \/ told[k] = "none"
    BY <1>1 DEF CallsInv, Said
  <1>6. CallEnds(k) \/ CallMoves(k)
    <2>1. CASE k \in Lists
      BY <1>1, <1>2, <2>1 DEF CallEnds
    <2>2. CASE k \notin Lists
      BY <1>1, <1>2, <1>4, <1>5, <2>2 DEF CallMoves, Unrun, NothingToRun
    <2> QED
      BY <2>1, <2>2
  <1>7. \A j \in Callers : j # k => CallStays(j)
    BY <1>1, <1>2, <1>3 DEF CallStays
  <1>8. at' \in [Callers -> Stands] /\ told' \in [Callers -> Told]
    BY <1>1, <1>2 DEF Stands, Told
  <1>9. SendsNothing
    BY <1>1, <1>2, <1>3, <1>6, <1>7, <1>8, SameBoxes DEF SendsNothing
  <1> QED
    BY <1>9, SendsNothingKeeps

LEMMA ReaderEndsKeeps ==
    ASSUME CallsBounds, CallsInv, NEW p \in Procs, ReaderEnds(p)
    PROVE  CallsInv'
  <1>1. Exited(startedBy[p]) /\ UNCHANGED <<clients, standing, at, asked, box, runs, told>>
    BY DEF ReaderEnds
  <1>2. /\ ClientsGoOn /\ got' \in [Callers -> Futures]
        /\ \A k \in Callers : got'[k] = got[k] \/ (at[k] = "waiting" /\ got[k] = "nothing" /\ got'[k] = "exited")
    BY <1>1, ExitedGoesOn
  <1>3. \A k \in Callers : CallStays(k)
    BY <1>1, <1>2 DEF CallStays
  <1>4. SendsNothing
    BY <1>1, <1>2, <1>3, SameBoxes DEF SendsNothing, CallsInv, CallsTyped
  <1> QED
    BY <1>4, SendsNothingKeeps

LEMMA ProcessDiesKeeps ==
    ASSUME CallsBounds, CallsInv, NEW p \in Procs, ProcessDies(p)
    PROVE  CallsInv'
  <1>1. box' = [box EXCEPT ![p] = {}] /\ UNCHANGED <<clients, standing, client, at, asked, got, runs, told>>
    BY DEF ProcessDies
  <1>2. BoxesEmpty
    BY <1>1 DEF BoxesEmpty, CallsInv, CallsTyped
  <1>3. ClientsGoOn
    BY <1>1, ClientStands
  <1>4. \A k \in Callers : CallStays(k)
    BY <1>1 DEF CallStays
  <1>5. SendsNothing
    BY <1>1, <1>2, <1>3, <1>4 DEF SendsNothing, CallsInv, CallsTyped
  <1> QED
    BY <1>5, SendsNothingKeeps

(* An answer goes to the call that waits under its id, and to no other. *)
LEMMA ServerAnswersKeeps ==
    ASSUME CallsBounds, CallsInv, NEW p \in Boxes, NEW q \in box[p], ServerAnswers(p, q)
    PROVE  CallsInv'
  <1> DEFINE w == WaitingFor(q)
             W == client[q.on].waiting \ w
             k == q.call
             hit(j) == at[j] = "waiting" /\ asked[j].on = q.on /\ [id |-> asked[j].id, call |-> j] \in w
  <1>1. /\ q.purpose = "call" => ~Understands(p, q)
        /\ box' = [box EXCEPT ![p] = @ \ {q}] /\ client' = [client EXCEPT ![q.on].waiting = @ \ w]
        /\ UNCHANGED <<clients, standing, at, asked, runs, told>>
    BY DEF ServerAnswers
  <1>2. PICK a \in (IF q.purpose = "ran" \/ Understands(p, q) THEN {"ok"} ELSE TurnsDown(q)) :
            got' = [j \in Callers |-> IF hit(j) THEN a ELSE got[j]]
    BY DEF ServerAnswers
  <1>3. a \in Futures /\ (q.purpose = "ran" => a = "ok") /\ (q.purpose = "call" => a \in {"refused", "status", "version"})
    BY <1>1, <1>2 DEF TurnsDown, Futures
  <1>4. /\ client \in [Clients -> ClientType] /\ box \in [Boxes -> SUBSET RequestType] /\ got \in [Callers -> Futures]
        /\ at \in [Callers -> Stands] /\ told \in [Callers -> Told] /\ asked \in [Callers -> AskedType]
    BY DEF CallsInv, CallsTyped
  <1>5. q.on \in Clients /\ k \in Callers
    BY <1>4, ClientInUse DEF CallsInv, IdsAreOld, RequestType
  <1>6. BoxesEmpty /\ q \notin box'[p]
    BY <1>1, <1>4 DEF BoxesEmpty
  <1>7. client' = [client EXCEPT ![q.on].waiting = W]
    BY <1>1, <1>4, <1>5
  <1>8. W \subseteq client[q.on].waiting
    OBVIOUS
  <1>9. \A j \in Callers : hit(j) => j = k /\ IsAwaited(q)
    <2> SUFFICES ASSUME NEW j \in Callers, hit(j) PROVE j = k /\ IsAwaited(q)
      OBVIOUS
    <2> DEFINE x == [id |-> asked[j].id, call |-> j]
    <2>1. x \in client[q.on].waiting /\ x.id = q.id
      BY DEF WaitingFor
    <2>2. x.call = q.call
      <3> HIDE DEF x
      <3> QED
        BY <2>1 DEF CallsInv, IdsAreUnique
    <2> QED
      BY <2>1, <2>2 DEF IsAwaited, SameRequest
  <1> HIDE DEF W, hit
  <1>10. ClientsGoOn
    <2>1. Frees(q.on, W)
      BY <1>7, <1>8 DEF Frees
    <2> QED
      BY <1>1, <2>1, FuturesGo
  <1>11. ASSUME IsAwaited(q) PROVE
            \/ k \in Lists
            \/ at[k] = "waiting" /\ asked[k].purpose # "call"
            \/ runs[k] = 1 /\ a = "ok"
            \/ NothingToRun(k) /\ a \in {"refused", "status", "version"}
    <2>1. at[k] = "waiting"
      BY <1>11 DEF IsAwaited
    <2>2. asked[k].purpose = "call" => q.purpose \in {"call", "ran", "list"}
      BY <1>11 DEF CallsInv, Linked
    <2>3. CASE q.purpose = "list"
      BY <2>3 DEF CallsInv, Linked
    <2>4. CASE q.purpose = "ran"
      BY <1>3, <2>4 DEF CallsInv, RanOnce
    <2>5. CASE q.purpose = "call"
      <3>1. runs[k] = 0
        BY <2>5 DEF CallsInv, ToRun
      <3>2. ASSUME NEW o \in Boxes, NEW s \in box'[o], s.call = k, s.purpose = "call" PROVE FALSE
        <4>1. s \in box[o]
          BY <1>6 DEF BoxesEmpty
        <4>2. o = p /\ s = q
          BY <2>5, <3>2, <4>1 DEF CallsInv, ToRun
        <4> QED
          BY <1>6, <4>2
      <3> QED
        BY <1>3, <2>5, <3>1, <3>2 DEF NothingToRun
    <2> QED
      BY <2>1, <2>2, <2>3, <2>4, <2>5
  <1> HIDE DEF k
  <1>12. \A j \in Callers : CallStays(j) \/ CallAnswered(j)
    <2> SUFFICES ASSUME NEW j \in Callers PROVE CallStays(j) \/ CallAnswered(j)
      OBVIOUS
    <2>1. CASE hit(j)
      <3>1. j = k /\ IsAwaited(q) /\ got'[j] = a
        BY <1>2, <1>9, <2>1
      <3> QED
        BY <1>1, <1>11, <3>1 DEF CallAnswered
    <2>2. CASE ~hit(j)
      BY <1>1, <1>2, <2>2 DEF CallStays
    <2> QED
      BY <2>1, <2>2
  <1>13. got' \in [Callers -> Futures]
    BY <1>2, <1>3, <1>4
  <1>14. SendsNothing
    BY <1>1, <1>4, <1>6, <1>10, <1>12, <1>13 DEF SendsNothing
  <1> QED
    BY <1>14, SendsNothingKeeps

(* The server runs a tool: the request it held is one that ran. *)
LEMMA ServerRunsKeeps ==
    ASSUME CallsBounds, CallsInv, NEW p \in Boxes, NEW q \in box[p], ServerRuns(p, q)
    PROVE  CallsInv'
  <1> USE DEF CallsInv
  <1> DEFINE k == q.call
             done == [q EXCEPT !.purpose = "ran"]
  <1>1. /\ q.purpose = "call" /\ runs' = [runs EXCEPT ![k] = @ + 1]
        /\ box' = [box EXCEPT ![p] = (@ \ {q}) \cup {done}]
        /\ UNCHANGED <<clients, standing, client, at, asked, got, told>>
    BY DEF ServerRuns
  <1>2. box \in [Boxes -> SUBSET RequestType] /\ runs \in [Callers -> Nat]
    BY DEF CallsTyped
  <1>3. /\ done \in RequestType /\ k \in Callers /\ done.call = k /\ done.id = q.id /\ done.on = q.on
        /\ done.purpose = "ran"
    BY <1>2 DEF RequestType
  <1> HIDE DEF k, done
  <1>4. k = q.call
    BY DEF k
  <1>5. /\ runs[k] = 0 /\ k \notin Lists
        /\ \/ IsAwaited(q) /\ got[k] \in {"nothing", "exited"}
           \/ at[k] = "done" /\ told[k] = "unanswered"
    BY <1>1, <1>4 DEF ToRun, Linked
  <1>6. runs' \in [Callers -> Nat] /\ runs'[k] = 1 /\ \A j \in Callers : j # k => runs'[j] = runs[j]
    BY <1>1, <1>2, <1>3, <1>5
  <1>7. /\ box' \in [Boxes -> SUBSET RequestType]
        /\ \A o \in Boxes : \A s \in box'[o] : (s = done /\ o = p) \/ (s \in box[o] /\ ~(o = p /\ s = q))
    BY <1>1, <1>2, <1>3
  <1>8. \A o \in Boxes : \A s \in box[o] : s \in RequestType /\ s.call \in Callers
    BY <1>2 DEF RequestType
  <1>9. CallsTyped'
    BY <1>1, <1>6, <1>7 DEF CallsTyped
  <1>10. IdsAreOld'
    BY <1>1, <1>3, <1>7 DEF IdsAreOld, Built
  <1>11. IdsAreUnique'
    <2>1. ASSUME NEW o \in Boxes, NEW u \in Boxes, NEW s \in box'[o], NEW t \in box'[u], SameRequest(s, t)
          PROVE  o = u /\ s = t
      <3>1. CASE s = done /\ o = p /\ t = done /\ u = p
        BY <3>1
      <3>2. CASE s = done /\ t \in box[u] /\ ~(u = p /\ t = q)
        BY <1>3, <2>1, <3>2 DEF IdsAreUnique, SameRequest
      <3>3. CASE t = done /\ s \in box[o] /\ ~(o = p /\ s = q)
        BY <1>3, <2>1, <3>3 DEF IdsAreUnique, SameRequest
      <3>4. CASE s \in box[o] /\ t \in box[u]
        BY <2>1, <3>4 DEF IdsAreUnique
      <3> QED
        BY <1>7, <3>1, <3>2, <3>3, <3>4
    <2>2. ASSUME NEW o \in Boxes, NEW s \in box'[o], NEW x \in client'[s.on].waiting, x.id = s.id
          PROVE  x.call = s.call
      BY <1>1, <1>3, <1>4, <1>7, <2>2 DEF IdsAreUnique
    <2> QED
      BY <2>1, <2>2 DEF IdsAreUnique
  <1>12. IsAwaited(done)' <=> IsAwaited(q)
    BY <1>1, <1>3, <1>4 DEF IsAwaited, SameRequest
  <1>13. \A o \in Boxes : \A s \in box[o] : IsAwaited(s)' <=> IsAwaited(s)
    BY <1>1 DEF IsAwaited, SameRequest
  <1>14. Linked'
    <2> SUFFICES ASSUME NEW o \in Boxes, NEW s \in box'[o]
                 PROVE  /\ IsAwaited(s)' => (asked'[s.call].purpose = "call" <=> s.purpose \in {"call", "ran", "list"})
                        /\ s.purpose = "list" => s.call \in Lists
                        /\ s.purpose \in {"call", "ran"} => s.call \notin Lists
      BY DEF Linked
    <2>1. CASE s = done
      <3>1. IsAwaited(q) => asked[k].purpose = "call"
        BY <1>1, <1>4 DEF Linked
      <3> QED
        BY <1>1, <1>3, <1>5, <1>12, <2>1, <3>1
    <2>2. CASE s \in box[o]
      BY <1>1, <1>13, <2>2 DEF Linked
    <2> QED
      BY <1>7, <2>1, <2>2
  <1>15. ToRun'
    <2>1. \A o \in Boxes : \A s \in box'[o] : s.purpose = "call" => s \in box[o] /\ s.call # k /\ s.call \in Callers
      BY <1>1, <1>3, <1>4, <1>7, <1>8 DEF ToRun
    <2>2. ASSUME NEW o \in Boxes, NEW s \in box'[o], s.purpose = "call"
          PROVE  /\ runs'[s.call] = 0
                 /\ \/ IsAwaited(s)' /\ got'[s.call] \in {"nothing", "exited"}
                    \/ at'[s.call] = "done" /\ told'[s.call] = "unanswered"
      BY <1>1, <1>6, <1>13, <2>1, <2>2 DEF ToRun
    <2>3. \A o, u \in Boxes : \A s \in box'[o], t \in box'[u] :
              s.purpose = "call" /\ t.purpose = "call" /\ s.call = t.call => o = u /\ s = t
      BY <2>1 DEF ToRun
    <2> QED
      BY <2>2, <2>3 DEF ToRun
  <1>16. RanOnce'
    <2>1. ASSUME NEW j \in Callers, runs'[j] # 0
          PROVE  /\ runs'[j] = 1 /\ j \notin Lists
                 /\ \/ at'[j] = "done" /\ told'[j] \in {"ok", "unanswered"}
                    \/ at'[j] = "waiting" /\ asked'[j].purpose = "call" /\ got'[j] \in {"nothing", "exited", "ok"}
      <3>1. CASE j = k
        <4>1. IsAwaited(q) => at[k] = "waiting" /\ asked[k].purpose = "call"
          BY <1>1, <1>4 DEF Linked, IsAwaited
        <4> QED
          BY <1>1, <1>5, <1>6, <3>1, <4>1
      <3>2. CASE j # k
        BY <1>1, <1>6, <2>1, <3>2 DEF RanOnce
      <3> QED
        BY <3>1, <3>2
    <2>2. ASSUME NEW o \in Boxes, NEW s \in box'[o], s.purpose = "ran" PROVE runs'[s.call] = 1
      <3>1. CASE s = done
        BY <1>3, <1>6, <3>1
      <3>2. CASE s \in box[o]
        <4>1. runs[s.call] = 1 /\ s.call # k /\ s.call \in Callers
          BY <1>5, <1>8, <2>2, <3>2 DEF RanOnce
        <4> QED
          BY <1>6, <4>1
      <3> QED
        BY <1>7, <3>1, <3>2
    <2> QED
      BY <2>1, <2>2 DEF RanOnce
  <1>17. Said'
    <2> SUFFICES ASSUME NEW j \in Callers \ Lists
                 PROVE  /\ told'[j] # "none" => at'[j] = "done"
                        /\ at'[j] = "done" => told'[j] # "none"
                        /\ told'[j] = "ok" => runs'[j] = 1
                        /\ at'[j] = "waiting" /\ asked'[j].purpose = "call" /\ got'[j] = "ok" => runs'[j] = 1
      BY DEF Said
    <2>1. j = k \/ runs'[j] = runs[j]
      BY <1>6
    <2> QED
      BY <1>1, <1>6, <2>1 DEF Said
  <1> QED
    BY <1>9, <1>10, <1>11, <1>14, <1>15, <1>16, <1>17

LEMMA CallsKeep ==
    CallsBounds /\ CallsInv /\ [CallsNext]_cvars => CallsInv'
  <1> SUFFICES ASSUME CallsBounds, CallsInv, [CallsNext]_cvars PROVE CallsInv'
    OBVIOUS
  <1>1. 0 \in Boxes /\ Boxes = 0 .. MaxProcs
    BY DEF Boxes, CallsBounds
  <1>2. ASSUME NEW k \in Callers, Begin(k) \/ Spawned(k) \/ Resume(k) \/ Unanswered(k) \/ ClientClosed(k)
        PROVE  CallsInv'
    BY <1>2, BeginKeeps, SpawnedKeeps, ResumeKeeps, UnansweredKeeps, ClientClosedKeeps
  <1>3. ASSUME NEW k \in Callers, NEW q \in box[0], ConnectFails(k, q) PROVE CallsInv'
    BY <1>3, ConnectFailsKeeps
  <1>4. ASSUME NEW p \in Boxes, NEW q \in box[p], ServerRuns(p, q) \/ ServerAnswers(p, q) PROVE CallsInv'
    BY <1>4, ServerRunsKeeps, ServerAnswersKeeps
  <1>5. ASSUME NEW p \in Procs, ProcessDies(p) \/ ReaderEnds(p) PROVE CallsInv'
    BY <1>5, ProcessDiesKeeps, ReaderEndsKeeps
  <1>6. CASE UNCHANGED cvars
    <2>1. UNCHANGED <<clients, standing, client, at, asked, got, box, runs, told>>
      BY <1>6 DEF cvars
    <2>2. ClientsGoOn
      BY <2>1, ClientStands
    <2>3. \A k \in Callers : CallStays(k)
      BY <2>1 DEF CallStays
    <2>4. SendsNothing
      BY <2>1, <2>2, <2>3, SameBoxes DEF SendsNothing, CallsInv, CallsTyped
    <2> QED
      BY <2>4, SendsNothingKeeps
  <1> QED
    BY <1>1, <1>2, <1>3, <1>4, <1>5, <1>6 DEF CallsNext

LEMMA CallsPromise ==
    CallsInv => RunsAtMostOnce /\ UnreachableDidNotRun /\ OkMeansItRan
  <1> SUFFICES ASSUME CallsInv PROVE RunsAtMostOnce /\ UnreachableDidNotRun /\ OkMeansItRan
    OBVIOUS
  <1>1. RanOnce /\ Said
    BY DEF CallsInv
  <1>2. RunsAtMostOnce
    BY <1>1 DEF RanOnce, RunsAtMostOnce
  <1>3. UnreachableDidNotRun
    BY <1>1 DEF RanOnce, Said, UnreachableDidNotRun
  <1>4. OkMeansItRan
    BY <1>1 DEF Said, OkMeansItRan
  <1> QED
    BY <1>2, <1>3, <1>4

(* For every set of calls, every binding and era of the server: a tool runs *)
(* at most once for a call (McpServers.call's second try is for what never  *)
(* left), a call said to be unreachable or refused did not run, and a       *)
(* result is the result of a run of that call.                              *)
THEOREM CallsRunOnceAlways ==
    ASSUME CallsBounds
    PROVE  CallsSpec => [](RunsAtMostOnce /\ UnreachableDidNotRun /\ OkMeansItRan)
  <1>1. CallsInit => CallsInv
    BY CallsStart
  <1>2. CallsInv /\ [CallsNext]_cvars => CallsInv'
    BY CallsKeep
  <1> QED
    BY <1>1, <1>2, CallsPromise, PTL DEF CallsSpec
=============================================================================
