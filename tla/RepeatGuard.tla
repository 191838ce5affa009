---------------------------- MODULE RepeatGuard ----------------------------
(***************************************************************************)
(* The extension of the runtime that keeps a turn from running in circles  *)
(* (crucible/runtimes/pi/extension/loopguard.ts).  It is asked before every *)
(* call of the model and told every answer.  Calls of one tool that have    *)
(* nine words in ten in common with the FIRST of a family are of that       *)
(* family, a relation that is not transitive; the model makes several calls *)
(* at once, so a call is judged before the ones made with it answered.      *)
(*                                                                         *)
(* A call a tool makes for itself passes through untouched and is left out; *)
(* so is what a refusal says.  What a model does about `terminate` is its   *)
(* own: it may call again.                                                  *)
(***************************************************************************)
EXTENDS Naturals, Sequences, FiniteSets, FiniteSetsExt

CONSTANTS
    Calls,      \* the calls a model may make: a tool and its arguments
    ToolOf,     \* the tool of each
    Words,      \* the words of its arguments
    Answers,    \* what a tool may answer
    Ids,        \* the calls that may be under way at once
    Given,      \* the limits of the profile, by name; one not named has its default
    MaxCalls,   \* bound: calls of one turn
    MaxTurns    \* bound: turns of one session

VARIABLES
    calls,      \* Guard.calls: of this turn
    families,   \* Guard.families, in the order they were met
    awaited,    \* Guard.pending: the family of each call under way, 0 when there is none
    answered,   \* Guard.answered: how often a tool said this
    banned,     \* Guard.banned: the words refused for good
    stopAfter,  \* the same_result rule has stopped the turn
    flight,     \* what runs: the call of each id, or NoCall
    verdict,    \* what the hook answered last, and of which call
    ran,        \* how many calls of this turn ran
    got,        \* what each call was answered this turn, errors aside
    refused,    \* the families of which a call was refused this turn
    made,       \* bound: calls asked about this turn
    rounds      \* bound: turns begun

gVars == <<calls, families, awaited, answered, banned, stopAfter, flight, verdict, ran, got, refused, made, rounds>>

Kinds == {"repeat", "same_result", "calls"}
NoCall == "none"
NoVerdict == [is |-> "none", of |-> NoCall]
Defaults == [k \in Kinds |-> IF k = "calls" THEN 40 ELSE 4]

(* The words of a call are finitely many, a limit is a number, and what     *)
(* stands for no call and no answer is neither.                             *)
ASSUME GuardAssumption ==
    /\ \A c \in Calls : IsFiniteSet(Words[c])
    /\ \A k \in DOMAIN Given : Given[k] \in Nat
    /\ NoCall \notin Calls /\ NoCall \notin Answers

(* readLimits *)
Limit(k) == IF k \in DOMAIN Given THEN Given[k] ELSE Defaults[k]
On == \E k \in Kinds : Limit(k) > 0

(* overlap >= SIMILAR: of the longer one's words, nine in ten in common.    *)
Similar(a, b) ==
    \/ a = {} /\ b = {}
    \/ 10 * Cardinality(a \cap b) >= 9 * Max({Cardinality(a), Cardinality(b)}) /\ a \cup b # {}

Bans(c) == \E b \in banned : b.tool = ToolOf[c] /\ Similar(b.words, Words[c])

(* The family a call is of, the first that matches; a new one, the last.    *)
Matching(c) == {i \in DOMAIN families : families[i].tool = ToolOf[c] /\ Similar(families[i].words, Words[c])}
Found(c) == IF Matching(c) # {} THEN Min(Matching(c)) ELSE Len(families) + 1
Newcomer(c) == [tool |-> ToolOf[c], words |-> Words[c], times |-> 0, answer |-> NoCall, unchanged |-> TRUE]
Counted(c) ==
    LET all == IF Matching(c) # {} THEN families ELSE Append(families, Newcomer(c))
    IN  [all EXCEPT ![Found(c)].times = @ + 1]

(* The limit-th unchanged repetition is refused, the next banned.           *)
Repeats(f) ==
    IF Limit("repeat") > 0 /\ f.unchanged /\ f.times >= Limit("repeat")
    THEN IF f.times > Limit("repeat") THEN "bans" ELSE "refused"
    ELSE "runs"

GuardInit ==
    /\ calls = 0 /\ families = <<>> /\ awaited = [i \in Ids |-> 0] /\ banned = {} /\ stopAfter = FALSE
    /\ answered = [t \in {ToolOf[c] : c \in Calls} \X Answers |-> 0]
    /\ flight = [i \in Ids |-> NoCall] /\ verdict = NoVerdict
    /\ ran = 0 /\ got = [c \in Calls |-> {}] /\ refused = {} /\ made = 0 /\ rounds = 1

(* agent_start: the counts start over, bans stay.                           *)
AgentStart ==
    /\ rounds < MaxTurns /\ rounds' = rounds + 1 /\ made > 0
    /\ \A i \in Ids : flight[i] = NoCall
    /\ calls' = 0 /\ families' = <<>> /\ awaited' = [i \in Ids |-> 0] /\ stopAfter' = FALSE
    /\ answered' = [k \in DOMAIN answered |-> 0]
    /\ verdict' = NoVerdict /\ ran' = 0 /\ got' = [c \in Calls |-> {}] /\ refused' = {} /\ made' = 0
    /\ UNCHANGED <<banned, flight>>

Says(what, c) == verdict' = [is |-> what, of |-> c]

Runs(i, c) == flight' = [flight EXCEPT ![i] = c] /\ ran' = ran + 1 /\ UNCHANGED <<banned, refused>>

(* Guard.call past the ban and the budget.                                  *)
Judge(i, c) ==
    LET f == Counted(c)[Found(c)] what == Repeats(f)
    IN  /\ families' = Counted(c) /\ awaited' = [awaited EXCEPT ![i] = Found(c)] /\ Says(what, c)
        /\ \/ what = "runs" /\ Runs(i, c)
           \/ what = "refused" /\ refused' = refused \cup {Found(c)} /\ UNCHANGED <<banned, flight, ran>>
           \/ /\ what = "bans" /\ banned' = banned \cup {[tool |-> f.tool, words |-> f.words]}
              /\ UNCHANGED <<refused, flight, ran>>

Refuses(what, c) == Says(what, c) /\ UNCHANGED <<families, awaited, banned, flight, ran, refused>>

(* The limit-th call of the turn and every one after is refused.            *)
Spent(n) == Limit("calls") > 0 /\ n >= Limit("calls")

(* tool_call: a turn that was stopped, a ban, the budget, a repetition.     *)
ToolCall(i, c) ==
    /\ On /\ made < MaxCalls /\ flight[i] = NoCall /\ made' = made + 1
    /\ \/ stopAfter /\ Refuses("stopped", c) /\ UNCHANGED calls
       \/ ~stopAfter /\ Bans(c) /\ Refuses("banned", c) /\ UNCHANGED calls
       \/ /\ ~stopAfter /\ ~Bans(c) /\ calls' = calls + 1
          /\ IF Spent(calls + 1) THEN Refuses("spent", c) ELSE Judge(i, c)
    /\ UNCHANGED <<answered, stopAfter, got, rounds>>

(* A mutant: an answer is compared with the last one.                       *)
HeardLast(f, text) == [f EXCEPT !.unchanged = f.answer \in {NoCall, text}, !.answer = text]

(* Guard.result of the family: the first answer is kept, another one moves. *)
Heard(f, text) ==
    IF f.answer = NoCall THEN [f EXCEPT !.answer = text]
    ELSE IF f.answer # text THEN [f EXCEPT !.unchanged = FALSE] ELSE f

(* Two past the limit of same answers the turn stops.                       *)
StopsTheTurn(n) == Limit("same_result") > 0 /\ n >= Limit("same_result") + 2

(* tool_result of an answer.                                                *)
ToolResult(i, text) ==
    LET c == flight[i] k == <<ToolOf[c], text>>
    IN  /\ c # NoCall /\ flight' = [flight EXCEPT ![i] = NoCall]
        /\ families' = IF awaited[i] = 0 THEN families ELSE [families EXCEPT ![awaited[i]] = Heard(@, text)]
        /\ awaited' = [awaited EXCEPT ![i] = 0]
        /\ answered' = IF Limit("same_result") = 0 THEN answered ELSE [answered EXCEPT ![k] = @ + 1]
        /\ stopAfter' = (stopAfter \/ StopsTheTurn(answered'[k]))
        /\ got' = [got EXCEPT ![c] = @ \cup {text}] /\ verdict' = NoVerdict
        /\ UNCHANGED <<calls, banned, ran, refused, made, rounds>>

(* tool_result of an error: returns first, the family still waits for it.   *)
ToolError(i) ==
    /\ flight[i] # NoCall /\ flight' = [flight EXCEPT ![i] = NoCall] /\ verdict' = NoVerdict
    /\ UNCHANGED <<calls, families, awaited, answered, banned, stopAfter, ran, got, refused, made, rounds>>

GuardNext ==
    \/ AgentStart
    \/ \E i \in Ids, c \in Calls : ToolCall(i, c)
    \/ \E i \in Ids, a \in Answers : ToolResult(i, a)
    \/ \E i \in Ids : ToolError(i)

GuardSpec == GuardInit /\ [][GuardNext]_gVars

----------------------------------------------------------------------------
(* "An answer that changes is progress, and such calls are left alone": a   *)
(* call that was answered two ways this turn is not refused as a repetition *)
(* of itself, whatever it was answered since.                               *)
OnceMovedLeftAlone == verdict.is \in {"refused", "bans"} => Cardinality(got[verdict.of]) < 2

(* A call is banned for the session only where one of its family was        *)
(* refused before, in this turn: the model has been told once.              *)
BanFollowsARefusal == verdict.is = "bans" => Found(verdict.of) \in refused

(* A turn runs fewer calls than its budget.                                 *)
RunsWithinBudget == Limit("calls") > 0 => ran < Limit("calls")

(* A call whose answers move is not refused as a repetition, a ban follows  *)
(* a refusal, and a turn runs fewer calls than its budget (loopguard.ts).   *)
GuardIsJust == OnceMovedLeftAlone /\ BanFollowsARefusal /\ RunsWithinBudget

(* Not kept by the code: a call refused as a repetition "got the same       *)
(* answer each time".  Calls made together are counted before any answers,  *)
(* and a call that fails never counts as answered.                          *)
RefusedHadTheSameAnswer == verdict.is = "refused" /\ Limit("repeat") > 1 => families[Found(verdict.of)].answer # NoCall

(* Not kept by the code: a call whose answers change is not refused at all. *)
(* A ban of one family takes in the calls near its first, though they are   *)
(* of another family and their answers move.                                *)
ProgressIsNotBanned == verdict.is = "banned" => Cardinality(got[verdict.of]) < 2
=============================================================================
