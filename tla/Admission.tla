------------------------------ MODULE Admission ------------------------------
(***************************************************************************)
(* Whether a turn may run, and with what (agent_flow.py handle_batch,       *)
(* _first_not_admitted, _turn_profile; budget.py; ports/entitlement.py;     *)
(* conversation_profiles.py; runtimes/pi/profiles.py).  A batch may hold    *)
(* several people's messages: each is admitted or told, the turn has the    *)
(* tools all of them may use and words only where they agree, and what it   *)
(* cost is written down for the day's budget.                               *)
(*                                                                          *)
(* Turns of several conversations go on at once; every await is a step.     *)
(***************************************************************************)
EXTENDS Naturals, Sequences, FiniteSets, FiniteSetsExt

CONSTANTS
    Tools,          \* the agent's
    Answers,        \* what the application may say of a person: [tools, words]
    All,            \* no restriction
    Turns, ConvOf,  \* the turns and the conversation of each, which has one at a time
    BatchOf,        \* per turn: its messages' authors, in order
    PerDay, PerPerson,      \* the budget; 0: none
    Quiet,          \* whether the client may be unable to say anything
    MaxCost, MaxDay, MaxChanges, MaxMoves   \* bounds

VARIABLES
    answer,     \* per author: what the application says of them now
    withdrawn,  \* the tools taken away from the agent for now
    turn,       \* per turn: where it stands, what it was answered
    entry,      \* ToolWiring.session_allowlists: per conversation
    process,    \* per conversation: what its process was started with
    ledger,     \* the usage table: [by, day, cost]
    day, changes, moves,
    told,       \* history: <<turn, author>> that were refused and told
    spent       \* history: per turn, what it cost

adVars == <<answer, withdrawn, turn, entry, process, ledger, day, changes, moves, told, spent>>
where == <<answer, withdrawn, day, changes, moves>>

Authors == UNION {{BatchOf[t][i] : i \in DOMAIN BatchOf[t]} : t \in Turns}
Convs == {ConvOf[t] : t \in Turns}
NoTurn == [pc |-> "none", todo |-> {}, refused |-> {}, got |-> {}, over |-> {}, on |-> 0]
NoProcess == [tools |-> {}, words |-> "", shown |-> {}]

AdmissionInit ==
    /\ answer \in [Authors -> Answers] /\ withdrawn = {}
    /\ turn = [t \in Turns |-> NoTurn]
    /\ entry = [c \in Convs |-> All] /\ process = [c \in Convs |-> NoProcess]
    /\ ledger = <<>> /\ day = 1 /\ changes = 0 /\ moves = 0
    /\ told = {} /\ spent = [t \in Turns |-> 0]

PeopleOf(t) == {BatchOf[t][i] : i \in DOMAIN BatchOf[t]}
AtWork(t) == turn[t].pc \notin {"none", "done", "refused", "failed"}

-----------------------------------------------------------------------------
(* The ledger *)

Cost(rows) == MapThenSumSet(LAMBDA i : ledger[i].cost, rows)

(* usage_since, day_start. *)
Today == {i \in DOMAIN ledger : ledger[i].day >= day}

Over(limit, sum) == limit > 0 /\ sum >= limit

(* BudgetAdmission.admit: the agent's day, then the person's. *)
OverBudget(a) == Over(PerDay, Cost(Today)) \/ Over(PerPerson, Cost({i \in Today : ledger[i].by = a}))

-----------------------------------------------------------------------------
(* handle_batch: who is over their budget when the turn comes is kept for   *)
(* the properties.                                                          *)
Begins(t) ==
    /\ turn[t].pc = "none" /\ \A u \in Turns : (u # t /\ ConvOf[u] = ConvOf[t]) => ~AtWork(u)
    /\ turn' = [turn EXCEPT ![t] = [NoTurn EXCEPT !.pc = "asking", !.todo = PeopleOf(t), !.on = day,
                                                  !.over = {a \in PeopleOf(t) : OverBudget(a)}]]
    /\ UNCHANGED <<where, entry, process, ledger, told, spent>>

(* _first_not_admitted: an author is admitted, or is not ...                *)
Admits(t, a) ==
    /\ turn[t].pc = "asking" /\ a \in turn[t].todo
    /\ turn' = [turn EXCEPT ![t].todo = @ \ {a},
                            ![t].pc = IF OverBudget(a) THEN "telling" ELSE @,
                            ![t].refused = IF OverBudget(a) THEN @ \cup {a} ELSE @]
    /\ UNCHANGED <<where, entry, process, ledger, told, spent>>

(* ... and is told: alone, or where that fails in the open.                 *)
Tells(t) ==
    /\ turn[t].pc = "telling"
    /\ turn' = [turn EXCEPT ![t].pc = "asking"]
    /\ told' = told \cup ({t} \X turn[t].refused)
    /\ UNCHANGED <<where, entry, process, ledger, spent>>

(* A notice that cannot be posted at all ends the batch. *)
TellFails(t) ==
    /\ Quiet /\ turn[t].pc = "telling"
    /\ turn' = [turn EXCEPT ![t].pc = "failed"]
    /\ UNCHANGED <<where, entry, process, ledger, told, spent>>

(* Every author is admitted, or nothing runs. *)
Asked(t) ==
    /\ turn[t].pc = "asking" /\ turn[t].todo = {}
    /\ turn' = [turn EXCEPT ![t].pc = IF turn[t].refused = {} THEN "entitling" ELSE "refused", ![t].todo = PeopleOf(t)]
    /\ UNCHANGED <<where, entry, process, ledger, told, spent>>

(* _turn_profile: the application is asked about each author. *)
Entitles(t, a) ==
    /\ turn[t].pc = "entitling" /\ a \in turn[t].todo
    /\ turn' = [turn EXCEPT ![t].todo = @ \ {a}, ![t].got = @ \cup {[by |-> a, says |-> answer[a]]}]
    /\ UNCHANGED <<where, entry, process, ledger, told, spent>>

(* Mutant: what any of them may use. *)
SharedAny(got) ==
    LET sets == {g.says.tools : g \in got} \ {All} IN
    [tools |-> IF sets = {} THEN All ELSE UNION sets,
     words |-> IF Cardinality({g.says.words : g \in got}) = 1 THEN (CHOOSE g \in got : TRUE).says.words ELSE ""]

(* shared_entitlement: the tools every one may use, words all agree on.     *)
Shared(got) ==
    LET sets == {g.says.tools : g \in got} \ {All} IN
    [tools |-> IF sets = {} THEN All ELSE {x \in Tools : \A s \in sets : x \in s},
     words |-> IF Cardinality({g.says.words : g \in got}) = 1 THEN (CHOOSE g \in got : TRUE).says.words ELSE ""]

(* session_env: the server's set, and what the manifest shows.              *)
Allowed(tools) == IF tools = All THEN Tools \ withdrawn ELSE tools \ withdrawn

(* narrow_pi_profile: what the process is started with. *)
Narrowed(e) == [tools |-> IF e.tools = All THEN Tools ELSE e.tools \cap Tools, words |-> e.words]

(* build, then run_stateful: a process started otherwise is replaced by one *)
(* that reads the manifest as it is now (spawn_fingerprint).                *)
Runs(t) ==
    /\ turn[t].pc = "entitling" /\ turn[t].todo = {}
    /\ LET e == Shared(turn[t].got)
           p == Narrowed(e)
           c == ConvOf[t] IN
       /\ entry' = [entry EXCEPT ![c] = IF e.tools = All THEN All ELSE Allowed(e.tools)]
       /\ process' = IF process[c] # NoProcess /\ process[c].tools = p.tools /\ process[c].words = p.words THEN process
                     ELSE [process EXCEPT ![c] = [tools |-> p.tools, words |-> p.words, shown |-> Allowed(e.tools)]]
    /\ turn' = [turn EXCEPT ![t].pc = "running"]
    /\ UNCHANGED <<where, ledger, told, spent>>

(* The model works, and costs.                                              *)
Costs(t) ==
    /\ turn[t].pc = "running" /\ spent[t] < MaxCost
    /\ spent' = [spent EXCEPT ![t] = @ + 1]
    /\ UNCHANGED <<where, turn, entry, process, ledger, told>>

(* The run ends, _keep_usage: as the newest message's author's.             *)
Ends(t) ==
    /\ turn[t].pc = "running"
    /\ turn' = [turn EXCEPT ![t].pc = "done"]
    /\ ledger' = Append(ledger, [by |-> BatchOf[t][Len(BatchOf[t])], day |-> day, cost |-> spent[t]])
    /\ UNCHANGED <<where, entry, process, told, spent>>

(* A time-out, a stop or an error: there is no result to take the cost from. *)
Breaks(t) ==
    /\ turn[t].pc = "running"
    /\ turn' = [turn EXCEPT ![t].pc = "failed"]
    /\ UNCHANGED <<where, entry, process, ledger, told, spent>>

-----------------------------------------------------------------------------
(* The application changes its mind, tools are withdrawn and come back, a   *)
(* day passes.                                                              *)
Changes(a) ==
    /\ changes < MaxChanges /\ changes' = changes + 1
    /\ \E w \in Answers : answer' = [answer EXCEPT ![a] = w]
    /\ UNCHANGED <<withdrawn, day, moves, turn, entry, process, ledger, told, spent>>

Moves(x) ==
    /\ moves < MaxMoves /\ moves' = moves + 1
    /\ withdrawn' = IF x \in withdrawn THEN withdrawn \ {x} ELSE withdrawn \cup {x}
    /\ UNCHANGED <<answer, day, changes, turn, entry, process, ledger, told, spent>>

Midnight ==
    /\ day < MaxDay /\ day' = day + 1
    /\ UNCHANGED <<answer, withdrawn, changes, moves, turn, entry, process, ledger, told, spent>>

AdmissionNext ==
    \/ \E t \in Turns : Begins(t) \/ Tells(t) \/ TellFails(t) \/ Asked(t) \/ Runs(t) \/ Costs(t) \/ Ends(t) \/ Breaks(t)
    \/ \E t \in Turns, a \in Authors : Admits(t, a) \/ Entitles(t, a)
    \/ \E a \in Authors : Changes(a)
    \/ \E x \in Tools : Moves(x)
    \/ Midnight

AdmissionSpec == AdmissionInit /\ [][AdmissionNext]_adVars

-----------------------------------------------------------------------------
(* A turn runs with tools, offered and let through, that each of its people *)
(* was given when asked for this turn, whatever the process was started     *)
(* with before and whatever another conversation of theirs has              *)
(* (_turn_profile: "the tools all of them may use").                        *)
JointlyEntitled ==
    \A t \in Turns : turn[t].pc = "running" =>
      \A g \in turn[t].got :
        /\ g.says.tools # All => (process[ConvOf[t]].tools \cup process[ConvOf[t]].shown) \subseteq g.says.tools
        /\ g.says.tools # All => entry[ConvOf[t]] # All /\ entry[ConvOf[t]] \subseteq g.says.tools
        /\ process[ConvOf[t]].words \in {"", g.says.words}

(* Nobody who had spent their budget when their message came has a turn,    *)
(* unless the day turned while they were asked about: whoever else is in    *)
(* the batch (budget.py admit).                                             *)
SpentMeansNoTurn ==
    \A t \in Turns : (turn[t].pc = "running" /\ day = turn[t].on) => turn[t].over = {}

(* Everybody who is refused is told, the others of the batch as well.       *)
EachRefusedIsTold ==
    \A t \in Turns : (turn[t].pc = "refused" /\ day = turn[t].on) => {t} \X turn[t].over \subseteq told

-----------------------------------------------------------------------------
(* What the code does not keep *)

(* "a ledger of what every turn cost" (docs/creating-agents.md).            *)
LedgerHasEveryTurn ==
    (\A t \in Turns : ~AtWork(t)) =>
      Cost(DOMAIN ledger) = MapThenSumSet(LAMBDA t : spent[t], Turns)

(* "what the process offers and what the server runs cannot disagree".      *)
OffersWhatRuns ==
    \A t \in Turns : (turn[t].pc = "running" /\ entry[ConvOf[t]] # All) => process[ConvOf[t]].shown = entry[ConvOf[t]]

(* "bound each person's day with it": whoever's message was answered        *)
(* spends.                                                                  *)
EveryonePays ==
    \A t \in Turns : turn[t].pc = "done" /\ spent[t] > 0 =>
      \A a \in PeopleOf(t) : \E i \in DOMAIN ledger : ledger[i].by = a
=============================================================================
