---------------------------- MODULE MCDeployment ----------------------------
(***************************************************************************)
(* The instances TLC checks of what a deployment is made of and how people  *)
(* change it: profiles and their reload, the directories and the login its  *)
(* processes get, the library of skills, agents made and their containers,  *)
(* the screens, and the guard inside the runtime.  A behaviour is one       *)
(* part's; the variables of the others stay as they began.                  *)
(***************************************************************************)
EXTENDS Profiles, Scopes, RepeatGuard, Login, TLC

CONSTANTS Parts,        \* the instances a configuration checks
          OnScreen,     \* the changes to skills made on the screen
          Shortened     \* the commands that are an application's shortcuts

VARIABLE part
VARIABLES lib, stamp, refs, want, loaded, upstream, op
VARIABLES profile, bot, env, hostFile, compose, engine, host, create, sync, minted, faults, starts
VARIABLES operators, windows, connected, tasks, links, posts, forms, pending, dialogs, acting, running, kinds, fed, stored,
          ledger, drawn, typed, clicks, crashes

Fields == "v1" :> 1 @@ "v2" :> 2 @@ "v3" :> 1 @@ "bad" :> 0 @@ "dup" :> 2

(* Two agents, one of them the engine's own, two conversations of the       *)
(* other; two reloads of edits of which some are bad.                       *)
MCOrder == <<"a", "s">>
MCOwnerOf == [c \in {"c", "d"} |-> "a"]
MCVersions == {"v1", "v2", "v3", "bad"} \cup Doubles
MCFirst == [a \in {"a", "s"} |-> "v1"]
MCScoped == [Fields EXCEPT !["v2"] = 1, !["v3"] = 2]

(* Two processes of a conversation on two hosts, one of another, one that   *)
(* keeps nothing.                                                           *)
MCConvOf == "p1" :> "c" @@ "p2" :> "c" @@ "q" :> "d" @@ "m" :> "none"
MCHostOf == [p \in {"p1", "p2", "q", "m"} |-> IF p = "p2" THEN "relay" ELSE "local"]

Changes == {"i1", "i2", "r", "g1", "g2", "u", "n"}

(* Installs, a removal and assignments of two skills at once;               *)
K == INSTANCE Skills WITH
       Skill <- {"s", "t"}, Agents <- {"a"}, Ops <- Changes,
       KindOf <- "i1" :> "install" @@ "i2" :> "install" @@ "r" :> "remove" @@ "g1" :> "assign" @@ "g2" :> "assign"
                 @@ "u" :> "unassign" @@ "n" :> "unassign",
       ActorOf <- [o \in Changes |-> IF o \in OnScreen THEN "screen" ELSE "chat"],
       SkillOf <- [o \in Changes |-> IF o \in {"g2", "n"} THEN "t" ELSE "s"], AgentOf <- [o \in Changes |-> "a"],
       Force <- {"i1"}, Installed <- {"t"}, CopyFails <- FALSE, MaxCommits <- 2

(* an update by a command beside an assignment;                             *)
U == INSTANCE Skills WITH
       Skill <- {"s", "t"}, Agents <- {"a"}, Ops <- {"w", "g2", "n"},
       KindOf <- "w" :> "update" @@ "g2" :> "assign" @@ "n" :> "unassign",
       ActorOf <- "w" :> "cli" @@ "g2" :> "chat" @@ "n" :> "screen",
       SkillOf <- [o \in {"w", "g2", "n"} |-> "t"], AgentOf <- [o \in {"w", "g2", "n"} |-> "a"],
       Force <- {}, Installed <- {"t"}, CopyFails <- FALSE, MaxCommits <- 2

(* a copy that breaks, and another try.                                     *)
B == INSTANCE Skills WITH
       Skill <- {"s", "t"}, Agents <- {"a"}, Ops <- {"i1", "i2"}, KindOf <- [o \in {"i1", "i2"} |-> "install"],
       ActorOf <- [o \in {"i1", "i2"} |-> "chat"], SkillOf <- [o \in {"i1", "i2"} |-> "s"],
       AgentOf <- [o \in {"i1", "i2"} |-> "a"], Force <- {"i2"}, Installed <- {"s", "t"}, CopyFails <- TRUE, MaxCommits <- 2

(* An agent made by the tool, and two deployments one after the other;      *)
O == INSTANCE Provision WITH
       Agents <- {"a", "b"}, Creates <- {"t"}, ByOf <- "t" :> "tool", NameOf <- "t" :> "b", Syncs <- {"s1", "s2"},
       First <- {"a"}, Bad <- {}, OneAtATime <- TRUE, MaxFaults <- 2, MaxStarts <- 2

(* one made three times, with a profile that does not load;                 *)
Q == INSTANCE Provision WITH
       Agents <- {"a", "b"}, Creates <- {"t", "u", "k"}, ByOf <- "t" :> "tool" @@ "u" :> "tool" @@ "k" :> "cli",
       NameOf <- [c \in {"t", "u", "k"} |-> "b"], Syncs <- {"s1"},
       First <- {"a"}, Bad <- {"b"}, OneAtATime <- TRUE, MaxFaults <- 2, MaxStarts <- 2

(* one made by the command.                                                 *)
C == INSTANCE Provision WITH
       Agents <- {"a", "b"}, Creates <- {"t"}, ByOf <- "t" :> "cli", NameOf <- "t" :> "b", Syncs <- {"s1"},
       First <- {"a"}, Bad <- {}, OneAtATime <- TRUE, MaxFaults <- 2, MaxStarts <- 2

Sees == "room" :> {"p", "q"} @@ "dm" :> {"p"} @@ "pair" :> {"p", "q"} @@ "under" :> {"p"}
Whose == "room" :> "nobody" @@ "dm" :> "p" @@ "pair" :> "nobody" @@ "under" :> "p"

(* Every command typed in every kind of place;                              *)
A == INSTANCE Screens WITH
       People <- {"p", "q"}, Places <- {"room", "dm", "pair", "under"}, Readers <- Sees, Owner <- Whose,
       Threads <- {"under"}, Directs <- {"dm", "pair"}, Lists <- {{"p"}, {}}, Windows <- {}, Tasks <- {},
       Words <- {"tasks", "connections", "ward", "stop", "other"}, Shortcuts <- Shortened, Ops <- {"o1", "o2"},
       MaxTyped <- 2, MaxClicks <- 1, MaxCrashes <- 0, Nobody <- "nobody", op <- acting, minted <- drawn

(* the broker's screen with a window, operated on and restarted;            *)
W == INSTANCE Screens WITH
       People <- {"p", "q"}, Places <- {"dm"}, Readers <- Sees, Owner <- Whose,
       Threads <- {"under"}, Directs <- {"dm", "pair"}, Lists <- {{"p"}, {}}, Windows <- {"w"}, Tasks <- {},
       Words <- {"ward"}, Shortcuts <- {}, Ops <- {"o1", "o2"},
       MaxTyped <- 1, MaxClicks <- 4, MaxCrashes <- 1, Nobody <- "nobody", op <- acting, minted <- drawn

(* the screens of tasks and connections.                                    *)
T == INSTANCE Screens WITH
       People <- {"p", "q"}, Places <- {"dm"}, Readers <- Sees, Owner <- Whose,
       Threads <- {"under"}, Directs <- {"dm", "pair"}, Lists <- {{"p"}, {}}, Windows <- {}, Tasks <- {"t"},
       Words <- {"connections", "other", "tasks"}, Shortcuts <- {}, Ops <- {"o1", "o2"},
       MaxTyped <- 2, MaxClicks <- 3, MaxCrashes <- 0, Nobody <- "nobody", op <- acting, minted <- drawn

(* Three calls of one tool, each nearly the next but the first not the      *)
(* last, two at a time, in two turns.                                       *)
MCToolOf == [c \in {"s", "t", "u"} |-> "x"]
MCWords == "s" :> 1..10 @@ "t" :> 2..11 @@ "u" :> 3..12
MCGiven == "repeat" :> 3 @@ "same_result" :> 1 @@ "calls" :> 5

profiles == pVars
scopes == sVars
login == loginVars
skills == <<lib, stamp, refs, want, loaded, upstream, op>>
agents == <<profile, bot, env, hostFile, compose, engine, host, create, sync, minted, faults, starts>>
screens == <<operators, windows, connected, tasks, links, posts, forms, pending, dialogs, acting, running, kinds, fed, stored,
             ledger, drawn, typed, clicks, crashes>>
guard == gVars
vars == <<part, profiles, scopes, login, skills, agents, screens, guard>>

Screened == {"typed", "window", "tasks"}

Init ==
    /\ part \in Parts
    /\ ProfilesInit /\ ScopesInit /\ LoginInit /\ GuardInit
    /\ CASE part = "update" -> U!SkillsInit [] part = "broken copy" -> B!SkillsInit [] OTHER -> K!SkillsInit
    /\ CASE part = "made twice" -> Q!ProvisionInit [] part = "command" -> C!ProvisionInit [] OTHER -> O!ProvisionInit
    /\ CASE part = "window" -> W!ScreensInit [] part = "tasks" -> T!ScreensInit [] OTHER -> A!ScreensInit
    /\ part # "login" => expires = 24
    /\ part \notin Screened => operators = {}

Next ==
    \/ part = "profiles" /\ ProfilesNext /\ UNCHANGED <<part, scopes, login, skills, agents, screens, guard>>
    \/ part = "scopes" /\ ScopesNext /\ UNCHANGED <<part, profiles, login, skills, agents, screens, guard>>
    \/ part = "login" /\ LoginNext /\ UNCHANGED <<part, profiles, scopes, skills, agents, screens, guard>>
    \/ part = "skills" /\ K!SkillsNext /\ UNCHANGED <<part, profiles, scopes, login, agents, screens, guard>>
    \/ part = "update" /\ U!SkillsNext /\ UNCHANGED <<part, profiles, scopes, login, agents, screens, guard>>
    \/ part = "broken copy" /\ B!SkillsNext /\ UNCHANGED <<part, profiles, scopes, login, agents, screens, guard>>
    \/ part = "deploy" /\ O!ProvisionNext /\ UNCHANGED <<part, profiles, scopes, login, skills, screens, guard>>
    \/ part = "made twice" /\ Q!ProvisionNext /\ UNCHANGED <<part, profiles, scopes, login, skills, screens, guard>>
    \/ part = "command" /\ C!ProvisionNext /\ UNCHANGED <<part, profiles, scopes, login, skills, screens, guard>>
    \/ part = "typed" /\ A!ScreensNext /\ UNCHANGED <<part, profiles, scopes, login, skills, agents, guard>>
    \/ part = "window" /\ W!ScreensNext /\ UNCHANGED <<part, profiles, scopes, login, skills, agents, guard>>
    \/ part = "tasks" /\ T!ScreensNext /\ UNCHANGED <<part, profiles, scopes, login, skills, agents, guard>>
    \/ part = "guard" /\ GuardNext /\ UNCHANGED <<part, profiles, scopes, login, skills, agents, screens>>

Spec == Init /\ [][Next]_vars

-----------------------------------------------------------------------------
(* What each part promises, of the properties its module states.            *)

(* No profile names a skill that is gone, edits of one profile keep each    *)
(* other, and a skill is of the commit its provenance names                 *)
(* (skill_tools.py, skills/library.py, skills/assignment.py).              *)
SkillsAreKept ==
    CASE part = "update" -> U!NoDangling /\ U!EditsKeepEachOther /\ U!ProvenanceIsTrue
      [] part = "broken copy" -> B!NoDangling /\ B!EditsKeepEachOther /\ B!ProvenanceIsTrue
      [] OTHER -> K!NoDangling /\ K!EditsKeepEachOther /\ K!ProvenanceIsTrue

(* The engine and a host that are both up have one token, and of an agent   *)
(* that was made all is there, of one that was refused nothing (impi        *)
(* provisioning.py, agent_tools.py).                                        *)
AgentsAreWhole ==
    CASE part = "made twice" -> Q!TokensMeet /\ Q!AllOfAnAgentOrNone
      [] part = "command" -> C!TokensMeet /\ C!AllOfAnAgentOrNone
      [] OTHER -> O!TokensMeet /\ O!AllOfAnAgentOrNone

(* Screens are kept to their people: a private one is in its owner's direct *)
(* message only (where a shortcut began a conversation, the one exception   *)
(* below), what is typed into a form never comes to the model, a form *)
(* acts once, a command the engine owns never reaches the model, and only   *)
(* operators act on the broker (dispatcher.py, ward chatops.py).            *)
ScreensAreKept ==
    /\ [](CASE part = "window" -> /\ W!PrivateStaysPrivate /\ W!SecretsNeverSaid
                                  /\ W!FormActsOnce /\ W!OwnedWordsStay
            [] part = "tasks" -> /\ T!PrivateStaysPrivate /\ T!SecretsNeverSaid
                                 /\ T!FormActsOnce /\ T!OwnedWordsStay
            [] OTHER -> /\ A!PrivateStaysPrivate /\ A!SecretsNeverSaid
                        /\ A!FormActsOnce /\ A!OwnedWordsStay)
    /\ W!OnlyOperatorsAct

-----------------------------------------------------------------------------
(* What the code does not keep; the README says where TLC shows it.         *)

(* What was shown is what lands (skill_tools.py).                           *)
ShownIsWhatLands == K!ShownIsWhatLands

(* The name of an agent that was not made stays free (agent_tools.py).      *)
NameStaysFree == O!NameStaysFree

(* No profile is left without its bot (cli.py).                             *)
NoProfileWithoutBot == C!NoProfileWithoutBot

(* A tool call that failed leaves no profile (agent_tools.py).              *)
FailedToolLeavesNone == O!FailedToolLeavesNone

(* A person's own accounts are shown in a direct message with the agent and *)
(* nowhere else (slack/interactions.py).                                    *)
PrivateEverywhere == A!PrivateEverywhere

(* A card shows the state (ward chatops.py).                                *)
CardShowsTheState == W!CardShowsTheState

(* Every act of an operator has its row (ward chatops.py).                  *)
EveryActHasItsRow == W!EveryActHasItsRow
=============================================================================
