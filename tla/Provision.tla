------------------------------ MODULE Provision ------------------------------
(***************************************************************************)
(* How an agent comes to be: its profile, its bot account on the chat       *)
(* server and the bot's token in .env (provisioning.py), made by the        *)
(* create_agent tool or by `impi agent add`; and the files that give every  *)
(* agent a container (agent_containers.py), rewritten whole by `impi agent  *)
(* sync`.  The engine reads .env when it starts, a container its own file   *)
(* when it is brought up.                                                   *)
(***************************************************************************)
EXTENDS Naturals, FiniteSets

CONSTANTS
    Agents,
    Creates, ByOf, NameOf,      \* who creates which agent: "tool" or "cli"
    Syncs,                      \* the syncs an operator runs
    First,                      \* the agents there are at first
    Bad,                        \* the agents whose build is refused
    OneAtATime,                 \* operators wait for each other, and for a write of .env
    MaxFaults, MaxStarts

VARIABLES
    profile,        \* the agents that have one
    bot,            \* how far each account on the chat server is
    env,            \* what .env holds: the bots known, and the host token of each agent
    hostFile,       \* the token in the file of each container
    compose,        \* the agents the deployment describes a container of
    engine, host,   \* the host tokens the engine and each container run with
    create, sync, minted, faults, starts

oVars == <<profile, bot, env, hostFile, compose, engine, host, create, sync, minted, faults, starts>>

NoToken == 0
NewSync == [pc |-> "new", todo |-> {}, to |-> {}, token |-> NoToken, base |-> <<>>]
NewCreate == [pc |-> "new", wrote |-> FALSE, base |-> <<>>]

ProvisionInit ==
    /\ profile = First
    /\ bot = [a \in Agents |-> IF a \in First THEN "member" ELSE "none"]
    /\ env = [bots |-> First, tokens |-> [a \in Agents |-> NoToken]]
    /\ hostFile = [a \in Agents |-> NoToken]
    /\ compose = {}
    /\ engine = [a \in Agents |-> NoToken] /\ host = [a \in Agents |-> NoToken]
    /\ create = [c \in Creates |-> NewCreate]
    /\ sync = [s \in Syncs |-> NewSync]
    /\ minted = 0 /\ faults = 0 /\ starts = 0

-----------------------------------------------------------------------------
(* Operators take turns where OneAtATime says so, and nobody writes .env    *)
(* between the reading and the writing of another.                          *)
(* What was begun is refused (what went wrong is told as such), or broken   *)
(* off by anything else (a disk that is full, a cancelled call), or lost    *)
(* with the engine.                                                         *)
Busy(pc) == pc \notin {"new", "done", "refused", "broken", "lost"}
Free ==
    OneAtATime =>
        /\ \A s \in Syncs : sync[s].pc # "setting"
        /\ \A c \in Creates : create[c].pc # "setting"
OperatorFree ==
    OneAtATime =>
        /\ \A s \in Syncs : ~Busy(sync[s].pc)
        /\ \A c \in Creates : ByOf[c] = "cli" => ~Busy(create[c].pc)

Steps(c, from, to) == create[c].pc = from /\ create' = [create EXCEPT ![c].pc = to]

(* The profile is written first; one that exists is not overwritten.  It is *)
(* a file that names the agent and a second one with its prompt: what       *)
(* breaks between the two leaves a profile.                                 *)
WriteProfile(c) ==
    /\ create[c].pc = "new"
    /\ ByOf[c] = "cli" => OperatorFree
    /\ IF NameOf[c] \in profile
       THEN create' = [create EXCEPT ![c].pc = "refused"] /\ UNCHANGED <<profile, faults>>
       ELSE \/ /\ create' = [create EXCEPT ![c].pc = "written", ![c].wrote = TRUE]
               /\ profile' = profile \cup {NameOf[c]} /\ UNCHANGED faults
            \/ /\ faults < MaxFaults /\ faults' = faults + 1
               /\ \E half \in BOOLEAN :
                     /\ create' = [create EXCEPT ![c].pc = "broken", ![c].wrote = half]
                     /\ profile' = IF half THEN profile \cup {NameOf[c]} ELSE profile
    /\ UNCHANGED <<bot, env, hostFile, compose, engine, host, sync, minted, starts>>

(* The account, its token and its team are three calls to the server.       *)
CallServer(c) ==
    LET a == NameOf[c]
    IN  /\ \/ bot[a] = "none" /\ bot' = [bot EXCEPT ![a] = "made"] /\ Steps(c, "written", "made")
           \/ bot[a] = "made" /\ bot' = [bot EXCEPT ![a] = "token"] /\ Steps(c, "made", "token")
           \/ bot[a] = "token" /\ bot' = [bot EXCEPT ![a] = "member"] /\ Steps(c, "token", "member")
        /\ UNCHANGED <<profile, env, hostFile, compose, engine, host, sync, minted, faults, starts>>

(* The tool takes back the profile it wrote; the command leaves it.         *)
Undo(c) == IF ByOf[c] = "tool" THEN profile \ {NameOf[c]} ELSE profile

(* A call fails, or the name is taken by an account that is there already.  *)
ServerFails(c) ==
    /\ create[c].pc \in {"written", "made", "token"}
    /\ IF create[c].pc = "written" /\ bot[NameOf[c]] # "none" THEN UNCHANGED faults
       ELSE faults < MaxFaults /\ faults' = faults + 1
    /\ create' = [create EXCEPT ![c].pc = "refused"]
    /\ profile' = Undo(c)
    /\ UNCHANGED <<bot, env, hostFile, compose, engine, host, sync, minted, starts>>

(* Anything but a refusal of the server (the call is cancelled, the         *)
(* connection fails as it is closed, .env cannot be written) undoes nothing. *)
Breaks(c) ==
    /\ create[c].pc \in {"written", "made", "token", "member", "setting"}
    /\ faults < MaxFaults /\ faults' = faults + 1
    /\ create' = [create EXCEPT ![c].pc = "broken"]
    /\ UNCHANGED <<profile, bot, env, hostFile, compose, engine, host, sync, minted, starts>>

(* .env is read, changed and replaced.                                      *)
ReadEnv(c) ==
    /\ Free
    /\ create[c].pc = "member"
    /\ create' = [create EXCEPT ![c].pc = "setting", ![c].base = env]
    /\ UNCHANGED <<profile, bot, env, hostFile, compose, engine, host, sync, minted, faults, starts>>

(* The token is in; a second line, of the agent's gateway, may fail.        *)
SetEnv(c) ==
    /\ \/ Steps(c, "setting", "done") /\ UNCHANGED faults
       \/ Steps(c, "setting", "broken") /\ faults < MaxFaults /\ faults' = faults + 1
    /\ env' = [create[c].base EXCEPT !.bots = @ \cup {NameOf[c]}]
    /\ UNCHANGED <<profile, bot, hostFile, compose, engine, host, sync, minted, starts>>

-----------------------------------------------------------------------------
(* A sync reads what every agent asks for and stops if one asks for what    *)
(* cannot be built; only then does it write.                                *)
BeginSync(s) ==
    /\ OperatorFree
    /\ sync[s].pc = "new"
    /\ sync' = [sync EXCEPT ![s] =
           IF profile \cap Bad # {} THEN [@ EXCEPT !.pc = "refused"]
           ELSE [@ EXCEPT !.pc = "tokens", !.todo = profile, !.to = profile]]
    /\ UNCHANGED <<profile, bot, env, hostFile, compose, engine, host, create, minted, faults, starts>>

(* The token of an agent: the one its container's file has, or a new one    *)
(* (a fresh one each time would leave a running container with one the      *)
(* engine has forgotten).                                                   *)
TokenOf(a) == IF hostFile[a] # NoToken THEN hostFile[a] ELSE minted + 1

WriteToken(s, a) ==
    /\ Free
    /\ sync[s].pc = "tokens" /\ a \in sync[s].todo
    /\ hostFile' = [hostFile EXCEPT ![a] = TokenOf(a)]
    /\ minted' = IF TokenOf(a) > minted THEN TokenOf(a) ELSE minted
    /\ sync' = [sync EXCEPT ![s].pc = "setting", ![s].todo = @ \ {a}, ![s].token = TokenOf(a),
                            ![s].base = [env EXCEPT !.tokens[a] = TokenOf(a)]]
    /\ UNCHANGED <<profile, bot, env, compose, engine, host, create, faults, starts>>

SetToken(s) ==
    /\ sync[s].pc = "setting"
    /\ env' = sync[s].base
    /\ sync' = [sync EXCEPT ![s].pc = "tokens"]
    /\ UNCHANGED <<profile, bot, hostFile, compose, engine, host, create, minted, faults, starts>>

(* The description of the deployment is written last.                       *)
NoneNeeded(s) == TRUE
AllWritten(s) == sync[s].todo = {}

WriteCompose(s) ==
    /\ sync[s].pc = "tokens" /\ AllWritten(s)
    /\ compose' = sync[s].to
    /\ sync' = [sync EXCEPT ![s].pc = IF sync[s].todo = {} THEN "done" ELSE "tokens"]
    /\ UNCHANGED <<profile, bot, env, hostFile, engine, host, create, minted, faults, starts>>

(* The command is interrupted.                                              *)
SyncStops(s) ==
    /\ sync[s].pc \in {"tokens", "setting"} /\ faults < MaxFaults
    /\ faults' = faults + 1
    /\ sync' = [sync EXCEPT ![s].pc = "broken"]
    /\ UNCHANGED <<profile, bot, env, hostFile, compose, engine, host, create, minted, starts>>

-----------------------------------------------------------------------------
(* The engine starts anew; what was being created in it is lost.            *)
StartEngine ==
    /\ starts < MaxStarts /\ starts' = starts + 1
    /\ engine' = env.tokens
    /\ create' = [c \in Creates |-> IF ByOf[c] = "tool" /\ Busy(create[c].pc)
                                    THEN [create[c] EXCEPT !.pc = "lost"] ELSE create[c]]
    /\ UNCHANGED <<profile, bot, env, hostFile, compose, host, sync, minted, faults>>

(* The containers described are brought up, each with its file.             *)
StartHosts ==
    /\ starts < MaxStarts /\ starts' = starts + 1
    /\ host' = [a \in Agents |-> IF a \in compose THEN hostFile[a] ELSE NoToken]
    /\ UNCHANGED <<profile, bot, env, hostFile, compose, engine, create, sync, minted, faults>>

ProvisionNext ==
    \/ \E c \in Creates : WriteProfile(c) \/ CallServer(c) \/ ServerFails(c) \/ Breaks(c) \/ ReadEnv(c) \/ SetEnv(c)
    \/ \E s \in Syncs : \/ BeginSync(s) \/ (\E a \in Agents : WriteToken(s, a)) \/ SetToken(s)
                        \/ WriteCompose(s) \/ SyncStops(s)
    \/ StartEngine \/ StartHosts

ProvisionSpec == ProvisionInit /\ [][ProvisionNext]_oVars

-----------------------------------------------------------------------------
(* Wherever a sync is interrupted, a container that is described has the    *)
(* same token in its file as the engine's .env has for it; and an engine    *)
(* and a container that were started at different times, with syncs in      *)
(* between, still know each other.                                          *)
TokensMeet ==
    /\ (\A s \in Syncs : sync[s].pc # "setting") =>
         \A a \in compose : hostFile[a] # NoToken /\ env.tokens[a] = hostFile[a]
    /\ \A a \in Agents : (engine[a] # NoToken /\ host[a] # NoToken) => engine[a] = host[a]

(* The calls whose profile is left: all that wrote one, but a tool call     *)
(* that was refused.                                                        *)
Leaves(c) == create[c].wrote /\ ~(ByOf[c] = "tool" /\ create[c].pc = "refused")

(* A tool call the chat server refused leaves no profile, whatever other    *)
(* calls for the same name did meanwhile, and takes back nobody else's; one *)
(* that succeeded, like a command that did, leaves an agent that can be     *)
(* started: a profile, a bot in its team and the bot's token.               *)
AllOfAnAgentOrNone ==
    /\ profile = First \cup {NameOf[c] : c \in {x \in Creates : Leaves(x)}}
    /\ \A c \in Creates :
         create[c].pc = "done" => NameOf[c] \in profile \cap env.bots /\ bot[NameOf[c]] = "member"

(* Not kept by the code: no profile is left without a bot, once nobody is   *)
(* creating one.                                                            *)
NoProfileWithoutBot == (\A c \in Creates : ~Busy(create[c].pc)) => profile \subseteq env.bots

(* Not kept by the code: a tool call that failed, for whatever reason,      *)
(* leaves no profile.                                                       *)
FailedToolLeavesNone ==
    \A c \in Creates : (ByOf[c] = "tool" /\ create[c].pc = "broken") => NameOf[c] \notin profile

(* Not kept by the code: what failed can be tried again.                    *)
NameStaysFree ==
    \A c \in Creates : (create[c].pc = "refused" /\ NameOf[c] \notin profile) => bot[NameOf[c]] = "none"
=============================================================================
