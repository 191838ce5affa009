------------------------------- MODULE Scopes -------------------------------
(***************************************************************************)
(* What a runtime process of one agent may touch.  The application says it  *)
(* (process_scopes.py): scratch space, the files of the conversation or of  *)
(* the agent, the directories agents share.  The host adds what the runtime *)
(* needs (hosts/local.py, or runtime_relay in a container of its own) and   *)
(* the launcher turns it all into kernel rules.  The scratch space of a     *)
(* conversation outlives its process by a day; that of a memoryless run     *)
(* goes with it.  A path is the sequence of its names.                      *)
(***************************************************************************)
EXTENDS Naturals, Sequences, FiniteSets

CONSTANTS
    Launches,          \* the processes that are started
    ConvOf,         \* the conversation each is started under, or Memoryless
    HostOf,         \* "local", or "relay" for an agent in a container of its own
    FirstLevel,     \* the confinement level of the profile as the application starts
    Levels,         \* the levels an operator edits it to
    SharedDirs,     \* the directories the profile shares
    Abi,            \* what the kernel offers, 0 for nothing
    KeptDays,           \* the days a scratch space is kept
    MaxDays, MaxLevels, MaxRestarts,
    RunNamed,       \* the agent's name begins with "run-"
    Memoryless

(* A run's directory is made with a name nothing else has.                  *)
ASSUME ScopesAssumption ==
    /\ IsFiniteSet(Launches) /\ Abi \in Nat
    /\ Levels \cup {FirstLevel} \subseteq {"conversation", "agent", "off"}
    /\ \A p, q \in Launches : ConvOf[p] = Memoryless => ConvOf[q] # p

VARIABLES
    level,          \* the level of the profile in force
    dirs,           \* the scratch directories there are, with the days since each was touched
    inUse,          \* how many processes hold each
    stage,           \* where each process is
    scope,          \* what each was given
    days, changes, restarts

sVars == <<level, dirs, inUse, stage, scope, days, changes, restarts>>

NoScope == [level |-> "off", scratch |-> <<>>, readable |-> {}, writable |-> {}, mkdir |-> {}]

ScopesInit ==
    /\ level = FirstLevel
    /\ dirs = << >>
    /\ inUse = << >>
    /\ stage = [p \in Launches |-> "none"]
    /\ scope = [p \in Launches |-> NoScope]
    /\ days = 0 /\ changes = 0 /\ restarts = 0

-----------------------------------------------------------------------------
(* The scratch directory a process is given: the agent's own, its           *)
(* conversation's, or a new one.                                            *)
ScratchOf(p, lv) ==
    IF lv = "agent" THEN <<"scratch">>
    ELSE IF ConvOf[p] # Memoryless THEN <<"scratch", ConvOf[p]>> ELSE <<"scratch", p>>

(* A run's directory is known by its name, which begins with "run-".  That  *)
(* of a conversation is its session id, which begins with the agent's name. *)
IsRun(d) == \E p \in Launches : (ConvOf[p] = Memoryless \/ RunNamed) /\ d = ScratchOf(p, "conversation")

(* The files directory it may write; a memoryless run has none unless the   *)
(* agent level gives it the agent's.                                        *)
FilesDir(p, lv) ==
    IF lv = "agent" THEN {<<"files">>}
    ELSE IF ConvOf[p] = Memoryless THEN {} ELSE {<<"files", ConvOf[p]>>}

Memory(p) == IF ConvOf[p] = Memoryless THEN {} ELSE {<<"memory", ConvOf[p]>>}

(* What the application's scope says, before a host adds to it.             *)
Scope(p, lv) ==
    LET scratch == ScratchOf(p, lv)
    IN  [level |-> lv, scratch |-> scratch,
         readable |-> {<<"profile">>, <<"library">>},
         writable |-> {Append(scratch, "tmp"), Append(scratch, "home")} \cup FilesDir(p, lv)
                        \cup {<<"shared", name>> : name \in SharedDirs},
         mkdir |-> {}]

(* On this machine the runtime's own needs are added: the system, its       *)
(* memory, its account - to read, with room for a lock.                     *)
WithRuntime(p, s) ==
    [s EXCEPT !.readable = @ \cup {<<"system">>, <<"account">>},
              !.writable = @ \cup Memory(p), !.mkdir = {<<"account">>}]

IsUnder(path, root) == Len(root) <= Len(path) /\ \A i \in 1..Len(root) : path[i] = root[i]

(* In a container of its own a process is given what the engine can name    *)
(* there - its files and the shared directories - and scratch space of the  *)
(* container's, which goes with it.                                         *)
OnRelay(p, s) ==
    WithRuntime(p, [s EXCEPT !.writable =
        {w \in @ : IsUnder(w, <<"files">>) \/ IsUnder(w, <<"shared">>)}
          \cup {<<"relay", p, "tmp">>, <<"relay", p, "home">>}])

OnItsHost(p) == IF HostOf[p] = "relay" THEN OnRelay(p, scope[p]) ELSE WithRuntime(p, scope[p])

-----------------------------------------------------------------------------
(* The rights a rule of each kind carries.  What the kernel can restrict is *)
(* denied unless a rule grants it; what it cannot, it allows.               *)
Handled(abi) ==
    {"execute", "write_file", "read_file", "read_dir", "remove_dir", "remove_file", "make_dir", "make_reg"}
      \cup (IF abi >= 2 THEN {"refer"} ELSE {})
      \cup (IF abi >= 3 THEN {"truncate"} ELSE {})
      \cup (IF abi >= 5 THEN {"ioctl_dev"} ELSE {})

AllRights == Handled(5)

Granted(option, abi) ==
    CASE option = "readable" -> {"execute", "read_file", "read_dir"}
      [] option = "writable" -> Handled(abi)
      [] option = "mkdir_only" -> {"execute", "read_file", "read_dir", "make_dir", "remove_dir"}

(* What a process may do at a path: everything when nothing confines it.    *)
MayDo(p, path) ==
    LET s == OnItsHost(p)
        Rules(option, roots) == UNION {Granted(option, Abi) : r \in {x \in roots : IsUnder(path, x)}}
    IN  IF s.level = "off" \/ Abi = 0 THEN AllRights
        ELSE (AllRights \ Handled(Abi)) \cup Rules("readable", s.readable)
               \cup Rules("writable", s.writable) \cup Rules("mkdir_only", s.mkdir)

-----------------------------------------------------------------------------
CountOf(d) == IF d \in DOMAIN inUse THEN inUse[d] ELSE 0

With(f, d, v) == [x \in DOMAIN f \cup {d} |-> IF x = d THEN v ELSE f[x]]
Less(f, ds) == [x \in DOMAIN f \ ds |-> f[x]]

(* Held last: only now is the scratch directory counted.                    *)
Holds(p, s) ==
    /\ scope' = [scope EXCEPT ![p] = s]
    /\ inUse' = IF s.level \in {"off", "agent"} THEN inUse
                ELSE With(inUse, s.scratch, CountOf(s.scratch) + 1)
    /\ stage' = [stage EXCEPT ![p] = "opening"]

(* A process is to start: the level is asked, its scratch space is made     *)
(* where there is none - one that is there is not touched - and only a      *)
(* conversation's files have to be looked up.                               *)
Ask(p) ==
    /\ stage[p] = "none"
    /\ IF level = "off"
       THEN Holds(p, NoScope) /\ UNCHANGED dirs
       ELSE LET s == Scope(p, level)
            IN  /\ dirs' = IF level = "agent" \/ s.scratch \in DOMAIN dirs THEN dirs
                           ELSE With(dirs, s.scratch, 0)
                /\ IF level = "agent" \/ ConvOf[p] = Memoryless THEN Holds(p, s)
                   ELSE /\ scope' = [scope EXCEPT ![p] = s]
                        /\ stage' = [stage EXCEPT ![p] = "asking"]
                        /\ UNCHANGED inUse
    /\ UNCHANGED <<level, days, changes, restarts>>

Answered(p) ==
    /\ stage[p] = "asking"
    /\ Holds(p, scope[p])
    /\ UNCHANGED <<level, dirs, days, changes, restarts>>

(* The lookup of its files fails: the scope never reaches its caller.       *)
LookupFails(p) ==
    /\ stage[p] = "asking"
    /\ stage' = [stage EXCEPT ![p] = "failed"]
    /\ UNCHANGED <<level, dirs, inUse, scope, days, changes, restarts>>

ProcessOpens(p) ==
    /\ stage[p] = "opening"
    /\ stage' = [stage EXCEPT ![p] = "alive"]
    /\ UNCHANGED <<level, dirs, inUse, scope, days, changes, restarts>>

(* Without the count, the first of two to go lets go for both.              *)
ReleaseUncounted(p) ==
    LET d == scope[p].scratch
        left == Less(inUse, {d})
        kept == IF IsRun(d) \/ d \notin DOMAIN dirs THEN Less(dirs, {d}) ELSE With(dirs, d, 0)
    IN  IF scope[p].level \in {"off", "agent"} \/ CountOf(d) = 0 THEN UNCHANGED <<inUse, dirs>>
        ELSE /\ inUse' = left
             /\ dirs' = Less(kept, {x \in DOMAIN kept : x \notin DOMAIN left /\ kept[x] > KeptDays})

(* A process is gone: the last to hold its scratch space takes a memoryless *)
(* run's away and starts the day of a conversation's; then whatever nobody  *)
(* holds and is older goes.                                                 *)
Release(p) ==
    LET d == scope[p].scratch
        left == Less(inUse, {d})
        kept == IF IsRun(d) \/ d \notin DOMAIN dirs THEN Less(dirs, {d}) ELSE With(dirs, d, 0)
    IN  IF scope[p].level \in {"off", "agent"} \/ CountOf(d) = 0 THEN UNCHANGED <<inUse, dirs>>
        ELSE IF CountOf(d) > 1 THEN inUse' = With(inUse, d, CountOf(d) - 1) /\ UNCHANGED dirs
        ELSE /\ inUse' = left
             /\ dirs' = Less(kept, {x \in DOMAIN kept : x \notin DOMAIN left /\ kept[x] > KeptDays})

StartFails(p) ==
    /\ stage[p] = "opening"
    /\ Release(p)
    /\ stage' = [stage EXCEPT ![p] = "ended"]
    /\ UNCHANGED <<level, scope, days, changes, restarts>>

ProcessEnds(p) ==
    /\ stage[p] = "alive"
    /\ Release(p)
    /\ stage' = [stage EXCEPT ![p] = "ended"]
    /\ UNCHANGED <<level, scope, days, changes, restarts>>

-----------------------------------------------------------------------------
Day ==
    /\ days < MaxDays
    /\ days' = days + 1
    /\ dirs' = [d \in DOMAIN dirs |-> dirs[d] + 1]
    /\ UNCHANGED <<level, inUse, stage, scope, changes, restarts>>

(* The profile is edited and reloaded: the next process asks the new level. *)
EditLevel(lv) ==
    /\ changes < MaxLevels /\ lv # level
    /\ level' = lv /\ changes' = changes + 1
    /\ UNCHANGED <<dirs, inUse, stage, scope, days, restarts>>

(* The application stops mid-run: nobody says that a process ended.         *)
Restart ==
    /\ restarts < MaxRestarts
    /\ restarts' = restarts + 1
    /\ inUse' = << >>
    /\ stage' = [p \in Launches |-> IF stage[p] = "none" THEN "none"
                                ELSE IF stage[p] = "ended" THEN "ended" ELSE "lost"]
    /\ UNCHANGED <<level, dirs, scope, days, changes>>

ScopesNext ==
    \/ \E p \in Launches : Ask(p) \/ Answered(p) \/ LookupFails(p) \/ ProcessOpens(p) \/ StartFails(p) \/ ProcessEnds(p)
    \/ Day \/ (\E lv \in Levels : EditLevel(lv)) \/ Restart

ScopesSpec == ScopesInit /\ [][ScopesNext]_sVars

-----------------------------------------------------------------------------
Conversational(p) == stage[p] = "alive" /\ scope[p].level = "conversation"

(* A process at the conversation level changes nothing of another           *)
(* conversation, wherever it runs, whatever levels the profile had before   *)
(* and has since, and whoever else is alive: not its files, its memory or   *)
(* its scratch space.                                                       *)
OthersOutOfReach ==
    Abi > 0 =>
        \A p, q \in Launches :
            (Conversational(p) /\ ConvOf[p] # ConvOf[q] /\ ConvOf[q] # Memoryless) =>
                \A x \in {<<"files", ConvOf[q]>>, <<"memory", ConvOf[q]>>, <<"scratch", ConvOf[q], "tmp">>} :
                    MayDo(p, x) \cap {"write_file", "make_reg", "remove_file", "make_dir"} = {}

(* A confined process reads the runtime's credential and plants nothing     *)
(* where another would load it: it may make a directory beside it, never a  *)
(* file.                                                                    *)
CredentialIsReadOnly ==
    Abi > 0 =>
        \A p \in Launches : (stage[p] = "alive" /\ scope[p].level # "off") =>
            /\ "read_file" \in MayDo(p, <<"account", "auth.json">>)
            /\ MayDo(p, <<"account", "auth.json">>) \cap {"write_file", "make_reg", "remove_file"} = {}

(* Scratch space is never taken from a process that holds it, however many  *)
(* of its conversation's processes overlap and however old it is; only the  *)
(* last to end takes a memoryless run's away.                               *)
HeldScratchStays ==
    [][\A d \in DOMAIN dirs \ DOMAIN dirs' :
          ~\E p \in Launches : stage[p] \in {"opening", "alive"} /\ stage'[p] = stage[p]
                             /\ scope[p].scratch = d]_sVars

(* A process cannot reach another conversation's files nor write its        *)
(* credential, and its scratch directory is kept while it runs              *)
(* (process_scopes.py, pi/hosts).                                           *)
ProcessesAreConfined == [](OthersOutOfReach /\ CredentialIsReadOnly) /\ HeldScratchStays

(* Not kept by the code: the scratch space a process is given is there when *)
(* it starts.  It is made before its conversation's files are looked up and *)
(* held after; in between a day-old one is nobody's, and the next process   *)
(* of the agent to end takes it away.                                       *)
ScratchIsThere ==
    \A p \in Launches : (stage[p] = "alive" /\ scope[p].level = "conversation")
        => scope[p].scratch \in DOMAIN dirs

(* "At `conversation` a conversation's scratch space is cleared a day after *)
(* its last process ended" (docs/configuration.md), not sooner.             *)
ClearedADayLater ==
    [][\A p \in Launches : LET d == <<"scratch", ConvOf[p]>>
                          IN  d \in DOMAIN dirs \ DOMAIN dirs' => dirs[d] > KeptDays]_sVars
=============================================================================
