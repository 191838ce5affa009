------------------------------- MODULE Skills -------------------------------
(***************************************************************************)
(* The shared library of skills (crucible.skills) and the profiles that     *)
(* name its skills, as the support agent's tools (skill_tools.py), the      *)
(* /skills screen (skill_screen.py) and the `impi skill` commands (cli.py)  *)
(* change them.  The tools and the screen run in the engine, whose loop     *)
(* gives one of them the floor between two awaits; a command is a process   *)
(* of its own and waits for nobody.  A skill's content is the commit it was *)
(* taken from.                                                              *)
(***************************************************************************)
EXTENDS Naturals

CONSTANTS
    Skill, Agents,
    Ops,            \* what people do: see the next five
    KindOf,         \* "install" | "update" | "remove" | "assign" | "unassign"
    ActorOf,        \* "chat" | "screen" | "cli"
    SkillOf, AgentOf,
    Force,          \* the installs and removals that insist
    Installed,      \* the skills installed at first, all at commit 1
    CopyFails,      \* copying into the library may fail
    MaxCommits

VARIABLES
    lib,            \* the commit each skill holds, 0 for no skill
    stamp,          \* the commit its provenance names
    refs,           \* the library skills each profile names, on disk
    want,           \* the same as everybody who was told "done" understands it
    loaded,         \* what the engine last took over
    upstream,       \* the commit the source is at
    op

kVars == <<lib, stamp, refs, want, loaded, upstream, op>>

NewOp == [pc |-> "new", shown |-> 0, staged |-> 0, base |-> {}]

SkillsInit ==
    /\ lib = [s \in Skill |-> IF s \in Installed THEN 1 ELSE 0]
    /\ stamp = lib
    /\ refs = [a \in Agents |-> {}] /\ want = refs /\ loaded = refs
    /\ upstream = 1
    /\ op = [o \in Ops |-> NewOp]

-----------------------------------------------------------------------------
Present(s) == lib[s] > 0

(* The agents whose profile still names the skill.                          *)
UsersOf(s) == {a \in Agents : s \in refs[a]}

InEngine(o) == ActorOf[o] # "cli"

(* Between two awaits the engine runs one operation.                        *)
Sync == {"checked", "loaded", "cleared", "copied"}
HasTheFloor(o) == InEngine(o) => \A x \in Ops \ {o} : ~(InEngine(x) /\ op[x].pc \in Sync)

At(o, kinds, pc) == KindOf[o] \in kinds /\ op[o].pc = pc /\ HasTheFloor(o)
Goes(o, pc) == op' = [op EXCEPT ![o].pc = pc]

(* A reload takes every profile or none: one that names a skill the library *)
(* does not have is refused.                                                *)
Reloaded(rs) == IF \A a \in Agents : \A s \in rs[a] : Present(s) THEN rs ELSE loaded

-----------------------------------------------------------------------------
Installs == {"install", "update"}

(* The source is fetched into a directory of its own and read there.        *)
Staged == upstream

(* An install is shown first: the source is staged and its files listed.  A *)
(* command keeps what it staged; a card keeps only what it says.            *)
Show(o) ==
    /\ At(o, {"install"}, "new")
    /\ op' = [op EXCEPT ![o].pc = "shown", ![o].shown = Staged, ![o].staged = Staged]
    /\ UNCHANGED <<lib, stamp, refs, want, loaded, upstream>>

(* An update goes back to where the skill came from, and stops when that is *)
(* still at the commit it was taken from.                                   *)
ShowUpdate(o) ==
    /\ At(o, {"update"}, "new")
    /\ op' = [op EXCEPT ![o].pc = IF ~Present(SkillOf[o]) \/ Staged = stamp[SkillOf[o]] THEN "refused" ELSE "shown",
                        ![o].shown = Staged, ![o].staged = Staged]
    /\ UNCHANGED <<lib, stamp, refs, want, loaded, upstream>>

(* A source that cannot be fetched, or holds no skill, is refused.          *)
FetchFails(o) ==
    /\ At(o, Installs, "new")
    /\ Goes(o, "refused")
    /\ UNCHANGED <<lib, stamp, refs, want, loaded, upstream>>

(* A person agrees; the tool stages the source again.                       *)
Confirm(o) ==
    /\ At(o, Installs, "shown")
    /\ op' = [op EXCEPT ![o].pc = "confirmed",
                        ![o].staged = IF ActorOf[o] = "cli" THEN @ ELSE Staged]
    /\ UNCHANGED <<lib, stamp, refs, want, loaded, upstream>>

(* What is there is refused, or deleted with force.                         *)
Clear(o) ==
    /\ At(o, Installs, "confirmed")
    /\ IF Present(SkillOf[o]) /\ o \notin Force /\ KindOf[o] = "install"
       THEN Goes(o, "refused") /\ UNCHANGED lib
       ELSE Goes(o, "cleared") /\ lib' = [lib EXCEPT ![SkillOf[o]] = 0]
    /\ UNCHANGED <<stamp, refs, want, loaded, upstream>>

Copy(o) ==
    /\ At(o, Installs, "cleared")
    /\ IF Present(SkillOf[o])
       THEN Goes(o, "failed") /\ UNCHANGED lib
       ELSE Goes(o, "copied") /\ lib' = [lib EXCEPT ![SkillOf[o]] = op[o].staged]
    /\ UNCHANGED <<stamp, refs, want, loaded, upstream>>

CopyBreaks(o) ==
    /\ CopyFails
    /\ At(o, Installs, "cleared")
    /\ Goes(o, "failed")
    /\ UNCHANGED <<lib, stamp, refs, want, loaded, upstream>>

(* Where it came from is written beside it.                                 *)
Stamp(o) ==
    /\ At(o, Installs, "copied")
    /\ stamp' = [stamp EXCEPT ![SkillOf[o]] = op[o].staged]
    /\ Goes(o, "done")
    /\ UNCHANGED <<lib, refs, want, loaded, upstream>>

-----------------------------------------------------------------------------
(* A skill in use is not removed.  The tool was confirmed before it looks;  *)
(* a command looks, then asks.                                              *)
InUse(o) == UsersOf(SkillOf[o]) # {} /\ ~(ActorOf[o] = "cli" /\ o \in Force)

LookForUsers(o) ==
    /\ At(o, {"remove"}, "new")
    /\ Goes(o, IF ~Present(SkillOf[o]) \/ InUse(o) THEN "refused" ELSE "checked")
    /\ UNCHANGED <<lib, stamp, refs, want, loaded, upstream>>

Delete(o) ==
    /\ At(o, {"remove"}, "checked")
    /\ lib' = [lib EXCEPT ![SkillOf[o]] = 0]
    /\ Goes(o, "done")
    /\ UNCHANGED <<stamp, refs, want, loaded, upstream>>

-----------------------------------------------------------------------------
(* The tool and the command look whether there is such a skill.             *)
Known(o) == Present(SkillOf[o]) \/ KindOf[o] = "unassign"

LookForSkill(o) ==
    /\ ActorOf[o] # "screen" /\ At(o, {"assign", "unassign"}, "new")
    /\ Goes(o, IF Known(o) THEN "checked" ELSE "refused")
    /\ UNCHANGED <<lib, stamp, refs, want, loaded, upstream>>

(* The screen draws a control for each skill there is and each agent that   *)
(* lacks it, or has it; a click names what its control was drawn for.       *)
Draw(o) ==
    /\ ActorOf[o] = "screen" /\ At(o, {"assign", "unassign"}, "new")
    /\ Present(SkillOf[o]) /\ (KindOf[o] = "assign" <=> AgentOf[o] \notin UsersOf(SkillOf[o]))
    /\ Goes(o, "drawn")
    /\ UNCHANGED <<lib, stamp, refs, want, loaded, upstream>>

Click(o) ==
    /\ At(o, {"assign", "unassign"}, "drawn")
    /\ Goes(o, "checked")
    /\ UNCHANGED <<lib, stamp, refs, want, loaded, upstream>>

(* The profile is read, changed and written back as one file.               *)
LoadProfile(o) ==
    /\ At(o, {"assign", "unassign"}, "checked")
    /\ op' = [op EXCEPT ![o].pc = "loaded", ![o].base = refs[AgentOf[o]]]
    /\ UNCHANGED <<lib, stamp, refs, want, loaded, upstream>>

EditedAlone(o, names) == IF KindOf[o] = "assign" THEN {SkillOf[o]} ELSE {}
Edited(o, names) == IF KindOf[o] = "assign" THEN names \cup {SkillOf[o]} ELSE names \ {SkillOf[o]}

(* The engine reloads at once, if anything changed; a command says how to.  *)
Dump(o) ==
    LET a == AgentOf[o]
        edited == [refs EXCEPT ![a] = Edited(o, op[o].base)]
    IN  /\ At(o, {"assign", "unassign"}, "loaded")
        /\ refs' = IF Edited(o, op[o].base) = op[o].base THEN refs ELSE edited
        /\ want' = [want EXCEPT ![a] = (@ \ {SkillOf[o]}) \cup (IF KindOf[o] = "assign" THEN {SkillOf[o]} ELSE {})]
        /\ loaded' = IF InEngine(o) THEN Reloaded(refs') ELSE loaded
        /\ Goes(o, "done")
        /\ UNCHANGED <<lib, stamp, upstream>>

-----------------------------------------------------------------------------
(* An operator reloads; somebody pushes to the source.                      *)
Reload ==
    /\ \A o \in Ops : ~(InEngine(o) /\ op[o].pc \in Sync)
    /\ loaded' = Reloaded(refs)
    /\ UNCHANGED <<lib, stamp, refs, want, upstream, op>>

Push ==
    /\ upstream < MaxCommits
    /\ upstream' = upstream + 1
    /\ UNCHANGED <<lib, stamp, refs, want, loaded, op>>

SkillsNext ==
    \/ \E o \in Ops : \/ Show(o) \/ ShowUpdate(o) \/ FetchFails(o) \/ Confirm(o) \/ Clear(o) \/ Copy(o) \/ CopyBreaks(o) \/ Stamp(o)
                      \/ LookForUsers(o) \/ Delete(o)
                      \/ LookForSkill(o) \/ Draw(o) \/ Click(o) \/ LoadProfile(o) \/ Dump(o)
    \/ Reload \/ Push

SkillsSpec == SkillsInit /\ [][SkillsNext]_kVars

-----------------------------------------------------------------------------
AtRest == \A o \in Ops : op[o].pc \notin Sync

(* While the support agent's tools change them, no profile is left          *)
(* naming a skill that is gone - which would have every reload refused and  *)
(* the next start fail - however installs, removals and assignments come    *)
(* together.                                                                *)
NoDangling == AtRest => \A a \in Agents : \A s \in refs[a] : Present(s)

(* Two people who give an agent skills both find them in its profile.       *)
EditsKeepEachOther == AtRest => refs = want

(* A skill's provenance names the commit its files are of.                  *)
ProvenanceIsTrue == AtRest => \A s \in Skill : Present(s) => stamp[s] = lib[s]

(* Not kept by the code: what lands is what the person was shown.           *)
ShownIsWhatLands ==
    \A o \in Ops : (KindOf[o] \in Installs /\ op[o].pc = "done") => op[o].staged = op[o].shown

(* Not kept by the code: the profile an agent runs with names only skills   *)
(* that are there.                                                          *)
NoBrokenPath == AtRest => \A a \in Agents : \A s \in loaded[a] : Present(s)
=============================================================================
