------------------------------- MODULE CatchUp -------------------------------
(***************************************************************************)
(* What a turn is told of the conversation it was not there for             *)
(* (crucible/flows/agent_flow.py _turn, _render_prompt, _since): in a       *)
(* channel the agent runs only when it is addressed, and its memory of the  *)
(* conversation is one process's.  The first turn is shown the platform's   *)
(* transcript, a later one what was posted since the session's last_active, *)
(* or, when this process's memory is older than that, since the memory.     *)
(*                                                                          *)
(* Every event has its own instant, which names the message it posts; the   *)
(* store's times are whole seconds of two instants each, the platform's and *)
(* the memory file's are exact.  One turn of the conversation at a time.    *)
(***************************************************************************)
EXTENDS Naturals, FiniteSets, TLAPS

CONSTANTS
    Processes,      \* replicas, each with its own memory of the conversation
    Fetch,          \* posts the platform is asked for (20 of a channel)
    Budget,         \* messages a transcript holds (6000 characters)
    MaxNow          \* a bound: the clock

ASSUME ClockAssumption == MaxNow \in Nat \ {0}

VARIABLES
    now,
    posts, own,     \* the platform's messages, the agent's own among them
    session,        \* the session row: whether it exists, its last_active
    memory,         \* per process: the messages its runtime remembers, and the file's time
    turn,           \* the conversation's turn: where it stands, in which process, its cursors
    within,         \* history: messages posted while a turn was under way
    cut,            \* history: messages the platform did not give, or that did not fit
    again           \* history: own messages shown to a memory that has them

upVars == <<now, posts, own, session, memory, turn, within, cut, again>>

Never == 0
NoTurn == [pc |-> "none", p |-> "", batch |-> Never, first |-> FALSE, since |-> Never, memoryAt |-> Never,
           prompt |-> {}, meanwhile |-> {}]
NoMemory == [has |-> {}, at |-> Never]

UpInit ==
    /\ now = 1 /\ posts = {} /\ own = {}
    /\ session = [exists |-> FALSE, lastActive |-> Never]
    /\ memory = [p \in Processes |-> NoMemory]
    /\ turn = NoTurn /\ within = {} /\ cut = {} /\ again = {}

Clock == now < MaxNow /\ now' = now + 1

(* clock.now_iso: whole seconds. *)
Iso(t) == 2 * (t \div 2)

(* Somebody writes in the channel without addressing the agent. *)
PersonPosts ==
    /\ Clock
    /\ posts' = posts \cup {now}
    /\ turn' = [turn EXCEPT !.meanwhile = IF turn.pc \in {"starting", "running"} THEN @ \cup {now} ELSE @]
    /\ UNCHANGED <<own, session, memory, within, cut, again>>

(* Mutant: a memory that is behind the conversation is taken for all of it. *)
CursorsOfRow(p) == [since |-> session.lastActive, memoryAt |-> Never]

(* A later turn's cursors: last_active, or a memory older than that. *)
Cursors(p) ==
    IF memory[p].at < session.lastActive THEN [since |-> memory[p].at, memoryAt |-> memory[p].at]
    ELSE [since |-> session.lastActive, memoryAt |-> Never]

(* get_or_create, then _turn up to the prompt: the batch is one message to  *)
(* the agent, posted now.                                                   *)
TurnBegins(p) ==
    /\ turn.pc = "none" /\ Clock
    /\ posts' = posts \cup {now}
    /\ session' = IF session.exists THEN session ELSE [exists |-> TRUE, lastActive |-> Iso(now)]
    /\ LET first == ~session.exists \/ memory[p].at = Never
           c == IF first THEN [since |-> Never, memoryAt |-> Never] ELSE Cursors(p) IN
       turn' = [NoTurn EXCEPT !.pc = "rendering", !.p = p, !.batch = now, !.first = first,
                              !.since = c.since, !.memoryAt = c.memoryAt]
    /\ UNCHANGED <<own, memory, within, cut, again>>

(* _since: later than the cursor, and not the agent's own unless it is      *)
(* later than the memory.                                                   *)
Since == {s \in posts : s > turn.since /\ (s \notin own \/ (turn.memoryAt # Never /\ s > turn.memoryAt))}

(* The latest of them, as many as there is room for. *)
Latest(S, room) == {s \in S : Cardinality({u \in S : u > s}) < room}

(* _render_prompt: the platform is asked for its latest posts, and of those *)
(* the ones that are news and not of the batch are quoted, the latest that  *)
(* fit.  A platform that does not answer gave none.                         *)
RenderPrompt ==
    /\ turn.pc = "rendering"
    /\ \E got \in {Latest(posts, Fetch), {}} :
         LET news == (IF turn.first THEN posts ELSE Since) \ {turn.batch}
             quoted == Latest(news \cap got, Budget)
         IN  /\ turn' = [turn EXCEPT !.pc = "starting", !.prompt = quoted \cup {turn.batch}]
             /\ cut' = cut \cup (news \ quoted)
    /\ again' = again \cup (turn'.prompt \cap own \cap memory[turn.p].has)
    /\ UNCHANGED <<now, posts, own, session, memory, within>>

(* AgentBusy: nothing ran. *)
TurnIsBusy ==
    /\ turn.pc = "starting"
    /\ turn' = NoTurn
    /\ UNCHANGED <<now, posts, own, session, memory, within, cut, again>>

(* The runtime writes what it is told into its memory. *)
TurnRuns ==
    /\ turn.pc = "starting" /\ Clock
    /\ memory' = [memory EXCEPT ![turn.p] = [has |-> @.has \cup turn.prompt, at |-> now]]
    /\ turn' = [turn EXCEPT !.pc = "running"]
    /\ UNCHANGED <<posts, own, session, within, cut, again>>

(* The run ends: the answer is in the memory.                               *)
RunEnds ==
    /\ turn.pc = "running" /\ Clock
    /\ memory' = [memory EXCEPT ![turn.p].at = now]
    /\ turn' = [turn EXCEPT !.pc = "ended"]
    /\ within' = within \cup turn.meanwhile
    /\ UNCHANGED <<posts, own, session, cut, again>>

(* A time-out or an error: the session is not touched and nothing is said.  *)
RunFails ==
    /\ turn.pc = "running" /\ Clock
    /\ memory' = [memory EXCEPT ![turn.p].at = now]
    /\ turn' = NoTurn
    /\ within' = within \cup turn.meanwhile
    /\ UNCHANGED <<posts, own, session, cut, again>>

(* touch *)
Touch ==
    /\ turn.pc = "ended" /\ Clock
    /\ session' = [session EXCEPT !.lastActive = Iso(now)]
    /\ turn' = [turn EXCEPT !.pc = "replying"]
    /\ UNCHANGED <<posts, own, memory, within, cut, again>>

(* post_reply, or an end without one. *)
TurnReplies ==
    /\ turn.pc = "replying" /\ Clock
    /\ posts' = posts \cup {now} /\ own' = own \cup {now}
    /\ memory' = [memory EXCEPT ![turn.p].has = @ \cup {now}]
    /\ turn' = NoTurn
    /\ UNCHANGED <<session, within, cut, again>>

(* The memory goes with its disk, or is reset.                              *)
Forget(p) ==
    /\ turn.pc = "none" /\ memory[p].at # Never
    /\ memory' = [memory EXCEPT ![p] = NoMemory]
    /\ UNCHANGED <<now, posts, own, session, turn, within, cut, again>>

UpNext ==
    \/ PersonPosts \/ RenderPrompt \/ TurnIsBusy \/ TurnRuns \/ RunEnds \/ RunFails \/ Touch \/ TurnReplies
    \/ \E p \in Processes : TurnBegins(p) \/ Forget(p)

UpSpec == UpInit /\ [][UpNext]_upVars

-----------------------------------------------------------------------------
UpTypeOK ==
    /\ own \subseteq posts /\ within \subseteq posts /\ posts \subseteq 1..MaxNow
    /\ turn.pc \in {"none", "rendering", "starting", "running", "ended", "replying"}

Known == memory[turn.p].has \cup turn.meanwhile

(* A turn knows all that people said before it: whatever process runs it,   *)
(* wherever the turns before it ran and however they ended, a message is in *)
(* its memory or its prompt, unless it was posted while a turn was under    *)
(* way, or the platform did not give it or it did not fit a transcript.     *)
PeopleAreHeard == turn.pc = "running" => posts \ own \subseteq Known \cup within \cup cut

(* It knows all the agent said, in this process or another ("replies made   *)
(* there are replayed too").                                                *)
OwnWordsAreKnown == turn.pc = "running" => own \subseteq Known \cup cut

(* A memory that was away is told what it missed: the words of people no    *)
(* turn of it had, and the agent's own (agent_flow.py _since).              *)
CaughtUp == UpTypeOK /\ PeopleAreHeard /\ OwnWordsAreKnown

-----------------------------------------------------------------------------
(* What the code does not keep *)

(* last_active is "exactly the cursor for what was said while we weren't    *)
(* addressed": without the exception for what was said during a turn.       *)
NothingIsMissed == turn.pc = "running" => posts \ own \subseteq Known \cup cut

(* "The agent's own posts are left out of that catch-up (they are already   *)
(* in its runtime session)".                                                *)
OwnWordsOnce == again = {}

-----------------------------------------------------------------------------
(* For any processes, budget and bound: a turn that runs knows what was     *)
(* said.  The invariant says what a memory knows at each point of a turn.   *)

TurnType == [pc : {"none", "rendering", "starting", "running", "ended", "replying"}, p : Processes \cup {""},
             batch : Nat, first : BOOLEAN, since : Nat, memoryAt : Nat, prompt : SUBSET Nat, meanwhile : SUBSET Nat]
MemoryType == [has : SUBSET Nat, at : Nat]

UpTypes ==
    /\ now \in 1..MaxNow
    /\ posts \in SUBSET (1..MaxNow) /\ own \in SUBSET posts /\ within \in SUBSET posts /\ cut \in SUBSET Nat
    /\ session \in [exists : BOOLEAN, lastActive : Nat]
    /\ memory \in [Processes -> MemoryType]
    /\ turn \in TurnType

(* Everything there is came before now; a memory that is not the turn's is  *)
(* older than the turn.                                                     *)
Times ==
    /\ \A s \in posts : s < now
    /\ \A s \in turn.meanwhile : s \in posts
    /\ \A p \in Processes : memory[p].at < now
    /\ ~session.exists => session.lastActive = Never
    /\ turn.pc # "none" => turn.p \in Processes /\ turn.batch < now /\ session.exists
    /\ \A p \in Processes : turn.pc # "none" /\ p # turn.p => memory[p].at < turn.batch

(* What people said up to a memory's time, it knows, or the one exception   *)
(* or the other holds.                                                      *)
HeardSoFar ==
    \A p \in Processes, s \in posts \ own :
        memory[p].at # Never /\ s <= memory[p].at =>
            s \in memory[p].has \cup within \cup cut \/ (turn.pc = "running" /\ turn.p = p /\ s \in turn.meanwhile)

(* What the agent said, a memory knows, unless it is behind and can tell by *)
(* the session's time that it is.                                           *)
OwnSoFar ==
    \A p \in Processes, s \in own :
        memory[p].at # Never =>
            s \in memory[p].has \cup cut \/ (s > memory[p].at /\ memory[p].at < session.lastActive)

(* The cursors a turn renders its prompt by. *)
Rendering ==
    (turn.pc = "rendering" /\ ~turn.first) =>
        /\ memory[turn.p].at # Never /\ turn.since <= memory[turn.p].at
        /\ \/ turn.memoryAt = memory[turn.p].at /\ turn.since = memory[turn.p].at
           \/ turn.memoryAt = Never /\ session.lastActive <= memory[turn.p].at

(* With its prompt the turn knows everything. *)
Starting ==
    turn.pc = "starting" =>
        /\ \A s \in posts \ own : s \in memory[turn.p].has \cup turn.prompt \cup turn.meanwhile \cup within \cup cut
        /\ \A s \in own : s \in memory[turn.p].has \cup turn.prompt \cup cut

Running ==
    turn.pc = "running" => \A s \in posts \ own : s \in memory[turn.p].has \cup turn.meanwhile \cup within \cup cut

Ran == turn.pc \in {"running", "ended", "replying"} => \A s \in own : s \in memory[turn.p].has \cup cut

(* Once touched, the session's time is after every other memory's. *)
Touched == \A p \in Processes : turn.pc = "replying" /\ p # turn.p => memory[p].at < session.lastActive

UpInv == UpTypes /\ Times /\ HeardSoFar /\ OwnSoFar /\ Rendering /\ Starting /\ Running /\ Ran /\ Touched

LEMMA NoTurnIsTyped == NoTurn \in TurnType /\ NoTurn.pc = "none" /\ NoTurn.meanwhile = {} /\ NoTurn.batch = 0
  BY DEF NoTurn, TurnType, Never

LEMMA UpStarts ==
    ASSUME UpInit
    PROVE  UpInv
  <1>1. NoMemory \in MemoryType /\ NoMemory.at = 0
    BY DEF NoMemory, MemoryType, Never
  <1>2. UpTypes
    BY <1>1, NoTurnIsTyped, ClockAssumption DEF UpInit, UpTypes, Never
  <1> QED
    BY <1>1, <1>2, NoTurnIsTyped
       DEF UpInit, UpInv, Times, HeardSoFar, OwnSoFar, Rendering, Starting, Running, Ran, Touched, Never

LEMMA Iso2 ==
    ASSUME NEW t \in Nat, NEW a \in Nat, a + 1 < t
    PROVE  Iso(t) \in Nat /\ a < Iso(t)
  <1>1. t \div 2 \in Nat /\ t = 2 * (t \div 2) + (t % 2) /\ t % 2 \in 0..1
    OBVIOUS
  <1> QED
    BY <1>1 DEF Iso

LEMMA IsoIsTyped ==
    ASSUME NEW t \in Nat
    PROVE  Iso(t) \in Nat
  BY DEF Iso

(* One memory changes. *)
Remembers(p, has, at) ==
    /\ memory' \in [Processes -> MemoryType] /\ memory'[p].has = has /\ memory'[p].at = at
    /\ \A q \in Processes : q # p => memory'[q] = memory[q]

LEMMA MemoryMoves ==
    ASSUME UpTypes, NEW p \in Processes, NEW y \in MemoryType, memory' = [memory EXCEPT ![p] = y]
    PROVE  Remembers(p, y.has, y.at)
  BY DEF UpTypes, Remembers

LEMMA MemoryAges ==
    ASSUME UpTypes, NEW p \in Processes, memory' = [memory EXCEPT ![p].at = now]
    PROVE  Remembers(p, memory[p].has, now)
  <1>1. PICK z \in MemoryType : z = memory[p]
    BY DEF UpTypes
  <1> DEFINE y == [z EXCEPT !.at = now]
  <1>2. y \in MemoryType /\ y.has = z.has /\ y.at = now
    BY DEF MemoryType, UpTypes
  <1>3. memory' = [memory EXCEPT ![p] = y]
    BY <1>1
  <1> HIDE DEF y
  <1>4. Remembers(p, y.has, y.at)
    BY <1>2, <1>3, MemoryMoves
  <1> QED
    BY <1>1, <1>2, <1>4

LEMMA MemoryGrows ==
    ASSUME UpTypes, NEW p \in Processes, memory' = [memory EXCEPT ![p].has = @ \cup {now}]
    PROVE  Remembers(p, memory[p].has \cup {now}, memory[p].at)
  <1>1. PICK z \in MemoryType : z = memory[p]
    BY DEF UpTypes
  <1> DEFINE y == [z EXCEPT !.has = z.has \cup {now}]
  <1>2. y \in MemoryType /\ y.has = z.has \cup {now} /\ y.at = z.at
    BY DEF MemoryType, UpTypes
  <1>3. memory' = [memory EXCEPT ![p] = y]
    BY <1>1
  <1> HIDE DEF y
  <1>4. Remembers(p, y.has, y.at)
    BY <1>2, <1>3, MemoryMoves
  <1> QED
    BY <1>1, <1>2, <1>4

LEMMA ClockGoes ==
    ASSUME UpTypes, Clock
    PROVE  now \in Nat /\ now' = now + 1 /\ now' \in 1..MaxNow /\ now \in 1..MaxNow
  BY ClockAssumption DEF UpTypes, Clock

LEMMA PersonPostsKeeps ==
    ASSUME UpInv, PersonPosts
    PROVE  UpInv'
  <1> USE DEF UpInv
  <1>1. now \in Nat /\ now' = now + 1 /\ now' \in 1..MaxNow /\ now \in 1..MaxNow
    BY ClockGoes DEF PersonPosts
  <1>2. posts' = posts \cup {now} /\ UNCHANGED <<own, session, memory, within, cut>>
    BY DEF PersonPosts
  <1>3. PICK z \in TurnType : z = turn
    BY DEF UpTypes
  <1> DEFINE m == IF z.pc \in {"starting", "running"} THEN z.meanwhile \cup {now} ELSE z.meanwhile
             y == [z EXCEPT !.meanwhile = m]
  <1>4. turn' = y
    BY <1>3 DEF PersonPosts
  <1>5. m \in SUBSET Nat /\ z.meanwhile \subseteq m /\ m \subseteq z.meanwhile \cup {now}
        /\ (z.pc \in {"starting", "running"} => now \in m)
    BY <1>1, <1>3 DEF TurnType
  <1> HIDE DEF m
  <1>6. y \in TurnType /\ y.pc = z.pc /\ y.p = z.p /\ y.batch = z.batch /\ y.first = z.first /\ y.since = z.since
        /\ y.memoryAt = z.memoryAt /\ y.prompt = z.prompt /\ y.meanwhile = m
    BY <1>5 DEF TurnType
  <1> HIDE DEF y
  <1>7. now \notin own /\ \A p \in Processes : memory[p].at \in Nat
    BY <1>1 DEF UpTypes, Times, MemoryType
  <1>8. UpTypes'
    BY <1>1, <1>2, <1>4, <1>6 DEF UpTypes
  <1>9. Times'
    <2>1. \A s \in posts' : s < now'
      BY <1>1, <1>2 DEF Times, UpTypes
    <2>2. \A s \in turn'.meanwhile : s \in posts'
      BY <1>2, <1>3, <1>4, <1>5, <1>6 DEF Times
    <2>3. \A p \in Processes : memory'[p].at < now'
      BY <1>1, <1>2, <1>7 DEF Times
    <2>4. turn.batch \in Nat
      BY DEF UpTypes, TurnType
    <2>5. turn'.pc # "none" => turn'.p \in Processes /\ turn'.batch < now' /\ session'.exists
      BY <1>1, <1>2, <1>3, <1>4, <1>6, <2>4 DEF Times
    <2> QED
      BY <1>2, <1>3, <1>4, <1>6, <2>1, <2>2, <2>3, <2>5 DEF Times
  <1>10. HeardSoFar'
    BY <1>1, <1>2, <1>3, <1>4, <1>5, <1>6, <1>7 DEF HeardSoFar, Times, UpTypes
  <1>11. OwnSoFar' /\ Rendering' /\ Ran' /\ Touched'
    BY <1>2, <1>3, <1>4, <1>6 DEF OwnSoFar, Rendering, Ran, Touched
  <1>12. Starting' /\ Running'
    BY <1>2, <1>3, <1>4, <1>5, <1>6 DEF Starting, Running
  <1> QED
    BY <1>8, <1>9, <1>10, <1>11, <1>12

(* What of the turn a step that moves it on leaves alone. *)
TurnMoves(pc, prompt) ==
    /\ turn' \in TurnType /\ turn'.pc = pc /\ turn'.prompt = prompt
    /\ turn'.p = turn.p /\ turn'.batch = turn.batch /\ turn'.meanwhile = turn.meanwhile

LEMMA TurnMovesOn ==
    ASSUME UpTypes, NEW pc \in {"none", "rendering", "starting", "running", "ended", "replying"},
           turn' = [turn EXCEPT !.pc = pc]
    PROVE  TurnMoves(pc, turn.prompt)
  BY DEF UpTypes, TurnType, TurnMoves

LEMMA TurnIsPrompted ==
    ASSUME UpTypes, NEW prompt \in SUBSET Nat, turn' = [turn EXCEPT !.pc = "starting", !.prompt = prompt]
    PROVE  TurnMoves("starting", prompt)
  <1>1. PICK z \in TurnType : z = turn
    BY DEF UpTypes
  <1> DEFINE y == [z EXCEPT !.pc = "starting", !.prompt = prompt]
  <1>2. turn' = y
    BY <1>1
  <1>3. y \in TurnType /\ y.pc = "starting" /\ y.prompt = prompt /\ y.p = z.p /\ y.batch = z.batch
        /\ y.meanwhile = z.meanwhile
    BY DEF TurnType
  <1> HIDE DEF y
  <1> QED
    BY <1>1, <1>2, <1>3 DEF TurnMoves

LEMMA NumbersAre ==
    ASSUME UpTypes
    PROVE  /\ \A p \in Processes : memory[p].at \in Nat /\ memory[p].has \subseteq Nat
           /\ turn.batch \in Nat /\ turn.since \in Nat /\ turn.memoryAt \in Nat /\ session.lastActive \in Nat
           /\ now \in Nat /\ \A s \in posts : s \in Nat
  <1>1. \A p \in Processes : memory[p].at \in Nat /\ memory[p].has \subseteq Nat
    BY DEF UpTypes, MemoryType
  <1>2. turn.batch \in Nat /\ turn.since \in Nat /\ turn.memoryAt \in Nat /\ session.lastActive \in Nat
    BY DEF UpTypes, TurnType
  <1>3. now \in Nat /\ \A s \in posts : s \in Nat
    BY ClockAssumption DEF UpTypes
  <1> QED
    BY <1>1, <1>2, <1>3

LEMMA TurnBeginsKeeps ==
    ASSUME UpInv, NEW p \in Processes, TurnBegins(p)
    PROVE  UpInv'
  <1> USE DEF UpInv
  <1>1. now \in Nat /\ now' = now + 1 /\ now' \in 1..MaxNow /\ now \in 1..MaxNow
    BY ClockGoes DEF TurnBegins
  <1>2. turn.pc = "none" /\ posts' = posts \cup {now} /\ UNCHANGED <<own, memory, within, cut>>
    BY DEF TurnBegins
  <1>3. session' = IF session.exists THEN session ELSE [exists |-> TRUE, lastActive |-> Iso(now)]
    BY DEF TurnBegins
  <1>4. session' \in [exists : BOOLEAN, lastActive : Nat] /\ session'.exists /\ (session.exists => session' = session)
    BY <1>1, <1>3, IsoIsTyped DEF UpTypes
  <1> DEFINE first == ~session.exists \/ memory[p].at = Never
             c == IF first THEN [since |-> Never, memoryAt |-> Never] ELSE Cursors(p)
             since == c.since
             memoryAt == c.memoryAt
  <1>5. memory[p].at \in Nat /\ session.lastActive \in Nat
    BY NumbersAre
  <1>6. since \in Nat /\ memoryAt \in Nat /\ first \in BOOLEAN
    BY <1>5 DEF Cursors, Never
  <1>7. ~first => /\ session.exists /\ memory[p].at # Never /\ since <= memory[p].at
                  /\ \/ memoryAt = memory[p].at /\ since = memory[p].at
                     \/ memoryAt = Never /\ session.lastActive <= memory[p].at
    BY <1>5 DEF Cursors
  <1>8. turn' = [NoTurn EXCEPT !.pc = "rendering", !.p = p, !.batch = now, !.first = first,
                              !.since = since, !.memoryAt = memoryAt]
    BY DEF TurnBegins
  <1> HIDE DEF since, memoryAt, first, c
  <1>9. turn' \in TurnType /\ turn'.pc = "rendering" /\ turn'.p = p /\ turn'.batch = now /\ turn'.first = first
        /\ turn'.since = since /\ turn'.memoryAt = memoryAt /\ turn'.meanwhile = {}
    BY <1>1, <1>6, <1>8 DEF NoTurn, TurnType, Never
  <1>10. UpTypes'
    BY <1>1, <1>2, <1>4, <1>9 DEF UpTypes
  <1>11. Times'
    <2>1. \A s \in posts' : s < now'
      BY <1>1, <1>2, NumbersAre DEF Times
    <2>2. \A q \in Processes : memory'[q].at < now' /\ memory'[q].at < turn'.batch
      BY <1>1, <1>2, <1>9, NumbersAre DEF Times
    <2> QED
      BY <1>1, <1>4, <1>9, <2>1, <2>2 DEF Times
  <1>12. HeardSoFar'
    <2> SUFFICES ASSUME NEW q \in Processes, NEW s \in posts' \ own', memory'[q].at # Never, s <= memory'[q].at
                 PROVE  s \in memory'[q].has \cup within' \cup cut'
      BY DEF HeardSoFar
    <2>1. s # now
      BY <1>1, <1>2, NumbersAre DEF Times
    <2> QED
      BY <1>2, <2>1 DEF HeardSoFar
  <1>13. OwnSoFar'
    BY <1>2, <1>4, NumbersAre DEF OwnSoFar, Times, Never
  <1>14. Rendering'
    BY <1>2, <1>4, <1>7, <1>9 DEF Rendering
  <1>15. Starting' /\ Running' /\ Ran' /\ Touched'
    BY <1>9 DEF Starting, Running, Ran, Touched
  <1> QED
    BY <1>10, <1>11, <1>12, <1>13, <1>14, <1>15

LEMMA RenderPromptKeeps ==
    ASSUME UpInv, RenderPrompt
    PROVE  UpInv'
  <1> USE DEF UpInv
  <1> DEFINE news == (IF turn.first THEN posts ELSE Since) \ {turn.batch}
  <1>0. PICK got \in {Latest(posts, Fetch), {}} :
             /\ turn' = [turn EXCEPT !.pc = "starting", !.prompt = Latest(news \cap got, Budget) \cup {turn.batch}]
             /\ cut' = cut \cup (news \ Latest(news \cap got, Budget))
    BY DEF RenderPrompt
  <1> DEFINE quoted == Latest(news \cap got, Budget)
  <1>1. turn.pc = "rendering" /\ UNCHANGED <<now, posts, own, session, memory, within>>
    BY DEF RenderPrompt
  <1>2. turn' = [turn EXCEPT !.pc = "starting", !.prompt = quoted \cup {turn.batch}]
        /\ cut' = cut \cup (news \ quoted)
    BY <1>0
  <1>3. quoted \subseteq news
    BY DEF Latest
  <1> HIDE DEF quoted
  <1>4. news \subseteq posts
    BY DEF Since
  <1>5. \A s \in posts : s = turn.batch \/ s \in news \/ (~turn.first /\ s \notin Since)
    OBVIOUS
  <1> HIDE DEF news
  <1>6. quoted \cup {turn.batch} \in SUBSET Nat
    BY <1>3, <1>4, NumbersAre
  <1>7. TurnMoves("starting", quoted \cup {turn.batch})
    BY <1>2, <1>6, TurnIsPrompted
  <1>8. \A s \in news : s \in turn'.prompt \cup cut'
    BY <1>2, <1>7 DEF TurnMoves
  <1>9. cut \subseteq cut' /\ cut' \in SUBSET Nat /\ turn.batch \in turn'.prompt
    BY <1>2, <1>4, <1>7, NumbersAre DEF TurnMoves, UpTypes
  <1>10. UpTypes'
    BY <1>1, <1>7, <1>9 DEF UpTypes, TurnMoves
  <1>11. Times'
    BY <1>1, <1>7 DEF Times, TurnMoves
  <1>12. HeardSoFar' /\ OwnSoFar'
    BY <1>1, <1>9 DEF HeardSoFar, OwnSoFar
  <1>13. Rendering' /\ Running' /\ Ran' /\ Touched'
    BY <1>7 DEF TurnMoves, Rendering, Running, Ran, Touched
  <1>14. turn.p \in Processes
    BY <1>1 DEF Times
  <1>15. ASSUME NEW s \in posts \ own
         PROVE  s \in memory[turn.p].has \cup turn'.prompt \cup within \cup cut'
    <2>1. CASE s = turn.batch \/ s \in news
      BY <1>8, <1>9, <2>1
    <2>2. CASE ~turn.first /\ s \notin Since
      <3>1. s <= turn.since
        BY <2>2, NumbersAre DEF Since
      <3>2. memory[turn.p].at # Never /\ turn.since <= memory[turn.p].at
        BY <1>1, <2>2 DEF Rendering
      <3>3. s <= memory[turn.p].at
        BY <1>14, <3>1, <3>2, NumbersAre
      <3> QED
        BY <1>1, <1>9, <1>14, <3>2, <3>3 DEF HeardSoFar
    <2> QED
      BY <1>5, <2>1, <2>2
  <1>16. ASSUME NEW s \in own
         PROVE  s \in memory[turn.p].has \cup turn'.prompt \cup cut'
    <2>1. s \in posts
      BY DEF UpTypes
    <2>2. CASE s = turn.batch \/ s \in news
      BY <1>8, <1>9, <2>2
    <2>3. CASE ~turn.first /\ s \notin Since
      <3>1. memory[turn.p].at # Never
        BY <1>1, <2>3 DEF Rendering
      <3>2. CASE s \in memory[turn.p].has \cup cut
        BY <1>9, <3>2
      <3>3. CASE s > memory[turn.p].at /\ memory[turn.p].at < session.lastActive
        <4>1. turn.memoryAt = memory[turn.p].at /\ turn.since = memory[turn.p].at
          BY <1>1, <1>14, <2>3, <3>3, NumbersAre DEF Rendering
        <4> QED
          BY <2>1, <2>3, <3>1, <3>3, <4>1 DEF Since
      <3> QED
        BY <1>14, <3>1, <3>2, <3>3 DEF OwnSoFar
    <2> QED
      BY <1>5, <2>1, <2>2, <2>3
  <1>17. Starting'
    BY <1>1, <1>7, <1>15, <1>16 DEF Starting, TurnMoves
  <1> QED
    BY <1>10, <1>11, <1>12, <1>13, <1>17

LEMMA TurnIsBusyKeeps ==
    ASSUME UpInv, TurnIsBusy
    PROVE  UpInv'
  <1> USE DEF UpInv
  <1>1. turn.pc = "starting" /\ turn' = NoTurn /\ UNCHANGED <<now, posts, own, session, memory, within, cut>>
    BY DEF TurnIsBusy
  <1>2. turn' \in TurnType /\ turn'.pc = "none" /\ turn'.meanwhile = {}
    BY <1>1, NoTurnIsTyped
  <1>3. UpTypes'
    BY <1>1, <1>2 DEF UpTypes
  <1> QED
    BY <1>1, <1>2, <1>3
       DEF Times, HeardSoFar, OwnSoFar, Rendering, Starting, Running, Ran, Touched

LEMMA TurnRunsKeeps ==
    ASSUME UpInv, TurnRuns
    PROVE  UpInv'
  <1> USE DEF UpInv
  <1>1. now \in Nat /\ now' = now + 1 /\ now' \in 1..MaxNow
    BY ClockGoes DEF TurnRuns
  <1>2. turn.pc = "starting" /\ turn.p \in Processes /\ UNCHANGED <<posts, own, session, within, cut>>
    BY DEF TurnRuns, Times
  <1> DEFINE y == [has |-> memory[turn.p].has \cup turn.prompt, at |-> now]
  <1>3. memory' = [memory EXCEPT ![turn.p] = y]
    BY DEF TurnRuns
  <1>4. y \in MemoryType /\ y.has = memory[turn.p].has \cup turn.prompt /\ y.at = now
    BY <1>1, <1>2, NumbersAre DEF MemoryType, UpTypes, TurnType
  <1> HIDE DEF y
  <1>5. Remembers(turn.p, memory[turn.p].has \cup turn.prompt, now)
    BY <1>2, <1>3, <1>4, MemoryMoves
  <1>6. TurnMoves("running", turn.prompt)
    BY TurnMovesOn DEF TurnRuns
  <1>7. UpTypes'
    BY <1>1, <1>2, <1>5, <1>6 DEF UpTypes, Remembers, TurnMoves
  <1>8. Times'
    BY <1>1, <1>2, <1>5, <1>6, NumbersAre DEF Times, Remembers, TurnMoves
  <1>9. Running' /\ Ran'
    BY <1>2, <1>5, <1>6 DEF Starting, Running, Ran, Remembers, TurnMoves
  <1>10. HeardSoFar'
    <2> SUFFICES ASSUME NEW q \in Processes, NEW s \in posts' \ own', memory'[q].at # Never, s <= memory'[q].at
                 PROVE  s \in memory'[q].has \cup within' \cup cut'
                        \/ (turn'.pc = "running" /\ turn'.p = q /\ s \in turn'.meanwhile)
      BY DEF HeardSoFar
    <2>1. CASE q = turn.p
      BY <1>6, <1>9, <2>1 DEF Running, TurnMoves
    <2>2. CASE q # turn.p
      BY <1>2, <1>5, <2>2 DEF HeardSoFar, Remembers
    <2> QED
      BY <2>1, <2>2
  <1>11. OwnSoFar'
    BY <1>2, <1>5, <1>6, <1>9 DEF OwnSoFar, Ran, Remembers, TurnMoves
  <1>12. Rendering' /\ Starting' /\ Touched'
    BY <1>6 DEF Rendering, Starting, Touched, TurnMoves
  <1> QED
    BY <1>7, <1>8, <1>9, <1>10, <1>11, <1>12

(* Everything said is known when the run is over, whichever way it ended. *)
LEMMA RunIsOver ==
    ASSUME UpInv, Clock, turn.pc = "running", memory' = [memory EXCEPT ![turn.p].at = now],
           within' = within \cup turn.meanwhile, UNCHANGED <<posts, own, session, cut>>,
           turn' \in TurnType, turn'.pc \in {"none", "ended"}, turn'.meanwhile \subseteq turn.meanwhile,
           turn'.pc = "ended" => turn'.p = turn.p /\ turn'.batch = turn.batch
    PROVE  UpInv'
  <1> USE DEF UpInv
  <1>1. now \in Nat /\ now' = now + 1 /\ now' \in 1..MaxNow
    BY ClockGoes
  <1>2. turn.p \in Processes
    BY DEF Times
  <1>3. Remembers(turn.p, memory[turn.p].has, now)
    BY <1>2, MemoryAges
  <1>4. within' \in SUBSET posts
    BY DEF UpTypes, Times
  <1>5. UpTypes'
    BY <1>1, <1>3, <1>4 DEF UpTypes, Remembers
  <1>6. Times'
    BY <1>1, <1>2, <1>3, NumbersAre DEF Times, Remembers
  <1>7. HeardSoFar'
    <2> SUFFICES ASSUME NEW q \in Processes, NEW s \in posts' \ own', memory'[q].at # Never, s <= memory'[q].at
                 PROVE  s \in memory'[q].has \cup within' \cup cut'
      BY DEF HeardSoFar
    <2>1. CASE q = turn.p
      BY <1>2, <1>3, <2>1 DEF Running, Remembers
    <2>2. CASE q # turn.p
      BY <1>3, <2>2 DEF HeardSoFar, Remembers
    <2> QED
      BY <2>1, <2>2
  <1>8. OwnSoFar'
    BY <1>2, <1>3 DEF OwnSoFar, Ran, Remembers
  <1>9. Ran'
    BY <1>2, <1>3 DEF Ran, Remembers
  <1>10. Rendering' /\ Starting' /\ Running' /\ Touched'
    BY DEF Rendering, Starting, Running, Touched
  <1> QED
    BY <1>5, <1>6, <1>7, <1>8, <1>9, <1>10

LEMMA RunEndsKeeps ==
    ASSUME UpInv, RunEnds \/ RunFails
    PROVE  UpInv'
  <1>1. CASE RunEnds
    <2>1. TurnMoves("ended", turn.prompt)
      BY <1>1, TurnMovesOn DEF RunEnds, UpInv
    <2> QED
      BY <1>1, <2>1, RunIsOver DEF RunEnds, TurnMoves
  <1>2. CASE RunFails
    BY <1>2, NoTurnIsTyped, RunIsOver DEF RunFails
  <1> QED
    BY <1>1, <1>2

LEMMA TouchKeeps ==
    ASSUME UpInv, Touch
    PROVE  UpInv'
  <1> USE DEF UpInv
  <1>1. now \in Nat /\ now' = now + 1 /\ now' \in 1..MaxNow
    BY ClockGoes DEF Touch
  <1>2. turn.pc = "ended" /\ turn.p \in Processes /\ turn.batch < now /\ session.exists
        /\ UNCHANGED <<posts, own, memory, within, cut>>
    BY DEF Touch, Times
  <1>3. TurnMoves("replying", turn.prompt)
    BY TurnMovesOn DEF Touch
  <1>4. Iso(now) \in Nat
    BY <1>1, IsoIsTyped
  <1>5. session' = [session EXCEPT !.lastActive = Iso(now)]
    BY DEF Touch
  <1>6. session' \in [exists : BOOLEAN, lastActive : Nat] /\ session'.lastActive = Iso(now) /\ session'.exists
    BY <1>2, <1>4, <1>5 DEF UpTypes
  <1>7. ASSUME NEW q \in Processes, q # turn.p
        PROVE  memory[q].at < Iso(now)
    <2>1. memory[q].at < turn.batch
      BY <1>2, <1>7 DEF Times
    <2>2. memory[q].at \in Nat /\ turn.batch \in Nat
      BY NumbersAre
    <2>3. memory[q].at + 1 < now
      BY <1>1, <1>2, <2>1, <2>2
    <2> QED
      BY <1>1, <2>2, <2>3, Iso2
  <1>8. UpTypes'
    BY <1>1, <1>2, <1>3, <1>6 DEF UpTypes, TurnMoves
  <1>9. Times'
    BY <1>1, <1>2, <1>3, <1>6, NumbersAre DEF Times, TurnMoves
  <1>10. HeardSoFar'
    BY <1>2 DEF HeardSoFar
  <1>11. OwnSoFar'
    BY <1>2, <1>6, <1>7 DEF OwnSoFar, Ran
  <1>12. Ran' /\ Touched'
    BY <1>2, <1>3, <1>6, <1>7 DEF Ran, Touched, TurnMoves
  <1>13. Rendering' /\ Starting' /\ Running'
    BY <1>3 DEF Rendering, Starting, Running, TurnMoves
  <1> QED
    BY <1>8, <1>9, <1>10, <1>11, <1>12, <1>13

LEMMA TurnRepliesKeeps ==
    ASSUME UpInv, TurnReplies
    PROVE  UpInv'
  <1> USE DEF UpInv
  <1>1. now \in Nat /\ now' = now + 1 /\ now' \in 1..MaxNow /\ now \in 1..MaxNow
    BY ClockGoes DEF TurnReplies
  <1>2. turn.pc = "replying" /\ turn.p \in Processes /\ posts' = posts \cup {now} /\ own' = own \cup {now}
        /\ UNCHANGED <<session, within, cut>>
    BY DEF TurnReplies, Times
  <1>3. turn' \in TurnType /\ turn'.pc = "none" /\ turn'.meanwhile = {}
    BY NoTurnIsTyped DEF TurnReplies
  <1>4. Remembers(turn.p, memory[turn.p].has \cup {now}, memory[turn.p].at)
    BY <1>2, MemoryGrows DEF TurnReplies
  <1>5. UpTypes'
    BY <1>1, <1>2, <1>3, <1>4 DEF UpTypes, Remembers
  <1>6. Times'
    <2>1. \A s \in posts' : s < now'
      BY <1>1, <1>2, NumbersAre DEF Times
    <2>2. \A q \in Processes : memory'[q].at = memory[q].at
      BY <1>2, <1>4 DEF Remembers
    <2>3. \A q \in Processes : memory'[q].at < now'
      BY <1>1, <2>2, NumbersAre DEF Times
    <2> QED
      BY <1>2, <1>3, <2>1, <2>3 DEF Times
  <1>7. HeardSoFar'
    <2> SUFFICES ASSUME NEW q \in Processes, NEW s \in posts' \ own', memory'[q].at # Never, s <= memory'[q].at
                 PROVE  s \in memory'[q].has \cup within' \cup cut'
      BY DEF HeardSoFar
    <2>1. s \in posts \ own
      BY <1>2
    <2> QED
      BY <1>2, <1>4, <2>1 DEF HeardSoFar, Remembers
  <1>8. OwnSoFar'
    <2> SUFFICES ASSUME NEW q \in Processes, NEW s \in own', memory'[q].at # Never
                 PROVE  s \in memory'[q].has \cup cut' \/ (s > memory'[q].at /\ memory'[q].at < session'.lastActive)
      BY DEF OwnSoFar
    <2>1. CASE q = turn.p
      BY <1>2, <1>4, <2>1 DEF Ran, Remembers
    <2>2. CASE q # turn.p
      <3>1. memory'[q] = memory[q]
        BY <1>4, <2>2 DEF Remembers
      <3>2. memory[q].at < session.lastActive /\ memory[q].at < now
        BY <1>2, <2>2 DEF Touched, Times
      <3>3. now > memory[q].at
        BY <1>1, <3>2, NumbersAre
      <3> QED
        BY <1>2, <3>1, <3>2, <3>3 DEF OwnSoFar
    <2> QED
      BY <2>1, <2>2
  <1>9. Rendering' /\ Starting' /\ Running' /\ Ran' /\ Touched'
    BY <1>3 DEF Rendering, Starting, Running, Ran, Touched
  <1> QED
    BY <1>5, <1>6, <1>7, <1>8, <1>9

LEMMA ForgetKeeps ==
    ASSUME UpInv, NEW p \in Processes, Forget(p)
    PROVE  UpInv'
  <1> USE DEF UpInv
  <1>1. turn.pc = "none" /\ UNCHANGED <<now, posts, own, session, turn, within, cut>>
    BY DEF Forget
  <1>2. NoMemory \in MemoryType /\ NoMemory.at = 0 /\ NoMemory.has = {}
    BY DEF NoMemory, MemoryType, Never
  <1>3. Remembers(p, {}, 0)
    BY <1>2, MemoryMoves DEF Forget
  <1>4. UpTypes'
    BY <1>1, <1>3 DEF UpTypes, Remembers
  <1>5. Times'
    BY <1>1, <1>3, ClockAssumption DEF Times, Remembers, UpTypes
  <1>6. HeardSoFar' /\ OwnSoFar'
    BY <1>1, <1>3 DEF HeardSoFar, OwnSoFar, Remembers, Never
  <1>7. Rendering' /\ Starting' /\ Running' /\ Ran' /\ Touched'
    BY <1>1 DEF Rendering, Starting, Running, Ran, Touched
  <1> QED
    BY <1>4, <1>5, <1>6, <1>7

LEMMA UpStands ==
    ASSUME UpInv, UNCHANGED upVars
    PROVE  UpInv'
  BY DEF upVars, UpInv, UpTypes, Times, HeardSoFar, OwnSoFar, Rendering, Starting, Running, Ran, Touched

(* The property of the runs, for any number of processes and any budget: a  *)
(* turn that runs has in its memory, or in its prompt, what people and the  *)
(* agent itself said before it (agent_flow.py _turn, _since).               *)
THEOREM CaughtUpAlways == UpSpec => []CaughtUp
  <1>1. UpInit => UpInv
    BY UpStarts
  <1>2. UpInv /\ [UpNext]_upVars => UpInv'
    BY PersonPostsKeeps, TurnBeginsKeeps, RenderPromptKeeps, TurnIsBusyKeeps, TurnRunsKeeps, RunEndsKeeps,
       TouchKeeps, TurnRepliesKeeps, ForgetKeeps, UpStands DEF UpNext
  <1>3. UpInv => CaughtUp
    <2> SUFFICES ASSUME UpInv PROVE CaughtUp
      OBVIOUS
    <2>1. UpTypeOK
      BY DEF UpInv, UpTypes, UpTypeOK, TurnType
    <2>2. PeopleAreHeard /\ OwnWordsAreKnown
      BY DEF UpInv, Running, Ran, PeopleAreHeard, OwnWordsAreKnown, Known
    <2> QED
      BY <2>1, <2>2 DEF CaughtUp
  <1> QED
    BY <1>1, <1>2, <1>3, PTL DEF UpSpec
==============================================================================
