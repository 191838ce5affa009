------------------------------ MODULE Channel ------------------------------
(***************************************************************************)
(* A channel with people, foreign bots and several of the deployment's      *)
(* agents in it (gateways/mattermost, gateways/slack, loopguard.py): which  *)
(* posts and reactions an agent takes as its own, in which conversation, and *)
(* how far agents that mention each other go on.  Every agent has a gateway *)
(* of its own, which is handed the channel's posts in order; the guard is   *)
(* one for all of them.                                                     *)
(*                                                                          *)
(* Left out: direct messages (one agent, always addressed), attachments     *)
(* (Files) and how a burst is folded (Coalescer): a turn takes the first    *)
(* of the messages that wait, as many as had come when it began.            *)
(***************************************************************************)
EXTENDS Naturals, Sequences, FiniteSets, FiniteSetsExt

CONSTANTS
    Agents,         \* the deployment's agents, each with an account on the platform
    Person, Bot,    \* a person; a bot that is not one of ours
    First,          \* the agents in the channel to begin with
    Stamps,         \* whether the platform carries a post's hop depth (Mattermost does, Slack does not)
    Resident,       \* whether an agent alone in the channel answers every post (Mattermost)
    Says,           \* what people and bots say: [by, mentions]
    Tools,          \* what a turn may post with besides its reply
    LookupFails,    \* whether the platform may fail to say who reacted
    FetchFails,     \* whether it may fail to say who is in the channel
    MaxHops, MaxTurns, Window, Ttl,             \* the guard's limits; how long the members are cached
    MaxPosts, MaxSaid, MaxMoves, MaxReactions, MaxNow    \* bounds

VARIABLES
    posts,      \* the channel's posts, in order
    members,    \* the agents in it
    seen,       \* per agent: how many posts its gateway has handled
    cache,      \* per agent: the members it last fetched, and until when it goes by them
    window,     \* LoopGuard._turns: per conversation, when agents' turns were let through
    waiting,    \* per agent: what was decided to be its to answer
    now, moves, reactions,
    aloneAt,    \* history: when an agent was alone in the channel
    let         \* history: what the guard let through, [conv, at]

cVars == <<posts, members, seen, cache, window, waiting, now, moves, reactions, aloneAt, let>>

Channel == 0    \* the conversation of the channel itself; a thread's is its root post

Alone(ms, t) == {<<a, t>> : a \in {a \in Agents : ms = {a}}}

ChannelInit ==
    /\ posts = <<>> /\ members = First
    /\ seen = [a \in Agents |-> 0]
    /\ cache = [a \in Agents |-> [until |-> 0, ids |-> {}]]
    /\ window = [c \in 0..MaxPosts |-> <<>>]
    /\ waiting = [a \in Agents |-> <<>>]
    /\ now = 1 /\ moves = 0 /\ reactions = 0
    /\ aloneAt = Alone(First, 1) /\ let = <<>>

-----------------------------------------------------------------------------
(* The platform *)

Roots == {i \in DOMAIN posts : posts[i].root = Channel}

(* post_reply: Slack's carries no depth. *)
Stamped(depth) == IF Stamps THEN depth ELSE 0

(* A post; far is its distance from the last person's, depth the one it is  *)
(* stamped with.                                                            *)
Post(by, root, mentions, depth, far) ==
    /\ Len(posts) < MaxPosts
    /\ posts' = Append(posts, [by |-> by, root |-> root, mentions |-> mentions, to |-> members,
                               depth |-> Stamped(depth), far |-> far])

SomebodyPosts(said, root) ==
    /\ Cardinality({i \in DOMAIN posts : posts[i].by \notin Agents}) < MaxSaid
    /\ Post(said.by, root, said.mentions, 0, 0)
    /\ UNCHANGED <<members, seen, cache, window, waiting, now, moves, reactions, aloneAt, let>>

(* An agent joins or leaves. *)
Moves(a) ==
    /\ moves < MaxMoves /\ moves' = moves + 1
    /\ members' = IF a \in members THEN members \ {a} ELSE members \cup {a}
    /\ aloneAt' = aloneAt \cup Alone(members', now)
    /\ UNCHANGED <<posts, seen, cache, window, waiting, now, reactions, let>>

Tick ==
    /\ now < MaxNow /\ now' = now + 1
    /\ aloneAt' = aloneAt \cup Alone(members, now')
    /\ UNCHANGED <<posts, members, seen, cache, window, waiting, moves, reactions, let>>

-----------------------------------------------------------------------------
(* The gateway of an agent *)

(* conversation_of: a reply is its thread's, a post at the top starts one.  *)
ConversationOf(i) == IF posts[i].root # Channel THEN posts[i].root ELSE i

Incoming(i, conv, thread) ==
    [post |-> i, conv |-> conv, thread |-> thread, by |-> posts[i].by, depth |-> posts[i].depth,
     far |-> posts[i].far, at |-> now]

(* An agent's own posts come back to it. *)
OwnEcho(a, i) == posts[i].by = a

Addressed(a, i) == a \in posts[i].mentions

(* _channel_member_ids: what it goes by, while it is fresh. *)
Cached(a) == cache[a].until > now

(* ... or is told now; a fetch that fails is remembered as nobody. *)
Told(a) == IF Cached(a) THEN {cache[a].ids} ELSE {members} \cup (IF FetchFails THEN {{}} ELSE {})

InWindow(conv) == SelectSeq(window[conv], LAMBDA t : t + Window >= now)

(* LoopGuard.check: not too deep, not too many of this conversation lately. *)
Allows(a, conv, depth) == depth < MaxHops /\ Len(InWindow(conv)) < MaxTurns

(* _decide_agent: another of our agents, by name, as the guard allows.      *)
DecideAgent(a, i) ==
    LET conv == ConversationOf(i) IN
    /\ UNCHANGED cache
    /\ IF posts[i].by \in Agents /\ Addressed(a, i) /\ Allows(a, conv, posts[i].depth)
         THEN /\ waiting' = [waiting EXCEPT ![a] = Append(@, Incoming(i, conv, conv))]
              /\ window' = [window EXCEPT ![conv] = Append(InWindow(conv), now)]
              /\ let' = Append(let, [conv |-> conv, by |-> a, at |-> now])
         ELSE UNCHANGED <<waiting, window, let>>

(* _decide, to_channel_session: a person's post, to the agent alone in the  *)
(* channel or to the one it names.                                          *)
DecidePerson(a, i) ==
    /\ \E ids \in (IF Resident THEN Told(a) ELSE {{}}) :
         /\ cache' = IF Resident /\ ~Cached(a) THEN [cache EXCEPT ![a] = [until |-> now + Ttl, ids |-> ids]] ELSE cache
         /\ waiting' =
              IF ids = {a}
                THEN [waiting EXCEPT ![a] = Append(@, IF posts[i].root = Channel THEN Incoming(i, Channel, Channel)
                                                      ELSE Incoming(i, ConversationOf(i), ConversationOf(i)))]
              ELSE IF Addressed(a, i)
                THEN [waiting EXCEPT ![a] = Append(@, Incoming(i, ConversationOf(i), ConversationOf(i)))]
              ELSE waiting
    /\ UNCHANGED <<window, let>>

(* _on_ws_message, _handle_message: the next post; the agent's own are      *)
(* dropped.                                                                 *)
Handles(a) ==
    /\ seen[a] < Len(posts)
    /\ LET i == seen[a] + 1 IN
       /\ seen' = [seen EXCEPT ![a] = i]
       /\ IF a \notin posts[i].to \/ OwnEcho(a, i) THEN UNCHANGED <<cache, waiting, window, let>>
          ELSE IF posts[i].by = Person THEN DecidePerson(a, i) ELSE DecideAgent(a, i)
    /\ UNCHANGED <<posts, members, now, moves, reactions, aloneAt>>

(* reacted_by_an_agent: as far as the platform says who reacted. *)
ReactedByAnAgent(r) == IF r = Bot /\ LookupFails THEN {TRUE, FALSE} ELSE {r \in Agents \cup {Bot}}

(* invoke_command: a message of whoever reacted, in the conversation of the *)
(* post under it.                                                           *)
Command(r, i) ==
    [Incoming(i, ConversationOf(i), ConversationOf(i)) EXCEPT !.by = r, !.depth = 0, !.far = 0]

(* handle_reaction: an emoji of the agent's map is a command. *)
Reacts(r, a, i) ==
    /\ reactions < MaxReactions /\ reactions' = reactions + 1
    /\ a \in members
    /\ FALSE \in ReactedByAnAgent(r)
    /\ waiting' = [waiting EXCEPT ![a] = Append(@, Command(r, i))]
    /\ UNCHANGED <<posts, members, seen, cache, window, now, moves, aloneAt, let>>

-----------------------------------------------------------------------------
(* Mutant: the hops of the message the turn is anchored to. *)
HopOfAnchor(batch) == batch[Len(batch)].depth + 1

(* One hop past the deepest message of the batch. *)
Hop(batch) == Max({batch[i].depth : i \in DOMAIN batch}) + 1

Far(batch) == Max({batch[i].far : i \in DOMAIN batch}) + 1

(* A turn takes the first n messages of a conversation and ends in a reply, *)
(* a post made with a tool, or nothing.  send_message stamps one hop and    *)
(* posts at the top of the channel, send_file stamps none.                  *)
Turn(a, conv, n, how, mentions) ==
    LET mine == SelectSeq(waiting[a], LAMBDA m : m.conv = conv)
        batch == SubSeq(mine, 1, n) IN
    /\ n \in DOMAIN mine
    /\ waiting' = [waiting EXCEPT ![a] = SelectSeq(@, LAMBDA m : \A k \in DOMAIN batch : m # batch[k])]
    /\ \/ how = "reply" /\ Post(a, batch[n].thread, mentions, Hop(batch), Far(batch))
       \/ how = "send_message" /\ Post(a, Channel, mentions, 1, Far(batch))
       \/ how = "send_file" /\ Post(a, batch[n].thread, mentions, 0, Far(batch))
       \/ how = "nothing" /\ mentions = {} /\ UNCHANGED posts
    /\ UNCHANGED <<members, seen, cache, window, now, moves, reactions, aloneAt, let>>

ChannelNext ==
    \/ Tick
    \/ \E root \in Roots \cup {Channel}, said \in Says : SomebodyPosts(said, root)
    \/ \E a \in Agents : Moves(a) \/ Handles(a)
    \/ \E r \in {Person, Bot} \cup Agents, a \in Agents, i \in DOMAIN posts : Reacts(r, a, i)
    \/ \E a \in Agents, conv \in 0..MaxPosts, n \in 1..MaxPosts, how \in {"reply", "nothing"} \cup Tools,
          ms \in SUBSET Agents : a \notin ms /\ Turn(a, conv, n, how, ms)

ChannelSpec == ChannelInit /\ [][ChannelNext]_cVars

-----------------------------------------------------------------------------
(* Agents that go on mentioning each other stop MaxHops after the last      *)
(* person's word, whatever was folded into a turn and however slowly they   *)
(* go (loopguard.py: "This caps a single cascade regardless of timing").    *)
CascadesEnd == \A i \in DOMAIN posts : posts[i].far <= MaxHops

(* However many agents are in a conversation, no window holds more turns of *)
(* theirs than the limit (loopguard.py: "a global per-conversation bound"). *)
RateIsGlobal ==
    \A i \in DOMAIN let :
      Cardinality({j \in 1..i : let[j].conv = let[i].conv /\ let[j].at + Window >= let[i].at}) <= MaxTurns

(* An agent takes a post nobody addressed to it only where it was the only  *)
(* one shortly before (mattermost/gateway.py _is_sole_resident).            *)
UnaddressedOnlyWhereAlone ==
    \A a \in Agents : \A k \in DOMAIN waiting[a] :
      LET m == waiting[a][k] IN
      (m.by = Person /\ posts[m.post].by = Person /\ a \notin posts[m.post].mentions /\ m.conv = Channel)
        => \E t \in 1..m.at : t + Ttl > m.at /\ <<a, t>> \in aloneAt

(* Whatever an agent takes to answer is a person's or another agent's: a    *)
(* foreign bot starts nothing, by a post or a reaction                      *)
(* (gateways/reactions.py reacted_by_an_agent, _decide_agent).              *)
NobodyElseIsAnswered == \A a \in Agents : \A k \in DOMAIN waiting[a] : waiting[a][k].by # Bot

-----------------------------------------------------------------------------
(* What the code does not keep *)

(* "answers every post": of the only resident agent, a post handled while   *)
(* it is alone.                                                             *)
SoleAnswersEveryPost ==
    [][\A a \in Agents : (seen'[a] > seen[a] /\ members = {a} /\ posts[seen'[a]].by = Person /\ a \in posts[seen'[a]].to)
         => Len(waiting'[a]) > Len(waiting[a])]_cVars

(* "With 2+ resident agents, an explicit mention is required". *)
MentionRequired ==
    [][\A a \in Agents : (Len(waiting'[a]) > Len(waiting[a]) /\ seen'[a] > seen[a] /\ Cardinality(members) > 1)
         => a \in posts[seen'[a]].mentions]_cVars

(* "The one conversation rule, for a post and a reaction alike". *)
OneConversationRule ==
    \A a \in Agents : \A j, k \in DOMAIN waiting[a] :
      waiting[a][j].post = waiting[a][k].post => waiting[a][j].conv = waiting[a][k].conv
=============================================================================
