------------------------ MODULE ChircChannelsProofs ------------------------
(***************************************************************************)
(* Proofs about ChircChannels: the types of the lists, the agreement of    *)
(* the two halves of a membership, and what a client that has left leaves  *)
(* behind.                                                                 *)
(*                                                                         *)
(* The types hold whatever happens (Typed). As long as no unlock has let   *)
(* two threads into the sections of lock2, each name has one node (Unique) *)
(* and what a thread's stage says of the lists is so (StandsOK), for the   *)
(* channels whose list nobody has torn. Most actions are quiet, they move  *)
(* nobody; for the others the threads that do not act are bystanders.      *)
(***************************************************************************)
EXTENDS ChircChannels, FiniteSetTheorems, SequenceTheorems, TLAPS

\* Where a thread can be, and what it can remember there.
Stages ==
  {"read", "reply", "gone", "stuck", "ended", "relay", "purge", "purge_splice", "quit", "quit_leave",
   "quit_splice", "who", "whois", "list_one", "names_one", "names_end", "oper", "away", "join", "join_lock",
   "join_add", "join_name", "join_look", "join_user", "part", "part_leave", "part_splice", "part_end", "topic",
   "topic_change", "user_mode", "mode", "mode_reply", "mode_member", "mode_act", "mode_chan", "mode_name",
   "mode_user", "privmsg", "privmsg_unlock", "notice", "tell", "tell_notice", "tell_away", "names",
   "names_send", "list", "list_send"}
Letters == {"none", "query", "change", "x", "m", "t", "o", "v"}
Afters == {"read", "join_name", "part_leave", "privmsg_unlock", "quit_leave"}
Backs == {"ended", "read", "relay", "tell_away"}

Memory ==
  [chan : Channels, letter : Letters, on : BOOLEAN, member : Users \cup {NoUser}, granted : BOOLEAN,
   todo : SUBSET Users, left : SUBSET Channels, victim : Users \cup {NoUser}, purge : SUBSET Channels,
   closes : Users \cup {NoUser}, after : Afters, back : Backs, turns : Nat,
   at : Channels, saw : SUBSET Users]

\* What the two kinds of list hold.
Node ==
  [name : Channels, users : SUBSET Users, ops : SUBSET Users, voices : SUBSET Users,
   mod : BOOLEAN, top : BOOLEAN, topic : BOOLEAN]
GoodNode(n) == n \in Node /\ n.ops \subseteq n.users /\ n.voices \subseteq n.users

ChannelsTyped == channels \in Seq(Node) /\ \A i \in DOMAIN channels : GoodNode(channels[i])

Entry == [chans : SUBSET Channels, ops : SUBSET Channels, voices : SUBSET Channels]

ListsTyped ==
  /\ clients \subseteq Users /\ oper \subseteq clients /\ away \subseteq clients
  /\ names \in [Users -> Entry]
  /\ \A u \in Users : names[u].ops \subseteq names[u].chans /\ names[u].voices \subseteq names[u].chans
  /\ ChannelsTyped
  /\ lock2 \in Users \cup {NoUser} /\ gone \subseteq Users /\ closed \subseteq Users
  /\ torn \subseteq Channels /\ late \subseteq Users
  /\ intruded \in BOOLEAN

ThreadsTyped == pc \in [Users -> Stages] /\ local \in [Users -> Memory]

\* sock_is_gone; a QUIT that has answered; the sections of JOIN and PART under lock2, and
\* where in them the channel is known to be there.
Purging(p) == p \in {"purge", "purge_splice"}
Quitting(p, l) == p \in {"quit_leave", "quit_splice"} \/ l.after = "quit_leave"
Entering(p, l) ==
  \/ p \in {"join_name", "join_look", "join_user"}
  \/ (p = "relay" \/ Purging(p)) /\ l.after = "join_name"
InSection(p, l) == p \in {"join_add", "part_splice", "part_end"} \/ Entering(p, l)

\* What a thread's own memory says of it.
PlanOK(p, l) ==
  /\ ~Purging(p) => l.victim = NoUser
  /\ p # "relay" /\ ~Purging(p) => l.after = "read"
  /\ Purging(p) => /\ l.victim \in Users /\ l.closes \in Users
                   /\ l.back # "relay" => l.after = "read"
  /\ p \in {"join_user", "part_splice"} => l.at = l.chan

Typed == ListsTyped /\ ThreadsTyped /\ \A u \in Users : PlanOK(pc[u], local[u])

\* One node for each name.
Unique == \A c \in Channels : \A i, k \in Nodes(c) : i = k

\* u is in no channel that is whole but those of S, unless it has come late.
OnlyIn(u, S) == \A c \in Channels \ torn : InChannel(u, c) => c \in S \/ u \in late

\* What the lists say of a thread at p with memory l.
StandsOK(t, p, l) ==
  /\ InSection(p, l) => lock2 = t
  /\ Entering(p, l) => is_already_chan(l.chan)
  /\ p = "join_add" => ~is_already_chan(l.chan)
  /\ p \in {"join_look", "join_user"} /\ t \in clients => l.chan \in names[t].chans
  /\ p = "part_end" /\ l.chan \notin torn => ~InChannel(t, l.chan)
  /\ Purging(p) => OnlyIn(l.victim, l.purge)
  /\ Quitting(p, l) => OnlyIn(t, l.left)

\* A channel's user is a client that has the channel in its own list.
KnowsItsChannels(u) == OnlyIn(u, {c \in names[u].chans : u \in clients})

\* The other way round, unless it is being taken out, or is half-way in or out.
IsInItsChannels(u) ==
  u \in clients /\ ~Leaves(u) =>
    \A c \in names[u].chans \ torn :
      InChannel(u, c) \/ (pc[u] \in {"join_look", "join_user", "part_end"} /\ c = local[u].chan)

\* Who has come late has been taken out, or is about to be.
LateIsOut(u) == u \in late => u \notin clients \/ Leaves(u)

\* What holds for one client and its thread.
Agrees(u) ==
  StandsOK(u, pc[u], local[u]) /\ KnowsItsChannels(u) /\ IsInItsChannels(u) /\ LateIsOut(u)

Inv == Typed /\ (~intruded => Unique /\ \A u \in Users : Agrees(u))

\* A thread that only waits remembers nothing of a command.
LEMMA IdleMemory ==
  Idle \in Memory /\ Idle.victim = NoUser /\ Idle.after = "read"
<1>1. (CHOOSE c \in Channels : TRUE) \in Channels
  BY ConstantsAssumption
<1> QED BY <1>1 DEF Idle, Memory, Letters, Afters, Backs

-----------------------------------------------------------------------------
(* The list of channels.                                                    *)

\* Who is where after a change of the list.
SameMembers == \A u \in Users, d \in Channels : InChannel(u, d)' <=> InChannel(u, d)
SameNames == \A d \in Channels : is_already_chan(d)' <=> is_already_chan(d)

LEMMA MinIsMember == ASSUME NEW S \in SUBSET Nat, S # {} PROVE Min(S) \in S
<1>1. PICK n \in S : \A m \in S : <<m, n>> \notin OpToRel(<, Nat)
  BY NatLessThanWellFounded, WFMin
<1>2. ASSUME NEW m \in S PROVE n <= m
  <2>1. m \in Nat /\ n \in Nat /\ ~(m < n)
    BY <1>1 DEF OpToRel
  <2> QED BY <2>1
<1> QED BY <1>2 DEF Min

\* The look-up finds one of the nodes, and the only one if there is no other.
LEMMA FirstIsThere ==
  ASSUME ChannelsTyped, NEW c \in Channels, NEW S \in SUBSET Nodes(c), S # {}
  PROVE  /\ Min(S) \in S /\ Min(S) \in 1 .. Len(channels)
         /\ GoodNode(channels[Min(S)]) /\ channels[Min(S)].name = c
         /\ Unique => Nodes(c) = {Min(S)} /\ S = {Min(S)}
<1>1. S \in SUBSET (1 .. Len(channels)) /\ DOMAIN channels = 1 .. Len(channels) /\ Len(channels) \in Nat
  BY DEF Nodes, ChannelsTyped
<1>2. S \in SUBSET Nat
  BY <1>1
<1>3. Min(S) \in S
  BY <1>2, MinIsMember
<1>4. Min(S) \in Nodes(c)
  BY <1>3
<1>5. Unique => Nodes(c) = {Min(S)} /\ S = {Min(S)}
  BY <1>3, <1>4 DEF Unique
<1> QED BY <1>1, <1>3, <1>4, <1>5 DEF ChannelsTyped, Nodes

LEMMA FirstNode ==
  ASSUME ChannelsTyped, NEW c \in Channels, is_already_chan(c)
  PROVE  /\ GoodNode(First(c)) /\ First(c).name = c
         /\ get_users_on_channel(c) = First(c).users
  BY FirstIsThere DEF is_already_chan, First, get_users_on_channel

LEMMA UsersOn ==
  ASSUME ChannelsTyped, NEW c \in Channels
  PROVE  get_users_on_channel(c) \in SUBSET Users
<1>1. CASE is_already_chan(c)
  BY <1>1, FirstNode DEF GoodNode, Node
<1>2. CASE ~is_already_chan(c)
  BY <1>2 DEF get_users_on_channel
<1> QED BY <1>1, <1>2

\* The node of one channel is replaced by another of the same name.
LEMMA NodeReplaced ==
  ASSUME ChannelsTyped, NEW c \in Channels, NEW i \in Nodes(c),
         NEW n, GoodNode(n), n.name = c, channels' = [channels EXCEPT ![i] = n]
  PROVE  /\ ChannelsTyped' /\ SameNames /\ (Unique => Unique')
         /\ \A u \in Users, d \in Channels : d # c => (InChannel(u, d)' <=> InChannel(u, d))
         /\ Unique => \A u \in Users : InChannel(u, c)' <=> u \in n.users
<1>1. /\ i \in 1 .. Len(channels) /\ channels[i].name = c
      /\ channels \in Seq(Node)
  BY DEF Nodes, ChannelsTyped
<1>2. /\ channels' \in Seq(Node) /\ Len(channels') = Len(channels)
      /\ DOMAIN channels' = 1 .. Len(channels) /\ DOMAIN channels = 1 .. Len(channels)
      /\ channels'[i] = n
      /\ \A k \in 1 .. Len(channels) : k # i => channels'[k] = channels[k]
  BY <1>1 DEF GoodNode
<1>3. ChannelsTyped'
  BY <1>2 DEF ChannelsTyped
<1>4. \A d \in Channels : Nodes(d)' = Nodes(d)
  BY <1>1, <1>2 DEF Nodes
<1>5. (Unique => Unique') /\ SameNames
  BY <1>4 DEF Unique, SameNames, is_already_chan
<1>6. ASSUME NEW u \in Users, NEW d \in Channels, d # c
      PROVE  InChannel(u, d)' <=> InChannel(u, d)
  <2>1. InChannel(u, d)' <=> \E k \in Nodes(d) : u \in channels'[k].users
    BY <1>4 DEF InChannel
  <2>2. \A k \in Nodes(d) : k \in 1 .. Len(channels) /\ k # i
    BY <1>1, <1>2, <1>6 DEF Nodes
  <2> QED BY <1>2, <2>1, <2>2 DEF InChannel
<1>7. ASSUME Unique, NEW u \in Users
      PROVE  InChannel(u, c)' <=> u \in n.users
  <2>1. InChannel(u, c)' <=> \E k \in Nodes(c) : u \in channels'[k].users
    BY <1>4 DEF InChannel
  <2>2. Nodes(c) = {i}
    BY <1>7 DEF Unique
  <2> QED BY <1>2, <2>1, <2>2
<1> QED BY <1>3, <1>5, <1>6, <1>7

\* A mode, a topic or a flag of a member changes; the members do not.
LEMMA NodeMarked ==
  ASSUME ChannelsTyped, NEW c \in Channels, is_already_chan(c),
         NEW n, GoodNode(n), n.name = c, n.users = get_users_on_channel(c),
         channels' = WithFirst(c, n)
  PROVE  ChannelsTyped' /\ SameNames /\ (Unique => Unique' /\ SameMembers)
<1>1. PICK i \in Nodes(c) : i = Min(Nodes(c)) /\ (Unique => Nodes(c) = {i})
  BY FirstIsThere DEF is_already_chan
<1>2. n.users = channels[i].users
  BY <1>1, FirstNode DEF First
<1>3. channels' = [channels EXCEPT ![i] = n]
  BY <1>1 DEF WithFirst
<1>4. /\ ChannelsTyped' /\ SameNames /\ (Unique => Unique')
      /\ \A u \in Users, d \in Channels : d # c => (InChannel(u, d)' <=> InChannel(u, d))
      /\ Unique => \A u \in Users : InChannel(u, c)' <=> u \in n.users
  BY <1>3, NodeReplaced
<1>5. Unique => \A u \in Users : InChannel(u, c) <=> u \in n.users
  BY <1>1, <1>2 DEF InChannel
<1>6. Unique => SameMembers
  BY <1>4, <1>5 DEF SameMembers
<1> QED BY <1>4, <1>6

\* add_channel puts a node with no users before the others.
LEMMA ChannelPrepended ==
  ASSUME ChannelsTyped, NEW c \in Channels, channels' = add_channel(c)
  PROVE  /\ ChannelsTyped' /\ Len(channels) \in Nat
         /\ DOMAIN channels' = 1 .. (Len(channels) + 1) /\ DOMAIN channels = 1 .. Len(channels)
         /\ channels'[1].name = c /\ channels'[1].users = {}
         /\ \A k \in 1 .. Len(channels) : channels'[k + 1] = channels[k]
         /\ \A k \in 1 .. (Len(channels) + 1) :
              k = 1 \/ (k - 1 \in 1 .. Len(channels) /\ channels'[k] = channels[k - 1])
<1> DEFINE n == [name |-> c, users |-> {}, ops |-> {}, voices |-> {}, mod |-> FALSE, top |-> FALSE,
                 topic |-> FALSE]
<1>1. GoodNode(n)
  BY DEF GoodNode, Node
<1>1a. n.name = c /\ n.users = {}
  OBVIOUS
<1>2. channels \in Seq(Node) /\ <<n>> \in Seq(Node) /\ channels' = <<n>> \o channels
  BY <1>1 DEF ChannelsTyped, GoodNode, add_channel
<1> HIDE DEF n
<1>3. /\ channels' \in Seq(Node) /\ Len(channels') = Len(channels) + 1
      /\ DOMAIN channels' = 1 .. (Len(channels) + 1) /\ DOMAIN channels = 1 .. Len(channels)
      /\ Len(channels) \in Nat /\ channels'[1] = n
      /\ \A k \in 1 .. Len(channels) : channels'[k + 1] = channels[k]
  BY <1>2
<1>4. \A k \in 1 .. (Len(channels) + 1) :
        k = 1 \/ (k - 1 \in 1 .. Len(channels) /\ channels'[k] = channels[k - 1])
  <2> SUFFICES ASSUME NEW k \in 1 .. (Len(channels) + 1), k # 1
               PROVE  k - 1 \in 1 .. Len(channels) /\ channels'[k] = channels[k - 1]
    OBVIOUS
  <2>1. k - 1 \in 1 .. Len(channels) /\ (k - 1) + 1 = k
    BY <1>3
  <2> QED BY <1>3, <2>1
<1>5. ChannelsTyped'
  BY <1>1, <1>3, <1>4 DEF ChannelsTyped
<1> QED BY <1>1a, <1>3, <1>4, <1>5

\* When there was none, nobody moves.
LEMMA ChannelAdded ==
  ASSUME ChannelsTyped, Unique, NEW c \in Channels, ~is_already_chan(c), channels' = add_channel(c)
  PROVE  /\ Unique' /\ SameMembers
         /\ \A d \in Channels : is_already_chan(d)' <=> (is_already_chan(d) \/ d = c)
<1>1. /\ Len(channels) \in Nat
      /\ DOMAIN channels' = 1 .. (Len(channels) + 1) /\ DOMAIN channels = 1 .. Len(channels)
      /\ channels'[1].name = c /\ channels'[1].users = {}
      /\ \A k \in 1 .. Len(channels) : channels'[k + 1] = channels[k]
      /\ \A k \in 1 .. (Len(channels) + 1) :
           k = 1 \/ (k - 1 \in 1 .. Len(channels) /\ channels'[k] = channels[k - 1])
  BY ChannelPrepended
<1>2. Nodes(c) = {} /\ Nodes(c)' = {1}
  <2>1. Nodes(c) = {}
    BY DEF is_already_chan
  <2>2. \A k \in 1 .. Len(channels) : channels[k].name # c
    BY <1>1, <2>1 DEF Nodes
  <2>3. \A k \in DOMAIN channels' : channels'[k].name = c <=> k = 1
    BY <1>1, <2>2
  <2>4. 1 \in DOMAIN channels'
    BY <1>1
  <2>5. Nodes(c)' = {1}
    BY <2>3, <2>4 DEF Nodes
  <2> QED BY <2>1, <2>5
<1>3. ASSUME NEW d \in Channels, d # c
      PROVE  /\ \A k : k \in Nodes(d) => k + 1 \in Nodes(d)'
             /\ \A k : k \in Nodes(d)' => /\ k - 1 \in Nodes(d) /\ k \in Int
                                         /\ channels'[k] = channels[k - 1]
             /\ \A k \in Nodes(d) : k \in Int /\ channels'[k + 1] = channels[k]
  BY <1>1, <1>3 DEF Nodes
<1>4. Unique'
  <2> SUFFICES ASSUME NEW d \in Channels, NEW i \in Nodes(d)', NEW k \in Nodes(d)'
               PROVE  i = k
    BY DEF Unique
  <2>1. CASE d = c
    BY <1>2, <2>1
  <2>2. CASE d # c
    <3>1. i - 1 \in Nodes(d) /\ k - 1 \in Nodes(d) /\ i \in Int /\ k \in Int
      BY <1>3, <2>2
    <3>2. i - 1 = k - 1
      BY <3>1 DEF Unique
    <3> QED BY <3>1, <3>2
  <2> QED BY <2>1, <2>2
<1>5. ASSUME NEW u \in Users, NEW d \in Channels PROVE InChannel(u, d)' <=> InChannel(u, d)
  <2>1. CASE d = c
    BY <1>1, <1>2, <2>1 DEF InChannel
  <2>2. CASE d # c
    BY <1>3, <2>2 DEF InChannel
  <2> QED BY <2>1, <2>2
<1>6. ASSUME NEW d \in Channels PROVE is_already_chan(d)' <=> (is_already_chan(d) \/ d = c)
  <2>1. CASE d = c
    BY <1>2, <2>1 DEF is_already_chan
  <2>2. CASE d # c
    BY <1>3, <2>2 DEF is_already_chan
  <2> QED BY <2>1, <2>2
<1> QED BY <1>1, <1>4, <1>5, <1>6 DEF SameMembers

\* A node is cut out of the list.
LEMMA NodeCut ==
  ASSUME ChannelsTyped, NEW i \in 1 .. Len(channels), channels' = RemoveAt(channels, i)
  PROVE  /\ ChannelsTyped' /\ Len(channels) \in Nat
         /\ DOMAIN channels' = 1 .. (Len(channels) - 1) /\ DOMAIN channels = 1 .. Len(channels)
         /\ \A k \in 1 .. (Len(channels) - 1) :
              channels'[k] = IF k < i THEN channels[k] ELSE channels[k + 1]
<1>1. channels' = SubSeq(channels, 1, i - 1) \o SubSeq(channels, i + 1, Len(channels))
  BY DEF RemoveAt
<1>2. channels \in Seq(Node)
  BY DEF ChannelsTyped
<1>3. /\ channels' \in Seq(Node) /\ Len(channels') = Len(channels) - 1
      /\ DOMAIN channels' = 1 .. (Len(channels) - 1) /\ DOMAIN channels = 1 .. Len(channels)
      /\ Len(channels) \in Nat
      /\ \A k \in 1 .. (Len(channels) - 1) :
           channels'[k] = IF k < i THEN channels[k] ELSE channels[k + 1]
  <2>1. Len(channels) \in Nat /\ i \in Nat /\ i >= 1 /\ i <= Len(channels)
    BY <1>2
  <2>2. /\ SubSeq(channels, 1, i - 1) \in Seq(Node) /\ Len(SubSeq(channels, 1, i - 1)) = i - 1
        /\ \A k \in 1 .. (i - 1) : SubSeq(channels, 1, i - 1)[k] = channels[k]
    BY <1>2, <2>1
  <2>3. /\ SubSeq(channels, i + 1, Len(channels)) \in Seq(Node)
        /\ Len(SubSeq(channels, i + 1, Len(channels))) = Len(channels) - i
        /\ \A k \in 1 .. (Len(channels) - i) : SubSeq(channels, i + 1, Len(channels))[k] = channels[k + i]
    BY <1>2, <2>1
  <2> DEFINE a == SubSeq(channels, 1, i - 1)
             b == SubSeq(channels, i + 1, Len(channels))
  <2>4. /\ a \in Seq(Node) /\ b \in Seq(Node) /\ Len(a) = i - 1 /\ Len(b) = Len(channels) - i
        /\ channels' = a \o b
    BY <1>1, <2>2, <2>3
  <2>5. /\ \A k \in 1 .. (i - 1) : a[k] = channels[k]
        /\ \A k \in 1 .. (Len(channels) - i) : b[k] = channels[k + i]
    BY <2>2, <2>3
  <2> HIDE DEF a, b
  <2>6. /\ channels' \in Seq(Node) /\ Len(channels') = Len(channels) - 1
        /\ \A k \in 1 .. (Len(channels) - 1) : channels'[k] = IF k < i THEN a[k] ELSE b[k - (i - 1)]
    BY <2>1, <2>4
  <2>7. ASSUME NEW k \in 1 .. (Len(channels) - 1)
        PROVE  channels'[k] = IF k < i THEN channels[k] ELSE channels[k + 1]
    <3>1. CASE k < i
      BY <2>1, <2>5, <2>6, <3>1
    <3>2. CASE ~(k < i)
      <4>1. k - (i - 1) \in 1 .. (Len(channels) - i) /\ (k - (i - 1)) + i = k + 1
        BY <2>1, <3>2
      <4> QED BY <2>5, <2>6, <3>2, <4>1
    <3> QED BY <3>1, <3>2
  <2> QED BY <1>2, <2>1, <2>6, <2>7
<1>4. ChannelsTyped'
  <2>1. \A k \in 1 .. (Len(channels) - 1) : \E m \in 1 .. Len(channels) : channels'[k] = channels[m]
    BY <1>3
  <2> QED BY <1>3, <2>1 DEF ChannelsTyped
<1> QED BY <1>3, <1>4

\* remove_channel: everybody's membership of other channels stays.
LEMMA ChannelRemoved ==
  ASSUME ChannelsTyped, NEW c \in Channels, is_already_chan(c), channels' = remove_channel(c)
  PROVE  /\ ChannelsTyped'
         /\ Unique => /\ Unique'
                      /\ \A u \in Users, d \in Channels : InChannel(u, d)' <=> (d # c /\ InChannel(u, d))
                      /\ \A d \in Channels : d # c => (is_already_chan(d)' <=> is_already_chan(d))
<1>1. PICK i \in 1 .. Len(channels) : i = Min(Nodes(c)) /\ channels[i].name = c /\ (Unique => Nodes(c) = {i})
  BY FirstIsThere DEF is_already_chan
<1>2. channels' = RemoveAt(channels, i)
  BY <1>1 DEF remove_channel
<1>3. /\ ChannelsTyped' /\ Len(channels) \in Nat
      /\ DOMAIN channels' = 1 .. (Len(channels) - 1) /\ DOMAIN channels = 1 .. Len(channels)
      /\ \A k \in 1 .. (Len(channels) - 1) :
           channels'[k] = IF k < i THEN channels[k] ELSE channels[k + 1]
  BY <1>2, NodeCut
<1> SUFFICES ASSUME Unique
             PROVE  /\ Unique'
                    /\ \A u \in Users, d \in Channels : InChannel(u, d)' <=> (d # c /\ InChannel(u, d))
                    /\ \A d \in Channels : d # c => (is_already_chan(d)' <=> is_already_chan(d))
  BY <1>3
<1>4. Nodes(c) = {i}
  BY <1>1
<1> DEFINE Old(k) == IF k < i THEN k ELSE k + 1
           New(k) == IF k < i THEN k ELSE k - 1
<1>5. \A k \in 1 .. (Len(channels) - 1) :
        Old(k) \in 1 .. Len(channels) /\ Old(k) # i /\ channels'[k] = channels[Old(k)]
  <2> SUFFICES ASSUME NEW k \in 1 .. (Len(channels) - 1)
               PROVE  Old(k) \in 1 .. Len(channels) /\ Old(k) # i /\ channels'[k] = channels[Old(k)]
    OBVIOUS
  <2>1. Old(k) \in 1 .. Len(channels) /\ Old(k) # i
    BY <1>3
  <2>2. channels'[k] = IF k < i THEN channels[k] ELSE channels[k + 1]
    BY <1>3
  <2> QED BY <2>1, <2>2
<1>6. \A k \in 1 .. Len(channels) :
        k # i => New(k) \in 1 .. (Len(channels) - 1) /\ channels'[New(k)] = channels[k]
  <2> SUFFICES ASSUME NEW k \in 1 .. Len(channels), k # i
               PROVE  New(k) \in 1 .. (Len(channels) - 1) /\ channels'[New(k)] = channels[k]
    OBVIOUS
  <2>1. CASE k < i
    <3>1. k \in 1 .. (Len(channels) - 1)
      BY <1>1, <1>3, <2>1
    <3> QED BY <1>3, <2>1, <3>1
  <2>2. CASE ~(k < i)
    <3>1. k - 1 \in 1 .. (Len(channels) - 1) /\ ~(k - 1 < i) /\ (k - 1) + 1 = k
      BY <1>1, <1>3, <2>2
    <3> QED BY <1>3, <2>2, <3>1
  <2> QED BY <2>1, <2>2
<1>7. \A k, m \in 1 .. (Len(channels) - 1) : Old(k) = Old(m) => k = m
  BY <1>1
<1> HIDE DEF Old, New
<1>8. \A d \in Channels : \A k \in Nodes(d)' : /\ k \in 1 .. (Len(channels) - 1)
                                              /\ Old(k) \in Nodes(d) /\ d # c
  <2> SUFFICES ASSUME NEW d \in Channels, NEW k \in Nodes(d)'
               PROVE  k \in 1 .. (Len(channels) - 1) /\ Old(k) \in Nodes(d) /\ d # c
    OBVIOUS
  <2>1. k \in 1 .. (Len(channels) - 1) /\ channels'[k].name = d
    BY <1>3 DEF Nodes
  <2>2. Old(k) \in Nodes(d) /\ Old(k) # i
    BY <1>3, <1>5, <2>1 DEF Nodes
  <2> QED BY <1>1, <1>4, <2>1, <2>2
<1>9. \A d \in Channels : d # c => \A k \in Nodes(d) :
         /\ k \in 1 .. Len(channels) /\ k # i /\ New(k) \in Nodes(d)'
  <2> SUFFICES ASSUME NEW d \in Channels, d # c, NEW k \in Nodes(d)
               PROVE  k \in 1 .. Len(channels) /\ k # i /\ New(k) \in Nodes(d)'
    OBVIOUS
  <2>1. k \in 1 .. Len(channels) /\ channels[k].name = d /\ channels[i].name = c
    BY <1>1, <1>3, <1>4 DEF Nodes
  <2>2. k # i
    BY <2>1
  <2> QED BY <1>3, <1>6, <2>1, <2>2 DEF Nodes
<1>10. Unique'
  BY <1>7, <1>8 DEF Unique
<1>11. ASSUME NEW u \in Users, NEW d \in Channels PROVE InChannel(u, d)' <=> (d # c /\ InChannel(u, d))
  <2>1. InChannel(u, d)' => d # c /\ InChannel(u, d)
    BY <1>5, <1>8 DEF InChannel
  <2>2. d # c /\ InChannel(u, d) => InChannel(u, d)'
    BY <1>6, <1>9 DEF InChannel
  <2> QED BY <2>1, <2>2 DEF InChannel
<1>12. ASSUME NEW d \in Channels, d # c PROVE is_already_chan(d)' <=> is_already_chan(d)
  BY <1>8, <1>9, <1>12 DEF is_already_chan
<1> QED BY <1>10, <1>11, <1>12
\* What remove_chanUser and add_chanUser make of one node.
LEMMA NodeWithout ==
  ASSUME NEW was \in Node, GoodNode(was), NEW v \in Users
  PROVE  \E n : /\ n = [was EXCEPT !.users = @ \ {v}, !.ops = @ \ {v}, !.voices = @ \ {v}]
               /\ n.users = was.users \ {v} /\ GoodNode(n) /\ n.name = was.name
<1>1. PICK n : n = [was EXCEPT !.users = @ \ {v}, !.ops = @ \ {v}, !.voices = @ \ {v}]
  BY Zenon
<1>2. n.users = was.users \ {v} /\ GoodNode(n) /\ n.name = was.name
  BY <1>1 DEF Node, GoodNode
<1> QED BY <1>1, <1>2

LEMMA NodeWith ==
  ASSUME NEW was \in Node, GoodNode(was), NEW v \in Users
  PROVE  \E n : /\ n = [was EXCEPT !.users = was.users \cup {v},
                                   !.ops = IF was.users = {} THEN {v} ELSE @]
               /\ n.users = was.users \cup {v} /\ GoodNode(n) /\ n.name = was.name
<1>1. PICK n : n = [was EXCEPT !.users = was.users \cup {v},
                              !.ops = IF was.users = {} THEN {v} ELSE @]
  BY Zenon
<1>2. n.users = was.users \cup {v} /\ GoodNode(n) /\ n.name = was.name
  BY <1>1 DEF Node, GoodNode
<1> QED BY <1>1, <1>2

LEMMA NodeWithRest ==
  ASSUME NEW was \in Node, GoodNode(was), NEW rest \in SUBSET Users
  PROVE  \E n : /\ n = [was EXCEPT !.users = rest, !.ops = @ \cap rest, !.voices = @ \cap rest]
               /\ GoodNode(n) /\ n.name = was.name
<1>1. PICK n : n = [was EXCEPT !.users = rest, !.ops = @ \cap rest, !.voices = @ \cap rest]
  BY Zenon
<1>2. GoodNode(n) /\ n.name = was.name
  BY <1>1 DEF Node, GoodNode
<1> QED BY <1>1, <1>2

\* Nobody moves when the list stays.
LEMMA NodesKept ==
  ASSUME ChannelsTyped, UNCHANGED channels
  PROVE  ChannelsTyped' /\ SameNames /\ SameMembers /\ (Unique => Unique')
<1>1. \A d \in Channels : Nodes(d)' = Nodes(d)
  BY DEF Nodes
<1> QED BY <1>1 DEF ChannelsTyped, Unique, SameNames, SameMembers, is_already_chan, InChannel

\* remove_chanUser: out of one channel, with the flags there.
LEMMA UserRemoved ==
  ASSUME ChannelsTyped, NEW c \in Channels, NEW v \in Users, channels' = remove_chanUser(c, v)
  PROVE  /\ ChannelsTyped' /\ SameNames /\ (Unique => Unique')
         /\ Unique => \A u \in Users, d \in Channels :
                        InChannel(u, d)' <=> (InChannel(u, d) /\ ~(u = v /\ d = c))
<1> DEFINE found == {i \in Nodes(c) : channels[i].users = {} \/ v \in channels[i].users}
<1>1. CASE found = {}
  <2>1. channels' = channels
    BY <1>1 DEF remove_chanUser
  <2>2. ~InChannel(v, c)
    BY <1>1 DEF InChannel
  <2> QED BY <2>1, <2>2, NodesKept DEF SameMembers
<1>2. CASE found # {}
  <2>1. found \in SUBSET Nodes(c)
    OBVIOUS
  <2>2. PICK i \in Nodes(c) : /\ i = Min(found) /\ GoodNode(channels[i]) /\ channels[i].name = c
                              /\ Unique => Nodes(c) = {i}
    <3> HIDE DEF found
    <3> QED BY <1>2, <2>1, FirstIsThere
  <2>3. channels' = [channels EXCEPT ![i] =
                       [channels[i] EXCEPT !.users = @ \ {v}, !.ops = @ \ {v}, !.voices = @ \ {v}]]
    BY <1>2, <2>2 DEF remove_chanUser
  <2>4. PICK n : /\ n = [channels[i] EXCEPT !.users = @ \ {v}, !.ops = @ \ {v}, !.voices = @ \ {v}]
                 /\ n.users = channels[i].users \ {v} /\ GoodNode(n) /\ n.name = channels[i].name
    <3>1. channels[i] \in Node /\ GoodNode(channels[i])
      BY <2>2 DEF GoodNode
    <3> QED BY <3>1, NodeWithout, Zenon
  <2>5. channels' = [channels EXCEPT ![i] = n] /\ n.name = c
    BY <2>2, <2>3, <2>4, Zenon
  <2>6. n.users = channels[i].users \ {v} /\ GoodNode(n)
    BY <2>4, Zenon
  <2>7. /\ ChannelsTyped' /\ SameNames /\ (Unique => Unique')
        /\ \A u \in Users, d \in Channels : d # c => (InChannel(u, d)' <=> InChannel(u, d))
        /\ Unique => \A u \in Users : InChannel(u, c)' <=> u \in n.users
    BY <2>2, <2>5, <2>6, NodeReplaced
  <2>8. Unique => \A u \in Users : InChannel(u, c) <=> u \in channels[i].users
    BY <2>2 DEF InChannel
  <2> QED BY <2>6, <2>7, <2>8
<1> QED BY <1>1, <1>2

\* add_chanUser: into one channel, if there is one.
LEMMA UserAdded ==
  ASSUME ChannelsTyped, NEW c \in Channels, NEW v \in Users, channels' = add_chanUser(c, v)
  PROVE  /\ ChannelsTyped' /\ SameNames /\ (Unique => Unique')
         /\ Unique => \A u \in Users, d \in Channels :
                        InChannel(u, d)' <=> (InChannel(u, d) \/ (u = v /\ d = c /\ is_already_chan(c)))
<1> DEFINE free == {i \in Nodes(c) : v \notin channels[i].users}
<1>1. CASE free = {}
  <2>1. channels' = channels
    BY <1>1 DEF add_chanUser
  <2>2. is_already_chan(c) => InChannel(v, c)
    BY <1>1 DEF InChannel, is_already_chan
  <2> QED BY <2>1, <2>2, NodesKept DEF SameMembers
<1>2. CASE free # {}
  <2>1. free \in SUBSET Nodes(c)
    OBVIOUS
  <2>2. PICK i \in Nodes(c) : /\ i = Min(free) /\ GoodNode(channels[i]) /\ channels[i].name = c
                              /\ Unique => Nodes(c) = {i}
    <3> HIDE DEF free
    <3> QED BY <1>2, <2>1, FirstIsThere
  <2>3. channels' = [channels EXCEPT ![i] =
                       [channels[i] EXCEPT !.users = channels[i].users \cup {v},
                                 !.ops = IF channels[i].users = {} THEN {v} ELSE @]]
    BY <1>2, <2>2 DEF add_chanUser
  <2>4. PICK n : /\ n = [channels[i] EXCEPT !.users = channels[i].users \cup {v},
                                           !.ops = IF channels[i].users = {} THEN {v} ELSE @]
                 /\ n.users = channels[i].users \cup {v} /\ GoodNode(n) /\ n.name = channels[i].name
    <3>1. channels[i] \in Node /\ GoodNode(channels[i])
      BY <2>2 DEF GoodNode
    <3> QED BY <3>1, NodeWith, Zenon
  <2>5. channels' = [channels EXCEPT ![i] = n] /\ n.name = c
    BY <2>2, <2>3, <2>4, Zenon
  <2>6. n.users = channels[i].users \cup {v} /\ GoodNode(n)
    BY <2>4, Zenon
  <2>7. /\ ChannelsTyped' /\ SameNames /\ (Unique => Unique')
        /\ \A u \in Users, d \in Channels : d # c => (InChannel(u, d)' <=> InChannel(u, d))
        /\ Unique => \A u \in Users : InChannel(u, c)' <=> u \in n.users
    BY <2>2, <2>5, <2>6, NodeReplaced
  <2>8. (Unique => \A u \in Users : InChannel(u, c) <=> u \in channels[i].users) /\ is_already_chan(c)
    BY <2>2 DEF InChannel, is_already_chan
  <2> QED BY <2>6, <2>7, <2>8
<1> QED BY <1>1, <1>2

\* A splice tears at most its own channel, and of a torn list it keeps the type.
LEMMA Spliced ==
  ASSUME ListsTyped, ThreadsTyped, NEW t \in Users, NEW c \in Channels, NEW u \in Users, NEW changed,
         Splice(t, c, u, changed),
         channels' = changed => ChannelsTyped' /\ SameNames /\ (Unique => Unique')
  PROVE  /\ ChannelsTyped' /\ SameNames /\ (Unique => Unique')
         /\ torn \subseteq torn' /\ torn' \subseteq Channels
         /\ c \notin torn => channels' = changed
         /\ c \in torn => \A v \in Users, d \in Channels : d # c => (InChannel(v, d)' <=> InChannel(v, d))
<1>1. torn \subseteq torn' /\ torn' \subseteq Channels
  BY DEF Splice, ListsTyped
<1>2. CASE c \notin torn
  BY <1>1, <1>2 DEF Splice
<1>3. CASE c \in torn
  <2>1. channels' \in Rests(t, c, u)
    BY <1>3 DEF Splice
  <2>2. ChannelsTyped
    BY DEF ListsTyped
  <2>3. CASE ~is_already_chan(c)
    <3>1. channels' = channels
      BY <2>1, <2>3 DEF Rests
    <3> QED BY <1>1, <1>3, <2>2, <3>1, NodesKept DEF SameMembers
  <2>4. CASE is_already_chan(c)
    <3>1. get_users_on_channel(c) \cup local[t].saw \cup {u} \in SUBSET Users
      BY <2>2, UsersOn DEF ThreadsTyped, Memory
    <3>2. PICK rest \in SUBSET Users :
            channels' = WithFirst(c, [First(c) EXCEPT !.users = rest, !.ops = @ \cap rest, !.voices = @ \cap rest])
      BY <2>1, <2>4, <3>1, Zenon DEF Rests
    <3>3. First(c) \in Node /\ GoodNode(First(c)) /\ First(c).name = c
      BY <2>2, <2>4, FirstNode DEF GoodNode
    <3>4. PICK n : /\ n = [First(c) EXCEPT !.users = rest, !.ops = @ \cap rest, !.voices = @ \cap rest]
                   /\ GoodNode(n) /\ n.name = First(c).name
      BY <3>3, NodeWithRest, Zenon
    <3>5. channels' = [channels EXCEPT ![Min(Nodes(c))] = n] /\ GoodNode(n) /\ n.name = c
      BY <3>2, <3>3, <3>4, Zenon DEF WithFirst
    <3>6. Min(Nodes(c)) \in Nodes(c)
      BY <2>2, <2>4, FirstIsThere DEF is_already_chan
    <3> QED BY <1>1, <1>3, <2>2, <3>5, <3>6, NodeReplaced
  <2> QED BY <2>3, <2>4
<1> QED BY <1>2, <1>3

LEMMA RemovalSpliced ==
  ASSUME ListsTyped, ThreadsTyped, NEW t \in Users, NEW c \in Channels, NEW v \in Users,
         Splice(t, c, v, remove_chanUser(c, v))
  PROVE  /\ ChannelsTyped' /\ SameNames /\ (Unique => Unique')
         /\ torn \subseteq torn' /\ torn' \subseteq Channels
         /\ Unique => \A u \in Users, d \in Channels \ torn :
                        InChannel(u, d)' <=> (InChannel(u, d) /\ ~(u = v /\ d = c))
<1>1. channels' = remove_chanUser(c, v) =>
        /\ ChannelsTyped' /\ SameNames /\ (Unique => Unique')
        /\ Unique => \A u \in Users, d \in Channels :
                       InChannel(u, d)' <=> (InChannel(u, d) /\ ~(u = v /\ d = c))
  BY UserRemoved DEF ListsTyped
<1>2. /\ ChannelsTyped' /\ SameNames /\ (Unique => Unique')
      /\ torn \subseteq torn' /\ torn' \subseteq Channels
      /\ c \notin torn => channels' = remove_chanUser(c, v)
      /\ c \in torn => \A u \in Users, d \in Channels : d # c => (InChannel(u, d)' <=> InChannel(u, d))
  BY <1>1, Spliced
<1> QED BY <1>1, <1>2

LEMMA AdditionSpliced ==
  ASSUME ListsTyped, ThreadsTyped, NEW t \in Users, NEW c \in Channels, NEW v \in Users,
         Splice(t, c, v, add_chanUser(c, v))
  PROVE  /\ ChannelsTyped' /\ SameNames /\ (Unique => Unique')
         /\ torn \subseteq torn' /\ torn' \subseteq Channels
         /\ Unique => \A u \in Users, d \in Channels \ torn :
                        InChannel(u, d)' <=> (InChannel(u, d) \/ (u = v /\ d = c /\ is_already_chan(c)))
<1>1. channels' = add_chanUser(c, v) =>
        /\ ChannelsTyped' /\ SameNames /\ (Unique => Unique')
        /\ Unique => \A u \in Users, d \in Channels :
                       InChannel(u, d)' <=> (InChannel(u, d) \/ (u = v /\ d = c /\ is_already_chan(c)))
  BY UserAdded DEF ListsTyped
<1>2. /\ ChannelsTyped' /\ SameNames /\ (Unique => Unique')
      /\ torn \subseteq torn' /\ torn' \subseteq Channels
      /\ c \notin torn => channels' = add_chanUser(c, v)
      /\ c \in torn => \A u \in Users, d \in Channels : d # c => (InChannel(u, d)' <=> InChannel(u, d))
  BY <1>1, Spliced
<1> QED BY <1>1, <1>2

-----------------------------------------------------------------------------
(* What a step of one thread does to the invariant.                         *)

\* Thread t moves to p with memory l.
Moves(t, p, l) ==
  /\ p \in Stages /\ l \in Memory
  /\ pc' = [pc EXCEPT ![t] = p] /\ local' = [local EXCEPT ![t] = l]

LEMMA Moved ==
  ASSUME Typed, NEW t \in Users, NEW p, NEW l, Moves(t, p, l)
  PROVE  /\ ThreadsTyped' /\ pc'[t] = p /\ local'[t] = l
         /\ \A u \in Users : u # t => pc'[u] = pc[u] /\ local'[u] = local[u]
  BY DEF Moves, Typed, ThreadsTyped

LEMMA TypedStep ==
  ASSUME Typed, NEW t \in Users, NEW p, NEW l, Moves(t, p, l), PlanOK(p, l), ListsTyped'
  PROVE  Typed'
<1>1. /\ ThreadsTyped' /\ pc'[t] = p /\ local'[t] = l
      /\ \A u \in Users : u # t => pc'[u] = pc[u] /\ local'[u] = local[u]
  BY Moved
<1>2. ASSUME NEW u \in Users PROVE PlanOK(pc[u], local[u])'
  BY <1>1 DEF Typed, PlanOK, Purging
<1> QED BY <1>1, <1>2 DEF Typed

LEMMA Remembered ==
  ASSUME Typed, NEW t \in Users
  PROVE  /\ local[t] \in Memory /\ local[t].chan \in Channels /\ local[t].at \in Channels
         /\ local[t].member \in Users \cup {NoUser} /\ PlanOK(pc[t], local[t])
         /\ ~Purging(pc[t]) => local[t].victim = NoUser
         /\ Purging(pc[t]) => local[t].victim \in Users
         /\ pc[t] # "relay" /\ ~Purging(pc[t]) => local[t].after = "read"
  BY DEF Typed, ThreadsTyped, PlanOK, Memory

\* What StandsOK says after the step, of the stage and the memory it has led to.
LEMMA Standing ==
  ASSUME NEW t \in Users, NEW p, NEW l, l \in Memory, pc'[t] = p, local'[t] = l, StandsOK(t, p, l)'
  PROVE  StandsOK(t, pc[t], local[t])'
<1>1. l.chan \in Channels
  BY DEF Memory
<1>2. PICK c \in Channels : c = l.chan /\ c = local'[t].chan
  BY <1>1
<1>3. /\ is_already_chan(l.chan)' <=> is_already_chan(c)'
      /\ is_already_chan(local[t].chan)' <=> is_already_chan(c)'
      /\ InChannel(t, l.chan)' <=> InChannel(t, c)'
      /\ InChannel(t, local[t].chan)' <=> InChannel(t, c)'
  BY <1>2 DEF is_already_chan, InChannel, Nodes
<1>4. /\ InSection(p, l)' <=> InSection(pc[t], local[t])'
      /\ Entering(p, l)' <=> Entering(pc[t], local[t])'
      /\ Quitting(p, l)' <=> Quitting(pc[t], local[t])'
      /\ Purging(p)' <=> Purging(pc[t])'
  BY DEF InSection, Entering, Quitting, Purging
<1>5. /\ OnlyIn(l.victim, l.purge)' <=> OnlyIn(local[t].victim, local[t].purge)'
      /\ OnlyIn(t, l.left)' <=> OnlyIn(t, local[t].left)'
  BY DEF OnlyIn, InChannel, Nodes
<1> QED BY <1>2, <1>3, <1>4, <1>5 DEF StandsOK

\* What a step of another thread may do: take somebody out of the list of clients or of a
\* channel, enter a channel itself, and take lock2 if it is free.
LEMMA Bystander ==
  ASSUME Typed, NEW u \in Users, pc'[u] = pc[u], local'[u] = local[u],
         StandsOK(u, pc[u], local[u]), KnowsItsChannels(u),
         torn \subseteq torn', late \subseteq late',
         u \in clients' => u \in clients /\ names'[u].chans = names[u].chans,
         u \in clients \ clients' => OnlyIn(u, {})',
         \A c \in Channels \ torn' : InChannel(u, c)' => InChannel(u, c),
         Purging(pc[u]) =>
           \A c \in Channels \ torn' :
             InChannel(local[u].victim, c)' => InChannel(local[u].victim, c) \/ local[u].victim \in late',
         lock2 = u => lock2' = u /\ SameNames
  PROVE  StandsOK(u, pc[u], local[u])' /\ KnowsItsChannels(u)'
<1>1. PICK l \in Memory, p \in Stages : l = local[u] /\ p = pc[u]
  BY DEF Typed, ThreadsTyped
<1>2. PICK c \in Channels : c = l.chan
  BY <1>1 DEF Memory
<1>3. StandsOK(u, p, l)
  BY <1>1
<1>4. InSection(p, l) => lock2 = u /\ lock2' = u /\ (is_already_chan(c)' <=> is_already_chan(c))
  BY <1>3 DEF StandsOK, SameNames
<1>5. Entering(p, l) \/ p = "join_add" => InSection(p, l)
  BY DEF InSection
<1>6. p \in {"join_look", "join_user"} /\ u \in clients' => c \in names'[u].chans
  BY <1>2, <1>3 DEF StandsOK
<1>7. p = "part_end" /\ c \notin torn' => ~InChannel(u, c)'
  BY <1>2, <1>3 DEF StandsOK
<1>8. Purging(p) => OnlyIn(l.victim, l.purge)'
  <2> SUFFICES ASSUME Purging(p), NEW d \in Channels \ torn', InChannel(l.victim, d)'
               PROVE  d \in l.purge \/ l.victim \in late'
    BY DEF OnlyIn
  <2>1. d \in Channels \ torn
    OBVIOUS
  <2>2. InChannel(l.victim, d) \/ l.victim \in late'
    <3>1. InChannel(local[u].victim, d)'
      BY <1>1 DEF InChannel, Nodes
    <3>2. InChannel(local[u].victim, d) \/ local[u].victim \in late'
      BY <1>1, <3>1
    <3> QED BY <1>1, <3>2
  <2> QED BY <1>3, <2>1, <2>2 DEF StandsOK, OnlyIn
<1>9. Quitting(p, l) => OnlyIn(u, l.left)'
  BY <1>3 DEF StandsOK, OnlyIn
<1>10. StandsOK(u, p, l)'
  <2>1. Entering(p, l) => is_already_chan(c)'
    BY <1>2, <1>3, <1>4, <1>5 DEF StandsOK
  <2>2. p = "join_add" => ~is_already_chan(c)'
    BY <1>2, <1>3, <1>4, <1>5 DEF StandsOK
  <2> QED BY <1>2, <1>4, <1>6, <1>7, <1>8, <1>9, <2>1, <2>2 DEF StandsOK, Entering, InSection, Purging, Quitting
<1>11. KnowsItsChannels(u)'
  <2> SUFFICES ASSUME NEW d \in Channels \ torn', InChannel(u, d)'
               PROVE  (d \in names'[u].chans /\ u \in clients') \/ u \in late'
    BY DEF KnowsItsChannels, OnlyIn
  <2>1. (d \in names[u].chans /\ u \in clients) \/ u \in late
    BY DEF KnowsItsChannels, OnlyIn
  <2>2. CASE u \in clients \ clients'
    BY <2>2 DEF OnlyIn
  <2> QED BY <2>1, <2>2
<1>12. pc'[u] = p /\ local'[u] = l
  BY <1>1
<1> QED BY <1>10, <1>11, <1>12, Standing

\* Who is being taken out still is, unless the one who does it stops.
LEMMA StillLeaves ==
  ASSUME Typed, NEW t \in Users, NEW p, NEW l, Moves(t, p, l), NEW u \in Users, Leaves(u),
         Purging(pc[t]) /\ local[t].victim = u => Purging(p) /\ l.victim = u,
         u = t /\ Quitting(pc[t], local[t]) => Quitting(p, l)
  PROVE  Leaves(u)'
<1>1. /\ pc'[t] = p /\ local'[t] = l
      /\ \A v \in Users : v # t => pc'[v] = pc[v] /\ local'[v] = local[v]
  BY Moved
<1>2. CASE Quitting(pc[u], local[u])
  BY <1>1, <1>2 DEF Leaves, Quitting
<1>3. CASE \E v \in Users : Purging(pc[v]) /\ local[v].victim = u
  <2>1. PICK v \in Users : Purging(pc[v]) /\ local[v].victim = u
    BY <1>3
  <2>2. Purging(pc'[v]) /\ local'[v].victim = u
    BY <1>1, <2>1
  <2> QED BY <2>2 DEF Leaves, Purging
<1> QED BY <1>2, <1>3 DEF Leaves, Purging, Quitting

\* The rest of the invariant after a step of t that may change the lists.
LEMMA Change ==
  ASSUME Typed, Unique, \A u \in Users : Agrees(u),
         NEW t \in Users, NEW p, NEW l, Moves(t, p, l),
         torn \subseteq torn', late \subseteq late', late' \subseteq late \cup {t}, clients' \subseteq clients,
         \A u \in Users \ {t} : u \in clients' => names'[u].chans = names[u].chans,
         \A u \in Users \ {t} : lock2 = u => lock2' = u /\ SameNames,
         \A u \in Users : u \in clients \ clients' => OnlyIn(u, {})',
         \A u \in Users \ {t}, c \in Channels \ torn' : InChannel(u, c)' => InChannel(u, c),
         \A c \in Channels \ torn' : InChannel(t, c)' => InChannel(t, c) \/ t \in late' \/ ~Removed(t),
         \A u \in Users \ {t}, c \in Channels \ torn' : InChannel(u, c) => InChannel(u, c)' \/ Leaves(u)',
         Purging(pc[t]) => \/ Purging(p) /\ l.victim = local[t].victim
                           \/ local[t].victim \notin clients',
         t \in clients' /\ Quitting(pc[t], local[t]) => Quitting(p, l),
         StandsOK(t, p, l)', KnowsItsChannels(t)', IsInItsChannels(t)', t \in late' \ late => Removed(t)
  PROVE  \A u \in Users : Agrees(u)'
<1>1. /\ pc'[t] = p /\ local'[t] = l /\ l \in Memory
      /\ \A u \in Users : u # t => pc'[u] = pc[u] /\ local'[u] = local[u]
  <2>1. l \in Memory
    BY DEF Moves
  <2> QED BY <2>1, Moved
<1>2. \A u \in Users : /\ StandsOK(u, pc[u], local[u]) /\ KnowsItsChannels(u)
                       /\ IsInItsChannels(u) /\ LateIsOut(u)
  BY DEF Agrees
<1>3. ASSUME NEW u \in Users, u # t
      PROVE  StandsOK(u, pc[u], local[u])' /\ KnowsItsChannels(u)'
  <2>1. u \in clients' => u \in clients /\ names'[u].chans = names[u].chans
    BY <1>3
  <2>2. Purging(pc[u]) =>
          \A c \in Channels \ torn' :
            InChannel(local[u].victim, c)' => InChannel(local[u].victim, c) \/ local[u].victim \in late'
    <3> SUFFICES ASSUME Purging(pc[u]), NEW c \in Channels \ torn', InChannel(local[u].victim, c)'
                 PROVE  InChannel(local[u].victim, c) \/ local[u].victim \in late'
      OBVIOUS
    <3>1. PICK v \in Users : v = local[u].victim
      BY Remembered
    <3>2. InChannel(v, c)'
      <4>1. v = local'[u].victim
        BY <1>1, <1>3, <3>1
      <4> QED BY <4>1 DEF InChannel, Nodes
    <3>3. v = t => Removed(t)
      BY <3>1 DEF Removed, Purging
    <3>4. InChannel(v, c) \/ v \in late'
      BY <3>2, <3>3
    <3> QED BY <3>1, <3>4
  <2>3. /\ u \in clients \ clients' => OnlyIn(u, {})'
        /\ \A c \in Channels \ torn' : InChannel(u, c)' => InChannel(u, c)
        /\ lock2 = u => lock2' = u /\ SameNames
    BY <1>3
  <2>4. pc'[u] = pc[u] /\ local'[u] = local[u]
    BY <1>1, <1>3
  <2> QED BY <1>2, <2>1, <2>2, <2>3, <2>4, Bystander
<1>4. ASSUME NEW u \in Users, u \in clients', Leaves(u) PROVE Leaves(u)'
  <2>1. Purging(pc[t]) /\ local[t].victim = u => Purging(p) /\ l.victim = u
    BY <1>4
  <2> QED BY <1>4, <2>1, StillLeaves
<1>5. ASSUME NEW u \in Users PROVE LateIsOut(u)'
  <2> SUFFICES ASSUME u \in late', u \in clients' PROVE Leaves(u)'
    BY DEF LateIsOut
  <2>1. CASE u \in late
    BY <1>2, <1>4, <2>1 DEF LateIsOut
  <2>2. CASE u \notin late
    <3>1. Leaves(u)
      BY <2>2 DEF Removed, Leaves
    <3> QED BY <1>4, <3>1
  <2> QED BY <2>1, <2>2
<1>6. ASSUME NEW u \in Users, u # t PROVE IsInItsChannels(u)'
  <2> SUFFICES ASSUME u \in clients', ~Leaves(u)', NEW c \in names'[u].chans \ torn'
               PROVE  \/ InChannel(u, c)'
                      \/ pc'[u] \in {"join_look", "join_user", "part_end"} /\ c = local'[u].chan
    BY DEF IsInItsChannels
  <2>1. u \in clients /\ ~Leaves(u) /\ c \in names[u].chans \ torn /\ c \in Channels
    <3>1. names[u].chans \in SUBSET Channels
      BY DEF Typed, ListsTyped, Entry
    <3> QED BY <1>4, <1>6, <3>1
  <2>2. InChannel(u, c) \/ (pc[u] \in {"join_look", "join_user", "part_end"} /\ c = local[u].chan)
    BY <1>2, <2>1 DEF IsInItsChannels
  <2> QED BY <1>1, <1>6, <2>1, <2>2
<1>7. StandsOK(t, pc[t], local[t])'
  BY <1>1, Standing
<1> QED BY <1>3, <1>5, <1>6, <1>7 DEF Agrees

\* Steps of t after which everybody is in the same channels, in both kinds of list.
Quiet(t) ==
  /\ clients' = clients /\ torn' = torn /\ late' = late
  /\ ListsTyped'
  /\ \A u \in Users : names'[u].chans = names[u].chans
  /\ intruded => intruded'
  /\ ~intruded' /\ Unique =>
       /\ Unique' /\ SameMembers
       /\ lock2 = t \/ SameNames
       /\ \A u \in Users \ {t} : lock2 = u => lock2' = u

\* Half-way into a channel, or out of it.
HalfWay(p) == p \in {"join_look", "join_user", "part_end"}

\* A quiet step, and where it may take t.
LEMMA QuietStep ==
  ASSUME Inv, NEW t \in Users, NEW p, NEW l, Moves(t, p, l), Quiet(t), PlanOK(p, l),
         Purging(pc[t]) => Purging(p) /\ l.victim = local[t].victim,
         Quitting(pc[t], local[t]) => Quitting(p, l),
         HalfWay(pc[t]) => HalfWay(p) /\ l.chan = local[t].chan,
         ~intruded' /\ Unique /\ Agrees(t) => StandsOK(t, p, l)'
  PROVE  Inv'
<1>1. /\ pc'[t] = p /\ local'[t] = l /\ l \in Memory
      /\ \A u \in Users : u # t => pc'[u] = pc[u] /\ local'[u] = local[u]
  BY Moved DEF Inv, Moves
<1>2. Typed'
  BY TypedStep DEF Inv, Quiet
<1> SUFFICES ASSUME ~intruded' PROVE Unique' /\ \A u \in Users : Agrees(u)'
  BY <1>2 DEF Inv
<1>3. /\ Typed /\ Unique /\ \A u \in Users : Agrees(u)
  BY DEF Inv, Quiet
<1>4. /\ clients' = clients /\ torn' = torn /\ late' = late /\ Unique'
      /\ \A u \in Users : names'[u].chans = names[u].chans
      /\ \A u \in Users, c \in Channels : InChannel(u, c)' <=> InChannel(u, c)
      /\ \A u \in Users \ {t} : lock2 = u => lock2' = u /\ SameNames
  BY <1>3 DEF Quiet, SameMembers
<1>5. KnowsItsChannels(t)'
  BY <1>3, <1>4 DEF Agrees, KnowsItsChannels, OnlyIn
<1>6. IsInItsChannels(t)'
  <2> SUFFICES ASSUME t \in clients', ~Leaves(t)', NEW c \in names'[t].chans \ torn'
               PROVE  InChannel(t, c)' \/ (HalfWay(pc'[t]) /\ c = local'[t].chan)
    BY DEF IsInItsChannels, HalfWay
  <2>1. ~Leaves(t)
    BY <1>3, StillLeaves
  <2>2. c \in names[t].chans \ torn /\ c \in Channels
    <3>1. names[t].chans \in SUBSET Channels
      BY <1>3 DEF Typed, ListsTyped, Entry
    <3> QED BY <1>4, <3>1
  <2>3. InChannel(t, c) \/ (HalfWay(pc[t]) /\ c = local[t].chan)
    BY <1>3, <1>4, <2>1, <2>2 DEF Agrees, IsInItsChannels, HalfWay
  <2> QED BY <1>1, <1>4, <2>2, <2>3
<1>7. StandsOK(t, p, l)'
  BY <1>3
<1>8. /\ \A u \in Users : u \notin clients \ clients'
      /\ torn \subseteq torn' /\ clients' \subseteq clients
       /\ late \subseteq late' /\ late' \subseteq late \cup {t}
      /\ t \notin late' \ late
  BY <1>4
<1> HIDE DEF Inv
<1> QED BY <1>3, <1>4, <1>5, <1>6, <1>7, <1>8, Change

\* Most commands go from one stage that is neither a relay, nor a departure, nor in a section
\* that changes the lists, to another.
Busy ==
  {"relay", "purge", "purge_splice", "quit_leave", "quit_splice", "join_add", "join_name", "join_look",
   "join_user", "part_splice", "part_end"}
Plain == Stages \ Busy

LEMMA PlainStep ==
  ASSUME Inv, NEW t \in Users, NEW p \in Plain, NEW l, Moves(t, p, l), Quiet(t), pc[t] \notin Busy,
         l.victim = NoUser, l.after = "read"
  PROVE  Inv'
<1>1. ~Quitting(pc[t], local[t]) /\ ~Purging(pc[t]) /\ ~HalfWay(pc[t])
  BY Remembered DEF Quitting, Purging, HalfWay, Busy, Inv
<1>2. ~Quitting(p, l) /\ ~Entering(p, l) /\ ~InSection(p, l) /\ ~Purging(p)
  BY DEF Quitting, Entering, InSection, Purging, Plain, Busy
<1>3. PlanOK(p, l) /\ StandsOK(t, p, l)'
  <2>1. p \notin {"join_add", "join_look", "join_user", "part_splice", "part_end"}
    BY DEF Plain, Busy
  <2>2. (Quitting(p, l) \/ Entering(p, l) \/ InSection(p, l) \/ Purging(p))' =
           (Quitting(p, l) \/ Entering(p, l) \/ InSection(p, l) \/ Purging(p))
    BY DEF Quitting, Entering, InSection, Purging
  <2> QED BY <1>2, <2>1, <2>2 DEF PlanOK, StandsOK
<1> QED BY <1>1, <1>3, QuietStep

\* Go: what the command said is kept, or forgotten.
LEMMA Gone ==
  ASSUME Typed, NEW t \in Users, NEW p \in Stages, Go(t, p)
  PROVE  \E l \in {Idle, local[t]} :
           /\ Moves(t, p, l)
           /\ p \notin {"read", "reply", "names_end", "mode_reply", "gone", "stuck", "ended"} => l = local[t]
           /\ p \in {"read", "reply", "names_end", "mode_reply", "gone", "stuck", "ended"} => l = Idle
<1>1. Idle \in Memory /\ local \in [Users -> Memory] /\ pc' = [pc EXCEPT ![t] = p]
  BY IdleMemory DEF Typed, ThreadsTyped, Go, Jump
<1>2. CASE p \in {"read", "reply", "names_end", "mode_reply", "gone", "stuck", "ended"}
  <2>1. Moves(t, p, Idle)
    BY <1>1, <1>2 DEF Go, Moves
  <2> QED BY <1>2, <2>1
<1>3. CASE p \notin {"read", "reply", "names_end", "mode_reply", "gone", "stuck", "ended"}
  <2>1. local' = local
    BY <1>3 DEF Go
  <2>2. local' = [local EXCEPT ![t] = local[t]]
    BY <1>1, <2>1
  <2>3. Moves(t, p, local[t])
    BY <1>1, <2>2 DEF Moves
  <2> QED BY <1>3, <2>3
<1> QED BY <1>2, <1>3

LEMMA PlainGo ==
  ASSUME Inv, NEW t \in Users, NEW p \in Plain, Go(t, p), Quiet(t), pc[t] \notin Busy
  PROVE  Inv'
<1>1. PICK l \in {Idle, local[t]} : Moves(t, p, l)
  BY Gone DEF Plain, Inv
<1>2. l.victim = NoUser /\ l.after = "read"
  BY <1>1, IdleMemory, Remembered DEF Inv, Busy, Purging
<1> QED BY <1>1, <1>2, PlainStep

\* A step that touches none of the lists.
LEMMA Untouched ==
  ASSUME Inv, NEW t \in Users, UNCHANGED <<lists, lock2, env, flags>>
  PROVE  Quiet(t)
<1>1. ChannelsTyped' /\ SameNames /\ SameMembers /\ (Unique => Unique')
  BY NodesKept DEF Inv, Typed, ListsTyped, lists
<1>2. ListsTyped'
  BY <1>1 DEF Inv, Typed, ListsTyped, lists, env, flags, marks
<1> QED BY <1>1, <1>2 DEF Quiet, lists, env, flags, marks

\* A section under lock2 that changes nothing.
LEMMA LockTaken ==
  ASSUME Inv, NEW t \in Users, lock2 = NoUser, lock2' = t, UNCHANGED <<lists, env, flags>>
  PROVE  Quiet(t)
<1>1. ChannelsTyped' /\ SameNames /\ SameMembers /\ (Unique => Unique')
  BY NodesKept DEF Inv, Typed, ListsTyped, lists
<1>2. ListsTyped'
  BY <1>1 DEF Inv, Typed, ListsTyped, lists, env, flags, marks
<1>3. \A u \in Users \ {t} : lock2 # u
  BY ConstantsAssumption
<1> QED BY <1>1, <1>2, <1>3 DEF Quiet, lists, env, flags, marks

\* An unlock tells whether it has hit somebody else.
LEMMA LockReleased ==
  ASSUME Inv, NEW t \in Users, Unlock(t), UNCHANGED <<lists, env, marks>>
  PROVE  Quiet(t)
<1>1. ChannelsTyped' /\ SameNames /\ SameMembers /\ (Unique => Unique')
  BY NodesKept DEF Inv, Typed, ListsTyped, lists
<1>2. ListsTyped'
  BY <1>1 DEF Inv, Typed, ListsTyped, lists, env, marks, Unlock
<1>3. (intruded => intruded') /\ \A u \in Users \ {t} : lock2 = u => intruded'
  BY ConstantsAssumption DEF Unlock
<1> QED BY <1>1, <1>2, <1>3 DEF Quiet, lists, env, marks

\* What such a step leaves as it was.
LEMMA Unmoved ==
  ASSUME UNCHANGED <<lists, flags>>
  PROVE  /\ \A c : is_already_chan(c)' <=> is_already_chan(c)
         /\ \A u, c : InChannel(u, c)' <=> InChannel(u, c)
         /\ \A u, S : OnlyIn(u, S)' <=> OnlyIn(u, S)
  BY DEF lists, flags, marks, is_already_chan, InChannel, OnlyIn, Nodes

\* StartRelay from one of the other stages.
LEMMA RelayStep ==
  ASSUME Inv, NEW t \in Users, NEW c \in Channels, NEW R \in SUBSET Users, NEW after \in Afters,
         StartRelay(t, c, R, after), Quiet(t), after # "quit_leave", pc[t] \notin Busy,
         after = "join_name" /\ ~intruded' => lock2' = t /\ is_already_chan(c)'
  PROVE  Inv'
<1>1. local[t] \in Memory /\ local[t].victim = NoUser /\ local[t].after = "read"
  BY Remembered DEF Inv, Busy, Purging
<1>2. PICK was \in Memory : was = local[t]
  BY <1>1
<1>3. PICK l : l = [was EXCEPT !.chan = c, !.todo = R, !.after = after]
  BY Zenon
<1>4. l \in Memory /\ l.chan = c /\ l.after = after /\ l.victim = was.victim
  BY <1>3 DEF Memory
<1>5. Moves(t, "relay", l)
  <2>1. "relay" \in Stages /\ l \in Memory
    BY <1>4 DEF Stages
  <2>2. pc' = [pc EXCEPT ![t] = "relay"] /\ local' = [local EXCEPT ![t] = l]
    BY <1>2, <1>3, Zenon DEF StartRelay, Jump, Remember
  <2> QED BY <2>1, <2>2 DEF Moves
<1>6. l.victim = NoUser
  BY <1>1, <1>2, <1>4
<1>7. ~Quitting(pc[t], local[t]) /\ ~Purging(pc[t]) /\ ~HalfWay(pc[t])
  BY <1>1 DEF Quitting, Purging, HalfWay, Busy
<1>8. PlanOK("relay", l)
  BY <1>6 DEF PlanOK, Purging
<1>9. ~intruded' => StandsOK(t, "relay", l)'
  <2>1. is_already_chan(l.chan)' <=> is_already_chan(c)'
    BY <1>4 DEF is_already_chan, Nodes
  <2> QED BY <1>4, <2>1 DEF StandsOK, InSection, Entering, Purging, Quitting
<1> HIDE DEF Inv
<1> QED BY <1>5, <1>7, <1>8, <1>9, QuietStep

\* StartPurge.
LEMMA PurgeStep ==
  ASSUME Inv, NEW t \in Users, NEW v \in Users, NEW closes \in Users, NEW back \in Backs,
         StartPurge(t, v, closes, back), UNCHANGED <<lists, lock2, env, flags>>,
         pc[t] \notin Busy \/ (pc[t] = "relay" /\ back = "relay"),
         pc[t] # "relay" => back # "relay"
  PROVE  Inv'
<1>1. /\ local[t] \in Memory /\ names[v].chans \in SUBSET Channels
      /\ pc[t] # "relay" => local[t].after = "read"
  BY Remembered DEF Inv, Typed, ListsTyped, Entry, Busy, Purging
<1>2. PICK was \in Memory, S \in SUBSET Channels : was = local[t] /\ S = names[v].chans
  BY <1>1
<1>3. PICK l : l = [was EXCEPT !.victim = v, !.purge = S, !.closes = closes, !.todo = @ \ {v}, !.back = back]
  BY Zenon
<1>4. /\ l \in Memory
      /\ l.victim = v /\ l.purge = S /\ l.closes = closes /\ l.back = back
      /\ l.chan = was.chan /\ l.after = was.after /\ l.left = was.left
  BY <1>3 DEF Memory
<1>5. Moves(t, "purge", l)
  <2>1. "purge" \in Stages /\ l \in Memory
    BY <1>4 DEF Stages
  <2>2. pc' = [pc EXCEPT ![t] = "purge"] /\ local' = [local EXCEPT ![t] = l]
    BY <1>2, <1>3, Zenon DEF StartPurge, Jump, Remember
  <2> QED BY <2>1, <2>2 DEF Moves
<1>6. /\ Quitting(pc[t], local[t]) <=> Quitting("purge", l)
      /\ Entering(pc[t], local[t]) <=> Entering("purge", l)
      /\ InSection(pc[t], local[t]) <=> InSection("purge", l)
      /\ ~Purging(pc[t]) /\ ~HalfWay(pc[t])
  BY <1>1, <1>2, <1>4 DEF Quitting, Entering, InSection, Purging, HalfWay, Busy
<1>7. PlanOK("purge", l)
  BY <1>1, <1>2, <1>4 DEF PlanOK, Purging, Busy
<1>8. ~intruded' => StandsOK(t, "purge", l)'
  <2> SUFFICES ASSUME ~intruded' PROVE StandsOK(t, "purge", l)'
    OBVIOUS
  <2>1. StandsOK(t, pc[t], local[t]) /\ KnowsItsChannels(v) /\ lock2' = lock2
    BY DEF Inv, Agrees, flags
  <2>2. OnlyIn(v, S)
    BY <1>2, <2>1 DEF KnowsItsChannels, OnlyIn
  <2>3. OnlyIn(l.victim, l.purge)'
    BY <1>4, <2>2, Unmoved
  <2>4. InSection("purge", l) => lock2' = t
    BY <1>6, <2>1 DEF StandsOK
  <2>5. Entering("purge", l) => is_already_chan(l.chan)'
    BY <1>2, <1>4, <1>6, <2>1, Unmoved DEF StandsOK
  <2>6. Quitting("purge", l) => OnlyIn(t, l.left)'
    BY <1>2, <1>4, <1>6, <2>1, Unmoved DEF StandsOK
  <2> QED BY <2>3, <2>4, <2>5, <2>6 DEF StandsOK, InSection, Entering, Quitting
<1>9. Quiet(t)
  BY Untouched
<1> HIDE DEF Inv
<1> QED BY <1>5, <1>6, <1>7, <1>8, <1>9, QuietStep

-----------------------------------------------------------------------------
(* Actions that leave everybody where they are.                             *)

LEMMA Outcomes ==
  ASSUME NEW t, NEW sent, NEW failed
  PROVE  AfterSend(t, sent, failed) \subseteq {sent, failed}
  BY DEF AfterSend

LEMMA PlainGoUntouched ==
  ASSUME Inv, NEW t \in Users, NEW p \in Plain, Go(t, p), UNCHANGED <<lists, lock2, env, flags>>,
         pc[t] \notin Busy
  PROVE  Inv'
  BY PlainGo, Untouched

LEMMA AnswersKeepInv ==
  ASSUME Inv, NEW t \in Users,
         \/ EndOfFile(t) \/ Reply(t) \/ Who(t) \/ Whois(t) \/ ListOne(t) \/ NamesOne(t) \/ NamesEnd(t)
         \/ Notice(t) \/ ModeReply(t) \/ TopicCheck(t) \/ ModeStart(t) \/ ModeAct(t) \/ JoinReply(t)
  PROVE  Inv'
<1>1. PICK p \in Plain : Go(t, p)
  <2>1. /\ EndOfFile(t) => Go(t, "gone")
        /\ Reply(t) => Go(t, "read") \/ Go(t, "gone")
        /\ Who(t) \/ Whois(t) \/ ListOne(t) => Go(t, "reply")
        /\ NamesOne(t) => Go(t, "names_end")
        /\ NamesEnd(t) => Go(t, "read") \/ Go(t, "gone") \/ Go(t, "stuck")
        /\ Notice(t) => Go(t, "read")
    BY DEF EndOfFile, Reply, Who, Whois, ListOne, NamesOne, NamesEnd, Notice
  <2>2. ModeReply(t) => Go(t, "read") \/ Go(t, "ended")
    BY Outcomes DEF ModeReply
  <2>3. TopicCheck(t) => Go(t, "topic_change") \/ Go(t, "reply")
    BY DEF TopicCheck
  <2>4. ModeStart(t) => Go(t, "mode_member") \/ Go(t, "mode_act") \/ Go(t, "ended")
    BY Outcomes DEF ModeStart
  <2>5. ModeAct(t) => \/ Go(t, "mode_reply") \/ Go(t, "stuck") \/ Go(t, "ended") \/ Go(t, "mode_chan")
                      \/ Go(t, "mode_name")
    BY Outcomes DEF ModeAct
  <2>6. JoinReply(t) => Go(t, "read") \/ Go(t, "join_lock") \/ Go(t, "gone")
    BY Outcomes DEF JoinReply
  <2>7. {"gone", "read", "reply", "names_end", "stuck", "ended", "topic_change", "mode_member", "mode_act",
         "mode_reply", "mode_chan", "mode_name", "join_lock"} \subseteq Plain
    BY DEF Plain, Stages, Busy
  <2> QED BY <2>1, <2>2, <2>3, <2>4, <2>5, <2>6, <2>7
<1>2. UNCHANGED <<lists, lock2, env, flags>>
  BY DEF EndOfFile, Reply, Who, Whois, ListOne, NamesOne, NamesEnd, Notice, ModeReply, TopicCheck,
         ModeStart, ModeAct, JoinReply
<1>3. pc[t] \notin Busy
  BY DEF Busy, EndOfFile, Reply, Who, Whois, ListOne, NamesOne, NamesEnd, Notice, ModeReply,
         TopicCheck, ModeStart, ModeAct, JoinReply
<1> QED BY <1>1, <1>2, <1>3, PlainGoUntouched

\* OPER, AWAY and MODE for a user.
LEMMA FlagsKeepInv ==
  ASSUME Inv, NEW t \in Users, Oper(t) \/ Away(t) \/ UserMode(t)
  PROVE  Inv'
<1>1. PICK p \in Plain : Go(t, p)
  <2>1. {"reply", "mode_reply"} \subseteq Plain
    BY DEF Plain, Stages, Busy
  <2> QED BY <2>1 DEF Oper, Away, UserMode
<1>2. pc[t] \notin Busy
  BY DEF Oper, Away, UserMode, Busy
<1>3. UNCHANGED <<clients, names, channels, lock2, env, flags>>
  BY DEF Oper, Away, UserMode
<1>4. oper' \subseteq clients /\ away' \subseteq clients
  BY DEF Oper, Away, UserMode, make_opp, deopp, make_away, make_not_away, Inv, Typed, ListsTyped
<1>5. ChannelsTyped' /\ SameNames /\ SameMembers /\ (Unique => Unique')
  BY <1>3, NodesKept DEF Inv, Typed, ListsTyped
<1>6. ListsTyped'
  BY <1>3, <1>4, <1>5 DEF Inv, Typed, ListsTyped, env, flags, marks
<1>7. Quiet(t)
  BY <1>3, <1>5, <1>6 DEF Quiet, env, flags, marks
<1> QED BY <1>1, <1>2, <1>7, PlainGo

\* A command arrives.
LEMMA ReadStep ==
  ASSUME Inv, NEW t \in Users, NEW p \in Plain, NEW l \in Memory,
         l.victim = NoUser, l.after = "read", Read(t, p, l)
  PROVE  Inv'
<1>1. pc[t] \notin Busy
  BY DEF Read, Busy
<1>2. Moves(t, p, l)
  BY DEF Read, Jump, Remember, Moves, Plain
<1>3. UNCHANGED <<lists, lock2, gone, closed, flags>>
  BY DEF Read
<1>4. ChannelsTyped' /\ SameNames /\ SameMembers /\ (Unique => Unique')
  BY <1>3, NodesKept DEF Inv, Typed, ListsTyped, lists
<1>5. ListsTyped'
  BY <1>3, <1>4 DEF Inv, Typed, ListsTyped, lists, flags, marks
<1>6. Quiet(t)
  BY <1>3, <1>4, <1>5 DEF Quiet, lists, flags, marks
<1> QED BY <1>1, <1>2, <1>6, PlainStep

LEMMA Pairs ==
  ASSUME NEW f \in {<<"query", FALSE>>, <<"x", FALSE>>} \cup {"change", "m", "t", "o", "v"} \X BOOLEAN
  PROVE  f[1] \in Letters /\ f[2] \in BOOLEAN
<1>1. CASE f = <<"query", FALSE>>
  BY <1>1 DEF Letters
<1>2. CASE f = <<"x", FALSE>>
  BY <1>2 DEF Letters
<1>3. CASE f \in {"change", "m", "t", "o", "v"} \X BOOLEAN
  BY <1>3 DEF Letters
<1> QED BY <1>1, <1>2, <1>3

LEMMA ArriveKeepsInv ==
  ASSUME Inv, NEW t \in Users, Arrive(t)
  PROVE  Inv'
<1>1. PICK p \in Plain, l \in Memory : Read(t, p, l) /\ l.victim = NoUser /\ l.after = "read"
  <2>1. {"reply", "who", "list_one", "names_one", "names", "list", "quit", "oper", "user_mode", "away",
         "join", "part", "privmsg", "notice", "whois", "tell", "tell_notice", "topic", "mode"}
           \subseteq Plain
    BY DEF Plain, Stages, Busy
  <2>2. CASE ReadPlain(t)
    BY <2>1, <2>2, IdleMemory DEF ReadPlain
  <2>3. CASE ReadAway(t)
    <3>1. PICK on \in BOOLEAN : Read(t, "away", [Idle EXCEPT !.on = on])
      BY <2>3 DEF ReadAway
    <3>2. PICK l : l = [Idle EXCEPT !.on = on]
      BY Zenon
    <3>3. l \in Memory /\ l.victim = NoUser /\ l.after = "read"
      BY <3>2, IdleMemory DEF Memory
    <3>4. Read(t, "away", l)
      BY <3>1, <3>2
    <3> QED BY <2>1, <3>3, <3>4
  <2>4. CASE ReadChannel(t)
    <3>1. PICK p \in {"join", "part", "privmsg", "notice"}, c \in Channels :
            Read(t, p, [Idle EXCEPT !.chan = c])
      BY <2>4 DEF ReadChannel
    <3>2. PICK l : l = [Idle EXCEPT !.chan = c]
      BY Zenon
    <3>3. l \in Memory /\ l.victim = NoUser /\ l.after = "read"
      BY <3>2, IdleMemory DEF Memory
    <3>4. Read(t, p, l)
      BY <3>1, <3>2
    <3> QED BY <2>1, <3>3, <3>4
  <2>5. CASE ReadNick(t)
    <3>1. PICK p \in {"whois", "tell", "tell_notice"}, u \in Users : Read(t, p, [Idle EXCEPT !.member = u])
      BY <2>5 DEF ReadNick
    <3>2. PICK l : l = [Idle EXCEPT !.member = u]
      BY Zenon
    <3>3. l \in Memory /\ l.victim = NoUser /\ l.after = "read"
      BY <3>2, IdleMemory DEF Memory
    <3>4. Read(t, p, l)
      BY <3>1, <3>2
    <3> QED BY <2>1, <3>3, <3>4
  <2>6. CASE ReadTopic(t)
    <3>1. PICK c \in Channels, f \in {<<"query", FALSE>>} \cup {"change"} \X BOOLEAN :
            Read(t, "topic", [Idle EXCEPT !.chan = c, !.letter = f[1], !.on = f[2]])
      BY <2>6 DEF ReadTopic
    <3>2. PICK l : l = [Idle EXCEPT !.chan = c, !.letter = f[1], !.on = f[2]]
      BY Zenon
    <3>2a. f[1] \in Letters /\ f[2] \in BOOLEAN
      BY Pairs
    <3>3. l \in Memory /\ l.victim = NoUser /\ l.after = "read"
      BY <3>2, <3>2a, IdleMemory DEF Memory
    <3>4. Read(t, "topic", l)
      BY <3>1, <3>2
    <3> QED BY <2>1, <3>3, <3>4
  <2>7. CASE ReadMode(t)
    <3>1. PICK c \in Channels, f \in {<<"query", FALSE>>, <<"x", FALSE>>} \cup {"m", "t"} \X BOOLEAN :
            Read(t, "mode", [Idle EXCEPT !.chan = c, !.letter = f[1], !.on = f[2]])
      BY <2>7 DEF ReadMode
    <3>2. PICK l : l = [Idle EXCEPT !.chan = c, !.letter = f[1], !.on = f[2]]
      BY Zenon
    <3>2a. f[1] \in Letters /\ f[2] \in BOOLEAN
      BY Pairs
    <3>3. l \in Memory /\ l.victim = NoUser /\ l.after = "read"
      BY <3>2, <3>2a, IdleMemory DEF Memory
    <3>4. Read(t, "mode", l)
      BY <3>1, <3>2
    <3> QED BY <2>1, <3>3, <3>4
  <2>8. CASE ReadMemberMode(t)
    <3>1. PICK c \in Channels, f \in {<<"x", FALSE>>} \cup {"o", "v"} \X BOOLEAN, u \in Users :
            Read(t, "mode", [Idle EXCEPT !.chan = c, !.letter = f[1], !.on = f[2], !.member = u])
      BY <2>8 DEF ReadMemberMode
    <3>2. PICK l : l = [Idle EXCEPT !.chan = c, !.letter = f[1], !.on = f[2], !.member = u]
      BY Zenon
    <3>2a. f[1] \in Letters /\ f[2] \in BOOLEAN
      BY Pairs
    <3>3. l \in Memory /\ l.victim = NoUser /\ l.after = "read"
      BY <3>2, <3>2a, IdleMemory DEF Memory
    <3>4. Read(t, "mode", l)
      BY <3>1, <3>2
    <3> QED BY <2>1, <3>3, <3>4
  <2> QED BY <2>2, <2>3, <2>4, <2>5, <2>6, <2>7, <2>8 DEF Arrive
<1> QED BY <1>1, ReadStep

\* Who is on a channel.
LEMMA Receivers ==
  ASSUME Inv, NEW c \in Channels
  PROVE  get_users_on_channel(c) \in SUBSET Users
  BY UsersOn DEF Inv, Typed, ListsTyped

LEMMA PartCheckKeepsInv ==
  ASSUME Inv, NEW t \in Users, PartCheck(t)
  PROVE  Inv'
<1>1. PICK c \in Channels : c = local[t].chan
  BY Remembered DEF Inv
<1>2. pc[t] = "part" /\ UNCHANGED <<lists, lock2, env, flags>>
  BY DEF PartCheck
<1>3. Quiet(t) /\ pc[t] \notin Busy
  BY <1>2, Untouched DEF Busy
<1>4. CASE StartRelay(t, c, get_users_on_channel(c), "part_leave")
  <2>1. get_users_on_channel(c) \in SUBSET Users /\ "part_leave" \in Afters
    BY Receivers DEF Afters
  <2> QED BY <1>2, <1>3, <1>4, <2>1, RelayStep
<1>5. CASE Go(t, "reply")
  BY <1>2, <1>3, <1>5, PlainGoUntouched DEF Plain, Stages, Busy
<1> QED BY <1>1, <1>4, <1>5 DEF PartCheck

\* PRIVMSG to a channel, and its last unlock.
LEMMA PrivmsgKeepsInv ==
  ASSUME Inv, NEW t \in Users, Privmsg(t)
  PROVE  Inv'
<1>1. PICK c \in Channels : c = local[t].chan
  BY Remembered DEF Inv
<1>2. pc[t] = "privmsg" /\ UNCHANGED <<lists, lock2, env, flags>>
  BY DEF Privmsg
<1>3. Quiet(t) /\ pc[t] \notin Busy
  BY <1>2, Untouched DEF Busy
<1>4. CASE StartRelay(t, c, get_users_on_channel(c) \ {t}, "privmsg_unlock")
  <2>1. get_users_on_channel(c) \ {t} \in SUBSET Users /\ "privmsg_unlock" \in Afters
    BY Receivers DEF Afters
  <2> QED BY <1>2, <1>3, <1>4, <2>1, RelayStep
<1>5. CASE Go(t, "reply")
  BY <1>2, <1>3, <1>5, PlainGoUntouched DEF Plain, Stages, Busy
<1> QED BY <1>1, <1>4, <1>5 DEF Privmsg

LEMMA PrivmsgUnlockKeepsInv ==
  ASSUME Inv, NEW t \in Users, PrivmsgUnlock(t)
  PROVE  Inv'
<1>1. pc[t] \notin Busy /\ Quiet(t)
  BY LockReleased DEF PrivmsgUnlock, Busy
<1>2. PICK p \in {"read", "reply"} : Go(t, p)
  BY DEF PrivmsgUnlock
<1>3. p \in Plain
  BY DEF Plain, Stages, Busy
<1> QED BY <1>1, <1>2, <1>3, PlainGo

\* PRIVMSG and NOTICE to a nick.
LEMMA TellKeepsInv ==
  ASSUME Inv, NEW t \in Users, Tell(t)
  PROVE  Inv'
<1>1. pc[t] \in {"tell", "tell_notice"} /\ UNCHANGED <<lists, lock2, env, flags>>
  BY DEF Tell
<1>2. pc[t] \notin Busy /\ pc[t] # "relay"
  BY <1>1 DEF Busy
<1>3. \/ Go(t, "read") \/ Go(t, "ended") \/ Go(t, "tell_away")
      \/ \E u \in clients, next \in {"tell_away", "read"} : StartPurge(t, u, u, next)
  BY Outcomes DEF Tell
<1>4. CASE Go(t, "read") \/ Go(t, "ended") \/ Go(t, "tell_away")
  <2>1. {"read", "ended", "tell_away"} \subseteq Plain
    BY DEF Plain, Stages, Busy
  <2> QED BY <1>1, <1>2, <1>4, <2>1, PlainGoUntouched
<1>5. ASSUME NEW u \in clients, NEW next \in {"tell_away", "read"}, StartPurge(t, u, u, next)
      PROVE  Inv'
  <2>1. u \in Users /\ next \in Backs
    BY DEF Inv, Typed, ListsTyped, Backs
  <2> HIDE DEF Inv
  <2> QED BY <1>1, <1>2, <1>5, <2>1, PurgeStep
<1> QED BY <1>3, <1>4, <1>5

LEMMA TellAwayKeepsInv ==
  ASSUME Inv, NEW t \in Users, TellAway(t)
  PROVE  Inv'
<1>1. pc[t] = "tell_away" /\ UNCHANGED <<lists, lock2, env, flags>>
  BY DEF TellAway
<1>2. pc[t] \notin Busy /\ pc[t] # "relay"
  BY <1>1 DEF Busy
<1>3. \/ Go(t, "read")
      \/ \E u \in away : StartPurge(t, t, u, "read")
  BY DEF TellAway
<1>4. CASE Go(t, "read")
  BY <1>1, <1>2, <1>4, PlainGoUntouched DEF Plain, Stages, Busy
<1>5. ASSUME NEW u \in away, StartPurge(t, t, u, "read")
      PROVE  Inv'
  <2>1. u \in Users /\ "read" \in Backs
    BY DEF Inv, Typed, ListsTyped, Backs
  <2> HIDE DEF Inv
  <2> QED BY <1>1, <1>2, <1>5, <2>1, PurgeStep
<1> QED BY <1>3, <1>4, <1>5

LEMMA DepartKeepsInv ==
  ASSUME Inv, NEW t \in Users, Depart(t)
  PROVE  Inv'
<1>1. pc[t] = "gone" /\ UNCHANGED <<lists, lock2, env, flags>> /\ StartPurge(t, t, t, "ended")
  BY DEF Depart
<1>2. "ended" \in Backs /\ pc[t] \notin Busy /\ pc[t] # "relay"
  BY <1>1 DEF Backs, Busy
<1> HIDE DEF Inv
<1> QED BY <1>1, <1>2, PurgeStep

LEMMA ModeMemberKeepsInv ==
  ASSUME Inv, NEW t \in Users, ModeMember(t)
  PROVE  Inv'
<1>1. pc[t] = "mode_member" /\ UNCHANGED <<lists, lock2, env, flags>>
  BY DEF ModeMember
<1>2. PICK granted \in BOOLEAN : local' = [local EXCEPT ![t] = [local[t] EXCEPT !.granted = granted]]
  <2>1. ((local[t].member \in get_users_on_channel(local[t].chan)) /\ IsOperator(t, local[t].chan)
           /\ local[t].letter \in {"o", "v"}) \in BOOLEAN
    OBVIOUS
  <2> QED BY <2>1, Zenon DEF ModeMember, Remember
<1>3. PICK p \in {"mode_act", "ended"} : pc' = [pc EXCEPT ![t] = p]
  <2>1. PICK p \in {"mode_act"} \cup AfterSend(t, "mode_act", "ended") : Jump(t, p)
    <3>1. \E p \in IF local[t].member \in get_users_on_channel(local[t].chan) THEN {"mode_act"}
                   ELSE AfterSend(t, "mode_act", "ended") : Jump(t, p)
      BY Zenon DEF ModeMember
    <3> QED BY <3>1
  <2>2. p \in {"mode_act", "ended"}
    BY Outcomes
  <2> QED BY <2>1, <2>2, Zenon DEF Jump
<1>4. PICK l : l = [local[t] EXCEPT !.granted = granted]
  BY Zenon
<1>5. pc[t] \notin Busy /\ l \in Memory /\ l.victim = NoUser /\ l.after = "read"
  BY <1>1, <1>4, Remembered DEF Inv, Memory, Busy, Purging
<1>6. p \in Plain /\ p \in Stages
  BY DEF Plain, Stages, Busy
<1>7. local' = [local EXCEPT ![t] = l]
  BY <1>2, <1>4, Zenon
<1>8. Moves(t, p, l)
  BY <1>3, <1>5, <1>6, <1>7 DEF Moves
<1> QED BY <1>1, <1>5, <1>6, <1>8, Untouched, PlainStep

\* NAMES and LIST.
LEMMA NamesKeepsInv ==
  ASSUME Inv, NEW t \in Users, Names(t)
  PROVE  Inv'
<1>1. /\ pc[t] = "names" /\ lock2 = NoUser /\ lock2' = t /\ UNCHANGED <<lists, env, flags>>
      /\ pc' = [pc EXCEPT ![t] = "names_send"]
  BY DEF Names, Jump
<1>2. PICK l : l = [local[t] EXCEPT !.turns = Len(channels)]
  BY Zenon
<1>3. Len(channels) \in Nat
  BY DEF Inv, Typed, ListsTyped, ChannelsTyped
<1>4. pc[t] \notin Busy /\ l \in Memory /\ l.victim = NoUser /\ l.after = "read"
  BY <1>1, <1>2, <1>3, Remembered DEF Inv, Memory, Busy, Purging
<1>5. local' = [local EXCEPT ![t] = l]
  BY <1>2, Zenon DEF Names, Remember
<1>6. "names_send" \in Plain /\ "names_send" \in Stages
  BY DEF Plain, Stages, Busy
<1>7. Moves(t, "names_send", l)
  BY <1>1, <1>4, <1>5, <1>6 DEF Moves
<1>8. Quiet(t)
  BY <1>1, LockTaken
<1> QED BY <1>1, <1>4, <1>6, <1>7, <1>8, PlainStep

LEMMA NamesSendKeepsInv ==
  ASSUME Inv, NEW t \in Users, NamesSend(t)
  PROVE  Inv'
<1>1. pc[t] = "names_send" /\ pc[t] \notin Busy /\ UNCHANGED <<lists, env, kept, marks>>
  BY DEF NamesSend, Busy
<1>2. CASE local[t].turns = 0
  <2>1. Go(t, "names_end") /\ UNCHANGED <<lists, lock2, env, flags>>
    BY <1>1, <1>2 DEF NamesSend, flags
  <2>2. "names_end" \in Plain
    BY DEF Plain, Stages, Busy
  <2> QED BY <1>1, <2>1, <2>2, PlainGoUntouched
<1>3. CASE local[t].turns # 0
  <2>1. Unlock(t) /\ Remember(t, [local[t] EXCEPT !.turns = @ - 1])
    BY <1>3, Zenon DEF NamesSend
  <2>2. PICK p \in {"names_send", "gone"} : pc' = [pc EXCEPT ![t] = p]
    BY <1>3, Outcomes DEF NamesSend, Jump
  <2>3. PICK l : l = [local[t] EXCEPT !.turns = @ - 1]
    BY Zenon
  <2>4. local[t].turns \in Nat \ {0}
    BY <1>3, Remembered DEF Inv, Memory
  <2>5. l \in Memory /\ l.victim = NoUser /\ l.after = "read"
    BY <1>1, <2>3, <2>4, Remembered DEF Inv, Memory, Purging, Busy
  <2>6. local' = [local EXCEPT ![t] = l]
    BY <2>1, <2>3, Zenon DEF Remember
  <2>7. p \in Plain /\ p \in Stages
    BY DEF Plain, Stages, Busy
  <2>8. Moves(t, p, l)
    BY <2>2, <2>5, <2>6, <2>7 DEF Moves
  <2>9. Quiet(t)
    BY <1>1, <2>1, LockReleased
  <2> QED BY <1>1, <2>5, <2>7, <2>8, <2>9, PlainStep
<1> QED BY <1>2, <1>3

LEMMA ListKeepsInv ==
  ASSUME Inv, NEW t \in Users, List(t)
  PROVE  Inv'
<1>1. Quiet(t) /\ pc[t] \notin Busy /\ Go(t, "list_send")
  BY LockTaken DEF List, Busy
<1>2. "list_send" \in Plain
  BY DEF Plain, Stages, Busy
<1> QED BY <1>1, <1>2, PlainGo

LEMMA ListSendKeepsInv ==
  ASSUME Inv, NEW t \in Users, ListSend(t)
  PROVE  Inv'
<1>1. "reply" \in Plain /\ "gone" \in Plain
  BY DEF Plain, Stages, Busy
<1>2. pc[t] \notin Busy /\ UNCHANGED <<lists, env, kept, marks>>
  BY DEF ListSend, Busy
<1>3. CASE Unlock(t) /\ Go(t, "reply")
  BY <1>1, <1>2, <1>3, LockReleased, PlainGo
<1>4. CASE Go(t, "gone") /\ UNCHANGED <<lock2, intruded>>
  BY <1>1, <1>2, <1>4, PlainGoUntouched DEF flags
<1> QED BY <1>3, <1>4 DEF ListSend

\* A mark on a channel.
LEMMA Marked ==
  ASSUME Inv, NEW t \in Users, NEW c \in Channels, is_already_chan(c),
         NEW n, GoodNode(n), n.name = c, n.users = get_users_on_channel(c),
         channels' = WithFirst(c, n),
         UNCHANGED <<clients, names, oper, away, lock2, env, flags>>
  PROVE  Quiet(t)
<1>1. ChannelsTyped' /\ SameNames /\ (Unique => Unique' /\ SameMembers)
  BY NodeMarked DEF Inv, Typed, ListsTyped
<1>2. ListsTyped'
  BY <1>1 DEF Inv, Typed, ListsTyped, env, flags, marks
<1> QED BY <1>1, <1>2 DEF Quiet, env, flags, marks

LEMMA Unmarked ==
  ASSUME Inv, NEW t \in Users, UNCHANGED <<clients, names, oper, away, channels, lock2, env, flags>>
  PROVE  Quiet(t)
  BY Untouched DEF lists

LEMMA TopicChangeKeepsInv ==
  ASSUME Inv, NEW t \in Users, TopicChange(t)
  PROVE  Inv'
<1>1. PICK c \in Channels : c = local[t].chan
  BY Remembered DEF Inv
<1>2. /\ pc[t] = "topic_change" /\ UNCHANGED <<clients, names, oper, away, lock2, env, flags>>
      /\ channels' = change_topic(c, local[t].on) /\ StartRelay(t, c, get_users_on_channel(c), "read")
  BY <1>1 DEF TopicChange
<1>3. Quiet(t)
  <2>1. CASE is_already_chan(c)
    <3>1. PICK n : n = [First(c) EXCEPT !.topic = local[t].on]
      BY Zenon
    <3>2. channels' = WithFirst(c, n)
      BY <1>2, <2>1, <3>1 DEF change_topic
    <3>3. GoodNode(First(c)) /\ First(c).name = c /\ get_users_on_channel(c) = First(c).users
      BY <2>1, FirstNode DEF Inv, Typed, ListsTyped
    <3>4. local[t].on \in BOOLEAN
      BY Remembered DEF Inv, Memory
    <3>5. GoodNode(n) /\ n.name = c /\ n.users = First(c).users
      BY <3>1, <3>3, <3>4 DEF GoodNode, Node
    <3>6. n.users = get_users_on_channel(c)
      BY <3>3, <3>5
    <3> HIDE DEF Inv
    <3> QED BY <1>2, <2>1, <3>2, <3>5, <3>6, Marked
  <2>2. CASE ~is_already_chan(c)
    BY <1>2, <2>2, Unmarked DEF change_topic
  <2> QED BY <2>1, <2>2
<1>4. pc[t] \notin Busy /\ get_users_on_channel(c) \in SUBSET Users /\ "read" \in Afters
  BY <1>2, Receivers DEF Afters, Busy
<1> QED BY <1>2, <1>3, <1>4, RelayStep

LEMMA ModeChanKeepsInv ==
  ASSUME Inv, NEW t \in Users, ModeChan(t)
  PROVE  Inv'
<1>1. PICK c \in Channels : c = local[t].chan
  BY Remembered DEF Inv
<1>2. pc[t] \notin Busy /\ UNCHANGED <<clients, names, oper, away, lock2, env, flags>>
  BY DEF ModeChan, Busy
<1>3. CASE is_already_chan(c)
  <2>1. /\ channels' = change_chan_mode(c, local[t].letter, local[t].on)
        /\ StartRelay(t, c, get_users_on_channel(c), "read")
    BY <1>1, <1>3 DEF ModeChan
  <2>2. PICK n : n = IF local[t].letter = "m" THEN [First(c) EXCEPT !.mod = local[t].on]
                                              ELSE [First(c) EXCEPT !.top = local[t].on]
    BY Zenon
  <2>3. channels' = WithFirst(c, n)
    BY <2>1, <2>2, Zenon DEF change_chan_mode
  <2>4. GoodNode(First(c)) /\ First(c).name = c /\ get_users_on_channel(c) = First(c).users
    BY <1>3, FirstNode DEF Inv, Typed, ListsTyped
  <2>5. local[t].on \in BOOLEAN
    BY Remembered DEF Inv, Memory
  <2>6. GoodNode(n) /\ n.name = c /\ n.users = First(c).users
    BY <2>2, <2>4, <2>5 DEF GoodNode, Node
  <2>7. n.users = get_users_on_channel(c)
    BY <2>4, <2>6
  <2>8. get_users_on_channel(c) \in SUBSET Users /\ "read" \in Afters
    BY Receivers DEF Afters
  <2> HIDE DEF Inv
  <2>9. Quiet(t)
    BY <1>2, <1>3, <2>3, <2>6, <2>7, Marked
  <2> QED BY <1>2, <2>1, <2>8, <2>9, RelayStep
<1>4. CASE ~is_already_chan(c)
  <2>1. Go(t, "read") /\ channels' = channels /\ "read" \in Plain
    BY <1>1, <1>4 DEF ModeChan, Plain, Stages, Busy
  <2> QED BY <1>2, <2>1, Unmarked, PlainGo
<1> QED BY <1>3, <1>4

\* The flags in the member's own list.
LEMMA ModeNameKeepsInv ==
  ASSUME Inv, NEW t \in Users, ModeName(t)
  PROVE  Inv'
<1> DEFINE c == local[t].chan
           u == local[t].member
<1>1. pc[t] = "mode_name" /\ UNCHANGED <<clients, oper, away, channels, lock2, env, flags>>
  BY DEF ModeName
<1>2. PICK p \in {"mode_user", "read"} : Go(t, p)
  BY DEF ModeName
<1>3. names \in [Users -> Entry] /\ c \in Channels
      /\ \A v \in Users : names[v].ops \subseteq names[v].chans /\ names[v].voices \subseteq names[v].chans
  BY Remembered DEF Inv, Typed, ListsTyped
<1>4. /\ names' \in [Users -> Entry] /\ \A v \in Users : names'[v].chans = names[v].chans
      /\ \A v \in Users : /\ names'[v].ops \subseteq names'[v].chans
                          /\ names'[v].voices \subseteq names'[v].chans
  <2>1. CASE names' = names
    BY <1>3, <2>1
  <2>2. CASE /\ is_chan_on_user(c, u)
             /\ names' = [names EXCEPT ![u] = [names[u] EXCEPT !.ops = With(@, c, local[t].on)]]
    <3>1. PICK e : e = [names[u] EXCEPT !.ops = With(@, c, local[t].on)]
      BY Zenon
    <3>2. names' = [names EXCEPT ![u] = e]
      BY <2>2, <3>1, Zenon
    <3>3. u \in Users => /\ e \in Entry /\ e.chans = names[u].chans
                         /\ e.ops \subseteq e.chans /\ e.voices \subseteq e.chans
      BY <1>3, <2>2, <3>1 DEF Entry, With, is_chan_on_user
    <3> HIDE DEF u, c
    <3> QED BY <1>3, <3>2, <3>3
  <2>3. CASE /\ is_chan_on_user(c, u)
             /\ names' = [names EXCEPT ![u] = [names[u] EXCEPT !.voices = With(@, c, local[t].on)]]
    <3>1. PICK e : e = [names[u] EXCEPT !.voices = With(@, c, local[t].on)]
      BY Zenon
    <3>2. names' = [names EXCEPT ![u] = e]
      BY <2>3, <3>1, Zenon
    <3>3. u \in Users => /\ e \in Entry /\ e.chans = names[u].chans
                         /\ e.ops \subseteq e.chans /\ e.voices \subseteq e.chans
      BY <1>3, <2>3, <3>1 DEF Entry, With, is_chan_on_user
    <3> HIDE DEF u, c
    <3> QED BY <1>3, <3>2, <3>3
  <2> QED BY <2>1, <2>2, <2>3, Zenon DEF ModeName
<1>5. ChannelsTyped' /\ SameNames /\ SameMembers /\ (Unique => Unique')
  BY <1>1, NodesKept DEF Inv, Typed, ListsTyped
<1>6. ListsTyped'
  BY <1>1, <1>4, <1>5 DEF Inv, Typed, ListsTyped, env, flags, marks
<1>7. Quiet(t)
  BY <1>1, <1>4, <1>5, <1>6 DEF Quiet, env, flags, marks
<1>8. p \in Plain /\ pc[t] \notin Busy
  BY <1>1 DEF Plain, Stages, Busy
<1> QED BY <1>2, <1>7, <1>8, PlainGo

\* The flags in the channel's list.
LEMMA ModeUserKeepsInv ==
  ASSUME Inv, NEW t \in Users, ModeUser(t)
  PROVE  Inv'
<1>1. PICK c \in Channels : c = local[t].chan
  BY Remembered DEF Inv
<1> DEFINE u == local[t].member
<1>2. /\ pc[t] = "mode_user" /\ UNCHANGED <<clients, names, oper, away, lock2, env, flags>>
      /\ StartRelay(t, c, get_users_on_channel(c), "read")
  BY <1>1 DEF ModeUser
<1>3. Quiet(t)
  <2>1. CASE channels' = channels
    BY <1>2, <2>1, Unmarked
  <2>2. ASSUME u \in get_users_on_channel(c),
               \/ channels' = WithFirst(c, [First(c) EXCEPT !.ops = With(@, u, local[t].on)])
               \/ channels' = WithFirst(c, [First(c) EXCEPT !.voices = With(@, u, local[t].on)])
        PROVE  Quiet(t)
    <3>1. PICK n : /\ \/ n = [First(c) EXCEPT !.ops = With(@, u, local[t].on)]
                      \/ n = [First(c) EXCEPT !.voices = With(@, u, local[t].on)]
                   /\ channels' = WithFirst(c, n)
      BY <2>2, Zenon
    <3>2. is_already_chan(c)
      BY <2>2 DEF get_users_on_channel
    <3>3. GoodNode(First(c)) /\ First(c).name = c /\ get_users_on_channel(c) = First(c).users
      BY <3>2, FirstNode DEF Inv, Typed, ListsTyped
    <3>4. u \in First(c).users
      BY <2>2, <3>3
    <3>5. GoodNode(n) /\ n.name = c /\ n.users = First(c).users
      BY <3>1, <3>3, <3>4 DEF GoodNode, Node, With
    <3>6. channels' = WithFirst(c, n) /\ n.users = get_users_on_channel(c)
      BY <3>1, <3>3, <3>5
    <3> HIDE DEF Inv
    <3> QED BY <1>2, <3>2, <3>5, <3>6, Marked
  <2>3. \/ channels' = channels
        \/ /\ u \in get_users_on_channel(c)
           /\ \/ channels' = WithFirst(c, [First(c) EXCEPT !.ops = With(@, u, local[t].on)])
              \/ channels' = WithFirst(c, [First(c) EXCEPT !.voices = With(@, u, local[t].on)])
    BY <1>1, Zenon DEF ModeUser
  <2> QED BY <2>1, <2>2, <2>3
<1>4. pc[t] \notin Busy /\ get_users_on_channel(c) \in SUBSET Users /\ "read" \in Afters
  BY <1>2, Receivers DEF Afters, Busy
<1> QED BY <1>2, <1>3, <1>4, RelayStep

-----------------------------------------------------------------------------
(* Relays, look-ups, and the beginnings of JOIN, PART and QUIT.             *)

\* What a step that touches no list leaves of a thread's standing.
LEMMA StandsStill ==
  ASSUME NEW t \in Users, NEW p, NEW l, StandsOK(t, pc[t], local[t]), UNCHANGED <<lists, lock2, flags>>,
         p \notin {"join_add", "join_look", "join_user", "part_end"},
         InSection(p, l) => InSection(pc[t], local[t]),
         Entering(p, l) => Entering(pc[t], local[t]) /\ l.chan = local[t].chan,
         Purging(p) => Purging(pc[t]) /\ l.victim = local[t].victim /\ l.purge = local[t].purge,
         Quitting(p, l) => Quitting(pc[t], local[t]) /\ l.left = local[t].left
  PROVE  StandsOK(t, p, l)'
<1>1. InSection(p, l) => lock2' = t
  BY DEF StandsOK
<1>2. Entering(p, l) => is_already_chan(l.chan)'
  <2> SUFFICES ASSUME Entering(p, l) PROVE is_already_chan(l.chan)'
    OBVIOUS
  <2>1. is_already_chan(l.chan)
    BY DEF StandsOK
  <2> QED BY <2>1, Unmoved
<1>3. Purging(p) => OnlyIn(l.victim, l.purge)'
  <2> SUFFICES ASSUME Purging(p) PROVE OnlyIn(l.victim, l.purge)'
    OBVIOUS
  <2>1. OnlyIn(l.victim, l.purge)
    BY DEF StandsOK
  <2> QED BY <2>1, Unmoved
<1>4. Quitting(p, l) => OnlyIn(t, l.left)'
  <2> SUFFICES ASSUME Quitting(p, l) PROVE OnlyIn(t, l.left)'
    OBVIOUS
  <2>1. OnlyIn(t, l.left)
    BY DEF StandsOK
  <2> QED BY <2>1, Unmoved
<1>5. p = "part_end" \/ p \in {"join_look", "join_user"} \/ p = "join_add" => FALSE
  OBVIOUS
<1>6. (InSection(p, l) \/ Entering(p, l) \/ Purging(p) \/ Quitting(p, l))' <=>
        (InSection(p, l) \/ Entering(p, l) \/ Purging(p) \/ Quitting(p, l))
  BY DEF InSection, Entering, Purging, Quitting
<1> QED BY <1>1, <1>2, <1>3, <1>4, <1>5 DEF StandsOK, InSection, Entering, Purging, Quitting

\* Look: only what has been seen is new.
LEMMA Looked ==
  ASSUME Inv, NEW t \in Users, NEW c \in Channels, NEW p \in Stages, Look(t, c, p)
  PROVE  \E l \in Memory :
           /\ Moves(t, p, l) /\ l.at = c /\ l.chan = local[t].chan /\ l.after = local[t].after
           /\ l.victim = local[t].victim /\ l.purge = local[t].purge /\ l.closes = local[t].closes
           /\ l.back = local[t].back /\ l.left = local[t].left
<1>1. local[t] \in Memory /\ get_users_on_channel(c) \in SUBSET Users
  BY Remembered, UsersOn DEF Inv, Typed, ListsTyped
<1>2. PICK was \in Memory, S \in SUBSET Users : was = local[t] /\ S = get_users_on_channel(c)
  BY <1>1
<1>3. PICK l : l = [was EXCEPT !.at = c, !.saw = S]
  BY Zenon
<1>4. /\ l \in Memory /\ l.at = c /\ l.chan = was.chan /\ l.after = was.after
      /\ l.victim = was.victim /\ l.purge = was.purge /\ l.closes = was.closes
      /\ l.back = was.back /\ l.left = was.left
  BY <1>3 DEF Memory
<1>5. pc' = [pc EXCEPT ![t] = p] /\ local' = [local EXCEPT ![t] = l]
  BY <1>2, <1>3, Zenon DEF Look, Jump, Remember
<1>6. Moves(t, p, l)
  BY <1>4, <1>5 DEF Moves
<1> QED BY <1>2, <1>4, <1>6

\* A look-up that finds nobody.
LEMMA NotThere ==
  ASSUME ChannelsTyped, Unique, NEW c \in Channels, NEW v \in Users,
         remove_chanUser(c, v) = channels, UNCHANGED channels
  PROVE  ~InChannel(v, c)
<1>1. channels' = remove_chanUser(c, v)
  OBVIOUS
<1>2. InChannel(v, c)' <=> (InChannel(v, c) /\ ~(v = v /\ c = c))
  BY <1>1, UserRemoved
<1>3. SameMembers
  BY NodesKept
<1> QED BY <1>2, <1>3 DEF SameMembers

LEMMA QuitReplyKeepsInv ==
  ASSUME Inv, NEW t \in Users, QuitReply(t)
  PROVE  Inv'
<1>1. /\ pc[t] = "quit" /\ UNCHANGED <<lists, lock2, env, flags>>
      /\ Remember(t, [local[t] EXCEPT !.left = names[t].chans])
  BY Zenon DEF QuitReply
<1>2. PICK p \in {"quit_leave", "gone"} : pc' = [pc EXCEPT ![t] = p]
  <2>1. PICK p \in AfterSend(t, "quit_leave", "gone") : Jump(t, p)
    BY Zenon DEF QuitReply
  <2>2. p \in {"quit_leave", "gone"}
    BY Outcomes
  <2> QED BY <2>1, <2>2, Zenon DEF Jump
<1>3. names[t].chans \in SUBSET Channels /\ local[t] \in Memory
  BY Remembered DEF Inv, Typed, ListsTyped, Entry
<1>4. PICK S \in SUBSET Channels, was \in Memory : S = names[t].chans /\ was = local[t]
  BY <1>3
<1>5. PICK l : l = [was EXCEPT !.left = S]
  BY Zenon
<1>6. was.victim = NoUser /\ was.after = "read"
  BY <1>1, <1>4, Remembered DEF Inv, Purging
<1>7. l \in Memory /\ l.victim = NoUser /\ l.after = "read" /\ l.left = S
  BY <1>5, <1>6 DEF Memory
<1>8. local' = [local EXCEPT ![t] = l] /\ p \in Stages
  BY <1>1, <1>4, <1>5, Zenon DEF Remember, Stages
<1>9. Moves(t, p, l)
  BY <1>2, <1>7, <1>8 DEF Moves
<1>10. ~Quitting(pc[t], local[t]) /\ ~Purging(pc[t]) /\ ~HalfWay(pc[t])
  BY <1>1, <1>4, <1>6 DEF Quitting, Purging, HalfWay
<1>11. PlanOK(p, l) /\ ~Entering(p, l) /\ ~InSection(p, l) /\ ~Purging(p)
  BY <1>7 DEF PlanOK, Purging, Entering, InSection
<1>12. ~intruded' => StandsOK(t, p, l)'
  <2> SUFFICES ASSUME ~intruded' PROVE StandsOK(t, p, l)'
    OBVIOUS
  <2>1. OnlyIn(t, S)
    BY <1>1, <1>4 DEF Inv, Agrees, KnowsItsChannels, OnlyIn, flags
  <2>2. OnlyIn(t, l.left)'
    BY <1>1, <1>7, <2>1, Unmoved
  <2> QED BY <1>7, <1>11, <2>2 DEF StandsOK, Entering, InSection, Purging
<1>13. Quiet(t)
  BY <1>1, Untouched
<1> HIDE DEF Inv
<1> QED BY <1>9, <1>10, <1>11, <1>12, <1>13, QuietStep

\* A relay ends, or meets somebody who has gone.
LEMMA RelayKeepsInv ==
  ASSUME Inv, NEW t \in Users, Relay(t)
  PROVE  Inv'
<1>1. pc[t] = "relay" /\ UNCHANGED <<lists, lock2, env, flags>>
  BY DEF Relay
<1>2. Quiet(t)
  BY <1>1, Untouched
<1>3. PICK was \in Memory : was = local[t] /\ was.victim = NoUser
  BY <1>1, Remembered DEF Inv, Purging
<1>4. \/ was.after = "read" /\ Go(t, "read")
      \/ /\ was.after # "read" /\ Jump(t, was.after)
         /\ Remember(t, [was EXCEPT !.todo = {}, !.after = "read"])
      \/ \E u \in was.todo : StartPurge(t, u, u, "relay")
  BY <1>3, Zenon DEF Relay
<1>5. ~Purging(pc[t]) /\ ~HalfWay(pc[t])
  BY <1>1 DEF Purging, HalfWay
<1>6. CASE was.after = "read" /\ Go(t, "read")
  <2>1. "read" \in Stages /\ Idle.victim = NoUser /\ Idle.after = "read"
    BY IdleMemory DEF Stages
  <2>2. Moves(t, "read", Idle)
    BY <1>6, <2>1, Gone DEF Inv
  <2>3. ~Quitting(pc[t], local[t])
    BY <1>1, <1>3, <1>6 DEF Quitting
  <2>4. PICK l \in Memory : l = Idle /\ l.victim = NoUser /\ l.after = "read"
    BY <2>1, IdleMemory
  <2>5. PlanOK("read", l) /\ StandsOK(t, "read", l)'
    BY <2>4 DEF PlanOK, StandsOK, Entering, InSection, Purging, Quitting
  <2>6. Moves(t, "read", l)
    BY <2>2, <2>4
  <2> HIDE DEF Inv
  <2> QED BY <1>2, <1>5, <2>3, <2>5, <2>6, QuietStep
<1>7. CASE /\ was.after # "read" /\ Jump(t, was.after)
           /\ Remember(t, [was EXCEPT !.todo = {}, !.after = "read"])
  <2>1. PICK p : p = was.after
    OBVIOUS
  <2>2. p \in Stages /\ p \in {"join_name", "part_leave", "privmsg_unlock", "quit_leave"}
    BY <1>7, <2>1 DEF Memory, Afters, Stages
  <2>3. PICK l : l = [was EXCEPT !.todo = {}, !.after = "read"]
    BY Zenon
  <2>4. /\ l \in Memory /\ l.victim = NoUser /\ l.after = "read"
        /\ l.left = was.left /\ l.chan = was.chan
    BY <1>3, <2>3 DEF Memory, Afters
  <2>5. pc' = [pc EXCEPT ![t] = p] /\ local' = [local EXCEPT ![t] = l]
    BY <1>7, <2>1, <2>3, Zenon DEF Jump, Remember
  <2>6. Moves(t, p, l)
    BY <2>2, <2>4, <2>5 DEF Moves
  <2>7. /\ Quitting(p, l) <=> Quitting(pc[t], local[t])
        /\ Entering(p, l) <=> Entering(pc[t], local[t])
        /\ InSection(p, l) <=> InSection(pc[t], local[t])
        /\ PlanOK(p, l) /\ ~Purging(p)
    BY <1>1, <1>3, <2>1, <2>2, <2>4 DEF Quitting, Entering, InSection, PlanOK, Purging
  <2>8. ~intruded' => StandsOK(t, p, l)'
    <3> SUFFICES ASSUME ~intruded' PROVE StandsOK(t, p, l)'
      OBVIOUS
    <3>1. StandsOK(t, pc[t], local[t])
      BY <1>1 DEF Inv, Agrees, flags
    <3>2. p \notin {"join_add", "join_look", "join_user", "part_end"}
      BY <2>2
    <3>3. l.left = local[t].left /\ l.chan = local[t].chan
      BY <1>3, <2>4
    <3> HIDE DEF Inv
    <3> QED BY <1>1, <2>7, <3>1, <3>2, <3>3, StandsStill
  <2> HIDE DEF Inv
  <2> QED BY <1>2, <1>5, <2>6, <2>7, <2>8, QuietStep
<1>8. ASSUME NEW u \in was.todo, StartPurge(t, u, u, "relay")
      PROVE  Inv'
  <2>1. u \in Users /\ "relay" \in Backs
    BY DEF Memory, Backs
  <2> HIDE DEF Inv
  <2> QED BY <1>1, <1>8, <2>1, PurgeStep
<1> QED BY <1>4, <1>6, <1>7, <1>8

\* sock_is_gone looks for the victim in one of its channels.
LEMMA PurgeLookKeepsInv ==
  ASSUME Inv, NEW t \in Users, PurgeLook(t)
  PROVE  Inv'
<1>1. pc[t] = "purge" /\ UNCHANGED <<lists, lock2, env, flags>>
  BY DEF PurgeLook
<1>2. Quiet(t) /\ Purging(pc[t]) /\ ~HalfWay(pc[t])
  BY <1>1, Untouched DEF Purging, HalfWay
<1>3. PICK was \in Memory : was = local[t] /\ was.victim \in Users /\ PlanOK("purge", was)
  BY <1>1, <1>2, Remembered DEF Inv
<1>4. PICK c \in Channels :
        IF remove_chanUser(c, was.victim) # channels THEN Look(t, c, "purge_splice")
        ELSE UNCHANGED pc /\ Remember(t, [local[t] EXCEPT !.purge = @ \ {c}])
  BY <1>3 DEF PurgeLook, Memory
<1>5. CASE Look(t, c, "purge_splice")
  <2>1. "purge_splice" \in Stages
    BY DEF Stages
  <2>2. PICK l \in Memory :
          /\ Moves(t, "purge_splice", l) /\ l.at = c /\ l.chan = was.chan /\ l.after = was.after
          /\ l.victim = was.victim /\ l.purge = was.purge /\ l.closes = was.closes
          /\ l.back = was.back /\ l.left = was.left
    BY <1>3, <1>5, <2>1, Looked
  <2>3. /\ Quitting("purge_splice", l) <=> Quitting(pc[t], local[t])
        /\ Entering("purge_splice", l) <=> Entering(pc[t], local[t])
        /\ InSection("purge_splice", l) <=> InSection(pc[t], local[t])
        /\ PlanOK("purge_splice", l) /\ Purging("purge_splice")
    BY <1>1, <1>3, <2>2 DEF Quitting, Entering, InSection, PlanOK, Purging
  <2>4. ~intruded' => StandsOK(t, "purge_splice", l)'
    <3> SUFFICES ASSUME ~intruded' PROVE StandsOK(t, "purge_splice", l)'
      OBVIOUS
    <3>1. StandsOK(t, pc[t], local[t])
      BY <1>1 DEF Inv, Agrees, flags
    <3>2. /\ l.left = local[t].left /\ l.chan = local[t].chan
          /\ l.victim = local[t].victim /\ l.purge = local[t].purge
      BY <1>3, <2>2
    <3> HIDE DEF Inv
    <3> QED BY <1>1, <1>2, <2>3, <3>1, <3>2, StandsStill
  <2>5. l.victim = local[t].victim
    BY <1>3, <2>2
  <2> HIDE DEF Inv
  <2> QED BY <1>2, <2>2, <2>3, <2>4, <2>5, QuietStep
<1>6. CASE /\ remove_chanUser(c, was.victim) = channels
           /\ UNCHANGED pc /\ Remember(t, [local[t] EXCEPT !.purge = @ \ {c}])
  <2>1. PICK l : l = [was EXCEPT !.purge = @ \ {c}]
    BY Zenon
  <2>2. /\ l \in Memory /\ l.chan = was.chan /\ l.after = was.after /\ l.victim = was.victim
        /\ l.purge = was.purge \ {c} /\ l.closes = was.closes /\ l.back = was.back /\ l.left = was.left
    BY <2>1 DEF Memory
  <2>3. pc' = [pc EXCEPT ![t] = "purge"]
    BY <1>1, <1>6 DEF Inv, Typed, ThreadsTyped
  <2>4. local' = [local EXCEPT ![t] = l]
    BY <1>3, <1>6, <2>1, Zenon DEF Remember
  <2>5. Moves(t, "purge", l)
    BY <2>2, <2>3, <2>4 DEF Moves, Stages
  <2>6. /\ Quitting("purge", l) <=> Quitting(pc[t], local[t])
        /\ Entering("purge", l) <=> Entering(pc[t], local[t])
        /\ InSection("purge", l) <=> InSection(pc[t], local[t])
        /\ PlanOK("purge", l) /\ Purging("purge")
    BY <1>1, <1>3, <2>2 DEF Quitting, Entering, InSection, PlanOK, Purging
  <2>7. ~intruded' => StandsOK(t, "purge", l)'
    <3> SUFFICES ASSUME ~intruded' PROVE StandsOK(t, "purge", l)'
      OBVIOUS
    <3>1. StandsOK(t, "purge", was) /\ Unique /\ ChannelsTyped /\ lock2' = lock2 /\ UNCHANGED channels
      BY <1>1, <1>3 DEF Inv, Typed, ListsTyped, Agrees, flags, lists
    <3>2. ~InChannel(was.victim, c)
      BY <1>3, <1>6, <3>1, NotThere
    <3>3. OnlyIn(was.victim, was.purge \ {c})
      BY <3>1, <3>2 DEF StandsOK, Purging, OnlyIn
    <3>4. OnlyIn(l.victim, l.purge)'
      BY <1>1, <2>2, <3>3, Unmoved
    <3>5. Entering("purge", l) => is_already_chan(l.chan)'
      <4>1. Entering("purge", l) => is_already_chan(l.chan)
        BY <1>1, <1>3, <2>2, <2>6, <3>1 DEF StandsOK
      <4> QED BY <1>1, <4>1, Unmoved
    <3>6. Quitting("purge", l) => OnlyIn(t, l.left)'
      <4>1. Quitting("purge", l) => OnlyIn(t, l.left)
        BY <1>1, <1>3, <2>2, <2>6, <3>1 DEF StandsOK
      <4> QED BY <1>1, <4>1, Unmoved
    <3>7. InSection("purge", l) => lock2' = t
      BY <1>1, <1>3, <2>6, <3>1 DEF StandsOK
    <3> QED BY <3>4, <3>5, <3>6, <3>7 DEF StandsOK, InSection, Entering, Quitting
  <2>8. l.victim = local[t].victim
    BY <1>3, <2>2
  <2> HIDE DEF Inv
  <2> QED BY <1>2, <2>5, <2>6, <2>7, <2>8, QuietStep
<1> QED BY <1>4, <1>5, <1>6

\* QUIT looks for itself in one of its channels.
LEMMA QuitLookKeepsInv ==
  ASSUME Inv, NEW t \in Users, QuitLook(t)
  PROVE  Inv'
<1>1. pc[t] = "quit_leave" /\ UNCHANGED <<lists, lock2, env, flags>>
  BY DEF QuitLook
<1>2. Quiet(t) /\ ~Purging(pc[t]) /\ ~HalfWay(pc[t])
  BY <1>1, Untouched DEF Purging, HalfWay
<1>3. PICK was \in Memory : was = local[t] /\ was.victim = NoUser /\ was.after = "read"
  BY <1>1, <1>2, Remembered DEF Inv
<1>4. PICK c \in Channels :
        IF remove_chanUser(c, t) # channels THEN Look(t, c, "quit_splice")
        ELSE /\ Jump(t, "relay")
             /\ Remember(t, [local[t] EXCEPT !.left = @ \ {c}, !.chan = c, !.after = "quit_leave",
                                             !.todo = get_users_on_channel(c) \ {t}])
  BY <1>3 DEF QuitLook, Memory
<1>5. CASE Look(t, c, "quit_splice")
  <2>1. "quit_splice" \in Stages
    BY DEF Stages
  <2>2. PICK l \in Memory :
          /\ Moves(t, "quit_splice", l) /\ l.after = was.after /\ l.victim = was.victim /\ l.left = was.left
    BY <1>3, <1>5, <2>1, Looked
  <2>3. /\ Quitting("quit_splice", l) /\ Quitting(pc[t], local[t]) /\ PlanOK("quit_splice", l)
        /\ ~Entering("quit_splice", l) /\ ~InSection("quit_splice", l) /\ ~Purging("quit_splice")
    BY <1>1, <1>3, <2>2 DEF Quitting, Entering, InSection, PlanOK, Purging
  <2>4. ~intruded' => StandsOK(t, "quit_splice", l)'
    <3> SUFFICES ASSUME ~intruded' PROVE StandsOK(t, "quit_splice", l)'
      OBVIOUS
    <3>1. StandsOK(t, pc[t], local[t])
      BY <1>1 DEF Inv, Agrees, flags
    <3>2. l.left = local[t].left
      BY <1>3, <2>2
    <3> HIDE DEF Inv
    <3> QED BY <1>1, <2>3, <3>1, <3>2, StandsStill
  <2> HIDE DEF Inv
  <2> QED BY <1>2, <2>2, <2>3, <2>4, QuietStep
<1>6. CASE /\ remove_chanUser(c, t) = channels /\ Jump(t, "relay")
           /\ Remember(t, [local[t] EXCEPT !.left = @ \ {c}, !.chan = c, !.after = "quit_leave",
                                           !.todo = get_users_on_channel(c) \ {t}])
  <2>1. PICK S \in SUBSET Users : S = get_users_on_channel(c) \ {t}
    BY Receivers
  <2>2. PICK l : l = [was EXCEPT !.left = @ \ {c}, !.chan = c, !.after = "quit_leave", !.todo = S]
    BY Zenon
  <2>3. l \in Memory /\ l.after = "quit_leave" /\ l.victim = NoUser /\ l.left = was.left \ {c}
    BY <1>3, <2>2 DEF Memory, Afters
  <2>4. pc' = [pc EXCEPT ![t] = "relay"] /\ local' = [local EXCEPT ![t] = l]
    BY <1>3, <1>6, <2>1, <2>2, Zenon DEF Jump, Remember
  <2>5. Moves(t, "relay", l)
    BY <2>3, <2>4 DEF Moves, Stages
  <2>6. /\ Quitting("relay", l) /\ PlanOK("relay", l) /\ ~Purging("relay")
        /\ ~Entering("relay", l) /\ ~InSection("relay", l)
    BY <2>3 DEF Quitting, PlanOK, Purging, Entering, InSection
  <2>7. ~intruded' => StandsOK(t, "relay", l)'
    <3> SUFFICES ASSUME ~intruded' PROVE StandsOK(t, "relay", l)'
      OBVIOUS
    <3>1. StandsOK(t, "quit_leave", was) /\ Unique /\ ChannelsTyped /\ UNCHANGED channels
      BY <1>1, <1>3 DEF Inv, Typed, ListsTyped, Agrees, flags, lists
    <3>2. ~InChannel(t, c)
      BY <1>6, <3>1, NotThere
    <3>3. OnlyIn(t, l.left)
      BY <2>3, <3>1, <3>2 DEF StandsOK, Quitting, OnlyIn
    <3>4. OnlyIn(t, l.left)'
      BY <1>1, <3>3, Unmoved
    <3> QED BY <2>6, <3>4 DEF StandsOK, Purging, Entering, InSection
  <2> HIDE DEF Inv
  <2> QED BY <1>2, <2>5, <2>6, <2>7, QuietStep
<1> QED BY <1>4, <1>5, <1>6

\* PART has relayed, and looks under lock2.
LEMMA PartLookKeepsInv ==
  ASSUME Inv, NEW t \in Users, PartLook(t)
  PROVE  Inv'
<1>1. PICK was \in Memory, c \in Channels : was = local[t] /\ c = was.chan
  BY Remembered DEF Inv
<1>2. /\ pc[t] = "part_leave" /\ lock2 = NoUser /\ lock2' = t /\ UNCHANGED <<lists, env, flags>>
      /\ IF remove_chanUser(c, t) # channels THEN Look(t, c, "part_splice") ELSE Go(t, "part_end")
  BY <1>1 DEF PartLook
<1>3. was.victim = NoUser /\ was.after = "read"
  BY <1>1, <1>2, Remembered DEF Inv, Purging
<1>4. Quiet(t) /\ ~Purging(pc[t]) /\ ~HalfWay(pc[t]) /\ ~Quitting(pc[t], local[t])
  BY <1>1, <1>2, <1>3, LockTaken DEF Purging, HalfWay, Quitting
<1>5. CASE Look(t, c, "part_splice")
  <2>1. PICK l \in Memory :
          /\ Moves(t, "part_splice", l) /\ l.at = c /\ l.chan = c /\ l.after = "read" /\ l.victim = NoUser
    <3>1. "part_splice" \in Stages
      BY DEF Stages
    <3> QED BY <1>1, <1>3, <1>5, <3>1, Looked
  <2>2. PlanOK("part_splice", l) /\ StandsOK(t, "part_splice", l)'
    BY <1>2, <2>1 DEF PlanOK, StandsOK, Entering, InSection, Purging, Quitting
  <2> HIDE DEF Inv
  <2> QED BY <1>4, <2>1, <2>2, QuietStep
<1>6. CASE remove_chanUser(c, t) = channels /\ Go(t, "part_end")
  <2>1. Moves(t, "part_end", was)
    <3>1. "part_end" \in Stages
      BY DEF Stages
    <3> QED BY <1>1, <1>6, <3>1, Gone DEF Inv
  <2>2. ~intruded' => ~InChannel(t, was.chan)'
    <3> SUFFICES ASSUME ~intruded' PROVE ~InChannel(t, was.chan)'
      OBVIOUS
    <3>1. Unique /\ ChannelsTyped /\ UNCHANGED channels /\ UNCHANGED <<lists, flags>>
      BY <1>2 DEF Inv, Typed, ListsTyped, flags, lists
    <3>2. ~InChannel(t, was.chan)
      BY <1>1, <1>6, <3>1, NotThere
    <3> QED BY <3>1, <3>2, Unmoved
  <2>3. PlanOK("part_end", was) /\ ~Quitting("part_end", was) /\ ~Entering("part_end", was)
    BY <1>3 DEF PlanOK, Purging, Quitting, Entering
  <2>4. ~intruded' => StandsOK(t, "part_end", was)'
    BY <1>2, <2>2, <2>3 DEF StandsOK, Entering, Purging, Quitting
  <2> HIDE DEF Inv
  <2> QED BY <1>4, <2>1, <2>3, <2>4, QuietStep
<1> QED BY <1>2, <1>5, <1>6

\* JOIN takes lock2, and tells those who are there.
LEMMA JoinLockKeepsInv ==
  ASSUME Inv, NEW t \in Users, JoinLock(t)
  PROVE  Inv'
<1>1. PICK was \in Memory, c \in Channels : was = local[t] /\ c = was.chan
  BY Remembered DEF Inv
<1>2. /\ pc[t] = "join_lock" /\ lock2 = NoUser /\ lock2' = t /\ UNCHANGED <<lists, env, flags>>
      /\ IF is_already_chan(c) THEN StartRelay(t, c, get_users_on_channel(c), "join_name")
                               ELSE Go(t, "join_add")
  BY <1>1 DEF JoinLock
<1>3. Quiet(t) /\ UNCHANGED <<lists, flags>> /\ pc[t] \notin Busy
  BY <1>2, LockTaken DEF Busy
<1>4. CASE is_already_chan(c)
  <2>1. StartRelay(t, c, get_users_on_channel(c), "join_name") /\ is_already_chan(c)'
    BY <1>2, <1>3, <1>4, Unmoved
  <2>2. get_users_on_channel(c) \in SUBSET Users /\ "join_name" \in Afters
    BY Receivers DEF Afters
  <2> HIDE DEF Inv
  <2> QED BY <1>2, <1>3, <2>1, <2>2, RelayStep
<1>5. CASE ~is_already_chan(c)
  <2>1. Go(t, "join_add") /\ ~is_already_chan(was.chan)'
    BY <1>1, <1>2, <1>3, <1>5, Unmoved
  <2>2. Moves(t, "join_add", was)
    <3>1. "join_add" \in Stages
      BY DEF Stages
    <3> QED BY <1>1, <2>1, <3>1, Gone DEF Inv
  <2>3. was.victim = NoUser /\ was.after = "read"
    BY <1>1, <1>2, Remembered DEF Inv, Purging
  <2>4. PlanOK("join_add", was) /\ StandsOK(t, "join_add", was)'
    BY <1>2, <2>1, <2>3 DEF PlanOK, StandsOK, Purging, Quitting, Entering, InSection
  <2>5. ~Purging(pc[t]) /\ ~HalfWay(pc[t]) /\ ~Quitting(pc[t], local[t])
    BY <1>1, <1>2, <2>3 DEF Purging, HalfWay, Quitting
  <2> HIDE DEF Inv
  <2> QED BY <1>3, <2>2, <2>4, <2>5, QuietStep
<1> QED BY <1>4, <1>5

\* A new channel, with nobody in it yet.
LEMMA JoinAddKeepsInv ==
  ASSUME Inv, NEW t \in Users, JoinAdd(t)
  PROVE  Inv'
<1>1. PICK was \in Memory, c \in Channels : was = local[t] /\ c = was.chan
  BY Remembered DEF Inv
<1>2. /\ pc[t] = "join_add" /\ Go(t, "join_name") /\ channels' = add_channel(c)
      /\ UNCHANGED <<clients, names, oper, away, lock2, env, flags>>
  BY <1>1 DEF JoinAdd
<1>3. was.victim = NoUser /\ was.after = "read"
  BY <1>1, <1>2, Remembered DEF Inv, Purging
<1>4. ChannelsTyped'
  BY <1>2, ChannelPrepended DEF Inv, Typed, ListsTyped
<1>5. ListsTyped'
  BY <1>2, <1>4 DEF Inv, Typed, ListsTyped, env, flags, marks
<1>6. ~intruded => /\ lock2 = t /\ Unique' /\ SameMembers
                   /\ is_already_chan(c)'
  <2> SUFFICES ASSUME ~intruded
               PROVE  lock2 = t /\ Unique' /\ SameMembers /\ is_already_chan(c)'
    OBVIOUS
  <2>1. StandsOK(t, "join_add", was) /\ Unique /\ ChannelsTyped
    BY <1>1, <1>2 DEF Inv, Typed, ListsTyped, Agrees
  <2>2. lock2 = t /\ ~is_already_chan(c)
    BY <1>1, <2>1 DEF StandsOK, InSection
  <2> HIDE DEF Inv
  <2> QED BY <1>2, <2>1, <2>2, ChannelAdded
<1>7. Quiet(t)
  <2>1. lock2 = t => \A u \in Users \ {t} : lock2 # u
    OBVIOUS
  <2> QED BY <1>2, <1>5, <1>6, <2>1 DEF Quiet, env, flags, marks
<1>8. Moves(t, "join_name", was)
  <2>1. "join_name" \in Stages
    BY DEF Stages
  <2> QED BY <1>1, <1>2, <2>1, Gone DEF Inv
<1>9. /\ PlanOK("join_name", was) /\ ~Purging(pc[t]) /\ ~HalfWay(pc[t]) /\ ~Quitting(pc[t], local[t])
      /\ ~Purging("join_name") /\ ~Quitting("join_name", was)
  BY <1>1, <1>2, <1>3 DEF PlanOK, Purging, HalfWay, Quitting
<1>10. ~intruded' => StandsOK(t, "join_name", was)'
  <2> SUFFICES ASSUME ~intruded' PROVE StandsOK(t, "join_name", was)'
    OBVIOUS
  <2>1. lock2' = t /\ is_already_chan(was.chan)'
    <3>1. lock2' = t /\ is_already_chan(c)'
      BY <1>2, <1>6 DEF flags
    <3> QED BY <1>1, <3>1 DEF is_already_chan, Nodes
  <2> QED BY <1>9, <2>1 DEF StandsOK, Purging, Quitting
<1> HIDE DEF Inv
<1> QED BY <1>7, <1>8, <1>9, <1>10, QuietStep

\* add_chanUser looks for the end of the list.
LEMMA JoinLookKeepsInv ==
  ASSUME Inv, NEW t \in Users, JoinLook(t)
  PROVE  Inv'
<1>1. PICK was \in Memory, c \in Channels : was = local[t] /\ c = was.chan
  BY Remembered DEF Inv
<1>2. pc[t] = "join_look" /\ Look(t, c, "join_user") /\ UNCHANGED <<lists, lock2, env, flags>>
  BY <1>1 DEF JoinLook
<1>3. was.victim = NoUser /\ was.after = "read"
  BY <1>1, <1>2, Remembered DEF Inv, Purging
<1>4. Quiet(t) /\ ~Purging(pc[t]) /\ HalfWay("join_user") /\ ~Quitting(pc[t], local[t])
  BY <1>1, <1>2, <1>3, Untouched DEF Purging, HalfWay, Quitting
<1>5. PICK l \in Memory :
        /\ Moves(t, "join_user", l) /\ l.at = c /\ l.chan = c /\ l.after = "read" /\ l.victim = NoUser
  <2>1. "join_user" \in Stages
    BY DEF Stages
  <2> QED BY <1>1, <1>2, <1>3, <2>1, Looked
<1>6. PlanOK("join_user", l) /\ ~Purging("join_user") /\ ~Quitting("join_user", l)
  BY <1>5 DEF PlanOK, Purging, Quitting
<1>7. ~intruded' => StandsOK(t, "join_user", l)'
  <2> SUFFICES ASSUME ~intruded' PROVE StandsOK(t, "join_user", l)'
    OBVIOUS
  <2>1. StandsOK(t, "join_look", was) /\ lock2' = lock2 /\ clients' = clients /\ names' = names
    BY <1>1, <1>2 DEF Inv, Agrees, flags, lists
  <2>2. lock2 = t /\ is_already_chan(c) /\ (t \in clients => c \in names[t].chans)
    BY <1>1, <2>1 DEF StandsOK, InSection, Entering
  <2>3. is_already_chan(l.chan)'
    BY <1>2, <1>5, <2>2, Unmoved
  <2> QED BY <1>5, <1>6, <2>1, <2>2, <2>3 DEF StandsOK, Purging, Quitting
<1>8. l.chan = local[t].chan
  BY <1>1, <1>5
<1> HIDE DEF Inv
<1> QED BY <1>4, <1>5, <1>6, <1>7, <1>8, QuietStep

-----------------------------------------------------------------------------
(* Steps that take somebody out of a list, or put somebody in.              *)

\* v leaves channel c, wherever that takes t: on with the purge of v, on with its own QUIT,
\* or to the end of its own PART.
LEMMA RemovalKeepsInv ==
  ASSUME Inv, NEW t \in Users, NEW p, NEW l, Moves(t, p, l), PlanOK(p, l),
         NEW v \in Users, NEW c \in Channels, Splice(t, c, v, remove_chanUser(c, v)),
         UNCHANGED <<clients, names, oper, away, lock2, env, intruded, kept, late>>,
         NEW was, was = local[t], ~HalfWay(pc[t]),
         \/ v = t /\ (Quitting(p, l) \/ (p = "part_end" /\ l.chan = c))
         \/ Purging(p) /\ l.victim = v,
         Purging(pc[t]) => Purging(p) /\ l.victim = was.victim,
         Purging(p) => Purging(pc[t]) /\ l.victim = v /\ l.purge = was.purge \ {c},
         Quitting(pc[t], was) => Quitting(p, l),
         Quitting(p, l) => Quitting(pc[t], was) /\ (l.left = was.left \/ (v = t /\ l.left = was.left \ {c})),
         InSection(p, l) => InSection(pc[t], was),
         Entering(p, l) => Entering(pc[t], was) /\ l.chan = was.chan,
         p \notin {"join_add", "join_look", "join_user"},
         p = "part_end" => v = t /\ l.chan = c
  PROVE  Inv'
<1>1. /\ ChannelsTyped' /\ SameNames /\ (Unique => Unique') /\ torn \subseteq torn' /\ torn' \subseteq Channels
      /\ Unique => \A u \in Users, d \in Channels \ torn :
                     InChannel(u, d)' <=> (InChannel(u, d) /\ ~(u = v /\ d = c))
  BY RemovalSpliced DEF Inv, Typed
<1>2. ListsTyped'
  BY <1>1 DEF Inv, Typed, ListsTyped, env
<1>3. Typed'
  BY <1>2, TypedStep DEF Inv
<1> SUFFICES ASSUME ~intruded' PROVE Unique' /\ \A u \in Users : Agrees(u)'
  BY <1>3 DEF Inv
<1>4. Typed /\ Unique /\ \A u \in Users : Agrees(u)
  BY DEF Inv
<1>5. Unique' /\ \A u \in Users, d \in Channels \ torn' :
                   InChannel(u, d)' <=> (InChannel(u, d) /\ ~(u = v /\ d = c))
  BY <1>1, <1>4
<1>6. StandsOK(t, pc[t], was) /\ KnowsItsChannels(t) /\ IsInItsChannels(t)
  BY <1>4 DEF Agrees
<1>7. /\ pc'[t] = p /\ local'[t] = l
      /\ \A u \in Users : u # t => pc'[u] = pc[u] /\ local'[u] = local[u]
  BY <1>4, Moved
<1>8. StandsOK(t, p, l)'
  <2>1. InSection(p, l) => lock2' = t
    BY <1>6 DEF StandsOK
  <2>2. Entering(p, l) => is_already_chan(l.chan)'
    <3> SUFFICES ASSUME Entering(p, l) PROVE is_already_chan(l.chan)'
      OBVIOUS
    <3>1. PICK d \in Channels : d = was.chan
      BY <1>4, Remembered
    <3>2. is_already_chan(d)'
      BY <1>1, <1>6, <3>1 DEF StandsOK, SameNames
    <3> QED BY <3>1, <3>2
  <2>3. Purging(p) => OnlyIn(l.victim, l.purge)'
    <3> SUFFICES ASSUME Purging(p), NEW d \in Channels \ torn', InChannel(l.victim, d)'
                 PROVE  d \in l.purge \/ l.victim \in late'
      BY DEF OnlyIn
    <3>1. InChannel(v, d) /\ d # c
      BY <1>5
    <3> QED BY <1>1, <1>6, <3>1 DEF StandsOK, OnlyIn
  <2>4. Quitting(p, l) => OnlyIn(t, l.left)'
    <3> SUFFICES ASSUME Quitting(p, l), NEW d \in Channels \ torn', InChannel(t, d)'
                 PROVE  d \in l.left \/ t \in late'
      BY DEF OnlyIn
    <3>1. InChannel(t, d) /\ ~(t = v /\ d = c)
      BY <1>5
    <3> QED BY <1>1, <1>6, <3>1 DEF StandsOK, OnlyIn
  <2>5. p = "part_end" /\ l.chan \notin torn' => ~InChannel(t, l.chan)'
    BY <1>5
  <2>6. (InSection(p, l) \/ Entering(p, l) \/ Purging(p) \/ Quitting(p, l))' <=>
          (InSection(p, l) \/ Entering(p, l) \/ Purging(p) \/ Quitting(p, l))
    BY DEF InSection, Entering, Purging, Quitting
  <2> QED BY <2>1, <2>2, <2>3, <2>4, <2>5 DEF StandsOK, InSection, Entering, Purging, Quitting
<1>9. KnowsItsChannels(t)'
  BY <1>1, <1>5, <1>6 DEF KnowsItsChannels, OnlyIn
<1>10. \A u \in Users : Leaves(u) => Leaves(u)'
  BY <1>4, StillLeaves
<1>11. v = t \/ Leaves(v)'
  BY <1>7 DEF Leaves, Purging
<1>12. IsInItsChannels(t)'
  <2> SUFFICES ASSUME t \in clients', ~Leaves(t)', NEW d \in names'[t].chans \ torn'
               PROVE  InChannel(t, d)' \/ (HalfWay(pc'[t]) /\ d = local'[t].chan)
    BY DEF IsInItsChannels, HalfWay
  <2>1. d \in names[t].chans \ torn /\ d \in Channels /\ ~Leaves(t)
    <3>1. names[t].chans \in SUBSET Channels
      BY <1>4 DEF Typed, ListsTyped, Entry
    <3> QED BY <1>1, <1>10, <3>1
  <2>2. InChannel(t, d)
    BY <1>6, <2>1 DEF IsInItsChannels, HalfWay
  <2>3. CASE v = t /\ d = c
    <3>1. ~Quitting(p, l) /\ ~(Purging(p) /\ l.victim = t)
      BY <1>7 DEF Leaves, Quitting, Purging
    <3> QED BY <1>7, <2>3, <3>1 DEF HalfWay
  <2> QED BY <1>5, <2>1, <2>2, <2>3
<1>13. \A u \in Users \ {t}, d \in Channels \ torn' : InChannel(u, d) => InChannel(u, d)' \/ Leaves(u)'
  BY <1>5, <1>11
<1>14. /\ late \subseteq late' /\ late' \subseteq late \cup {t}
       /\ clients' \subseteq clients /\ t \notin late' \ late
       /\ \A u \in Users \ {t} : u \in clients' => names'[u].chans = names[u].chans
       /\ \A u \in Users \ {t} : lock2 = u => lock2' = u /\ SameNames
       /\ \A u \in Users : u \notin clients \ clients'
       /\ \A u \in Users \ {t}, d \in Channels \ torn' : InChannel(u, d)' => InChannel(u, d)
       /\ \A d \in Channels \ torn' : InChannel(t, d)' => InChannel(t, d)
  BY <1>1, <1>5
<1> HIDE DEF Inv
<1> QED BY <1>1, <1>4, <1>5, <1>8, <1>9, <1>12, <1>13, <1>14, Change

LEMMA PurgeSpliceKeepsInv ==
  ASSUME Inv, NEW t \in Users, PurgeSplice(t)
  PROVE  Inv'
<1>1. PICK was \in Memory : was = local[t]
  BY Remembered DEF Inv
<1>2. PICK c \in Channels : c = was.at
  BY DEF Memory
<1>3. /\ pc[t] = "purge_splice" /\ Splice(t, c, was.victim, remove_chanUser(c, was.victim))
      /\ Jump(t, "purge") /\ Remember(t, [was EXCEPT !.purge = @ \ {c}, !.saw = {}])
      /\ UNCHANGED <<clients, names, oper, away, lock2, env, intruded, kept, late>>
  BY <1>1, <1>2, Zenon DEF PurgeSplice
<1>4. PlanOK("purge_splice", was) /\ was.victim \in Users
  BY <1>1, <1>3, Remembered DEF Inv, Purging
<1>5. PICK l : l = [was EXCEPT !.purge = @ \ {c}, !.saw = {}]
  BY Zenon
<1>6. /\ l \in Memory /\ l.chan = was.chan /\ l.after = was.after /\ l.victim = was.victim
      /\ l.purge = was.purge \ {c} /\ l.closes = was.closes /\ l.back = was.back /\ l.left = was.left
  BY <1>5 DEF Memory
<1>7. Moves(t, "purge", l)
  <2>1. pc' = [pc EXCEPT ![t] = "purge"] /\ local' = [local EXCEPT ![t] = l]
    BY <1>3, <1>5, Zenon DEF Jump, Remember
  <2> QED BY <1>6, <2>1 DEF Moves, Stages
<1>8. /\ Quitting("purge", l) <=> Quitting(pc[t], was)
      /\ Entering("purge", l) <=> Entering(pc[t], was)
      /\ InSection("purge", l) <=> InSection(pc[t], was)
      /\ PlanOK("purge", l) /\ Purging("purge") /\ Purging(pc[t]) /\ ~HalfWay(pc[t])
  BY <1>3, <1>4, <1>6 DEF Quitting, Entering, InSection, PlanOK, Purging, HalfWay
<1> HIDE DEF Inv
<1> QED BY <1>1, <1>3, <1>4, <1>6, <1>7, <1>8, RemovalKeepsInv

LEMMA QuitSpliceKeepsInv ==
  ASSUME Inv, NEW t \in Users, QuitSplice(t)
  PROVE  Inv'
<1>1. PICK was \in Memory : was = local[t]
  BY Remembered DEF Inv
<1>2. PICK c \in Channels, S \in SUBSET Users :
        c = was.at /\ S = (get_users_on_channel(c) \cup was.saw) \ {t}
  <2>1. was.at \in Channels /\ was.saw \in SUBSET Users
    BY DEF Memory
  <2> QED BY <2>1, Receivers
<1>3. /\ pc[t] = "quit_splice" /\ Splice(t, c, t, remove_chanUser(c, t)) /\ Jump(t, "relay")
      /\ Remember(t, [was EXCEPT !.left = @ \ {c}, !.chan = c, !.after = "quit_leave", !.saw = {},
                                 !.todo = S])
      /\ UNCHANGED <<clients, names, oper, away, lock2, env, intruded, kept, late>>
  BY <1>1, <1>2, Zenon DEF QuitSplice
<1>4. was.victim = NoUser
  BY <1>1, <1>3, Remembered DEF Inv, Purging
<1>5. PICK l : l = [was EXCEPT !.left = @ \ {c}, !.chan = c, !.after = "quit_leave", !.saw = {}, !.todo = S]
  BY Zenon
<1>6. l \in Memory /\ l.after = "quit_leave" /\ l.victim = NoUser /\ l.left = was.left \ {c}
  BY <1>4, <1>5 DEF Memory, Afters
<1>7. Moves(t, "relay", l)
  <2>1. pc' = [pc EXCEPT ![t] = "relay"] /\ local' = [local EXCEPT ![t] = l]
    BY <1>3, <1>5, Zenon DEF Jump, Remember
  <2> QED BY <1>6, <2>1 DEF Moves, Stages
<1>8. /\ Quitting("relay", l) /\ Quitting(pc[t], was) /\ ~Entering("relay", l) /\ ~InSection("relay", l)
      /\ PlanOK("relay", l) /\ ~Purging("relay") /\ ~Purging(pc[t]) /\ ~HalfWay(pc[t])
  BY <1>3, <1>6 DEF Quitting, Entering, InSection, PlanOK, Purging, HalfWay
<1> HIDE DEF Inv
<1> QED BY <1>1, <1>3, <1>6, <1>7, <1>8, RemovalKeepsInv

LEMMA PartSpliceKeepsInv ==
  ASSUME Inv, NEW t \in Users, PartSplice(t)
  PROVE  Inv'
<1>1. PICK was \in Memory : was = local[t]
  BY Remembered DEF Inv
<1>2. PICK c \in Channels : c = was.at
  BY DEF Memory
<1>3. /\ pc[t] = "part_splice" /\ Splice(t, c, t, remove_chanUser(c, t))
      /\ Jump(t, "part_end") /\ Remember(t, [was EXCEPT !.saw = {}])
      /\ UNCHANGED <<clients, names, oper, away, lock2, env, intruded, kept, late>>
  BY <1>1, <1>2, Zenon DEF PartSplice
<1>4. was.victim = NoUser /\ was.after = "read" /\ was.chan = c
  BY <1>1, <1>2, <1>3, Remembered DEF Inv, Purging, PlanOK
<1>5. PICK l : l = [was EXCEPT !.saw = {}]
  BY Zenon
<1>6. l \in Memory /\ l.after = "read" /\ l.victim = NoUser /\ l.chan = c
  BY <1>4, <1>5 DEF Memory
<1>7. Moves(t, "part_end", l)
  <2>1. pc' = [pc EXCEPT ![t] = "part_end"] /\ local' = [local EXCEPT ![t] = l]
    BY <1>3, <1>5, Zenon DEF Jump, Remember
  <2> QED BY <1>6, <2>1 DEF Moves, Stages
<1>8. /\ ~Quitting("part_end", l) /\ ~Quitting(pc[t], was) /\ ~Entering("part_end", l)
      /\ InSection(pc[t], was)
      /\ PlanOK("part_end", l) /\ ~Purging("part_end") /\ ~Purging(pc[t]) /\ ~HalfWay(pc[t])
  BY <1>3, <1>4, <1>6 DEF Quitting, Entering, InSection, PlanOK, Purging, HalfWay
<1> HIDE DEF Inv
<1> QED BY <1>1, <1>3, <1>6, <1>7, <1>8, RemovalKeepsInv

\* remove_client.
LEMMA ClientRemoved ==
  ASSUME ListsTyped, NEW v \in Users, remove_client(v), closed' \subseteq Users,
         UNCHANGED <<channels, lock2, gone, intruded, marks>>
  PROVE  /\ ListsTyped' /\ clients' = clients \ {v}
         /\ \A u \in Users \ {v} : names'[u] = names[u]
         /\ SameNames /\ SameMembers /\ (Unique => Unique')
<1>1. /\ clients' = clients \ {v} /\ names' = [names EXCEPT ![v] = Nothing]
      /\ oper' = oper \ {v} /\ away' = away \ {v}
  BY DEF remove_client
<1>2. Nothing \in Entry /\ Nothing.ops \subseteq Nothing.chans /\ Nothing.voices \subseteq Nothing.chans
  BY DEF Nothing, Entry
<1>3. names' \in [Users -> Entry] /\ names'[v] = Nothing /\ \A u \in Users \ {v} : names'[u] = names[u]
  BY <1>1, <1>2 DEF ListsTyped
<1>4. \A u \in Users : names'[u].ops \subseteq names'[u].chans /\ names'[u].voices \subseteq names'[u].chans
  BY <1>2, <1>3 DEF ListsTyped
<1>5. clients' \subseteq Users /\ oper' \subseteq clients' /\ away' \subseteq clients'
  BY <1>1 DEF ListsTyped
<1>6. ChannelsTyped' /\ SameNames /\ SameMembers /\ (Unique => Unique')
  BY NodesKept DEF ListsTyped
<1>7. /\ lock2' \in Users \cup {NoUser} /\ gone' \subseteq Users /\ intruded' \in BOOLEAN
      /\ torn' \subseteq Channels /\ late' \subseteq Users
  BY DEF ListsTyped, marks
<1>8. ListsTyped'
  BY <1>3, <1>4, <1>5, <1>6, <1>7 DEF ListsTyped
<1> QED BY <1>1, <1>3, <1>6, <1>8

\* v, who is in no channel any more, leaves the list of clients, and t goes on.
LEMMA RemoveClientKeepsInv ==
  ASSUME Inv, NEW t \in Users, NEW p, NEW l, Moves(t, p, l), PlanOK(p, l), NEW v \in Users, remove_client(v),
         closed' \subseteq Users, UNCHANGED <<channels, lock2, gone, intruded, marks>>,
         NEW was, was = local[t], ~HalfWay(pc[t]),
         ~intruded => OnlyIn(v, {}),
         Purging(pc[t]) => was.victim = v,
         v # t /\ Quitting(pc[t], was) => Quitting(p, l),
         ~Purging(p), p \notin {"join_add", "join_look", "join_user", "part_end"},
         Quitting(p, l) => Quitting(pc[t], was) /\ l.left = was.left,
         InSection(p, l) => InSection(pc[t], was),
         Entering(p, l) => Entering(pc[t], was) /\ l.chan = was.chan
  PROVE  Inv'
<1>1. /\ ListsTyped' /\ clients' = clients \ {v}
      /\ \A u \in Users \ {v} : names'[u] = names[u]
      /\ SameNames /\ SameMembers /\ (Unique => Unique')
  BY ClientRemoved DEF Inv, Typed
<1>2. Typed'
  BY <1>1, TypedStep DEF Inv
<1> SUFFICES ASSUME ~intruded' PROVE Unique' /\ \A u \in Users : Agrees(u)'
  BY <1>2 DEF Inv
<1>3. /\ Typed /\ Unique /\ (\A u \in Users : Agrees(u)) /\ OnlyIn(v, {})
      /\ torn' = torn /\ late' = late /\ lock2' = lock2
  BY DEF Inv, marks
<1>4. Unique' /\ \A u \in Users, d \in Channels : InChannel(u, d)' <=> InChannel(u, d)
  BY <1>1, <1>3 DEF SameMembers
<1>5. StandsOK(t, pc[t], was) /\ KnowsItsChannels(t) /\ IsInItsChannels(t)
  BY <1>3 DEF Agrees
<1>6. /\ pc'[t] = p /\ local'[t] = l
      /\ \A u \in Users : u # t => pc'[u] = pc[u] /\ local'[u] = local[u]
  BY <1>3, Moved
<1>7. OnlyIn(v, {})'
  BY <1>3, <1>4 DEF OnlyIn
<1>8. StandsOK(t, p, l)'
  <2>1. InSection(p, l) => lock2' = t
    BY <1>3, <1>5 DEF StandsOK
  <2>2. Entering(p, l) => is_already_chan(l.chan)'
    <3> SUFFICES ASSUME Entering(p, l) PROVE is_already_chan(l.chan)'
      OBVIOUS
    <3>1. PICK d \in Channels : d = was.chan
      BY <1>3, Remembered
    <3>2. is_already_chan(d)'
      BY <1>1, <1>5, <3>1 DEF StandsOK, SameNames
    <3> QED BY <3>1, <3>2
  <2>3. Quitting(p, l) => OnlyIn(t, l.left)'
    BY <1>3, <1>4, <1>5 DEF StandsOK, OnlyIn
  <2>4. (InSection(p, l) \/ Entering(p, l) \/ Purging(p) \/ Quitting(p, l))' <=>
          (InSection(p, l) \/ Entering(p, l) \/ Purging(p) \/ Quitting(p, l))
    BY DEF InSection, Entering, Purging, Quitting
  <2> QED BY <2>1, <2>2, <2>3 DEF StandsOK, InSection, Entering, Purging, Quitting
<1>9. KnowsItsChannels(t)'
  <2>1. CASE v = t
    BY <1>7, <2>1 DEF KnowsItsChannels, OnlyIn
  <2>2. CASE v # t
    <3>1. names'[t] = names[t] /\ (t \in clients' <=> t \in clients)
      BY <1>1, <2>2
    <3> QED BY <1>3, <1>4, <1>5, <3>1 DEF KnowsItsChannels, OnlyIn
  <2> QED BY <2>1, <2>2
<1>10. IsInItsChannels(t)'
  <2> SUFFICES ASSUME t \in clients', ~Leaves(t)', NEW d \in names'[t].chans \ torn'
               PROVE  InChannel(t, d)'
    BY DEF IsInItsChannels
  <2>1. v # t /\ t \in clients /\ names'[t] = names[t]
    BY <1>1
  <2>2. ~Leaves(t)
    BY <1>3, <2>1, StillLeaves
  <2>3. d \in Channels /\ d \in names[t].chans \ torn
    <3>1. names[t].chans \in SUBSET Channels
      BY <1>3 DEF Typed, ListsTyped, Entry
    <3> QED BY <1>3, <2>1, <3>1
  <2>4. InChannel(t, d)
    BY <1>5, <2>1, <2>2, <2>3 DEF IsInItsChannels, HalfWay
  <2> QED BY <1>4, <2>3, <2>4
<1>11. /\ torn \subseteq torn' /\ clients' \subseteq clients
       /\ late \subseteq late' /\ late' \subseteq late \cup {t}
       /\ t \notin late' \ late
       /\ \A u \in Users \ {t} : u \in clients' => names'[u].chans = names[u].chans
       /\ \A u \in Users \ {t} : lock2 = u => lock2' = u /\ SameNames
       /\ \A u \in Users \ {t}, d \in Channels \ torn' : InChannel(u, d)' => InChannel(u, d)
       /\ \A d \in Channels \ torn' : InChannel(t, d)' => InChannel(t, d)
       /\ \A u \in Users \ {t}, d \in Channels \ torn' : InChannel(u, d) => InChannel(u, d)'
  BY <1>1, <1>3, <1>4
<1>12. /\ \A u \in Users : u \in clients \ clients' => OnlyIn(u, {})'
       /\ Purging(pc[t]) => local[t].victim \notin clients'
       /\ t \in clients' /\ Quitting(pc[t], local[t]) => Quitting(p, l)
  <2>1. \A u \in Users : u \in clients \ clients' => u = v
    BY <1>1
  <2> QED BY <1>1, <1>7, <2>1
<1> HIDE DEF Inv
<1> QED BY <1>3, <1>4, <1>8, <1>9, <1>10, <1>11, <1>12, Change

LEMMA EndPurgeKeepsInv ==
  ASSUME Inv, NEW t \in Users, EndPurge(t)
  PROVE  Inv'
<1>1. PICK was \in Memory : was = local[t]
  BY Remembered DEF Inv
<1>2. PICK v \in Users \cup {NoUser}, back \in Backs : v = was.victim /\ back = was.back
  BY DEF Memory
<1>3. /\ pc[t] = "purge" /\ was.purge = {} /\ remove_client(v)
      /\ closed' = IF back = "ended" THEN closed ELSE closed \cup {was.closes}
      /\ IF back \in {"read", "ended"} THEN Go(t, back)
         ELSE /\ Jump(t, back)
              /\ Remember(t, [was EXCEPT !.victim = NoUser, !.closes = NoUser, !.back = "ended"])
      /\ UNCHANGED <<channels, lock2, gone, commands, intruded, marks>>
  BY <1>1, <1>2, Zenon DEF EndPurge
<1>4. PlanOK("purge", was) /\ v \in Users /\ was.closes \in Users /\ (back # "relay" => was.after = "read")
  BY <1>1, <1>2, <1>3, Remembered DEF Inv, Purging, PlanOK
<1>5. closed' \subseteq Users
  BY <1>3, <1>4 DEF Inv, Typed, ListsTyped
<1>6. PICK l : /\ Moves(t, back, l) /\ l.victim = NoUser
               /\ back \in {"read", "ended"} => l.after = "read"
               /\ back \notin {"read", "ended"} =>
                    l.after = was.after /\ l.chan = was.chan /\ l.left = was.left
  <2>1. back \in Stages
    BY DEF Backs, Stages
  <2>2. CASE back \in {"read", "ended"}
    <3>1. Moves(t, back, Idle)
      BY <1>3, <2>1, <2>2, Gone DEF Inv
    <3>2. PICK l : l = Idle
      OBVIOUS
    <3> QED BY <2>2, <3>1, <3>2, IdleMemory
  <2>3. CASE back \notin {"read", "ended"}
    <3>1. PICK l : l = [was EXCEPT !.victim = NoUser, !.closes = NoUser, !.back = "ended"]
      BY Zenon
    <3>2. l \in Memory /\ l.victim = NoUser /\ l.after = was.after /\ l.chan = was.chan /\ l.left = was.left
      BY <3>1 DEF Memory, Backs
    <3>3. pc' = [pc EXCEPT ![t] = back] /\ local' = [local EXCEPT ![t] = l]
      BY <1>3, <2>3, <3>1, Zenon DEF Jump, Remember
    <3>4. Moves(t, back, l)
      BY <2>1, <3>2, <3>3 DEF Moves
    <3> QED BY <2>3, <3>2, <3>4
  <2> QED BY <2>2, <2>3
<1>7. back = "relay" => l.after = was.after /\ l.chan = was.chan /\ l.left = was.left
  BY <1>6
<1>8. back # "relay" => l.after = "read" /\ was.after = "read"
  BY <1>4, <1>6
<1>9. /\ Quitting(back, l) <=> Quitting(pc[t], was)
      /\ Quitting(back, l) => l.left = was.left
      /\ InSection(back, l) => InSection(pc[t], was)
      /\ Entering(back, l) => Entering(pc[t], was) /\ l.chan = was.chan
      /\ ~Purging(back) /\ back \notin {"join_add", "join_look", "join_user", "part_end"}
      /\ ~HalfWay(pc[t])
  BY <1>3, <1>7, <1>8 DEF Quitting, InSection, Entering, Purging, HalfWay, Backs
<1>10. PlanOK(back, l)
  BY <1>6, <1>8, <1>9 DEF PlanOK, Backs
<1>11. ~intruded => OnlyIn(v, {})
  BY <1>1, <1>2, <1>3 DEF Inv, Agrees, StandsOK, Purging
<1> HIDE DEF Inv
<1> QED BY <1>1, <1>2, <1>3, <1>4, <1>5, <1>6, <1>9, <1>10, <1>11, RemoveClientKeepsInv

LEMMA QuitEndKeepsInv ==
  ASSUME Inv, NEW t \in Users, QuitEnd(t)
  PROVE  Inv'
<1>1. PICK was \in Memory : was = local[t]
  BY Remembered DEF Inv
<1>2. /\ pc[t] = "quit_leave" /\ was.left = {} /\ remove_client(t) /\ Go(t, "ended")
      /\ UNCHANGED <<channels, lock2, env, intruded, marks>>
  BY <1>1 DEF QuitEnd
<1>3. closed' \subseteq Users /\ UNCHANGED <<channels, lock2, gone, intruded, marks>>
  BY <1>2 DEF Inv, Typed, ListsTyped, env
<1>4. PICK l : l = Idle /\ l.victim = NoUser /\ l.after = "read"
  BY IdleMemory
<1>5. Moves(t, "ended", l)
  <2>1. "ended" \in Stages
    BY DEF Stages
  <2>2. Moves(t, "ended", Idle)
    BY <1>2, <2>1, Gone DEF Inv
  <2> QED BY <1>4, <2>2
<1>6. /\ PlanOK("ended", l) /\ ~Quitting("ended", l) /\ ~InSection("ended", l) /\ ~Entering("ended", l)
      /\ ~Purging("ended") /\ ~Purging(pc[t]) /\ ~HalfWay(pc[t])
  BY <1>2, <1>4 DEF PlanOK, Quitting, InSection, Entering, Purging, HalfWay
<1>7. ~intruded => OnlyIn(t, {})
  BY <1>1, <1>2 DEF Inv, Agrees, StandsOK, Quitting
<1> HIDE DEF Inv
<1> QED BY <1>1, <1>2, <1>3, <1>5, <1>6, <1>7, RemoveClientKeepsInv

\* The client's own list first.
LEMMA JoinNameKeepsInv ==
  ASSUME Inv, NEW t \in Users, JoinName(t)
  PROVE  Inv'
<1>1. PICK was \in Memory, c \in Channels : was = local[t] /\ c = was.chan
  BY Remembered DEF Inv
<1>2. /\ pc[t] = "join_name" /\ Go(t, "join_look") /\ names' = add_chanName(t, c)
      /\ UNCHANGED <<clients, oper, away, channels, lock2, env, flags>>
  BY <1>1 DEF JoinName
<1>3. was.victim = NoUser /\ was.after = "read"
  BY <1>1, <1>2, Remembered DEF Inv, Purging
<1>4. ChannelsTyped' /\ SameNames /\ SameMembers /\ (Unique => Unique')
  BY <1>2, NodesKept DEF Inv, Typed, ListsTyped
<1>5. /\ names' \in [Users -> Entry]
      /\ \A u \in Users : /\ u # t => names'[u].chans = names[u].chans
                          /\ names'[u].ops \subseteq names'[u].chans
                          /\ names'[u].voices \subseteq names'[u].chans
      /\ names'[t].chans \in {names[t].chans, names[t].chans \cup {c}}
      /\ t \in clients => names'[t].chans = names[t].chans \cup {c}
  <2>1. /\ names \in [Users -> Entry]
        /\ \A u \in Users : names[u].ops \subseteq names[u].chans /\ names[u].voices \subseteq names[u].chans
    BY DEF Inv, Typed, ListsTyped
  <2>2. CASE t \notin clients
    BY <1>2, <2>1, <2>2 DEF add_chanName
  <2>3. CASE t \in clients
    <3>1. PICK e : e = [names[t] EXCEPT !.chans = @ \cup {c},
                                        !.ops = IF is_empty_channel(c) THEN @ \cup {c} ELSE @]
      BY Zenon
    <3>2. names' = [names EXCEPT ![t] = e]
      BY <1>2, <2>3, <3>1, Zenon DEF add_chanName
    <3>3. /\ e \in Entry /\ e.chans = names[t].chans \cup {c}
          /\ e.ops \subseteq e.chans /\ e.voices \subseteq e.chans
      BY <2>1, <3>1 DEF Entry
    <3>4. names'[t] = e /\ \A u \in Users : u # t => names'[u] = names[u]
      BY <2>1, <3>2
    <3>5. names' \in [Users -> Entry]
      BY <2>1, <3>2, <3>3
    <3> HIDE DEF Inv
    <3>6. /\ e \in Entry /\ e.chans = names[t].chans \cup {c}
          /\ e.ops \subseteq e.chans /\ e.voices \subseteq e.chans
      BY <3>3, Zenon
    <3> QED BY <2>1, <3>4, <3>5, <3>6
  <2> QED BY <2>2, <2>3
<1>6. ListsTyped'
  BY <1>2, <1>4, <1>5 DEF Inv, Typed, ListsTyped, env, flags, marks
<1>7. Moves(t, "join_look", was)
  <2>1. "join_look" \in Stages
    BY DEF Stages
  <2> QED BY <1>1, <1>2, <2>1, Gone DEF Inv
<1>8. /\ PlanOK("join_look", was) /\ ~Purging("join_look") /\ ~Quitting("join_look", was)
      /\ ~Purging(pc[t]) /\ ~Quitting(pc[t], was)
  BY <1>2, <1>3 DEF PlanOK, Purging, Quitting
<1>9. Typed'
  BY <1>6, <1>7, <1>8, TypedStep DEF Inv
<1> SUFFICES ASSUME ~intruded' PROVE Unique' /\ \A u \in Users : Agrees(u)'
  BY <1>9 DEF Inv
<1>10. /\ Typed /\ Unique /\ (\A u \in Users : Agrees(u))
       /\ torn' = torn /\ late' = late /\ lock2' = lock2 /\ clients' = clients
  BY <1>2 DEF Inv, flags, marks
<1>11. Unique' /\ \A u \in Users, d \in Channels : InChannel(u, d)' <=> InChannel(u, d)
  BY <1>4, <1>10 DEF SameMembers
<1>12. StandsOK(t, "join_name", was) /\ KnowsItsChannels(t) /\ IsInItsChannels(t)
  BY <1>1, <1>2, <1>10 DEF Agrees
<1>13. /\ pc'[t] = "join_look" /\ local'[t] = was
       /\ \A u \in Users : u # t => pc'[u] = pc[u] /\ local'[u] = local[u]
  BY <1>7, <1>10, Moved
<1>14. StandsOK(t, "join_look", was)'
  <2>1. lock2' = t /\ is_already_chan(c)'
    BY <1>1, <1>4, <1>10, <1>12 DEF StandsOK, InSection, Entering, SameNames
  <2>2. is_already_chan(was.chan)'
    BY <1>1, <2>1 DEF is_already_chan, Nodes
  <2>3. t \in clients' => was.chan \in names'[t].chans
    BY <1>1, <1>5, <1>10
  <2> QED BY <1>8, <2>1, <2>2, <2>3 DEF StandsOK, Purging, Quitting
<1>15. KnowsItsChannels(t)'
  BY <1>5, <1>10, <1>11, <1>12 DEF KnowsItsChannels, OnlyIn
<1>16. IsInItsChannels(t)'
  <2> SUFFICES ASSUME t \in clients', ~Leaves(t)', NEW d \in names'[t].chans \ torn'
               PROVE  InChannel(t, d)' \/ (HalfWay(pc'[t]) /\ d = local'[t].chan)
    BY DEF IsInItsChannels, HalfWay
  <2>1. ~Leaves(t)
    BY <1>1, <1>7, <1>8, <1>10, StillLeaves
  <2>2. d \in Channels
    BY <1>6 DEF ListsTyped, Entry
  <2>3. CASE d = c
    BY <1>1, <1>13, <2>3 DEF HalfWay
  <2>4. CASE d # c
    <3>1. d \in names[t].chans \ torn
      BY <1>5, <1>10, <2>4
    <3>2. InChannel(t, d)
      BY <1>2, <1>10, <1>12, <2>1, <3>1 DEF IsInItsChannels
    <3> QED BY <1>11, <2>2, <3>2
  <2> QED BY <2>3, <2>4
<1>17. /\ torn \subseteq torn' /\ clients' \subseteq clients
       /\ late \subseteq late' /\ late' \subseteq late \cup {t}
       /\ t \notin late' \ late
       /\ \A u \in Users \ {t} : u \in clients' => names'[u].chans = names[u].chans
       /\ \A u \in Users \ {t} : lock2 = u => lock2' = u /\ SameNames
       /\ \A u \in Users : u \notin clients \ clients'
       /\ \A u \in Users, d \in Channels \ torn' : InChannel(u, d)' <=> InChannel(u, d)
  BY <1>4, <1>5, <1>10, <1>11
<1> HIDE DEF Inv
<1> QED BY <1>1, <1>7, <1>8, <1>10, <1>11, <1>14, <1>15, <1>16, <1>17, Change

\* Then the channel's list, and the end of the section.
LEMMA JoinUserKeepsInv ==
  ASSUME Inv, NEW t \in Users, JoinUser(t)
  PROVE  Inv'
<1>1. PICK was \in Memory, c \in Channels : was = local[t] /\ c = was.at
  BY Remembered DEF Inv
<1>2. /\ pc[t] = "join_user" /\ Splice(t, c, t, add_chanUser(c, t))
      /\ late' = (IF Removed(t) THEN late \cup {t} ELSE late) /\ Unlock(t)
      /\ Jump(t, "names_one") /\ Remember(t, [was EXCEPT !.saw = {}])
      /\ UNCHANGED <<clients, names, oper, away, env, kept>>
  BY <1>1, Zenon DEF JoinUser
<1>3. was.victim = NoUser /\ was.after = "read" /\ was.chan = c
  BY <1>1, <1>2, Remembered DEF Inv, Purging, PlanOK
<1>4. /\ ChannelsTyped' /\ SameNames /\ (Unique => Unique') /\ torn \subseteq torn' /\ torn' \subseteq Channels
      /\ Unique => \A u \in Users, d \in Channels \ torn :
                     InChannel(u, d)' <=> (InChannel(u, d) \/ (u = t /\ d = c /\ is_already_chan(c)))
  BY <1>2, AdditionSpliced DEF Inv, Typed
<1>5. /\ lock2' = NoUser /\ intruded' = (intruded \/ lock2 \notin {NoUser, t})
      /\ UNCHANGED <<clients, names, oper, away, gone, closed>>
  BY <1>2 DEF Unlock, env
<1>6. late' \subseteq Users
  BY <1>2 DEF Inv, Typed, ListsTyped
<1>7. ListsTyped'
  BY <1>4, <1>5, <1>6 DEF Inv, Typed, ListsTyped
<1>8. PICK l : l = [was EXCEPT !.saw = {}]
  BY Zenon
<1>9. l \in Memory /\ l.victim = NoUser /\ l.after = "read"
  BY <1>3, <1>8 DEF Memory
<1>10. Moves(t, "names_one", l)
  <2>1. pc' = [pc EXCEPT ![t] = "names_one"] /\ local' = [local EXCEPT ![t] = l]
    BY <1>2, <1>8, Zenon DEF Jump, Remember
  <2> QED BY <1>9, <2>1 DEF Moves, Stages
<1>11. /\ PlanOK("names_one", l) /\ StandsOK(t, "names_one", l)'
       /\ ~Purging(pc[t]) /\ ~Quitting(pc[t], was)
  BY <1>2, <1>3, <1>9 DEF PlanOK, StandsOK, InSection, Entering, Purging, Quitting
<1>12. Typed'
  BY <1>7, <1>10, <1>11, TypedStep DEF Inv
<1> SUFFICES ASSUME ~intruded' PROVE Unique' /\ \A u \in Users : Agrees(u)'
  BY <1>12 DEF Inv
<1>13. Typed /\ Unique /\ \A u \in Users : Agrees(u)
  BY <1>5 DEF Inv
<1>14. /\ Unique'
       /\ \A u \in Users, d \in Channels \ torn' :
            InChannel(u, d)' <=> (InChannel(u, d) \/ (u = t /\ d = c /\ is_already_chan(c)))
  BY <1>4, <1>13
<1>15. StandsOK(t, "join_user", was) /\ KnowsItsChannels(t) /\ IsInItsChannels(t)
  BY <1>1, <1>2, <1>13 DEF Agrees
<1>16. lock2 = t /\ is_already_chan(c) /\ (t \in clients => c \in names[t].chans)
  BY <1>3, <1>15 DEF StandsOK, InSection, Entering
<1>17. KnowsItsChannels(t)'
  <2> SUFFICES ASSUME NEW d \in Channels \ torn', InChannel(t, d)'
               PROVE  (d \in names'[t].chans /\ t \in clients') \/ t \in late'
    BY DEF KnowsItsChannels, OnlyIn
  <2>1. CASE InChannel(t, d)
    BY <1>2, <1>4, <1>5, <1>15, <2>1 DEF KnowsItsChannels, OnlyIn
  <2>2. CASE d = c
    <3>1. t \notin clients => Removed(t)
      BY DEF Removed
    <3> QED BY <1>2, <1>5, <1>16, <2>2, <3>1
  <2> QED BY <1>14, <2>1, <2>2
<1>18. IsInItsChannels(t)'
  <2> SUFFICES ASSUME t \in clients', ~Leaves(t)', NEW d \in names'[t].chans \ torn'
               PROVE  InChannel(t, d)'
    BY DEF IsInItsChannels
  <2>1. ~Leaves(t)
    BY <1>1, <1>10, <1>11, <1>13, StillLeaves
  <2>2. d \in Channels /\ d \in names[t].chans \ torn
    BY <1>4, <1>5, <1>7 DEF ListsTyped, Entry
  <2>3. CASE d = c
    BY <1>14, <1>16, <2>2, <2>3
  <2>4. CASE d # c
    <3>1. InChannel(t, d)
      BY <1>1, <1>3, <1>5, <1>15, <2>1, <2>2, <2>4 DEF IsInItsChannels
    <3> QED BY <1>14, <2>2, <3>1
  <2> QED BY <2>3, <2>4
<1>19. /\ torn \subseteq torn' /\ clients' \subseteq clients
       /\ late \subseteq late' /\ late' \subseteq late \cup {t}
       /\ t \in late' \ late => Removed(t)
       /\ \A u \in Users \ {t} : u \in clients' => names'[u].chans = names[u].chans
       /\ \A u \in Users \ {t} : lock2 = u => lock2' = u /\ SameNames
       /\ \A u \in Users : u \notin clients \ clients'
       /\ \A u \in Users \ {t}, d \in Channels \ torn' : InChannel(u, d)' <=> InChannel(u, d)
       /\ \A d \in Channels \ torn' : InChannel(t, d)' => InChannel(t, d) \/ t \in late' \/ ~Removed(t)
  BY <1>2, <1>4, <1>5, <1>14, <1>16
<1> HIDE DEF Inv
<1> QED BY <1>1, <1>10, <1>11, <1>13, <1>14, <1>17, <1>18, <1>19, Change

\* Nobody is in an empty channel.
LEMMA NobodyThere ==
  ASSUME ChannelsTyped, Unique, NEW c \in Channels, is_empty_channel(c), NEW u \in Users
  PROVE  ~InChannel(u, c)
<1>1. Nodes(c) # {} /\ First(c).users = {}
  BY FirstNode DEF is_empty_channel, is_already_chan
<1>2. Nodes(c) = {Min(Nodes(c))}
  BY <1>1, FirstIsThere
<1> QED BY <1>1, <1>2 DEF InChannel, First

\* The end of PART.
LEMMA PartEndKeepsInv ==
  ASSUME Inv, NEW t \in Users, PartEnd(t)
  PROVE  Inv'
<1>1. PICK was \in Memory, c \in Channels : was = local[t] /\ c = was.chan
  BY Remembered DEF Inv
<1>2. /\ pc[t] = "part_end" /\ Go(t, "read") /\ names' = remove_chanName(t, c)
      /\ channels' = (IF is_empty_channel(c) THEN remove_channel(c) ELSE channels)
      /\ torn' = (IF is_empty_channel(c) /\ \E other \in Users : Splicing(other, c)
                  THEN torn \cup {c} ELSE torn)
      /\ Unlock(t) /\ UNCHANGED <<clients, oper, away, env, kept, late>>
  BY <1>1 DEF PartEnd
<1>3. was.victim = NoUser /\ was.after = "read"
  BY <1>1, <1>2, Remembered DEF Inv, Purging
<1>4. /\ ChannelsTyped' /\ (Unique => Unique')
      /\ Unique => \A u \in Users, d \in Channels : InChannel(u, d)' <=> InChannel(u, d)
  <2>1. CASE is_empty_channel(c)
    <3>1. is_already_chan(c) /\ channels' = remove_channel(c) /\ ChannelsTyped
      BY <1>2, <2>1 DEF is_empty_channel, Inv, Typed, ListsTyped
    <3> HIDE DEF Inv
    <3> QED BY <2>1, <3>1, ChannelRemoved, NobodyThere
  <2>2. CASE ~is_empty_channel(c)
    <3>1. ChannelsTyped /\ UNCHANGED channels
      BY <1>2, <2>2 DEF Inv, Typed, ListsTyped
    <3> HIDE DEF Inv
    <3> QED BY <3>1, NodesKept DEF SameMembers
  <2> QED BY <2>1, <2>2
<1>5. /\ names' \in [Users -> Entry] /\ \A u \in Users : u # t => names'[u] = names[u]
      /\ names'[t].chans = names[t].chans \ {c}
      /\ names'[t].ops \subseteq names'[t].chans /\ names'[t].voices \subseteq names'[t].chans
  <2>1. /\ names \in [Users -> Entry] /\ names[t] \in Entry
        /\ names[t].ops \subseteq names[t].chans /\ names[t].voices \subseteq names[t].chans
    BY DEF Inv, Typed, ListsTyped
  <2>2. PICK e : e = [names[t] EXCEPT !.chans = @ \ {c}, !.ops = @ \ {c}, !.voices = @ \ {c}]
    BY Zenon
  <2>3. names' = [names EXCEPT ![t] = e]
    BY <1>2, <2>2, Zenon DEF remove_chanName
  <2>4. /\ e \in Entry /\ e.chans = names[t].chans \ {c}
        /\ e.ops \subseteq e.chans /\ e.voices \subseteq e.chans
    BY <2>1, <2>2 DEF Entry
  <2> HIDE DEF Inv
  <2> QED BY <2>1, <2>3, <2>4
<1>6. /\ lock2' = NoUser /\ intruded' = (intruded \/ lock2 \notin {NoUser, t})
      /\ UNCHANGED <<clients, oper, away, gone, closed, late>>
      /\ torn \subseteq torn' /\ torn' \subseteq Channels
  BY <1>2 DEF Unlock, env, Inv, Typed, ListsTyped
<1>7. ListsTyped'
  <2>1. \A u \in Users : names'[u].ops \subseteq names'[u].chans /\ names'[u].voices \subseteq names'[u].chans
    BY <1>5 DEF Inv, Typed, ListsTyped
  <2> QED BY <1>4, <1>5, <1>6, <2>1 DEF Inv, Typed, ListsTyped
<1>8. PICK l : l = Idle /\ l.victim = NoUser /\ l.after = "read"
  BY IdleMemory
<1>9. Moves(t, "read", l)
  <2>1. "read" \in Stages
    BY DEF Stages
  <2>2. Moves(t, "read", Idle)
    BY <1>2, <2>1, Gone DEF Inv
  <2> QED BY <1>8, <2>2
<1>10. /\ PlanOK("read", l) /\ StandsOK(t, "read", l)'
       /\ ~Purging(pc[t]) /\ ~Quitting(pc[t], was)
  BY <1>2, <1>3, <1>8 DEF PlanOK, StandsOK, InSection, Entering, Purging, Quitting
<1>11. Typed'
  BY <1>7, <1>9, <1>10, TypedStep DEF Inv
<1> SUFFICES ASSUME ~intruded' PROVE Unique' /\ \A u \in Users : Agrees(u)'
  BY <1>11 DEF Inv
<1>12. Typed /\ Unique /\ \A u \in Users : Agrees(u)
  BY <1>6 DEF Inv
<1>13. Unique' /\ \A u \in Users, d \in Channels : InChannel(u, d)' <=> InChannel(u, d)
  BY <1>4, <1>12
<1>14. StandsOK(t, "part_end", was) /\ KnowsItsChannels(t) /\ IsInItsChannels(t)
  BY <1>1, <1>2, <1>12 DEF Agrees
<1>15. lock2 = t /\ (c \notin torn => ~InChannel(t, c))
  BY <1>1, <1>14 DEF StandsOK, InSection
<1>16. KnowsItsChannels(t)'
  <2> SUFFICES ASSUME NEW d \in Channels \ torn', InChannel(t, d)'
               PROVE  (d \in names'[t].chans /\ t \in clients') \/ t \in late'
    BY DEF KnowsItsChannels, OnlyIn
  <2>1. InChannel(t, d) /\ d # c
    BY <1>6, <1>13, <1>15
  <2> QED BY <1>5, <1>6, <1>14, <2>1 DEF KnowsItsChannels, OnlyIn
<1>17. IsInItsChannels(t)'
  <2> SUFFICES ASSUME t \in clients', ~Leaves(t)', NEW d \in names'[t].chans \ torn'
               PROVE  InChannel(t, d)'
    BY DEF IsInItsChannels
  <2>1. ~Leaves(t)
    BY <1>1, <1>9, <1>10, <1>12, StillLeaves
  <2>2. d \in Channels /\ d \in names[t].chans \ torn /\ d # c
    BY <1>5, <1>6, <1>7 DEF ListsTyped, Entry
  <2>3. InChannel(t, d)
    BY <1>1, <1>6, <1>14, <2>1, <2>2 DEF IsInItsChannels
  <2> QED BY <1>13, <2>2, <2>3
<1>18. /\ late \subseteq late' /\ late' \subseteq late \cup {t} /\ clients' \subseteq clients
       /\ t \notin late' \ late
       /\ \A u \in Users \ {t} : u \in clients' => names'[u].chans = names[u].chans
       /\ \A u \in Users \ {t} : lock2 = u => lock2' = u /\ SameNames
       /\ \A u \in Users : u \notin clients \ clients'
       /\ \A u \in Users, d \in Channels \ torn' : InChannel(u, d)' <=> InChannel(u, d)
  BY <1>5, <1>6, <1>13, <1>15
<1> HIDE DEF Inv
<1> QED BY <1>1, <1>6, <1>9, <1>10, <1>12, <1>13, <1>16, <1>17, <1>18, Change

-----------------------------------------------------------------------------
(* All steps, and the theorems.                                             *)

\* A client hangs up, or nothing happens.
LEMMA StillKeepsInv ==
  ASSUME Inv, UNCHANGED <<lists, lock2, pc, local, closed, flags>>, gone' \subseteq Users
  PROVE  Inv'
<1>1. UNCHANGED <<clients, names, oper, away, channels, lock2, pc, local, closed, intruded, torn, late>>
  BY DEF lists, flags, marks
<1>2. ChannelsTyped' /\ SameNames /\ SameMembers /\ (Unique => Unique')
  BY <1>1, NodesKept DEF Inv, Typed, ListsTyped
<1>3. ListsTyped' /\ ThreadsTyped'
  BY <1>1, <1>2 DEF Inv, Typed, ListsTyped, ThreadsTyped
<1>4. \A u \in Users : PlanOK(pc[u], local[u])'
  BY <1>1 DEF Inv, Typed, PlanOK, Purging
<1>5. Typed'
  BY <1>3, <1>4 DEF Typed
<1> SUFFICES ASSUME ~intruded' PROVE Unique' /\ \A u \in Users : Agrees(u)'
  BY <1>5 DEF Inv
<1>6. Unique /\ \A u \in Users : Agrees(u)
  BY <1>1 DEF Inv
<1>7. \A v \in Users, d \in Channels : InChannel(v, d)' <=> InChannel(v, d)
  BY <1>2 DEF SameMembers
<1>8. ASSUME NEW u \in Users PROVE Agrees(u)'
  <2>1. StandsOK(u, pc[u], local[u])' /\ KnowsItsChannels(u)'
    <3>1. Typed /\ StandsOK(u, pc[u], local[u]) /\ KnowsItsChannels(u)
      BY <1>6 DEF Inv, Agrees
    <3>2. Purging(pc[u]) =>
            \A c \in Channels \ torn' :
              InChannel(local[u].victim, c)' => InChannel(local[u].victim, c) \/ local[u].victim \in late'
      <4> SUFFICES ASSUME Purging(pc[u]), NEW c \in Channels \ torn', InChannel(local[u].victim, c)'
                   PROVE  InChannel(local[u].victim, c)
        OBVIOUS
      <4> QED BY <1>1 DEF InChannel, Nodes
    <3> HIDE DEF Inv
    <3> QED BY <1>1, <1>2, <1>7, <3>1, <3>2, Bystander
  <2>2. Leaves(u)' <=> Leaves(u)
    BY <1>1 DEF Leaves
  <2>3. IsInItsChannels(u)' /\ LateIsOut(u)'
    <3>1. names[u].chans \in SUBSET Channels
      BY DEF Inv, Typed, ListsTyped, Entry
    <3>2. IsInItsChannels(u) /\ LateIsOut(u)
      BY <1>6 DEF Agrees
    <3> QED BY <1>1, <1>7, <2>2, <3>1, <3>2 DEF IsInItsChannels, LateIsOut
  <2> QED BY <2>1, <2>3 DEF Agrees
<1> QED BY <1>2, <1>6, <1>8

LEMMA InitInv == Init => Inv
<1> SUFFICES ASSUME Init PROVE Inv
  OBVIOUS
<1>1. Nothing \in Entry /\ Nothing.ops \subseteq Nothing.chans /\ Nothing.voices \subseteq Nothing.chans
      /\ Nothing.chans = {}
  BY DEF Nothing, Entry
<1>2. \A c \in Channels : Nodes(c) = {}
  BY DEF Init, Nodes
<1>3. ChannelsTyped /\ Unique
  BY <1>2 DEF Init, ChannelsTyped, Unique
<1>4. ListsTyped
  BY <1>1, <1>3 DEF Init, ListsTyped
<1>5. ThreadsTyped
  BY IdleMemory DEF Init, ThreadsTyped, Stages
<1>6. ASSUME NEW u \in Users PROVE PlanOK(pc[u], local[u]) /\ Agrees(u)
  <2>1. pc[u] = "read" /\ local[u] = Idle /\ names[u].chans = {}
    BY <1>1 DEF Init
  <2>2. \A c \in Channels : ~InChannel(u, c)
    BY <1>2 DEF InChannel
  <2>3. PlanOK(pc[u], local[u]) /\ StandsOK(u, pc[u], local[u])
    BY <2>1, IdleMemory DEF PlanOK, StandsOK, Entering, InSection, Quitting, Purging
  <2>4. KnowsItsChannels(u) /\ IsInItsChannels(u) /\ LateIsOut(u)
    BY <2>1, <2>2 DEF KnowsItsChannels, OnlyIn, IsInItsChannels, LateIsOut, Init
  <2> QED BY <2>3, <2>4 DEF Agrees
<1> QED BY <1>3, <1>4, <1>5, <1>6 DEF Inv, Typed

LEMMA NextKeepsInv == Inv /\ [Next]_vars => Inv'
<1> SUFFICES ASSUME Inv, [Next]_vars PROVE Inv'
  OBVIOUS
<1>1. CASE UNCHANGED vars
  <2>1. UNCHANGED <<lists, lock2, pc, local, closed, flags>> /\ gone' \subseteq Users
    BY <1>1 DEF vars, env, Inv, Typed, ListsTyped
  <2> QED BY <2>1, StillKeepsInv
<1>2. ASSUME NEW t \in Users, Arrive(t) PROVE Inv'
  BY <1>2, ArriveKeepsInv
<1>3. ASSUME NEW t \in Users, Hangup(t) PROVE Inv'
  <2>1. UNCHANGED <<lists, lock2, pc, local, closed, flags>> /\ gone' \subseteq Users
    BY <1>3 DEF Hangup, Inv, Typed, ListsTyped
  <2> QED BY <2>1, StillKeepsInv
<1>4. ASSUME NEW t \in Users, Command(t) PROVE Inv'
  <2>1. CASE Relay(t) \/ PurgeLook(t) \/ PurgeSplice(t) \/ EndPurge(t) \/ Depart(t)
    BY <2>1, RelayKeepsInv, PurgeLookKeepsInv, PurgeSpliceKeepsInv, EndPurgeKeepsInv, DepartKeepsInv
  <2>2. CASE QuitReply(t) \/ QuitLook(t) \/ QuitSplice(t) \/ QuitEnd(t)
    BY <2>2, QuitReplyKeepsInv, QuitLookKeepsInv, QuitSpliceKeepsInv, QuitEndKeepsInv
  <2>3. CASE \/ EndOfFile(t) \/ Reply(t) \/ Who(t) \/ Whois(t) \/ ListOne(t) \/ NamesOne(t) \/ NamesEnd(t)
             \/ Notice(t) \/ ModeReply(t) \/ TopicCheck(t) \/ ModeStart(t) \/ ModeAct(t) \/ JoinReply(t)
    BY <2>3, AnswersKeepInv
  <2>4. CASE Oper(t) \/ Away(t) \/ UserMode(t)
    BY <2>4, FlagsKeepInv
  <2>5. CASE JoinLock(t) \/ JoinAdd(t) \/ JoinName(t) \/ JoinLook(t) \/ JoinUser(t)
    BY <2>5, JoinLockKeepsInv, JoinAddKeepsInv, JoinNameKeepsInv, JoinLookKeepsInv, JoinUserKeepsInv
  <2>6. CASE PartCheck(t) \/ PartLook(t) \/ PartSplice(t) \/ PartEnd(t)
    BY <2>6, PartCheckKeepsInv, PartLookKeepsInv, PartSpliceKeepsInv, PartEndKeepsInv
  <2>7. CASE TopicChange(t) \/ ModeMember(t) \/ ModeChan(t) \/ ModeName(t) \/ ModeUser(t)
    BY <2>7, TopicChangeKeepsInv, ModeMemberKeepsInv, ModeChanKeepsInv, ModeNameKeepsInv, ModeUserKeepsInv
  <2>8. CASE Privmsg(t) \/ PrivmsgUnlock(t) \/ Tell(t) \/ TellAway(t)
    BY <2>8, PrivmsgKeepsInv, PrivmsgUnlockKeepsInv, TellKeepsInv, TellAwayKeepsInv
  <2>9. CASE Names(t) \/ NamesSend(t) \/ List(t) \/ ListSend(t)
    BY <2>9, NamesKeepsInv, NamesSendKeepsInv, ListKeepsInv, ListSendKeepsInv
  <2> QED BY <1>4, <2>1, <2>2, <2>3, <2>4, <2>5, <2>6, <2>7, <2>8, <2>9 DEF Command
<1> QED BY <1>1, <1>2, <1>3, <1>4 DEF Next, Step

\* The invariant of the lists and of the threads that change them, whatever the clients,
\* the channels and the commands, with the splices of QUIT and of sock_is_gone at any
\* moment (addremove.c:189-222, 283-296; quit_handler.c:54-75; channel_handlers.c:84-178).
THEOREM ChannelsInvariance == Spec => []Inv
<1>1. Init => Inv
  BY InitInv
<1>2. Inv /\ [Next]_vars => Inv'
  BY NextKeepsInv
<1> QED BY <1>1, <1>2, PTL DEF Spec

\* Every list holds what its type says, torn or not: users of a channel are clients'
\* threads, and who has a flag there is a user of it (addremove.c:167-222).
THEOREM ListTypes == Spec => []TypeOK
<1>1. Inv => TypeOK
  <2> SUFFICES ASSUME Inv PROVE TypeOK
    OBVIOUS
  <2>1. \A u \in Users : names[u].chans \subseteq Channels
                        /\ names[u].ops \subseteq names[u].chans /\ names[u].voices \subseteq names[u].chans
    BY DEF Inv, Typed, ListsTyped, Entry
  <2>2. \A i \in DOMAIN channels :
          /\ channels[i].name \in Channels /\ channels[i].users \subseteq Users
          /\ channels[i].ops \subseteq channels[i].users /\ channels[i].voices \subseteq channels[i].users
    BY DEF Inv, Typed, ListsTyped, ChannelsTyped, GoodNode, Node
  <2> QED BY <2>1, <2>2 DEF Inv, Typed, ListsTyped, TypeOK
<1> QED BY <1>1, ChannelsInvariance, PTL

\* A client's list of channels and the lists of users of the channels agree unless the
\* client is half-way in or out, as long as no unlock too many has let two threads into
\* the sections of lock2, for every channel whose list has not been spliced by one thread
\* between the look-up and the splice of another (addremove.c:167-222).
THEOREM ListsAgree == Spec => []MembershipAgrees
<1>1. Inv => MembershipAgrees
  <2> SUFFICES ASSUME Inv, ~intruded, NEW u \in clients, NEW c \in Channels \ torn,
                      pc[u] \notin {"join_look", "join_user", "part_end"}, ~Leaves(u)
               PROVE  is_chan_on_user(c, u) = InChannel(u, c)
    BY DEF MembershipAgrees
  <2>1. u \in Users
    BY DEF Inv, Typed, ListsTyped
  <2>2. KnowsItsChannels(u) /\ IsInItsChannels(u) /\ LateIsOut(u)
    BY <2>1 DEF Inv, Agrees
  <2>3. InChannel(u, c) => c \in names[u].chans
    BY <2>2 DEF KnowsItsChannels, OnlyIn, LateIsOut
  <2>4. c \in names[u].chans => InChannel(u, c)
    BY <2>2 DEF IsInItsChannels
  <2>5. (c \in names[u].chans) \in BOOLEAN /\ InChannel(u, c) \in BOOLEAN
    BY DEF InChannel
  <2> QED BY <2>3, <2>4, <2>5 DEF is_chan_on_user
<1> QED BY <1>1, ChannelsInvariance, PTL

\* Who is out of the list of clients is in no channel whose list is whole, unless it has
\* entered while or after another thread took it out (addremove.c:283-296,
\* quit_handler.c:54-75, channel_handlers.c:91-100).
THEOREM DepartedLeaveNothing == Spec => []DepartedIsGone
<1>1. Inv => DepartedIsGone
  BY DEF Inv, Agrees, DepartedIsGone, KnowsItsChannels, OnlyIn
<1> QED BY <1>1, ChannelsInvariance, PTL

=============================================================================
