---------------------------- MODULE ChircChannels ----------------------------
(***************************************************************************)
(* Channels, modes and messages of the chirc server: what the threads of   *)
(* registered clients do to the list of channels, to each client's own     *)
(* list of channels and to the mutex lock2 that should guard both          *)
(* (channel_handlers.c, mode_handlers.c, modes.c, msg_handlers.c, send.c,  *)
(* servermsg_handlers.c, quit_handler.c, the channel half of addremove.c). *)
(*                                                                         *)
(* A membership is kept twice: in the channel's list (chanUser) and in the *)
(* client's (chanName), with the operator and voice flags in both. A       *)
(* section under lock2 that only reads is one action. A change of a        *)
(* channel's list of users is two, the look-up of the node and the splice, *)
(* for JOIN and PART make it under lock2, but QUIT and sock_is_gone        *)
(* without: when one splice falls between the look-up and the splice of    *)
(* another, the list of that channel is torn and later changes of it may   *)
(* lose nodes or bring them back.                                          *)
(*                                                                         *)
(* Sections under the other mutex are single actions, although NOTICE to a *)
(* nick unlocks it twice (msg_handlers.c:347, 393). Nobody changes its     *)
(* nick, whose relay holds that mutex (login_handlers.c:85-89):            *)
(* ChircRegistry has that mutex and that relay. The per-client and         *)
(* per-channel mutexes are copied before they are locked and exclude       *)
(* nobody. Reading or freeing freed memory is not modelled: a walk over a  *)
(* list skips who has left it; nor are the commands of a client that is in *)
(* the list no more, whose nick is a null pointer.                         *)
(***************************************************************************)
EXTENDS Integers, FiniteSetsExt, SequencesExt

CONSTANTS
  Users,        \* registered clients; each has its thread, its descriptor, its nick
  Channels,     \* names of channels
  NoUser,       \* lock2 is free; no member is named
  Commands,     \* the commands that clients send
  Apart,       \* those of them that change no channel
  MaxCommands   \* bound: commands of all clients together, those that change no channel count twice

ASSUME ConstantsAssumption ==
  /\ NoUser \notin Users /\ IsFiniteSet(Users) /\ Channels # {}
  /\ MaxCommands \in Nat

VARIABLES
  clients,      \* users in the list of clients
  names,        \* each client's own list of channels, and its flags there
  oper,         \* server operators
  away,         \* users marked as away
  channels,     \* the list of channels, newest first
  lock2,        \* who holds the mutex
  pc,           \* what each thread is about to do
  local,        \* the command it handles and how far it is
  gone,         \* users whose peer has hung up
  closed,       \* users whose descriptor is closed while their thread goes on
  torn,         \* channels whose list was spliced between a look-up and a splice of another thread
  late,         \* users that entered a channel while or after they were taken out of the lists
  intruded,     \* an unlock has released lock2 under the thread that held it
  kept,         \* remove_client has met an empty list, and keeps the other mutex for ever
  commands      \* commands received so far, for the bound

lists == <<clients, names, oper, away, channels>>
env == <<gone, closed, commands>>
marks == <<torn, late>>
flags == <<intruded, kept, marks>>
vars == <<lists, lock2, pc, local, env, flags>>

\* The nobody of a list of channels.
Nothing == [chans |-> {}, ops |-> {}, voices |-> {}]

\* What a thread remembers. to: channel or letter, set or cleared, and member named in
\* the command; granted: MODE has found the permission; todo, after: who is still to get
\* the relay, and what follows it; left: the channels a QUIT has still to leave; victim,
\* purge, closes, back: whom sock_is_gone removes, from where still, the descriptor that
\* is closed then, and what follows; at, saw: the channel where it has found what it will
\* splice, and the users it saw there; turns: the replies NAMES has still to send.
Idle ==
  [chan |-> CHOOSE c \in Channels : TRUE, letter |-> "none", on |-> FALSE, member |-> NoUser,
   granted |-> FALSE, todo |-> {}, left |-> {}, victim |-> NoUser, purge |-> {},
   closes |-> NoUser, after |-> "read", back |-> "ended", turns |-> 0,
   at |-> CHOOSE c \in Channels : TRUE, saw |-> {}]

----------------------------------------------------------------------------
(* The list of channels: a look-up stops at the first match.               *)

Nodes(c) == {i \in DOMAIN channels : channels[i].name = c}
First(c) == channels[Min(Nodes(c))]
WithFirst(c, node) == [channels EXCEPT ![Min(Nodes(c))] = node]
is_already_chan(c) == Nodes(c) # {}
get_users_on_channel(c) == IF is_already_chan(c) THEN First(c).users ELSE {}
is_empty_channel(c) == is_already_chan(c) /\ get_users_on_channel(c) = {}
get_modMode(c) == is_already_chan(c) /\ First(c).mod
get_topMode(c) == is_already_chan(c) /\ First(c).top
is_chan_on_user(c, u) == c \in names[u].chans
get_coper_from_sock(u, c) == c \in names[u].ops
get_voice_from_sock(u, c) == c \in names[u].voices
IsOperator(u, c) == get_coper_from_sock(u, c) \/ u \in oper

add_channel(c) ==
  <<[name |-> c, users |-> {}, ops |-> {}, voices |-> {}, mod |-> FALSE, top |-> FALSE, topic |-> FALSE]>>
    \o channels
remove_channel(c) == RemoveAt(channels, Min(Nodes(c)))

\* The first user of a channel becomes its operator.
add_chanUser(c, u) ==
  LET free == {i \in Nodes(c) : u \notin channels[i].users} IN
  IF free = {} THEN channels
  ELSE [channels EXCEPT ![Min(free)] =
          [channels[Min(free)] EXCEPT !.users = channels[Min(free)].users \cup {u},
                                      !.ops = IF channels[Min(free)].users = {} THEN {u} ELSE @]]

\* The search ends at an empty channel, whatever follows.
remove_chanUser(c, u) ==
  LET found == {i \in Nodes(c) : channels[i].users = {} \/ u \in channels[i].users} IN
  IF found = {} THEN channels
  ELSE [channels EXCEPT ![Min(found)] =
          [channels[Min(found)] EXCEPT !.users = @ \ {u}, !.ops = @ \ {u}, !.voices = @ \ {u}]]

add_chanName(u, c) ==
  IF u \notin clients THEN names
  ELSE [names EXCEPT ![u] = [names[u] EXCEPT !.chans = @ \cup {c},
                                     !.ops = IF is_empty_channel(c) THEN @ \cup {c} ELSE @]]

remove_chanName(u, c) ==
  [names EXCEPT ![u] = [names[u] EXCEPT !.chans = @ \ {c}, !.ops = @ \ {c}, !.voices = @ \ {c}]]

\* Each finds its client or channel, or changes nothing.
make_opp(u) == oper \cup ({u} \cap clients)
deopp(u) == oper \ {u}
make_away(u) == away \cup ({u} \cap clients)
make_not_away(u) == away \ {u}
change_topic(c, on) ==
  IF is_already_chan(c) THEN WithFirst(c, [First(c) EXCEPT !.topic = on]) ELSE channels

----------------------------------------------------------------------------
Jump(t, next) == pc' = [pc EXCEPT ![t] = next]

Remember(t, l) == local' = [local EXCEPT ![t] = l]

\* Once the last answer is all that is left, what the command said is forgotten.
Go(t, next) ==
  /\ Jump(t, next)
  /\ local' = IF next \in {"read", "reply", "names_end", "mode_reply", "gone", "stuck", "ended"}
              THEN [local EXCEPT ![t] = Idle] ELSE local

\* send() may fail if the client has gone, and does if the descriptor has been closed.
MustFail(u) == u \in closed \/ pc[u] = "ended"
MayFail(u) == u \in gone \/ MustFail(u)
AfterSend(t, sent, failed) ==
  (IF MustFail(t) THEN {} ELSE {sent}) \cup (IF MayFail(t) THEN {failed} ELSE {})

\* send_to_channel, send_to_rest_of_channel: who gets the message.
StartRelay(t, c, receivers, after) ==
  /\ Jump(t, "relay")
  /\ Remember(t, [local[t] EXCEPT !.chan = c, !.todo = receivers, !.after = after])

\* Mutant: sock_is_gone takes its victim out of the list of clients only.
StartPurgeClientOnly(t, v, closes, back) ==
  /\ ~kept /\ Jump(t, "purge")
  /\ Remember(t, [local[t] EXCEPT !.victim = v, !.closes = closes, !.todo = @ \ {v}, !.back = back])

\* sock_is_gone for v, then close.
StartPurge(t, v, closes, back) ==
  /\ ~kept /\ Jump(t, "purge")
  /\ Remember(t, [local[t] EXCEPT !.victim = v, !.purge = names[v].chans, !.closes = closes,
                                  !.todo = @ \ {v}, !.back = back])

\* An unlock frees the mutex, whoever holds it.
Unlock(t) == lock2' = NoUser /\ intruded' = (intruded \/ lock2 \notin {NoUser, t})

\* remove_chanUser and add_chanUser have found their place, and go on to change it.
Look(t, c, next) ==
  /\ Jump(t, next)
  /\ Remember(t, [local[t] EXCEPT !.at = c, !.saw = get_users_on_channel(c)])

Splicing(t, c) == pc[t] \in {"purge_splice", "quit_splice", "part_splice", "join_user"} /\ local[t].at = c

\* Lists a torn list of users may turn into: of the nodes that are there, that the thread
\* saw, or that it adds, some.
Rests(t, c, u) ==
  LET nodes == get_users_on_channel(c) \cup local[t].saw \cup {u} IN
  IF ~is_already_chan(c) THEN {channels}
  ELSE {WithFirst(c, [First(c) EXCEPT !.users = rest, !.ops = @ \cap rest, !.voices = @ \cap rest]) :
          rest \in SUBSET nodes}

\* The splice: it does what it should if nobody has changed the list since the look-up.
Splice(t, c, u, changed) ==
  /\ channels' \in IF c \in torn THEN Rests(t, c, u) ELSE {changed}
  /\ torn' = IF \E other \in Users \ {t} : Splicing(other, c) THEN torn \cup {c} ELSE torn

Init ==
  /\ clients = Users /\ names = [u \in Users |-> Nothing]
  /\ oper = {} /\ away = {} /\ channels = <<>> /\ lock2 = NoUser
  /\ pc = [u \in Users |-> "read"] /\ local = [u \in Users |-> Idle]
  /\ gone = {} /\ closed = {} /\ intruded = FALSE /\ kept = FALSE /\ commands = 0
  /\ torn = {} /\ late = {}

----------------------------------------------------------------------------
(* Relays and departures.                                                  *)

\* The walk ends, or meets somebody to whom it cannot send.
Relay(t) ==
  LET pending == local[t].todo \cap get_users_on_channel(local[t].chan) IN
  /\ pc[t] = "relay"
  /\ \/ /\ \A u \in pending : ~MustFail(u)
        /\ IF local[t].after = "read" THEN Go(t, "read")
           ELSE Jump(t, local[t].after) /\ Remember(t, [local[t] EXCEPT !.todo = {}, !.after = "read"])
     \/ \E u \in pending : MayFail(u) /\ StartPurge(t, u, u, "relay")
  /\ UNCHANGED <<lists, lock2, env, flags>>

\* sock_is_gone takes the victim out of its channels one by one, without lock2.
PurgeLook(t) ==
  /\ pc[t] = "purge"
  /\ \E c \in local[t].purge :
       IF remove_chanUser(c, local[t].victim) # channels THEN Look(t, c, "purge_splice")
       ELSE UNCHANGED pc /\ Remember(t, [local[t] EXCEPT !.purge = @ \ {c}])
  /\ UNCHANGED <<lists, lock2, env, flags>>

\* Mutant: it takes lock2 for the lists it changes.
PurgeSpliceLocked(t) ==
  LET c == local[t].at IN
  /\ pc[t] = "purge_splice" /\ lock2 = NoUser
  /\ Splice(t, c, local[t].victim, remove_chanUser(c, local[t].victim))
  /\ Jump(t, "purge") /\ Remember(t, [local[t] EXCEPT !.purge = @ \ {c}, !.saw = {}])
  /\ UNCHANGED <<clients, names, oper, away, lock2, env, intruded, kept, late>>

PurgeSplice(t) ==
  LET c == local[t].at IN
  /\ pc[t] = "purge_splice"
  /\ Splice(t, c, local[t].victim, remove_chanUser(c, local[t].victim))
  /\ Jump(t, "purge") /\ Remember(t, [local[t] EXCEPT !.purge = @ \ {c}, !.saw = {}])
  /\ UNCHANGED <<clients, names, oper, away, lock2, env, intruded, kept, late>>

remove_client(u) ==
  /\ ~kept /\ kept' = (clients = {})
  /\ clients' = clients \ {u} /\ names' = [names EXCEPT ![u] = Nothing]
  /\ oper' = oper \ {u} /\ away' = away \ {u}

EndPurge(t) ==
  LET v == local[t].victim IN
  /\ pc[t] = "purge" /\ local[t].purge = {}
  /\ remove_client(v)
  /\ closed' = IF local[t].back = "ended" THEN closed ELSE closed \cup {local[t].closes}
  /\ IF local[t].back \in {"read", "ended"} THEN Go(t, local[t].back)
     ELSE /\ Jump(t, local[t].back)
          /\ Remember(t, [local[t] EXCEPT !.victim = NoUser, !.closes = NoUser, !.back = "ended"])
  /\ UNCHANGED <<channels, lock2, gone, commands, intruded, marks>>

\* recv or a send to its own client has failed.
Depart(t) ==
  /\ pc[t] = "gone" /\ StartPurge(t, t, t, "ended")
  /\ UNCHANGED <<lists, lock2, env, flags>>

EndOfFile(t) ==
  /\ pc[t] = "read" /\ MayFail(t) /\ Go(t, "gone")
  /\ UNCHANGED <<lists, lock2, env, flags>>

Hangup(t) ==
  /\ t \notin gone /\ pc[t] # "ended" /\ gone' = gone \cup {t}
  /\ UNCHANGED <<lists, lock2, pc, local, closed, commands, flags>>

\* handle_QUIT: the farewell; then out of each channel, which is told; then out of the list.
QuitReply(t) ==
  /\ pc[t] = "quit"
  /\ \E next \in AfterSend(t, "quit_leave", "gone") : Jump(t, next)
  /\ Remember(t, [local[t] EXCEPT !.left = names[t].chans])
  /\ UNCHANGED <<lists, lock2, env, flags>>

\* Without lock2, too.
QuitLook(t) ==
  /\ pc[t] = "quit_leave"
  /\ \E c \in local[t].left :
       IF remove_chanUser(c, t) # channels THEN Look(t, c, "quit_splice")
       ELSE /\ Jump(t, "relay")
            /\ Remember(t, [local[t] EXCEPT !.left = @ \ {c}, !.chan = c, !.after = "quit_leave",
                                            !.todo = get_users_on_channel(c) \ {t}])
  /\ UNCHANGED <<lists, lock2, env, flags>>

QuitSplice(t) ==
  LET c == local[t].at IN
  /\ pc[t] = "quit_splice"
  /\ Splice(t, c, t, remove_chanUser(c, t))
  /\ Jump(t, "relay")
  /\ Remember(t, [local[t] EXCEPT !.left = @ \ {c}, !.chan = c, !.after = "quit_leave", !.saw = {},
                                  !.todo = (get_users_on_channel(c) \cup local[t].saw) \ {t}])
  /\ UNCHANGED <<clients, names, oper, away, lock2, env, intruded, kept, late>>

QuitEnd(t) ==
  /\ pc[t] = "quit_leave" /\ local[t].left = {}
  /\ remove_client(t)
  /\ Go(t, "ended")
  /\ UNCHANGED <<channels, lock2, env, intruded, marks>>

----------------------------------------------------------------------------
(* A command arrives.                                                      *)

Read(t, command, request) ==
  /\ command \in Commands /\ pc[t] = "read" /\ t \in clients \ closed
  /\ commands' = commands + (IF command \in Apart THEN 2 ELSE 1) /\ commands' <= MaxCommands
  /\ Jump(t, command) /\ Remember(t, request)
  /\ UNCHANGED <<lists, lock2, gone, closed, flags>>

ReadPlain(t) ==
  \E command \in {"reply", "who", "list_one", "names_one", "names", "list", "quit", "oper", "user_mode"} :
    Read(t, command, Idle)
ReadAway(t) == \E on \in BOOLEAN : Read(t, "away", [Idle EXCEPT !.on = on])
ReadChannel(t) ==
  \E command \in {"join", "part", "privmsg", "notice"}, c \in Channels :
    Read(t, command, [Idle EXCEPT !.chan = c])
ReadNick(t) ==
  \E command \in {"whois", "tell", "tell_notice"}, u \in Users \ {t} :
    Read(t, command, [Idle EXCEPT !.member = u])
ReadTopic(t) ==
  \E c \in Channels, change \in {<<"query", FALSE>>} \cup {"change"} \X BOOLEAN :
    Read(t, "topic", [Idle EXCEPT !.chan = c, !.letter = change[1], !.on = change[2]])
ReadMode(t) ==
  \E c \in Channels, flag \in {<<"query", FALSE>>, <<"x", FALSE>>} \cup {"m", "t"} \X BOOLEAN :
    Read(t, "mode", [Idle EXCEPT !.chan = c, !.letter = flag[1], !.on = flag[2]])
ReadMemberMode(t) ==
  \E c \in Channels, flag \in {<<"x", FALSE>>} \cup {"o", "v"} \X BOOLEAN, u \in Users :
    Read(t, "mode", [Idle EXCEPT !.chan = c, !.letter = flag[1], !.on = flag[2], !.member = u])

\* Commands that only answer, and the answers of the others.
Reply(t) ==
  /\ pc[t] = "reply"
  /\ \/ ~MustFail(t) /\ Go(t, "read")
     \/ MayFail(t) /\ Go(t, "gone")
  /\ UNCHANGED <<lists, lock2, env, flags>>

\* WHO, WHOIS, LIST #c and NAMES #c read the lists under lock2, and then answer.
Who(t) ==
  /\ pc[t] = "who" /\ lock2 = NoUser /\ Go(t, "reply")
  /\ UNCHANGED <<lists, lock2, env, flags>>

\* Without lock2 if there is no such nick.
Whois(t) ==
  /\ pc[t] = "whois" /\ (lock2 = NoUser \/ local[t].member \notin clients)
  /\ Go(t, "reply")
  /\ UNCHANGED <<lists, lock2, env, flags>>

ListOne(t) ==
  /\ pc[t] = "list_one" /\ lock2 = NoUser /\ Go(t, "reply")
  /\ UNCHANGED <<lists, lock2, env, flags>>

NamesOne(t) ==
  /\ pc[t] = "names_one" /\ lock2 = NoUser /\ Go(t, "names_end")
  /\ UNCHANGED <<lists, lock2, env, flags>>

\* NAMES locks the mutex of its client again, instead of releasing it, when one of its last
\* lines cannot be sent.
NamesEnd(t) ==
  /\ pc[t] = "names_end"
  /\ \/ ~MustFail(t) /\ Go(t, "read")
     \/ MayFail(t) /\ Go(t, "gone")
     \/ MayFail(t) /\ Go(t, "stuck")
  /\ UNCHANGED <<lists, lock2, env, flags>>

\* Mutant: the entry is written though it has been removed.
OperUnchecked(t) ==
  /\ pc[t] = "oper" /\ Go(t, "reply")
  /\ oper' \in {oper, oper \cup {t}}
  /\ UNCHANGED <<clients, names, away, channels, lock2, env, flags>>

\* OPER: with the right password, or not.
Oper(t) ==
  /\ pc[t] = "oper" /\ Go(t, "reply")
  /\ oper' \in {oper, make_opp(t)}
  /\ UNCHANGED <<clients, names, away, channels, lock2, env, flags>>

Away(t) ==
  /\ pc[t] = "away" /\ Go(t, "reply")
  /\ away' = IF local[t].on THEN make_away(t) ELSE make_not_away(t)
  /\ UNCHANGED <<clients, names, oper, channels, lock2, env, flags>>

----------------------------------------------------------------------------
(* JOIN and PART.                                                          *)

\* The client is told first.
JoinReply(t) ==
  /\ pc[t] = "join"
  /\ IF is_chan_on_user(local[t].chan, t) THEN Go(t, "read")
     ELSE \E next \in AfterSend(t, "join_lock", "gone") : Go(t, next)
  /\ UNCHANGED <<lists, lock2, env, flags>>

JoinLock(t) ==
  LET c == local[t].chan IN
  /\ pc[t] = "join_lock" /\ lock2 = NoUser
  /\ lock2' = t
  /\ IF is_already_chan(c) THEN StartRelay(t, c, get_users_on_channel(c), "join_name") ELSE Go(t, "join_add")
  /\ UNCHANGED <<lists, env, flags>>

JoinAdd(t) ==
  /\ pc[t] = "join_add" /\ Go(t, "join_name")
  /\ channels' = add_channel(local[t].chan)
  /\ UNCHANGED <<clients, names, oper, away, lock2, env, flags>>

JoinName(t) ==
  /\ pc[t] = "join_name" /\ Go(t, "join_look")
  /\ names' = add_chanName(t, local[t].chan)
  /\ UNCHANGED <<clients, oper, away, channels, lock2, env, flags>>

JoinLook(t) ==
  /\ pc[t] = "join_look" /\ Look(t, local[t].chan, "join_user")
  /\ UNCHANGED <<lists, lock2, env, flags>>

\* Someone takes u out of the lists, or has done so.
Removed(u) ==
  u \notin clients \/ \E t \in Users : pc[t] \in {"purge", "purge_splice"} /\ local[t].victim = u

\* The end of the section, and NAMES.
JoinUser(t) ==
  LET c == local[t].at IN
  /\ pc[t] = "join_user"
  /\ Splice(t, c, t, add_chanUser(c, t))
  /\ late' = IF Removed(t) THEN late \cup {t} ELSE late
  /\ Unlock(t)
  /\ Jump(t, "names_one") /\ Remember(t, [local[t] EXCEPT !.saw = {}])
  /\ UNCHANGED <<clients, names, oper, away, env, kept>>

PartCheck(t) ==
  LET c == local[t].chan IN
  /\ pc[t] = "part" /\ lock2 = NoUser
  /\ IF is_chan_on_user(c, t) THEN StartRelay(t, c, get_users_on_channel(c), "part_leave")
     ELSE Go(t, "reply")
  /\ UNCHANGED <<lists, lock2, env, flags>>

PartLook(t) ==
  LET c == local[t].chan IN
  /\ pc[t] = "part_leave" /\ lock2 = NoUser
  /\ lock2' = t
  /\ IF remove_chanUser(c, t) # channels THEN Look(t, c, "part_splice") ELSE Go(t, "part_end")
  /\ UNCHANGED <<lists, env, flags>>

PartSplice(t) ==
  LET c == local[t].at IN
  /\ pc[t] = "part_splice"
  /\ Splice(t, c, t, remove_chanUser(c, t))
  /\ Jump(t, "part_end") /\ Remember(t, [local[t] EXCEPT !.saw = {}])
  /\ UNCHANGED <<clients, names, oper, away, lock2, env, intruded, kept, late>>

\* Mutant: an empty channel goes, but stays in the list of who was the last to leave it.
PartEndHalf(t) ==
  LET c == local[t].chan IN
  /\ pc[t] = "part_end" /\ Go(t, "read")
  /\ names' = IF is_empty_channel(c) THEN names ELSE remove_chanName(t, c)
  /\ channels' = IF is_empty_channel(c) THEN remove_channel(c) ELSE channels
  /\ torn' = IF is_empty_channel(c) THEN torn \cup {d \in {c} : \E other \in Users : Splicing(other, d)} ELSE torn
  /\ Unlock(t)
  /\ UNCHANGED <<clients, oper, away, env, kept, late>>

PartEnd(t) ==
  LET c == local[t].chan IN
  /\ pc[t] = "part_end" /\ Go(t, "read")
  /\ names' = remove_chanName(t, c)
  /\ channels' = IF is_empty_channel(c) THEN remove_channel(c) ELSE channels
  /\ torn' = IF is_empty_channel(c) /\ \E other \in Users : Splicing(other, c) THEN torn \cup {c} ELSE torn
  /\ Unlock(t)
  /\ UNCHANGED <<clients, oper, away, env, kept, late>>

----------------------------------------------------------------------------
(* TOPIC and MODE.                                                         *)

\* Voice is enough to change a topic.
TopicCheck(t) ==
  LET c == local[t].chan
      can_change == get_voice_from_sock(t, c) \/ ~get_topMode(c) \/ IsOperator(t, c)
  IN
  /\ pc[t] = "topic" /\ lock2 = NoUser
  /\ Go(t, IF is_chan_on_user(c, t) /\ local[t].letter = "change" /\ can_change THEN "topic_change"
           ELSE "reply")
  /\ UNCHANGED <<lists, lock2, env, flags>>

TopicChange(t) ==
  LET c == local[t].chan IN
  /\ pc[t] = "topic_change"
  /\ channels' = change_topic(c, local[t].on)
  /\ StartRelay(t, c, get_users_on_channel(c), "read")
  /\ UNCHANGED <<clients, names, oper, away, lock2, env, flags>>

\* MODE <nick>: -o for oneself, or an error.
UserMode(t) ==
  /\ pc[t] = "user_mode" /\ Go(t, "mode_reply")
  /\ \/ lock2 = NoUser /\ oper' = deopp(t)
     \/ UNCHANGED oper
  /\ UNCHANGED <<clients, names, away, channels, lock2, env, flags>>

\* A MODE that cannot answer closes the descriptor and ends, without sock_is_gone.
ModeReply(t) ==
  /\ pc[t] = "mode_reply"
  /\ \E next \in AfterSend(t, "read", "ended") : Go(t, next)
  /\ UNCHANGED <<lists, lock2, env, flags>>

\* ERR_NOSUCHCHANNEL does not end the command.
ModeStart(t) ==
  LET next == IF local[t].member # NoUser THEN "mode_member" ELSE "mode_act" IN
  /\ pc[t] = "mode" /\ lock2 = NoUser
  /\ IF is_already_chan(local[t].chan) THEN Go(t, next)
     ELSE \E n \in AfterSend(t, next, "ended") : Go(t, n)
  /\ UNCHANGED <<lists, lock2, env, flags>>

\* Neither does ERR_USERNOTINCHANNEL.
ModeMember(t) ==
  LET c == local[t].chan
      is_member_on_chan == local[t].member \in get_users_on_channel(c)
  IN
  /\ pc[t] = "mode_member" /\ lock2 = NoUser
  /\ Remember(t, [local[t] EXCEPT !.granted =
                     is_member_on_chan /\ IsOperator(t, c) /\ local[t].letter \in {"o", "v"}])
  /\ \E n \in IF is_member_on_chan THEN {"mode_act"} ELSE AfterSend(t, "mode_act", "ended") : Jump(t, n)
  /\ UNCHANGED <<lists, lock2, env, flags>>

\* The permission is read again, without lock2. ERR_CHANOPRIVSNEEDED is sent, and then
\* the thread locks its copy of a mutex for the second time.
ModeAct(t) ==
  LET letter == local[t].letter
      known == IF local[t].member = NoUser THEN letter \in {"m", "t"} ELSE letter \in {"o", "v"}
  IN
  /\ pc[t] = "mode_act"
  /\ IF letter = "query" \/ ~known THEN Go(t, "mode_reply")
     ELSE IF ~IsOperator(t, local[t].chan) THEN \E n \in AfterSend(t, "stuck", "ended") : Go(t, n)
     ELSE Go(t, IF letter \in {"m", "t"} THEN "mode_chan" ELSE "mode_name")
  /\ UNCHANGED <<lists, lock2, env, flags>>

change_chan_mode(c, letter, on) ==
  IF letter = "m" THEN WithFirst(c, [First(c) EXCEPT !.mod = on])
                  ELSE WithFirst(c, [First(c) EXCEPT !.top = on])

ModeChan(t) ==
  LET c == local[t].chan IN
  /\ pc[t] = "mode_chan" /\ lock2 = NoUser
  /\ IF is_already_chan(c)
     THEN /\ channels' = change_chan_mode(c, local[t].letter, local[t].on)
          /\ StartRelay(t, c, get_users_on_channel(c), "read")
     ELSE UNCHANGED channels /\ Go(t, "read")
  /\ UNCHANGED <<clients, names, oper, away, lock2, env, flags>>

With(set, x, on) == IF on THEN set \cup {x} ELSE set \ {x}

\* make_copp, decopp, make_voice, devoice: first the member's own list, then the channel's.
ModeName(t) ==
  LET c == local[t].chan
      u == local[t].member
  IN
  /\ pc[t] = "mode_name"
  /\ IF local[t].granted THEN Go(t, "mode_user") ELSE Go(t, "read")
  /\ names' = IF ~local[t].granted \/ ~is_chan_on_user(c, u) THEN names
              ELSE IF local[t].letter = "o"
                   THEN [names EXCEPT ![u] = [names[u] EXCEPT !.ops = With(@, c, local[t].on)]]
              ELSE [names EXCEPT ![u] = [names[u] EXCEPT !.voices = With(@, c, local[t].on)]]
  /\ UNCHANGED <<clients, oper, away, channels, lock2, env, flags>>

ModeUser(t) ==
  LET c == local[t].chan
      u == local[t].member
  IN
  /\ pc[t] = "mode_user"
  /\ channels' = IF u \notin get_users_on_channel(c) \/ u \notin clients THEN channels
                 ELSE IF local[t].letter = "o"
                      THEN WithFirst(c, [First(c) EXCEPT !.ops = With(@, u, local[t].on)])
                 ELSE WithFirst(c, [First(c) EXCEPT !.voices = With(@, u, local[t].on)])
  /\ StartRelay(t, c, get_users_on_channel(c), "read")
  /\ UNCHANGED <<clients, names, oper, away, lock2, env, flags>>

----------------------------------------------------------------------------
(* Messages, and the queries that misuse lock2.                            *)

CanSpeak(t, c) == ~get_modMode(c) \/ get_voice_from_sock(t, c) \/ IsOperator(t, c)

\* PRIVMSG #c: the section ends before the relay, and is ended once more after it.
Privmsg(t) ==
  LET c == local[t].chan IN
  /\ pc[t] = "privmsg"
  /\ IF is_already_chan(c) /\ is_chan_on_user(c, t) /\ CanSpeak(t, c)
     THEN lock2 = NoUser /\ StartRelay(t, c, get_users_on_channel(c) \ {t}, "privmsg_unlock")
     ELSE (is_already_chan(c) => lock2 = NoUser) /\ Go(t, "reply")
  /\ UNCHANGED <<lists, lock2, env, flags>>

\* In topic mode who is no operator gets an error after the message has been relayed.
PrivmsgUnlock(t) ==
  /\ pc[t] = "privmsg_unlock" /\ Unlock(t)
  /\ Go(t, "read") \/ Go(t, "reply")
  /\ UNCHANGED <<lists, env, kept, marks>>

\* NOTICE #c compares addresses of names, and relays nothing.
Notice(t) ==
  /\ pc[t] = "notice" /\ lock2 = NoUser /\ Go(t, "read")
  /\ UNCHANGED <<lists, lock2, env, flags>>

\* PRIVMSG and NOTICE to a nick; only PRIVMSG has answers. A failed ERR_NOSUCHNICK ends the
\* thread without sock_is_gone.
Tell(t) ==
  LET u == local[t].member
      next == IF pc[t] = "tell" THEN "tell_away" ELSE "read"
  IN
  /\ pc[t] \in {"tell", "tell_notice"}
  /\ IF u \notin clients
     THEN \E n \in IF pc[t] = "tell" THEN AfterSend(t, "read", "ended") ELSE {"read"} : Go(t, n)
     ELSE \/ ~MustFail(u) /\ Go(t, next)
          \/ MayFail(u) /\ StartPurge(t, u, u, next)
  /\ UNCHANGED <<lists, lock2, env, flags>>

\* When RPL_AWAY cannot be sent, the descriptor of the other client is closed.
TellAway(t) ==
  /\ pc[t] = "tell_away"
  /\ \/ (local[t].member \notin away \/ ~MustFail(t)) /\ Go(t, "read")
     \/ local[t].member \in away /\ MayFail(t) /\ StartPurge(t, t, local[t].member, "read")
  /\ UNCHANGED <<lists, lock2, env, flags>>

\* NAMES locks once and unlocks once for each channel.
Names(t) ==
  /\ pc[t] = "names" /\ lock2 = NoUser /\ lock2' = t
  /\ Jump(t, "names_send") /\ Remember(t, [local[t] EXCEPT !.turns = Len(channels)])
  /\ UNCHANGED <<lists, env, flags>>

NamesSend(t) ==
  /\ pc[t] = "names_send"
  /\ IF local[t].turns = 0 THEN Go(t, "names_end") /\ UNCHANGED <<lock2, intruded>>
     ELSE /\ Unlock(t)
          /\ Remember(t, [local[t] EXCEPT !.turns = @ - 1])
          /\ \E next \in AfterSend(t, "names_send", "gone") : Jump(t, next)
  /\ UNCHANGED <<lists, env, kept, marks>>

\* LIST sends under lock2; a send that fails leaves it locked.
List(t) ==
  /\ pc[t] = "list" /\ lock2 = NoUser /\ lock2' = t /\ Go(t, "list_send")
  /\ UNCHANGED <<lists, env, flags>>

ListSend(t) ==
  /\ pc[t] = "list_send"
  /\ \/ (channels = <<>> \/ ~MustFail(t)) /\ Unlock(t) /\ Go(t, "reply")
     \/ channels # <<>> /\ MayFail(t) /\ Go(t, "gone") /\ UNCHANGED <<lock2, intruded>>
  /\ UNCHANGED <<lists, env, kept, marks>>

----------------------------------------------------------------------------
Command(t) ==
  \/ Relay(t) \/ PurgeLook(t) \/ PurgeSplice(t) \/ EndPurge(t) \/ Depart(t) \/ EndOfFile(t)
  \/ QuitReply(t) \/ QuitLook(t) \/ QuitSplice(t) \/ QuitEnd(t)
  \/ Reply(t) \/ Who(t) \/ Whois(t) \/ ListOne(t) \/ NamesOne(t) \/ NamesEnd(t) \/ Oper(t) \/ Away(t)
  \/ JoinReply(t) \/ JoinLock(t) \/ JoinAdd(t) \/ JoinName(t) \/ JoinLook(t) \/ JoinUser(t)
  \/ PartCheck(t) \/ PartLook(t) \/ PartSplice(t) \/ PartEnd(t)
  \/ TopicCheck(t) \/ TopicChange(t)
  \/ UserMode(t) \/ ModeReply(t) \/ ModeStart(t) \/ ModeMember(t) \/ ModeAct(t)
  \/ ModeChan(t) \/ ModeName(t) \/ ModeUser(t)
  \/ Privmsg(t) \/ PrivmsgUnlock(t) \/ Notice(t) \/ Tell(t) \/ TellAway(t)
  \/ Names(t) \/ NamesSend(t) \/ List(t) \/ ListSend(t)

\* Every handler but a mere reply begins under the other mutex.
Step(t) == (pc[t] \in Commands \ {"reply"} => ~kept) /\ Command(t)

\* A client sends a command.
Arrive(t) ==
  \/ ReadPlain(t) \/ ReadAway(t) \/ ReadChannel(t) \/ ReadNick(t)
  \/ ReadTopic(t) \/ ReadMode(t) \/ ReadMemberMode(t)

Next == \E t \in Users : Step(t) \/ Arrive(t) \/ Hangup(t)

\* Threads that can run do; nobody has to send a command or hang up.
Spec == Init /\ [][Next]_vars /\ \A t \in Users : WF_vars(Step(t))

----------------------------------------------------------------------------
(* Properties.                                                             *)

\* Types of the variables.
TypeOK ==
  /\ clients \subseteq Users /\ oper \subseteq clients /\ away \subseteq clients
  /\ \A u \in Users : names[u].chans \subseteq Channels
                     /\ names[u].ops \subseteq names[u].chans /\ names[u].voices \subseteq names[u].chans
  /\ \A i \in DOMAIN channels :
       /\ channels[i].name \in Channels /\ channels[i].users \subseteq Users
       /\ channels[i].ops \subseteq channels[i].users /\ channels[i].voices \subseteq channels[i].users
  /\ lock2 \in Users \cup {NoUser} /\ gone \subseteq Users /\ closed \subseteq Users
  /\ torn \subseteq Channels /\ late \subseteq Users

InChannel(u, c) == \E i \in Nodes(c) : u \in channels[i].users

\* Threads that are taking u out of the lists.
Leaves(u) ==
  \/ pc[u] \in {"quit_leave", "quit_splice"}
  \/ local[u].after = "quit_leave"
  \/ \E t \in Users : pc[t] \in {"purge", "purge_splice"} /\ local[t].victim = u

\* A client's own list of channels and the channels' lists of users agree whenever the
\* client is neither joining nor leaving: PART, JOIN, QUIT and the death of other clients
\* change the four structures in any order. Nothing keeps a list together in which QUIT or
\* sock_is_gone splices while somebody else is in the middle of a change (torn), nor where
\* an unlock too many has let two threads into the sections of lock2 (intruded).
MembershipAgrees ==
  ~intruded =>
    \A u \in clients, c \in Channels \ torn :
      is_chan_on_user(c, u) = InChannel(u, c) \/ pc[u] \in {"join_look", "join_user", "part_end"} \/ Leaves(u)

\* Who has left the list of clients is in no channel, also when several threads have taken
\* it out at once, but for lists that are torn or intruded upon as above, and for a client
\* that somebody else's relay has thrown out in the middle of its own JOIN.
DepartedIsGone == ~intruded => \A u \in Users \ (clients \cup late), c \in Channels \ torn : ~InChannel(u, c)

\* NAMES with no channel at all and LIST to a client that has gone keep lock2 for ever.
Abandoned ==
  /\ lock2 # NoUser
  /\ pc[lock2] \notin {"relay", "purge", "purge_splice", "join_add", "join_name", "join_look", "join_user",
                       "part_splice", "part_end", "names_send", "list_send"}

\* Every command comes to its end, or its thread to its own, as long as neither mutex is
\* left locked: the relay under lock2 evicts who has gone, and waits for nobody. Not so the
\* commands that lock a copied mutex twice, MODE without permission (mode_handlers.c:377)
\* and NAMES to a client that has gone (servermsg_handlers.c:467, 542): their threads are
\* stuck, but hold nothing that others wait for.
\* (Clients are interchangeable: one stands for all.)
CommandsEnd ==
  LET t == CHOOSE t \in Users : TRUE IN
  pc[t] \notin {"read", "ended"} ~> pc[t] \in {"read", "ended", "stuck"} \/ kept \/ Abandoned

=============================================================================
