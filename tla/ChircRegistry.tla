--------------------------- MODULE ChircRegistry ---------------------------
(***************************************************************************)
(* The life of a connection to the chirc server: accept_clients and its    *)
(* handshake with a new thread (main.c), registration by NICK and USER     *)
(* (login_handlers.c and the end of the main loop), the list of clients    *)
(* and the two counters that LUSERS reports (addremove.c), and the ways a  *)
(* connection ends: QUIT, end of file, a send that fails. A send fails for *)
(* the thread of the connection, or for one that relays a message to it    *)
(* (send.c, msg_handlers.c): that one removes the client and closes its    *)
(* descriptor, of which the client's own thread knows nothing. And some    *)
(* handlers close the descriptor and forget the client (mode_handlers.c).  *)
(*                                                                         *)
(* There is one thread per connection. A section between a lock and the    *)
(* unlock of the global mutex is one action; what the code does without    *)
(* the mutex, such as the look-ups that decide how a client is added, is   *)
(* an action of its own. Reading memory that another thread is freeing is  *)
(* not modelled: an unlocked look-up sees the list before or after.        *)
(***************************************************************************)
EXTENDS Integers, FiniteSetsExt, SequencesExt

CONSTANTS
  N,            \* bound: connections in all
  Sockets,      \* file descriptors
  Nicks,        \* nicknames a client may ask for
  NoNick,       \* the empty string
  MaxCommands,  \* bound: commands of all connections together
  Resident,     \* TRUE: connection 1 has registered before we start, and stays
  NoConn        \* no connection

Conns == 1 .. N
NoUser == 0     \* the empty user name; the name that connection t gives is t

\* Owners of the mutex besides the connections.
Free == 0
Acceptor == N + 1

ASSUME SizeAssumption ==
  /\ N \in Nat \ {0} /\ MaxCommands \in Nat
  /\ IsFiniteSet(Sockets) /\ Sockets # {} /\ Sockets \subseteq Nat
  /\ NoNick \notin Nicks /\ Nicks # {} /\ Resident \in BOOLEAN /\ NoConn \notin Conns

VARIABLES
  clients,              \* the list of clients, newest first
  registeredClients,
  unregisteredClients,
  lock,                 \* who holds the mutex
  server,               \* what accept_clients is doing
  newest,               \* the connection it has accepted last
  pc,                   \* what each connection's thread is about to do
  socket,               \* its file descriptor
  nickname, username,   \* its own copies
  firstTimeLogin,       \* TRUE until it has been welcomed
  params,               \* the argument of the NICK being handled
  peer,                 \* whether the other end is there
  commands,             \* commands received so far, for the bound
  descriptor,           \* the kernel's table: the connection behind each descriptor
  relay,                \* search->sock: whom a thread sends to; and where it goes on afterwards
  crashed,              \* the process has ended at an access to memory it must not use
  lost,                 \* ghost: descriptors closed while the client's thread, or entry, remained
  drift                 \* ghost: how far the sum of the counters is off the number of connections

registry == <<clients, registeredClients, unregisteredClients>>
locals == <<socket, nickname, username, firstTimeLogin, params, commands>>
relays == <<relay, crashed, lost, drift>>
vars == <<registry, lock, server, newest, pc, locals, peer, descriptor, relays>>

Client == [sock: Sockets, nick: Nicks \cup {NoNick}, user: Conns \cup {NoUser}]

----------------------------------------------------------------------------
(* The list. Every look-up walks it from the head and stops at a match.    *)

WithSock(s) == {i \in DOMAIN clients : clients[i].sock = s}
WithNick(n) == {i \in DOMAIN clients : clients[i].nick = n}

is_registered(s) == WithSock(s) # {}
is_already_nick(n) == n # NoNick /\ WithNick(n) # {}

\* strlen of what get_user_from_sock and get_nick_from_sock return, NULL counting as 0.
HasUser(s) == is_registered(s) /\ clients[Min(WithSock(s))].user # NoUser
HasNick(s) == is_registered(s) /\ clients[Min(WithSock(s))].nick # NoNick

change_nick_from_sock(s, n) ==
  IF is_registered(s) THEN [clients EXCEPT ![Min(WithSock(s))].nick = n] ELSE clients
\* Mutant: the copy of the line above, with the field forgotten.
change_nick_instead(s, u) ==
  IF is_registered(s) THEN [clients EXCEPT ![Min(WithSock(s))].nick = u] ELSE clients
change_user_from_sock(s, u) ==
  IF is_registered(s) THEN [clients EXCEPT ![Min(WithSock(s))].user = u] ELSE clients
change_user_from_nick(n, u) ==
  IF WithNick(n) # {} THEN [clients EXCEPT ![Min(WithNick(n))].user = u] ELSE clients

add_client(s, n, u) == <<[sock |-> s, nick |-> n, user |-> u]>> \o clients

\* Mutant: only the head of the list is compared with the socket.
remove_head_only(s) == IF WithSock(s) = {1} THEN Tail(clients) ELSE clients
remove_client(s) == IF is_registered(s) THEN RemoveAt(clients, Min(WithSock(s))) ELSE clients

\* remove_client returns from an empty list before it has unlocked. Mutant: the same
\* omission where the client is not the first.
HolderUnlessHead(t) == IF clients = <<>> \/ 1 \notin WithSock(socket[t]) THEN t ELSE Free
HolderAfterRemove(t) == IF clients = <<>> THEN t ELSE Free

----------------------------------------------------------------------------
Go(t, next) == pc' = [pc EXCEPT ![t] = next]

\* The descriptor is closed, or the peer of its connection, whosever it now is, has gone.
IsDead(s) == descriptor[s] # NoConn => peer[descriptor[s]] = "gone"

\* Where a thread goes after send(), which may still succeed when the peer has just gone.
AfterSend(s, sent, failed) ==
  (IF descriptor[s] = NoConn THEN {} ELSE {sent}) \cup (IF IsDead(s) THEN {failed} ELSE {})

Init ==
  LET here(t) == Resident /\ t = 1 IN
  /\ clients = IF Resident THEN <<[sock |-> Min(Sockets), nick |-> CHOOSE n \in Nicks : TRUE, user |-> 1]>>
                           ELSE <<>>
  /\ registeredClients = IF Resident THEN 1 ELSE 0
  /\ unregisteredClients = 0
  /\ lock = Free /\ server = "accept" /\ newest = 1
  /\ pc = [t \in Conns |-> IF here(t) THEN "read" ELSE "none"]
  /\ socket = [t \in Conns |-> Min(Sockets)]
  /\ nickname = [t \in Conns |-> IF here(t) THEN CHOOSE n \in Nicks : TRUE ELSE NoNick]
  /\ username = [t \in Conns |-> IF here(t) THEN t ELSE NoUser]
  /\ firstTimeLogin = [t \in Conns |-> ~here(t)]
  /\ params = [t \in Conns |-> NoNick]
  /\ peer = [t \in Conns |-> "up"]
  /\ commands = 0
  /\ descriptor = [s \in Sockets |-> IF Resident /\ s = Min(Sockets) THEN 1 ELSE NoConn]
  /\ relay = [t \in Conns |-> [to |-> Min(Sockets), back |-> "reply"]]
  /\ crashed = FALSE /\ lost = {} /\ drift = 0

----------------------------------------------------------------------------
(* accept_clients and the first steps of a thread.                         *)

\* The kernel gives the lowest descriptor that is not in use.
Accept ==
  LET unused == {t \in Conns : pc[t] = "none"}
      closed == {s \in Sockets : descriptor[s] = NoConn} IN
  /\ server = "accept" /\ unused # {} /\ closed # {}
  /\ newest' = Min(unused)
  /\ socket' = [socket EXCEPT ![newest'] = Min(closed)]
  /\ descriptor' = [descriptor EXCEPT ![Min(closed)] = newest']
  /\ server' = "create" /\ Go(newest', "starting")
  /\ UNCHANGED <<registry, lock, nickname, username, firstTimeLogin, params, commands, peer, relays>>

CreateThread ==
  /\ server = "create" /\ lock = Free
  /\ lock' = Acceptor /\ server' = "check" /\ Go(newest, "setup")
  /\ UNCHANGED <<registry, newest, locals, peer, descriptor, relays>>

\* while (!wa->setup_done) pthread_cond_wait(...)
setup_done(t) == pc[t] \notin {"starting", "setup"}

\* Mutant: a loop that does not release the mutex while it waits.
SpinOnSetup ==
  /\ server = "check"
  /\ server' = IF setup_done(newest) THEN "accept" ELSE "waiting"
  /\ lock' = IF setup_done(newest) THEN Free ELSE lock
  /\ UNCHANGED <<registry, newest, pc, locals, peer, descriptor, relays>>

CheckSetup ==
  /\ server = "check"
  /\ server' = IF setup_done(newest) THEN "accept" ELSE "waiting"
  /\ lock' = Free
  /\ UNCHANGED <<registry, newest, pc, locals, peer, descriptor, relays>>

Woken ==
  /\ server = "woken" /\ lock = Free
  /\ lock' = Acceptor /\ server' = "check"
  /\ UNCHANGED <<registry, newest, pc, locals, peer, descriptor, relays>>

SetupDone(t) ==
  /\ pc[t] = "setup" /\ Go(t, "signal")
  /\ UNCHANGED <<registry, lock, server, newest, locals, peer, descriptor, relays>>

SignalSetup(t) ==
  /\ pc[t] = "signal" /\ lock = Free
  /\ server' = IF server = "waiting" THEN "woken" ELSE server
  /\ Go(t, "count")
  /\ UNCHANGED <<registry, lock, newest, locals, peer, descriptor, relays>>

CountUnregistered(t) ==
  /\ pc[t] = "count" /\ lock = Free
  /\ unregisteredClients' = unregisteredClients + 1
  /\ Go(t, "read")
  /\ UNCHANGED <<clients, registeredClients, lock, server, newest, locals, peer, descriptor, relays>>

----------------------------------------------------------------------------
(* The main loop: a command arrives. A thread whose descriptor another has *)
(* closed reads what comes to the connection that was given it next.       *)

Hangup(t) ==
  /\ pc[t] \notin {"none", "ended"} /\ peer[t] = "up" /\ ~(Resident /\ t = 1)
  /\ peer' = [peer EXCEPT ![t] = "gone"]
  /\ UNCHANGED <<registry, lock, server, newest, pc, locals, descriptor, relays>>

Read(t, next) ==
  /\ pc[t] = "read" /\ commands < MaxCommands /\ descriptor[socket[t]] # NoConn
  /\ commands' = commands + 1
  /\ Go(t, next)
  /\ UNCHANGED <<registry, lock, server, newest, socket, nickname, username, firstTimeLogin, peer, descriptor, relays>>

ReadNick(t) == \E n \in Nicks \cup {NoNick} : Read(t, "nick") /\ params' = [params EXCEPT ![t] = n]
ReadUser(t) == Read(t, "user") /\ ~(Resident /\ t = 1) /\ UNCHANGED params
ReadQuit(t) == Read(t, "quit") /\ ~(Resident /\ t = 1) /\ ~firstTimeLogin[t] /\ UNCHANGED params
\* A command that answers or relays; before registration every other command is refused.
ReadOther(t) == Read(t, "reply") /\ UNCHANGED params

\* recv returns 0 or -1.
EndOfFile(t) ==
  /\ pc[t] = "read" /\ IsDead(socket[t]) /\ Go(t, "gone")
  /\ UNCHANGED <<registry, lock, server, newest, locals, peer, descriptor, relays>>

\* recv was under way when the descriptor was closed, and ends with its own connection.
LateEndOfFile(t) ==
  /\ pc[t] = "read" /\ peer[t] = "gone" /\ Go(t, "gone")
  /\ UNCHANGED <<registry, lock, server, newest, locals, peer, descriptor, relays>>

Reply(t) ==
  /\ pc[t] = "reply" /\ \E next \in AfterSend(socket[t], "tail", "gone") : Go(t, next)
  /\ UNCHANGED <<registry, lock, server, newest, locals, peer, descriptor, relays>>

----------------------------------------------------------------------------
(* Other commands of a client that has registered.                         *)

\* A failed answer of MODE, or to PRIVMSG for an unknown nick: the descriptor is closed, the
\* client stays in the list and in the counters.
Abandon(t) ==
  /\ pc[t] = "reply" /\ ~firstTimeLogin[t] /\ IsDead(socket[t]) /\ Go(t, "close")
  /\ lost' = lost \cup {socket[t]} /\ drift' = drift + 1
  /\ UNCHANGED <<registry, lock, server, newest, locals, peer, descriptor, relay, crashed>>

\* MODE by somebody who is no operator, and NAMES: a mutex of the thread's own is locked twice.
LockTwice(t) ==
  /\ pc[t] = "reply" /\ ~firstTimeLogin[t] /\ ~(Resident /\ t = 1) /\ Go(t, "stuck")
  /\ UNCHANGED <<registry, lock, server, newest, locals, peer, descriptor, relays>>

\* PRIVMSG and NOTICE to a nick, and whatever goes to the users of a channel: QUIT tells them
\* too. Only the last of several sends that succeed is a step.
Address(t) ==
  /\ pc[t] = "farewell" \/ (pc[t] = "reply" /\ ~firstTimeLogin[t])
  /\ \E i \in DOMAIN clients : relay' = [relay EXCEPT ![t] = [to |-> clients[i].sock, back |-> pc[t]]]
  /\ Go(t, "send")
  /\ UNCHANGED <<registry, lock, server, newest, locals, peer, descriptor, crashed, lost, drift>>

AfterRelay(t) == IF relay[t].back = "reply" THEN "tail" ELSE "count_quit"

SendOther(t) ==
  /\ pc[t] = "send" /\ \E next \in AfterSend(relay[t].to, AfterRelay(t), "evict") : Go(t, next)
  /\ UNCHANGED <<registry, lock, server, newest, locals, peer, descriptor, relays>>

\* The addressee is away, and the answer that says so fails: the thread gives itself up.
FailAwayReply(t) ==
  /\ pc[t] = "send" /\ relay[t].back = "reply" /\ ~(Resident /\ relay[t].to = socket[1])
  /\ descriptor[relay[t].to] # NoConn /\ IsDead(socket[t])
  /\ relay' = [relay EXCEPT ![t].to = socket[t]] /\ Go(t, "evict")
  /\ UNCHANGED <<registry, lock, server, newest, locals, peer, descriptor, crashed, lost, drift>>

\* The first section of sock_is_gone(s).
Discount(s) ==
  LET known == HasNick(s) /\ HasUser(s) IN
  /\ registeredClients' = IF known THEN registeredClients - 1 ELSE registeredClients
  /\ unregisteredClients' = IF known THEN unregisteredClients ELSE unregisteredClients - 1

EvictCount(t) ==
  /\ pc[t] = "evict" /\ lock = Free
  /\ Discount(relay[t].to) /\ Go(t, "evict_remove")
  /\ lost' = lost \cup {relay[t].to} /\ drift' = drift - 1
  /\ UNCHANGED <<clients, lock, server, newest, locals, peer, descriptor, relay, crashed>>

EvictRemove(t) ==
  /\ pc[t] = "evict_remove" /\ lock = Free
  /\ clients' = remove_client(relay[t].to) /\ lock' = HolderAfterRemove(t)
  /\ Go(t, "evict_close")
  /\ UNCHANGED <<registeredClients, unregisteredClients, server, newest, locals, peer, descriptor, relays>>

\* close(search->sock): whosever the descriptor is by now. Where the thread has given itself
\* up, it closes that of the client whom it had addressed.
EvictClose(t) ==
  /\ pc[t] = "evict_close" /\ Go(t, relay[t].back)
  /\ \E s \in {relay[t].to} \cup
          (IF relay[t].to = socket[t] THEN {clients[i].sock : i \in DOMAIN clients} ELSE {}) :
       /\ ~(Resident /\ s = socket[1])
       /\ descriptor' = [descriptor EXCEPT ![s] = NoConn] /\ lost' = lost \cup {s}
  /\ relay' = [relay EXCEPT ![t] = [to |-> Min(Sockets), back |-> "reply"]]
  /\ UNCHANGED <<registry, lock, server, newest, locals, peer, crashed, drift>>

\* The handler frees its buffers twice, or reads the entry that sock_is_gone has freed.
BadFree(t) ==
  /\ pc[t] = "evict_close" /\ crashed' = TRUE
  /\ UNCHANGED <<registry, lock, server, newest, pc, locals, peer, descriptor, relay, lost, drift>>

\* PRIVMSG takes strlen of a null pointer if its own client is not in the list.
CrashLookup(t) ==
  /\ pc[t] = "reply" /\ ~firstTimeLogin[t] /\ ~is_registered(socket[t]) /\ crashed' = TRUE
  /\ UNCHANGED <<registry, lock, server, newest, pc, locals, peer, descriptor, relay, lost, drift>>

----------------------------------------------------------------------------
(* handle_NICK holds the mutex throughout, its sends included.             *)

\* It takes strlen of the user name of a client it has not found.
NameMissing(t) == is_already_nick(nickname[t]) /\ ~is_registered(socket[t])

CrashNick(t) ==
  /\ pc[t] = "nick" /\ lock = Free /\ NameMissing(t) /\ crashed' = TRUE
  /\ UNCHANGED <<registry, lock, server, newest, pc, locals, peer, descriptor, relay, lost, drift>>

RefuseNick(t) ==
  /\ pc[t] = "nick" /\ lock = Free /\ ~NameMissing(t) /\ is_already_nick(params[t])
  /\ params' = [params EXCEPT ![t] = NoNick]
  /\ \E next \in AfterSend(socket[t], "tail", "gone") : Go(t, next)
  /\ UNCHANGED <<registry, lock, server, newest, socket, nickname, username, firstTimeLogin, commands, peer, descriptor, relays>>

\* Somebody in a channel with this client whom the news of its nick does not reach.
Unreached(t) ==
  \E i \in DOMAIN clients :
    /\ clients[i].sock # socket[t] /\ clients[i].nick # NoNick /\ clients[i].user # NoUser
    /\ IsDead(clients[i].sock)

\* After the answer to itself a client's new nick is told to its channels. A send that fails
\* there calls sock_is_gone, which locks the mutex that the thread holds: it hangs.
AfterNickSend(t) ==
  AfterSend(socket[t], "tail", "gone") \cup
    (IF ~firstTimeLogin[t] /\ descriptor[socket[t]] # NoConn /\ Unreached(t) THEN {"hung"} ELSE {})

\* The registry changes only if the thread's previous nick is found in it.
TakeNick(t) ==
  LET change2Client == is_already_nick(nickname[t]) IN
  /\ pc[t] = "nick" /\ lock = Free /\ ~NameMissing(t) /\ ~is_already_nick(params[t])
  /\ nickname' = [nickname EXCEPT ![t] = params[t]] /\ params' = [params EXCEPT ![t] = NoNick]
  /\ clients' = IF change2Client THEN change_nick_from_sock(socket[t], params[t]) ELSE clients
  /\ \E next \in IF change2Client /\ HasUser(socket[t]) THEN AfterNickSend(t) ELSE {"tail"} :
       Go(t, next) /\ lock' = IF next = "hung" THEN t ELSE Free
  /\ UNCHANGED <<registeredClients, unregisteredClients, server, newest,
                 socket, username, firstTimeLogin, commands, peer, descriptor, relays>>

(* handle_USER.                                                            *)
TakeUser(t) ==
  /\ pc[t] = "user" /\ lock = Free
  /\ username[t] = NoUser \/ ~HasNick(socket[t])
  /\ username' = [username EXCEPT ![t] = t] /\ Go(t, "tail")
  /\ UNCHANGED <<registry, lock, server, newest, socket, nickname, firstTimeLogin, params, commands, peer, descriptor, relays>>

\* When this answer cannot be sent, remove_client is called twice.
RefuseUser(t) ==
  /\ pc[t] = "user" /\ lock = Free
  /\ username[t] # NoUser /\ HasNick(socket[t])
  /\ \E next \in AfterSend(socket[t], "tail", "gone_twice") : Go(t, next)
  /\ UNCHANGED <<registry, lock, server, newest, locals, peer, descriptor, relays>>

----------------------------------------------------------------------------
(* The end of the main loop, after every command. The look-ups that choose *)
(* the branch are made without the mutex, which the branch then takes.     *)

Complete(t) == nickname[t] # NoNick /\ username[t] # NoUser

\* Mutant: a connection that begins with USER is not added.
AddOnNickOnly(t) ==
  IF ~firstTimeLogin[t] \/ nickname[t] = NoNick THEN "read"
  ELSE IF username[t] # NoUser THEN
         IF is_already_nick(nickname[t]) THEN "set_user_of_nick"
         ELSE IF HasUser(socket[t]) THEN "set_nick" ELSE "add"
  ELSE IF ~is_registered(socket[t]) THEN "add" ELSE "set_nick"
Branch(t) ==
  IF ~firstTimeLogin[t] THEN "read"
  ELSE IF Complete(t) THEN
         IF is_already_nick(nickname[t]) THEN "set_user_of_nick"
         ELSE IF HasUser(socket[t]) THEN "set_nick" ELSE "add"
  ELSE IF nickname[t] = NoNick /\ username[t] = NoUser THEN "read"
  ELSE IF ~is_registered(socket[t]) THEN "add"
  ELSE IF nickname[t] # NoNick THEN "set_nick" ELSE "set_user"

ChooseBranch(t) ==
  /\ pc[t] = "tail" /\ Go(t, Branch(t))
  /\ UNCHANGED <<registry, lock, server, newest, locals, peer, descriptor, relays>>

\* What the chosen branch does to the list of clients.
Registered(t) ==
  CASE pc[t] = "set_user_of_nick" -> change_user_from_nick(nickname[t], username[t])
    [] pc[t] = "set_nick" -> change_nick_from_sock(socket[t], nickname[t])
    [] pc[t] = "set_user" -> change_user_from_sock(socket[t], username[t])
    [] pc[t] = "add" -> add_client(socket[t], nickname[t], username[t])

Register(t) ==
  /\ pc[t] \in {"set_user_of_nick", "set_nick", "set_user", "add"} /\ lock = Free
  /\ clients' = Registered(t)
  /\ Go(t, IF Complete(t) THEN "promote" ELSE "read")
  /\ UNCHANGED <<registeredClients, unregisteredClients, lock, server, newest, locals, peer, descriptor, relays>>

Promote(t) ==
  /\ pc[t] = "promote" /\ lock = Free
  /\ unregisteredClients' = unregisteredClients - 1
  /\ registeredClients' = registeredClients + 1
  /\ Go(t, "welcome")
  /\ UNCHANGED <<clients, lock, server, newest, locals, peer, descriptor, relays>>

Welcome(t) ==
  /\ pc[t] = "welcome"
  /\ \E next \in AfterSend(socket[t], "read", "gone") :
       /\ Go(t, next)
       /\ firstTimeLogin' = [firstTimeLogin EXCEPT ![t] = next = "gone"]
  /\ UNCHANGED <<registry, lock, server, newest, socket, nickname, username, params, commands, peer, descriptor, relays>>

----------------------------------------------------------------------------
(* Departures.                                                             *)

\* sock_is_gone, for the thread's own connection.
CountGone(t) ==
  /\ pc[t] \in {"gone", "gone_twice"} /\ lock = Free
  /\ Discount(socket[t])
  /\ Go(t, IF pc[t] = "gone" THEN "remove" ELSE "remove_twice")
  /\ UNCHANGED <<clients, lock, server, newest, locals, peer, descriptor, relays>>

\* handle_QUIT answers, takes its leave of its channels, then counts and removes.
QuitReply(t) ==
  /\ pc[t] = "quit" /\ \E next \in AfterSend(socket[t], "farewell", "gone") : Go(t, next)
  /\ UNCHANGED <<registry, lock, server, newest, locals, peer, descriptor, relays>>

Farewell(t) ==
  /\ pc[t] = "farewell" /\ Go(t, "count_quit")
  /\ UNCHANGED <<registry, lock, server, newest, locals, peer, descriptor, relays>>

\* Mutant: it counts, and leaves the rest to sock_is_gone.
CountThenGone(t) ==
  /\ pc[t] = "count_quit" /\ lock = Free
  /\ registeredClients' = registeredClients - 1
  /\ Go(t, "gone")
  /\ UNCHANGED <<clients, unregisteredClients, lock, server, newest, locals, peer, descriptor, relays>>
CountQuit(t) ==
  /\ pc[t] = "count_quit" /\ lock = Free
  /\ registeredClients' = registeredClients - 1
  /\ Go(t, "remove")
  /\ UNCHANGED <<clients, unregisteredClients, lock, server, newest, locals, peer, descriptor, relays>>

RemoveClient(t) ==
  /\ pc[t] \in {"remove", "remove_twice"} /\ lock = Free
  /\ clients' = remove_client(socket[t])
  /\ lock' = HolderAfterRemove(t)
  /\ Go(t, IF pc[t] = "remove" THEN "close" ELSE "remove")
  /\ UNCHANGED <<registeredClients, unregisteredClients, server, newest, locals, peer, descriptor, relays>>

\* The thread frees its copies, closes the descriptor and ends.
Close(t) ==
  /\ pc[t] = "close" /\ Go(t, "ended")
  /\ nickname' = [nickname EXCEPT ![t] = NoNick] /\ username' = [username EXCEPT ![t] = NoUser]
  /\ firstTimeLogin' = [firstTimeLogin EXCEPT ![t] = TRUE]
  /\ socket' = [socket EXCEPT ![t] = Min(Sockets)]
  /\ peer' = [peer EXCEPT ![t] = "gone"] /\ descriptor' = [descriptor EXCEPT ![socket[t]] = NoConn]
  /\ UNCHANGED <<registry, lock, server, newest, params, commands, relays>>

----------------------------------------------------------------------------
ServerStep == CreateThread \/ CheckSetup \/ Woken

\* A relay to somebody else, as far as it can fail.
Relay(t) ==
  \/ Address(t) \/ SendOther(t) \/ FailAwayReply(t)
  \/ EvictCount(t) \/ EvictRemove(t) \/ EvictClose(t)

\* What the thread of a connection does by itself.
Step(t) ==
  \/ SetupDone(t) \/ SignalSetup(t) \/ CountUnregistered(t)
  \/ EndOfFile(t) \/ Reply(t) \/ Abandon(t) \/ LockTwice(t) \/ Relay(t)
  \/ RefuseNick(t) \/ TakeNick(t) \/ TakeUser(t) \/ RefuseUser(t)
  \/ ChooseBranch(t) \/ Register(t) \/ Promote(t) \/ Welcome(t)
  \/ CountGone(t) \/ QuitReply(t) \/ Farewell(t) \/ CountQuit(t) \/ RemoveClient(t) \/ Close(t)

\* What the other end of a connection does.
Arrive(t) == ReadNick(t) \/ ReadUser(t) \/ ReadQuit(t) \/ ReadOther(t) \/ LateEndOfFile(t)

Crash(t) == BadFree(t) \/ CrashLookup(t) \/ CrashNick(t)

Next ==
  /\ ~crashed
  /\ \/ Accept \/ ServerStep
     \/ \E t \in Conns : Step(t) \/ Arrive(t) \/ Hangup(t) \/ Crash(t)

\* Threads that can run do; nobody has to connect, send a command or hang up.
Fairness ==
  /\ WF_vars(~crashed /\ ServerStep)
  /\ \A t \in Conns : WF_vars(~crashed /\ Step(t))

Spec == Init /\ [][Next]_vars /\ Fairness

----------------------------------------------------------------------------
(* Properties.                                                             *)

Phases ==
  {"none", "starting", "setup", "signal", "count", "read", "nick", "user", "quit", "reply", "tail",
   "set_user_of_nick", "set_nick", "set_user", "add", "promote", "welcome",
   "send", "evict", "evict_remove", "evict_close", "hung", "stuck",
   "gone", "gone_twice", "farewell", "count_quit", "remove", "remove_twice", "close", "ended"}

\* Types of the variables.
TypeOK ==
  /\ clients \in Seq(Client)
  /\ registeredClients \in Int /\ unregisteredClients \in Int
  /\ lock \in {Free, Acceptor} \cup Conns
  /\ server \in {"accept", "create", "check", "waiting", "woken"} /\ newest \in Conns
  /\ pc \in [Conns -> Phases] /\ socket \in [Conns -> Sockets]
  /\ nickname \in [Conns -> Nicks \cup {NoNick}] /\ username \in [Conns -> Conns \cup {NoUser}]
  /\ firstTimeLogin \in [Conns -> BOOLEAN] /\ params \in [Conns -> Nicks \cup {NoNick}]
  /\ peer \in [Conns -> {"up", "gone"}] /\ commands \in 0 .. MaxCommands
  /\ descriptor \in [Sockets -> Conns \cup {NoConn}]
  /\ relay \in [Conns -> [to : Sockets, back : {"reply", "farewell"}]]
  /\ crashed \in BOOLEAN /\ lost \in SUBSET Sockets /\ drift \in Int

Leaving == {"remove", "remove_twice", "close", "ended"}
Counted == {t \in Conns : pc[t] \notin {"none", "starting", "setup", "signal", "count"} \cup Leaving}

\* LUSERS reports the sum of the two counters as the number of clients: whatever the order
\* in which threads register, quit, vanish, fail to send or give each other up, it is the
\* number of connections between their count and their departure, but for one less each
\* time a thread gives up a client in sock_is_gone and does not end (send.c:33-36,
\* msg_handlers.c:183-191), and one more for each client that is abandoned
\* (msg_handlers.c:255-261, mode_handlers.c:178-182): every connection is counted once.
TotalAgrees == registeredClients + unregisteredClients = Cardinality(Counted) + drift

\* Every client of the list belongs to a thread that has yet to remove it, and no
\* connection is in the list twice: look-ups by socket find the right client, also
\* when the kernel gives the descriptor to somebody else. Not so for descriptors that were
\* closed under a client's thread, or left with the client in the list (lost): the next
\* connection behind such a descriptor shares it with the old thread or the old entry.
EntriesAreConnected ==
  /\ \A i \in DOMAIN clients : clients[i].sock \notin lost =>
       \E t \in Conns : pc[t] \notin {"none", "close", "ended"} /\ socket[t] = clients[i].sock
  /\ \A i, j \in DOMAIN clients :
       clients[i].sock = clients[j].sock /\ clients[i].sock \notin lost => i = j

\* Look-ups by socket whose result is used without a test find an entry: those of a client
\* that has been counted as registered, whichever branch of the main loop added or completed
\* it, until it leaves; and that of handle_NICK, which takes strlen of the thread's own user
\* name because its nick, anybody's nick, is in the list (login_handlers.c:37). Only a thread
\* whose descriptor is lost may find none, and the process crash (msg_handlers.c:52).
LookupsSucceed ==
  /\ \A t \in Conns :
       /\ socket[t] \notin lost
       /\ \/ pc[t] = "welcome"
          \/ ~firstTimeLogin[t] /\ pc[t] \notin Leaving
          \/ pc[t] = "nick" /\ is_already_nick(nickname[t])
       => is_registered(socket[t])
  /\ crashed => lost # {}

\* "Each client must choose a unique nickname" (chirc_project_specification.tex:62).
UniqueNicks ==
  \A i, j \in DOMAIN clients : clients[i].nick = clients[j].nick /\ clients[i].nick # NoNick => i = j

\* handle_NICK waits for the mutex it holds (login_handlers.c:85-89, addremove.c:284).
Hung == \E t \in Conns : pc[t] = "hung"

\* A thread never waits for ever in the middle of a command, and accept_clients always goes
\* back to accept(): nobody keeps the mutex and no wake-up is lost. The exceptions are a thread
\* that locks its own copy of a mutex twice (stuck: mode_handlers.c:377), a NICK that is told
\* to a client who has gone, which stops everybody (Hung), and the end of the process.
Served ==
  /\ \A t \in Conns :
       pc[t] \notin {"none", "read", "ended"} ~> pc[t] \in {"read", "ended", "stuck"} \/ Hung \/ crashed
  /\ server # "accept" ~> server = "accept" \/ Hung \/ crashed

\* Once the other end has gone, the thread of the connection comes to its end (and by
\* EntriesAreConnected leaves nothing behind), with the exceptions of Served; nor does a
\* thread know of its connection's end once its descriptor is somebody else's.
Departs ==
  \A t \in Conns :
    peer[t] = "gone" ~> pc[t] \in {"ended", "stuck"} \/ socket[t] \in lost \/ Hung \/ crashed

=============================================================================
