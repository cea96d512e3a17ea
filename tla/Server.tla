-------------------------------- MODULE Server --------------------------------
(***************************************************************************)
(* The life of chitcpd: server.c's start, wait and stop, the server thread   *)
(* with its handler threads, the network thread with the connection table     *)
(* and its connection threads (connection.c). What a handler does with a       *)
(* request is left to Sockets.tla and Tcp.tla, except for the connection to     *)
(* another daemon that CONNECT opens.                                           *)
(*                                                                            *)
(* chitcpd_server_stop is called when the daemon is RUNNING, as the comment on  *)
(* it and the test fixture have it. System calls that fail for want of memory,   *)
(* descriptors or threads are left out, but for those of the start.              *)
(***************************************************************************)
EXTENDS Naturals, Sequences

CONSTANTS
  Apps,           \* connections to the UNIX socket
  Callers,        \* those that CONNECT
  Daemons,        \* addresses of daemons
  Loopback,       \* this daemon's own, as CONNECT names it: one of them at most
  ConnTableSize,  \* connection_table_size
  MaxRequests     \* bound: requests

ASSUME ServerAssumption ==
  /\ Callers \subseteq Apps
  /\ Loopback \subseteq Daemons
  /\ \A d, e \in Loopback : d = e
  /\ ConnTableSize \in Nat \ {0} /\ MaxRequests \in Nat

ConnEntries == 0 .. ConnTableSize - 1
NoEntry == ConnTableSize

\* A TCP socket is named by who opened it and to whom. <<d, d>> is the end here of the
\* connection daemon d opened, <<a, d>> that of the one app a's CONNECT opened, and
\* <<d, a>> the other end of it when d is this daemon.
Descriptors == (Callers \X Daemons) \cup (Daemons \X Callers) \cup {<<d, d>> : d \in Daemons}
NoDescriptor == <<>>

VARIABLES
  state,             \* si->state
  mainAt, stopAt,    \* the thread that starts the daemon and waits, and the one that stops it
  unixSocket, unixQueue, networkSocket, networkQueue,
  server,            \* the server thread
  handler_list,      \* handler_thread_list
  handler,           \* the handler threads
  requests,          \* bound: how many requests have been made
  hungUp,            \* the applications that have closed their connection
  shutHandlers,      \* the handler sockets that have been shut down
  network,           \* the network thread
  connection_table,
  connThreads,       \* the connection threads
  shutSockets,       \* the TCP sockets shut down here or closed by the peer
  crashed            \* an assertion failed, or a thread that never was has been joined

appVars == <<handler, requests, hungUp>>
unixVars == <<unixSocket, unixQueue, server, handler_list, shutHandlers>>
networkVars == <<networkSocket, networkQueue, network, connection_table, connThreads, shutSockets>>
serverVars == <<state, mainAt, stopAt, appVars, unixVars, networkVars, crashed>>

BlankConnection == [available |-> TRUE, peer |-> "unset", send |-> NoDescriptor,
                    recv |-> NoDescriptor, id |-> NoDescriptor]
NoHandler == [at |-> "none", command |-> FALSE]

ServerInit ==
  /\ state = "READY" /\ mainAt = "init" /\ stopAt = "running"
  /\ unixSocket = "none" /\ unixQueue = <<>>
  /\ networkSocket = "none" /\ networkQueue = <<>>
  /\ server = [at |-> "none"] /\ handler_list = <<>>
  /\ handler = [a \in Apps |-> NoHandler]
  /\ requests = 0
  /\ hungUp = {} /\ shutHandlers = {}
  /\ network = [at |-> "none"]
  /\ connection_table = [i \in ConnEntries |-> BlankConnection]
  /\ connThreads = {} /\ shutSockets = {}
  /\ crashed = FALSE

-----------------------------------------------------------------------------
(* Start, wait, stop *)

Start ==
  /\ mainAt = "init"
  /\ state' = "STARTING"
  /\ mainAt' = "serverThread"
  /\ UNCHANGED <<stopAt, appVars, unixVars, networkVars, crashed>>

\* The sockets listen before their threads run.
StartThread ==
  /\ mainAt = "serverThread"
  /\ unixSocket' = "listening"
  /\ server' = [at |-> "accept"]
  /\ mainAt' = "networkThread"
  /\ UNCHANGED <<state, stopAt, appVars, unixQueue, handler_list, shutHandlers, networkVars, crashed>>

StartNetworkThread ==
  /\ mainAt = "networkThread"
  /\ networkSocket' = "listening"
  /\ network' = [at |-> "accept"]
  /\ mainAt' = "started"
  /\ UNCHANGED <<state, stopAt, appVars, unixVars, networkQueue, connection_table, connThreads,
                 shutSockets, crashed>>

\* A socket cannot be had: main returns, and the process ends with its threads.
StartFails ==
  /\ mainAt \in {"serverThread", "networkThread"}
  /\ mainAt' = "failed"
  /\ UNCHANGED <<state, stopAt, appVars, unixVars, networkVars, crashed>>

Started ==
  /\ mainAt = "started"
  /\ state' = "RUNNING"
  /\ mainAt' = "joinServer"
  /\ UNCHANGED <<stopAt, appVars, unixVars, networkVars, crashed>>

\* chitcpd_server_wait. Mutant: the network thread is not waited for.
JoinServerOnly ==
  /\ mainAt = "joinServer" /\ server.at = "exited"
  /\ state' = "STOPPED"
  /\ mainAt' = "stopped"
  /\ UNCHANGED <<stopAt, appVars, unixVars, networkVars, crashed>>
Wait ==
  /\ mainAt = "joinServer" /\ server.at = "exited"
  /\ network.at = "exited"
  /\ state' = "STOPPED"
  /\ mainAt' = "stopped"
  /\ UNCHANGED <<stopAt, appVars, unixVars, networkVars, crashed>>

Stop ==
  /\ stopAt = "running" /\ state = "RUNNING"
  /\ state' = "STOPPING"
  /\ stopAt' = "network"
  /\ UNCHANGED <<mainAt, appVars, unixVars, networkVars, crashed>>

\* shutdown() of a listening TCP socket discards the connections nobody has accepted.
StopNetwork ==
  /\ stopAt = "network"
  /\ networkSocket' = "shut" /\ networkQueue' = <<>>
  /\ stopAt' = "server"
  /\ UNCHANGED <<state, mainAt, appVars, unixVars, network, connection_table, connThreads,
                 shutSockets, crashed>>

\* When the network thread has closed the socket the call fails, and wakes nobody.
StopServer ==
  /\ stopAt = "server"
  /\ unixSocket' = IF unixSocket = "closed" THEN "closed" ELSE "shut"
  /\ stopAt' = "done"
  /\ UNCHANGED <<state, mainAt, appVars, unixQueue, server, handler_list, shutHandlers,
                 networkVars, crashed>>

-----------------------------------------------------------------------------
(* The server thread *)

\* An application connects.
OpenApp(a) ==
  /\ unixSocket = "listening"
  /\ handler[a] = NoHandler /\ \A n \in 1 .. Len(unixQueue) : unixQueue[n] # a
  /\ (server.at = "append" => server.app # a)
  /\ unixQueue' = Append(unixQueue, a)
  /\ UNCHANGED <<state, mainAt, stopAt, appVars, unixSocket, server, handler_list, shutHandlers,
                 networkVars, crashed>>

\* The handler thread runs before it is in the list.
ServerAccept ==
  /\ server.at = "accept" /\ unixQueue # <<>>
  /\ LET a == Head(unixQueue)
     IN /\ handler' = [handler EXCEPT ![a].at = "recv"]
        /\ server' = [at |-> "append", app |-> a]
  /\ unixQueue' = Tail(unixQueue)
  /\ UNCHANGED <<state, mainAt, stopAt, requests, hungUp, unixSocket, handler_list, shutHandlers,
                 networkVars, crashed>>

ServerAppend ==
  /\ server.at = "append"
  /\ handler_list' = Append(handler_list, server.app)
  /\ server' = [at |-> "accept"]
  /\ UNCHANGED <<state, mainAt, stopAt, appVars, unixSocket, unixQueue, shutHandlers,
                 networkVars, crashed>>

\* accept() fails. In any state but STOPPING it is called again.
ServerFails ==
  /\ server.at = "accept" /\ unixSocket \in {"shut", "closed"}
  /\ state = "STOPPING"
  /\ server' = [at |-> "stop"]
  /\ UNCHANGED <<state, mainAt, stopAt, appVars, unixSocket, unixQueue, handler_list, shutHandlers,
                 networkVars, crashed>>

\* The stages of a handler thread in which it holds its handler_lock.
Busy == {"handle", "lookup", "pick", "claim", "fill", "connect", "create", "record", "answer"}

ServerShuts ==
  /\ server.at = "stop" /\ handler_list # <<>>
  /\ handler[Head(handler_list)].at \notin Busy
  /\ LET a == Head(handler_list)
     IN shutHandlers' = shutHandlers \cup {a} /\ server' = [at |-> "join", app |-> a]
  /\ handler_list' = Tail(handler_list)
  /\ UNCHANGED <<state, mainAt, stopAt, appVars, unixSocket, unixQueue, networkVars, crashed>>

ServerJoins ==
  /\ server.at = "join" /\ handler[server.app].at = "exited"
  /\ server' = [at |-> "stop"]
  /\ UNCHANGED <<state, mainAt, stopAt, appVars, unixSocket, unixQueue, handler_list, shutHandlers,
                 networkVars, crashed>>

ServerExits ==
  /\ server.at = "stop" /\ handler_list = <<>>
  /\ server' = [at |-> "exited"]
  /\ UNCHANGED <<state, mainAt, stopAt, appVars, unixSocket, unixQueue, handler_list, shutHandlers,
                 networkVars, crashed>>

-----------------------------------------------------------------------------
(* The handler threads: chitcpd_handler_dispatch, and CONNECT's connection *)

HandlerAt(a, stage) == handler' = [handler EXCEPT ![a].at = stage]
HangUp(a) ==
  /\ handler[a].at # "none" /\ a \notin hungUp
  /\ hungUp' = hungUp \cup {a}
  /\ UNCHANGED <<state, mainAt, stopAt, handler, requests, unixVars, networkVars, crashed>>

Reachable(a) == a \notin hungUp \cup shutHandlers

\* A request has been read; handler_lock is taken only after that. What was sent before
\* a shutdown may still be read after it.
HandlerReads(a, kind) ==
  /\ handler[a].at = "recv" /\ a \notin hungUp
  /\ requests < MaxRequests /\ requests' = requests + 1
  /\ handler' = [handler EXCEPT ![a].at = IF kind = "DEBUG" THEN "readDebug" ELSE "read"]
  /\ UNCHANGED <<state, mainAt, stopAt, hungUp, unixVars, networkVars, crashed>>

HandlerHangsUp(a) ==
  /\ handler[a].at = "recv" /\ ~Reachable(a)
  /\ HandlerAt(a, "leave")
  /\ UNCHANGED <<state, mainAt, stopAt, requests, hungUp, unixVars, networkVars, crashed>>

HandlerLocks(a) ==
  /\ handler[a].at = "read"
  /\ \/ handler' = [handler EXCEPT ![a].at = "handle", ![a].command = TRUE]
     \/ /\ a \in Callers
        /\ \E d \in Daemons :
             handler' = [handler EXCEPT ![a] = [at |-> "lookup", command |-> TRUE, to |-> d]]
  /\ UNCHANGED <<state, mainAt, stopAt, requests, hungUp, unixVars, networkVars, crashed>>

\* DEBUG is refused, by closing the connection, after another command. Otherwise it is
\* handled without the lock, and the thread ends in it unless it answers an error.
HandlerDebugs(a) ==
  /\ handler[a].at = "readDebug"
  /\ IF handler[a].command THEN HandlerAt(a, "leave")
     ELSE HandlerAt(a, "exited") \/ HandlerAt(a, "leave")
  /\ UNCHANGED <<state, mainAt, stopAt, requests, hungUp, unixVars, networkVars, crashed>>

\* Any other request takes its time.
HandlerHandles(a) ==
  /\ handler[a].at = "handle"
  /\ HandlerAt(a, "answer")
  /\ UNCHANGED <<state, mainAt, stopAt, requests, hungUp, unixVars, networkVars, crashed>>

HandlerAnswers(a) ==
  /\ handler[a].at = "answer"
  /\ HandlerAt(a, IF Reachable(a) THEN "recv" ELSE "leave")
  /\ UNCHANGED <<state, mainAt, stopAt, requests, hungUp, unixVars, networkVars, crashed>>

\* Its sockets are released: Sockets.tla.
HandlerExits(a) ==
  /\ handler[a].at = "leave"
  /\ HandlerAt(a, "exited")
  /\ UNCHANGED <<state, mainAt, stopAt, requests, hungUp, unixVars, networkVars, crashed>>

Lowest(S) == CHOOSE n \in S : \A k \in S : n <= k

\* chitcpd_get_connection, under the table's lock, which nobody takes who changes the
\* table. It asserts that every address it compares has been set.
get_connection(d) ==
  LET used == {i \in ConnEntries : ~connection_table[i].available
                                   /\ connection_table[i].peer \in {d, "unset"}}
  IN IF used = {} THEN NoEntry ELSE Lowest(used)
AssertionFails(i) == i # NoEntry /\ connection_table[i].peer = "unset"

\* chitcpd_get_available_connection_entry
get_available_connection_entry ==
  LET free == {i \in ConnEntries : connection_table[i].available}
  IN IF free = {} THEN NoEntry ELSE Lowest(free)

CallerLookup(a) ==
  /\ handler[a].at = "lookup"
  /\ LET i == get_connection(handler[a].to)
     IN /\ crashed' = AssertionFails(i)
        /\ HandlerAt(a, IF i = NoEntry THEN "pick" ELSE "answer")
  /\ UNCHANGED <<state, mainAt, stopAt, requests, hungUp, unixVars, networkVars>>

CallerPick(a) ==
  /\ handler[a].at = "pick"
  /\ LET i == get_available_connection_entry
     IN IF i = NoEntry THEN HandlerAt(a, "answer")
        ELSE handler' = [handler EXCEPT ![a] =
               [at |-> "claim", command |-> TRUE, to |-> handler[a].to, entry |-> i]]
  /\ UNCHANGED <<state, mainAt, stopAt, requests, hungUp, unixVars, networkVars, crashed>>

CallerClaim(a) ==
  /\ handler[a].at = "claim"
  /\ connection_table' = [connection_table EXCEPT ![handler[a].entry].available = FALSE]
  /\ HandlerAt(a, "fill")
  /\ UNCHANGED <<state, mainAt, stopAt, requests, hungUp, unixVars, networkSocket, networkQueue,
                 network, connThreads, shutSockets, crashed>>

CallerFill(a) ==
  /\ handler[a].at = "fill"
  /\ connection_table' = [connection_table EXCEPT ![handler[a].entry] =
       [@ EXCEPT !.peer = handler[a].to, !.send = <<a, handler[a].to>>, !.recv = NoDescriptor]]
  /\ HandlerAt(a, "connect")
  /\ UNCHANGED <<state, mainAt, stopAt, requests, hungUp, unixVars, networkSocket, networkQueue,
                 network, connThreads, shutSockets, crashed>>

\* connect(), whose result nobody looks at. The network thread will make the thread of a
\* connection to this daemon itself.
CallerConnect(a) ==
  /\ handler[a].at = "connect"
  /\ LET d == handler[a].to
     IN IF d \in Loopback
          THEN /\ networkQueue' = IF networkSocket = "listening"
                                    THEN Append(networkQueue, [from |-> d, fd |-> <<d, a>>])
                                    ELSE networkQueue
               /\ HandlerAt(a, "answer")
               /\ UNCHANGED connection_table
          ELSE /\ connection_table' = [connection_table EXCEPT ![handler[a].entry].recv = <<a, d>>]
               /\ HandlerAt(a, "create")
               /\ UNCHANGED networkQueue
  /\ UNCHANGED <<state, mainAt, stopAt, requests, hungUp, unixVars, networkSocket, network,
                 connThreads, shutSockets, crashed>>

\* chitcpd_create_connection_thread: the thread runs before its id is in the entry, and
\* first of all calls recv.
NewThread(i) == [id |-> connection_table[i].recv, entry |-> i, fd |-> connection_table[i].recv]

CallerCreate(a) ==
  /\ handler[a].at = "create"
  /\ connThreads' = connThreads \cup {NewThread(handler[a].entry)}
  /\ HandlerAt(a, "record")
  /\ UNCHANGED <<state, mainAt, stopAt, requests, hungUp, unixVars, networkSocket, networkQueue,
                 network, connection_table, shutSockets, crashed>>

CallerRecord(a) ==
  /\ handler[a].at = "record"
  /\ connection_table' = [connection_table EXCEPT ![handler[a].entry].id = <<a, handler[a].to>>]
  /\ HandlerAt(a, "answer")
  /\ UNCHANGED <<state, mainAt, stopAt, requests, hungUp, unixVars, networkSocket, networkQueue,
                 network, connThreads, shutSockets, crashed>>

-----------------------------------------------------------------------------
(* The network thread *)

\* Another daemon opens a connection: when it has none, or its last one was closed.
PeerConnects(d) ==
  /\ d \in Daemons \ Loopback /\ networkSocket = "listening"
  /\ \A n \in 1 .. Len(networkQueue) : networkQueue[n].from # d
  /\ network.at \in {"lookup", "pick", "claim", "fill"} => network.fd # <<d, d>>
  /\ \A i \in ConnEntries : connection_table[i].recv = <<d, d>> => <<d, d>> \in shutSockets
  /\ networkQueue' = Append(networkQueue, [from |-> d, fd |-> <<d, d>>])
  /\ UNCHANGED <<state, mainAt, stopAt, appVars, unixVars, networkSocket, network,
                 connection_table, connThreads, shutSockets, crashed>>

NetworkAccept ==
  /\ network.at = "accept" /\ networkQueue # <<>>
  /\ network' = [at |-> "lookup", from |-> Head(networkQueue).from, fd |-> Head(networkQueue).fd]
  /\ networkQueue' = Tail(networkQueue)
  /\ UNCHANGED <<state, mainAt, stopAt, appVars, unixVars, networkSocket, connection_table,
                 connThreads, shutSockets, crashed>>

NetworkFails ==
  /\ network.at = "accept" /\ networkSocket = "shut"
  /\ state = "STOPPING"
  /\ network' = [at |-> "shut", entry |-> 0]
  /\ UNCHANGED <<state, mainAt, stopAt, appVars, unixVars, networkSocket, networkQueue,
                 connection_table, connThreads, shutSockets, crashed>>

NetworkLookup ==
  /\ network.at = "lookup"
  /\ LET i == get_connection(network.from)
     IN /\ crashed' = AssertionFails(i)
        /\ IF i = NoEntry
             THEN /\ network' = [at |-> "pick", from |-> network.from, fd |-> network.fd]
                  /\ UNCHANGED <<unixSocket, connection_table>>
           ELSE IF network.from \in Loopback
             THEN /\ connection_table' = [connection_table EXCEPT ![i].recv = network.fd]
                  /\ network' = [at |-> "create", entry |-> i]
                  /\ UNCHANGED unixSocket
           ELSE \* A second connection: the thread closes both server sockets and ends.
                /\ network' = [at |-> "exited"]
                /\ unixSocket' = "closed"
                /\ UNCHANGED connection_table
  /\ UNCHANGED <<state, mainAt, stopAt, appVars, unixQueue, server, handler_list, shutHandlers,
                 networkSocket, networkQueue, connThreads, shutSockets>>

\* chitcpd_add_connection. When the table is full the thread ends.
NetworkPick ==
  /\ network.at = "pick"
  /\ LET i == get_available_connection_entry
     IN network' = IF i = NoEntry THEN [at |-> "exited"]
                   ELSE [at |-> "claim", from |-> network.from, fd |-> network.fd, entry |-> i]
  /\ UNCHANGED <<state, mainAt, stopAt, appVars, unixVars, networkSocket, networkQueue,
                 connection_table, connThreads, shutSockets, crashed>>

NetworkClaim ==
  /\ network.at = "claim"
  /\ connection_table' = [connection_table EXCEPT ![network.entry].available = FALSE]
  /\ network' = [network EXCEPT !.at = "fill"]
  /\ UNCHANGED <<state, mainAt, stopAt, appVars, unixVars, networkSocket, networkQueue,
                 connThreads, shutSockets, crashed>>

NetworkFill ==
  /\ network.at = "fill"
  /\ connection_table' = [connection_table EXCEPT ![network.entry] =
       [@ EXCEPT !.peer = network.from, !.send = network.fd, !.recv = network.fd]]
  /\ network' = [at |-> "create", entry |-> network.entry]
  /\ UNCHANGED <<state, mainAt, stopAt, appVars, unixVars, networkSocket, networkQueue,
                 connThreads, shutSockets, crashed>>

NetworkCreate ==
  /\ network.at = "create"
  /\ connThreads' = connThreads \cup {NewThread(network.entry)}
  /\ network' = [at |-> "record", entry |-> network.entry, id |-> connection_table[network.entry].recv]
  /\ UNCHANGED <<state, mainAt, stopAt, appVars, unixVars, networkSocket, networkQueue,
                 connection_table, shutSockets, crashed>>

NetworkRecord ==
  /\ network.at = "record"
  /\ connection_table' = [connection_table EXCEPT ![network.entry].id = network.id]
  /\ network' = [at |-> "accept"]
  /\ UNCHANGED <<state, mainAt, stopAt, appVars, unixVars, networkSocket, networkQueue,
                 connThreads, shutSockets, crashed>>

NetworkShuts ==
  /\ network.at = "shut" /\ network.entry # NoEntry
  /\ LET e == connection_table[network.entry]
     IN IF e.available
          THEN network' = [network EXCEPT !.entry = @ + 1] /\ UNCHANGED shutSockets
          ELSE /\ shutSockets' = shutSockets \cup ({e.recv, e.send} \ {NoDescriptor})
               /\ network' = [network EXCEPT !.at = "join"]
  /\ UNCHANGED <<state, mainAt, stopAt, appVars, unixVars, networkSocket, networkQueue,
                 connection_table, connThreads, crashed>>

\* The id is zero as long as the thread has not been made, or not been noted: to join it
\* is undefined.
NetworkJoins ==
  /\ network.at = "join"
  /\ LET id == connection_table[network.entry].id
     IN /\ \A t \in connThreads : t.id # id
        /\ IF id = NoDescriptor THEN crashed' \in BOOLEAN ELSE UNCHANGED crashed
  /\ network' = [at |-> "shut", entry |-> network.entry + 1]
  /\ UNCHANGED <<state, mainAt, stopAt, appVars, unixVars, networkSocket, networkQueue,
                 connection_table, connThreads, shutSockets>>

NetworkExits ==
  /\ network.at = "shut" /\ network.entry = NoEntry
  /\ network' = [at |-> "exited"]
  /\ UNCHANGED <<state, mainAt, stopAt, appVars, unixVars, networkSocket, networkQueue,
                 connection_table, connThreads, shutSockets, crashed>>

-----------------------------------------------------------------------------
(* The connection threads: chitcpd_connection_thread_func *)

\* A packet comes (Sockets.tla has what becomes of it), and the descriptor is read from
\* the entry again.
ConnectionReceives(t) ==
  /\ t.fd \notin shutSockets
  /\ connThreads' = (connThreads \ {t}) \cup {[t EXCEPT !.fd = connection_table[t.entry].recv]}
  /\ UNCHANGED <<state, mainAt, stopAt, appVars, unixVars, networkSocket, networkQueue, network,
                 connection_table, shutSockets, crashed>>

PeerCloses(t) ==
  /\ t.fd \notin shutSockets /\ t.fd # NoDescriptor
  /\ shutSockets' = shutSockets \cup {t.fd}
  /\ UNCHANGED <<state, mainAt, stopAt, appVars, unixVars, networkSocket, networkQueue, network,
                 connection_table, connThreads, crashed>>

\* The entry is never made available again.
ConnectionEnds(t) ==
  /\ t.fd \in shutSockets \cup {NoDescriptor}
  /\ connThreads' = connThreads \ {t}
  /\ UNCHANGED <<state, mainAt, stopAt, appVars, unixVars, networkSocket, networkQueue, network,
                 connection_table, shutSockets, crashed>>

-----------------------------------------------------------------------------

Handler(a) ==
  \/ \E kind \in {"DEBUG", "other"} : HandlerReads(a, kind)
  \/ HandlerHangsUp(a) \/ HandlerLocks(a) \/ HandlerDebugs(a) \/ HandlerHandles(a)
  \/ HandlerAnswers(a) \/ HandlerExits(a)
  \/ CallerLookup(a) \/ CallerPick(a) \/ CallerClaim(a) \/ CallerFill(a) \/ CallerConnect(a)
  \/ CallerCreate(a) \/ CallerRecord(a)

ServerThread ==
  \/ ServerAccept \/ ServerAppend \/ ServerFails \/ ServerShuts \/ ServerJoins \/ ServerExits

NetworkThread ==
  \/ NetworkAccept \/ NetworkFails \/ NetworkLookup \/ NetworkPick \/ NetworkClaim \/ NetworkFill
  \/ NetworkCreate \/ NetworkRecord \/ NetworkShuts \/ NetworkJoins \/ NetworkExits

ServerNext ==
  /\ ~crashed /\ mainAt # "failed"
  /\ \/ Start \/ StartThread \/ StartNetworkThread \/ StartFails \/ Started \/ Wait
     \/ Stop \/ StopNetwork \/ StopServer
     \/ ServerThread \/ NetworkThread
     \/ \E a \in Apps : OpenApp(a) \/ HangUp(a) \/ Handler(a)
     \/ \E d \in Daemons : PeerConnects(d)
     \/ \E t \in connThreads : ConnectionReceives(t) \/ PeerCloses(t) \/ ConnectionEnds(t)

ServerSpec == ServerInit /\ [][ServerNext]_serverVars

-----------------------------------------------------------------------------

\* The daemon's state, its threads and the connection table keep their types.
ServerTypeOK ==
  /\ state \in {"READY", "STARTING", "RUNNING", "STOPPING", "STOPPED"}
  /\ server.at \in {"none", "accept", "append", "stop", "join", "exited"}
  /\ network.at \in {"none", "accept", "lookup", "pick", "claim", "fill", "create", "record",
                     "shut", "join", "exited"}
  /\ \A a \in Apps : handler[a].at \in
       Busy \cup {"none", "recv", "read", "readDebug", "leave", "exited"}
  /\ handler_list \in Seq(Apps) /\ hungUp \subseteq Apps /\ shutHandlers \subseteq Apps
  /\ \A i \in ConnEntries : LET e == connection_table[i] IN
       /\ e.peer \in Daemons \cup {"unset"}
       /\ {e.send, e.recv, e.id} \subseteq Descriptors \cup {NoDescriptor}
  /\ \A t \in connThreads : t.entry \in ConnEntries /\ t.fd \in Descriptors \cup {NoDescriptor}

\* Once the daemon is STOPPED, and its tables may be freed, neither of its two threads is
\* left and no handler thread, whenever its application connected. (Connection threads may
\* be: those of a network thread that gave up, and of a CONNECT that was late.)
StopIsOrderly ==
  state = "STOPPED" =>
    /\ server.at = "exited" /\ network.at = "exited"
    /\ \A a \in Apps : handler[a].at \in {"none", "exited"}

=============================================================================
