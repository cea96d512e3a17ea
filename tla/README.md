# A verification development for the CMSC 23300 systems

The repository (`src/cmsc23300-2014-wombat/`) holds three C programs that share a style and
no code: **chitcp**, a TCP implementation that runs as a daemon over real TCP connections;
**chirc**, an IRC server; and **simple-router**, an IP router with an ARP cache. This
directory holds TLA+ modules that model them, the TLC configurations that check the modules
on small instances, and proofs that TLAPS checks for every value of the parameters.
`PROJECT.json` lists every run, property, mapped definition, hazard and theorem; this file
says what they mean.

Modelled are: of chitcp the ring buffer, the TCP state machine with the threads around it,
the tables of sockets and ports, the daemon's life, its debuggers, the library applications
call it through, the list behind its queues and the tester its tests are written with; of
chirc how connections register, are counted and leave, and channels, modes and messages; of
simple-router its session with the server of its network. Most of the safety of these, and
the refinement of the ring buffer, is proved as well (section 4).

## 1. The systems

### chitcp

An application links `libchitcp`, whose calls become requests to the daemon `chitcpd`. Per
application connection a *handler* thread serves requests, one at a time. Per active socket
a *TCP thread* sleeps until an event flag is raised, and runs the handler of the socket's
TCP state. Per peer daemon a *connection thread* reads packets and queues them for a socket;
the *network thread* accepts those connections, and the *server thread* those of
applications.

| component | state | operations | talks to |
|---|---|---|---|
| circular buffer `libchitcp/buffer.c` | `start`, `end`, `seq_*`, `empty`, `full`, `closed`, a mutex, two condition variables | write, read, peek (blocking or not), close, queries | handlers and TCP thread, which share one buffer per direction |
| TCP state machine `chitcpd/tcp.c`, `tcp_thread.c` | state, `SND_*`, `RCV_*`, `pending_packets`, `withheld_packets`, event flags | the eleven state handlers; connect, arrival, send, receive, close, clean-up | buffers, transport, flags |
| packet transport `connection.c` | connection table, one thread per entry | enqueue a packet, raise `net_recv`; send a packet; open a connection | debug monitor, TCP thread |
| request handlers `handlers.c` | the request in progress | SOCKET, BIND, LISTEN, ACCEPT, CONNECT, SEND, RECV, CLOSE, DEBUG, state queries | tables, buffers, flags, state condition |
| socket and port tables `serverinfo.c` | `chisocket_table`, `port_table`, `tcp_state` with its condition | allocate, free, look up, `update_tcp_state` | all of the above |
| server life cycle `server.c` | server state, connection and handler lists | init, start, wait, stop | all threads |
| debug monitor `breakpoint.c`, `debug_api.c` | monitor, waiters, reference count; the debugger's threads | set, trigger, answer, destroy | handlers, transport |
| client library `socket_api.c`, `daemon_api.c`, `protobuf-wrapper.c` | a descriptor per thread | one request, one answer | server thread, handlers |
| list `simclist.c` | entries, middle pointer, spares, iterator | insert, delete, find, sort, join | every queue of the daemon |
| tester `tester.c`, `tester_peer.c` | a mailbox and a state per peer | send an event, wait for a state | tests, library |

Hard behaviours: handlers of one TCP thread run while applications write, read and close the
same buffers and packets arrive; a `tcp_state` is read, unlocked, and used; waits on a
condition that several threads share; `RCV_WND` is an unsigned counter; releases of sockets
race the threads that still use them; the daemon stops while requests are served; a monitor
is freed while threads wait for it.

What makes it correct: the buffer is a FIFO stream whoever interleaves; no wake-up is lost;
a byte sent is received once and in order; an acknowledgment never precedes the data; a
queued packet is processed; windows are respected; a socket and its port are released once
and only their own; a thread serves the socket it was made for; a stop leaves no thread
behind; an answer belongs to its request.

### simple-router

| component | state | operations | hard part |
|---|---|---|---|
| VNS transport `sr_vns_comm.c`, `sr_main.c`, `sr_if.c`, `sr_rt.c` | the session's stage, the interfaces, the routing table | authenticate, open, hardware, frames in and out | messages that come before the stage they belong to |
| ARP cache `sr_arpcache.c` | entries with age, queue of requests with packets | lookup, insert, queue, destroy; a sweep every second in a second thread | a reply nobody waits for |
| forwarding `sr_router.c` | none | ARP request and reply, TTL, longest prefix match, ICMP | a checksum test that refuses every packet |

At this commit no IP packet passes the test at `sr_router.c:275`: `cksum` returns `0xffff`
where other routines return 0 (`sr_utils.c:8-20`) and the test compares with 0. The
forwarding code, the request queue and the sweep over it are therefore unreachable; what
remains answers ARP requests, and crashes on replies.

### chirc

One thread per client; the registry of users and the list of channels are guarded by two
global mutexes, `lock` and `lock2`.

| component | state | operations | hard part |
|---|---|---|---|
| acceptor and connection threads `main.c` | one flag and condition for the start of a thread; each thread's own nick and user name | accept, start, read a command, register, leave | registration is split between a handler and the main loop, locked in pieces |
| registry `addremove.c`, `get.c`, `change.c`, `is_already.c`, `login_handlers.c` | list of clients, `registeredClients`, `unregisteredClients` | `NICK`, `USER`, `add_client`, `remove_client`, `sock_is_gone` | many look-ups without the mutex; one's own thread or another's may remove a client; descriptors are used again |
| channels `channel_handlers.c`, `mode_handlers.c`, `modes.c`, `topic.c`, `chaninfo.c` | list of channels with their users; each client's list of channels; modes in both | `JOIN`, `PART`, `TOPIC`, `MODE`, `OPER` | the two lists must agree; departures take no lock |
| messages and queries `msg_handlers.c`, `send.c`, `servermsg_handlers.c`, `quit_handler.c`, `welcome.c`, `away.c` | none | `PRIVMSG`, `NOTICE`, `WHOIS`, `NAMES`, `LIST`, `WHO`, `LUSERS`, `QUIT`, `AWAY` | walk the lists while others change them; errors on every send |

`src/handlers.c` of chirc is not compiled (it is not in the Makefile's `COBJS`).

Correct means: nicknames are unique; every client in the list is connected, and every
registered one is in the list; membership is symmetric between users and channels; counters
equal what they count; every path releases the locks it took.

## 2. The modules

| module | models | role |
|---|---|---|
| `ByteStream` | what `buffer.h` promises of a buffer | abstract specification |
| `CircularBuffer` | `buffer.c` | detailed specification, implements `ByteStream` |
| `MCCircularBuffer` | symmetry of the readers | model checking |
| `CircularBufferProofs` | the safety of `CircularBuffer`, that it implements `ByteStream`, and that no wake-up is lost | TLAPS |
| `Tcp` | `tcp.c`, `tcp_thread.c`, packets in `connection.c`, data requests in `handlers.c` | two sockets and a network |
| `TcpProofs` | that no packet is left without a wake-up, that a FIN is the last, that nothing is acknowledged before it is received, and the ranges of the types | TLAPS |
| `TcpStreamProofs` | that bytes arrive once and in order, and that a wake-up finds its packet | TLAPS |
| `Sockets` | `serverinfo.c`, the other requests in `handlers.c`, the threads in `tcp_thread.c`, the look-up in `connection.c` | one daemon's sockets and ports |
| `SocketsProofs` | that sockets, ports, TCP threads and locks stay with whom they belong to | TLAPS |
| `Server` | `server.c`, the connection table and threads of `connection.c` | one daemon's life |
| `DebugMonitor` | `breakpoint.c`, DEBUG and ACCEPT in `handlers.c`, `debug_api.c` | one daemon and its debuggers |
| `ClientLibrary` | `socket_api.c`, `daemon_api.c`, `protobuf-wrapper.c` | one application's threads |
| `ProcessProofs` | that calls get their own answers (`ClientLibrary`), that the daemon stops in order (`Server`), and that no monitor is freed while it is used and no debugger waits for nobody (`DebugMonitor`) | TLAPS |
| `MCChitcpd` | the four views of one chitcpd beside one another | model checking |
| `Simclist` | `simclist.c` | the list, against sequences |
| `Tester` | `tester.c`, `tester_peer.c`, tests and fixtures | a test and its two peers |
| `Router` | `sr_vns_comm.c`, `sr_main.c`, what is reached of `sr_router.c`, `sr_arpcache.c` | a session with `srhandler.py` |
| `PartsProofs` | that a list is a sequence to its users (`Simclist`), and that replies go back where the request came from (`Router`) | TLAPS |
| `MCParts` | buffer, list, tester and router beside one another | model checking |
| `ChircRegistry` | `main.c`, `login_handlers.c`, `quit_handler.c`, `welcome.c`, the client half of `addremove.c`, `get.c`, `change.c`, `is_already.c`; who is evicted by `send.c` and `msg_handlers.c` | the life of chirc's connections |
| `MCChircRegistry` | two scenes of `ChircRegistry`, with relays and without | model checking |
| `ChircRegistryProofs` | that the list of clients, the counters and the threads agree | TLAPS |
| `ChircChannels` | `channel_handlers.c`, `mode_handlers.c`, `modes.c`, `msg_handlers.c`, `send.c`, `servermsg_handlers.c`, `quit_handler.c`, the channel half of `addremove.c` | channels, modes, messages |
| `ChircChannelsProofs` | that the two halves of a membership agree, and who leaves is gone | TLAPS |

How they compose. `Tcp` uses a bounded FIFO for each buffer: it rests on `CircularBuffer =>
ByteStream`, which the run `buffer_stream` checks and `BufferIsStream` proves. `Sockets`
replaces the TCP handlers by the states each may set, all of them, so that what holds there
holds whichever of them `Tcp` chooses. `Server` and `ClientLibrary` keep of a request that
it is read, worked on and answered. A queue of packets or threads is a TLA+ sequence: that
rests on `Simclist` and `ListsStaySequences`. `MCChitcpd` and `MCParts` put modules side by
side that share no variable: in each behaviour one of them moves, which is enough for
properties of one module and spares TLC the product of their states.

### CircularBuffer

Variables follow the C struct: `data`, `start`, `end`, `seqStart` and `seqEnd` (modulo
`SeqModulus`, in C 2^32), `empty`, `full`, `closing` (how far a close has gone), `lock` (the
holder of the mutex), and for each call its `pc` and locals. An action is what happens
between two points where another thread may run: taking the mutex, waiting on a condition,
one byte of a copy (because a close takes no lock), the return. So a writer that sleeps in
the middle of a write leaves `end` and `seq_end` as the code leaves them. `Spurious` permits
the wake-ups POSIX permits.

Two error paths in the code return with the mutex still held: a non-blocking write that
finds the buffer full, and a read of a closed buffer. They are modelled as they are. A later
call then waits for ever; therefore deadlock is not checked in `buffer_stream`.

### Tcp

`thread[e]` says where the TCP thread of endpoint `e` is; a handler is many actions, because
no lock is held while it runs:

| code | actions |
|---|---|
| event loop, `tcp_thread.c` | `Take` (priority of flags), `AfterArrival`, `Ignore` |
| CLOSED, LISTEN, SYN_SENT, SYN_RCVD | `Connect`, `ListenArrival`, `SynSentArrival`, `SynRcvdArrival` |
| PACKET_ARRIVAL loops | `StartArrival`, `AcceptPacket`, `RejectPacket`, `use_data`, `always_on_fb`, `FinishFIN`, `EndArrival` |
| APPLICATION_SEND and `send_all` | `Send`, `SendSegment`, `EndSendAll` |
| APPLICATION_RECEIVE | `Receive` |
| APPLICATION_CLOSE | `StartClose`, `SendFIN`, `FinishClose` |
| LAST_ACK, CLEANUP | `LastAcked`, `Cleanup` |
| `chitcpd_enqueue_packet` | `Enqueue`, `RaiseNetRecv` |
| SEND, RECV, CLOSE requests | `SendCall`, `SendPut`, `SendReturn`; `RecvCall`, `RecvTake`, `RecvReturn`; `CloseCall`, `CloseReturn` |

The n-th byte an application sends is the number n, so a lost, repeated or misplaced byte
shows. `sent`, `taken` and `overran` are ghosts: they appear in no guard.

An endpoint in `Others` stands for another TCP at the far end: its FIN carries the ACK bit
and it receives after its FIN. chiTCP's own FIN has no ACK bit and is not heard (section 5);
without `Others` the closing states would never be reached. An endpoint in `Monitored` has a
debugger, which may drop, withhold or release arriving packets (`Responses`).

`crashed` has the endpoints whose daemon has aborted, and `Aborts` the three places where
that happens: WITHHOLD at a socket that CONNECT made, whose `withheld_packets` nobody
initialises (`handlers.c:789-795`; ACCEPT does, `621-622`); the assertion of a RECV that has
read nothing (`handlers.c:1037`), which `RecvReturn` passes only in the states it lists; and
LAST_ACK's `free` (`tcp.c:533`).

### Sockets

`entry` is `chisocket_table` with what the requests and look-ups read of an entry,
`port_table` the table of ports, `thread` the TCP threads, `req` the request each handler
thread is in. `lock` says which handler has gone off with an entry's `lock_tcp_state`. The
look-ups, the free entry and its allocation, and each unlocked step between them are
actions:

| code | actions |
|---|---|
| SOCKET, BIND, LISTEN | `Socket`, `SocketReturn`; `Bind`, `BindSet`; `Listen`, `ListenInit` |
| ACCEPT | `Accept`, `AcceptAllocate`, `AcceptAddress`, `AcceptStart`, `AcceptRaise` |
| CONNECT | `Connect`, `ConnectAddress`, `ConnectStart` |
| CLOSE | `Close`, `CloseFree`, `CloseRaise` |
| WAIT_FOR_STATE, and the waits of CONNECT and CLOSE | `WaitForState`, `WaitLock`, `Woken` |
| end of a handler | `Disconnect`, `Sweep`, `SweepFlag` |
| TCP thread | `Dispatch`, `TakePacket`, `EndArrival`, `Set`, `LastAcked`, `AfterArrival`, `Cleanup` |
| a packet comes | `ReceivePacket` (`lookup_socket`), `Deliver` |

A socket without an address reads as port `(uint16_t) -1`, the last of the table:
`free_socket_entry` clears that.

### Server

`state` is `si->state`; `mainAt` and `stopAt` are the thread that starts and waits and the
one that stops; `server` and `network` the two threads, `handler` and `connThreads` theirs.
Sockets are kept as far as `accept`, `recv` and `shutdown` tell their states apart. The
actions `Server...`, `Handler...`, `Network...`, `Connection...` and `Caller...` (CONNECT's
part of a handler) follow those threads from one system call or lock to the next;
`CallerPick` and `CallerClaim`, and the same in the network thread, are the unlocked look
for a free entry and the taking of it. Other daemons connect (`PeerConnects`) and close,
applications come (`OpenApp`), call and hang up. Joining a thread that never was, an
assertion, and the reuse of a freed structure set `crashed`.

### DebugMonitor

`monitor` holds the `debug_monitor_t` of each debugger with `numwaiters`, `dying` and its
lock; `debug_monitor` the pointer in each socket's entry. A thread of the daemon at a
breakpoint (`hit`) looks without a lock (`LookIgnored`), again under the entry's lock
(`Look`), counts itself and waits for the descriptor (`LockSockfd`), sends the event, and
takes the answer; after STOP it counts down, sweeps the table and destroys the monitor. On
the other side `debugger` is `debug_thread` and `active` its thread per active socket, which
trade an event and an answer under two conditions. `ReachAccept` and `CopyMonitor` are
ACCEPT's. The new socket gets the first free entry, before or behind that of the listening
socket. A sweep that has passed the new entry and not the listener's does not see what
`CopyMonitor` then writes there, and the monitor is freed under it: `missed`, a ghost, has
the monitors to which that has happened, and a thread that looks at such an entry
(`LookFreed`) ends the behaviour, since from there on anything may happen.

### ClientLibrary

`daemon_socket` is the descriptor each thread has stored, `fd` what the kernel means by it
now, `conn` the connections with the answers on their way, `call` where each thread is in
`Program`. An answer is two messages, a size and a body (`RecvSize`, `RecvBody`); `Unpack`
compares. The daemon stops and starts (`MaxStarts`), a recv is interrupted (`MaxSignals`).

### Simclist

The list is a record with the C fields, its entries numbers, the functions operators; an
operation of the library is one action since nothing in it is concurrent, and the sort is
step by step since it recurses. `RepOk` is the assertion the code itself makes.

### Tester

`test` is what remains of a test, a sequence of the calls it makes; `event`, `state`,
`holds` the peers' mailboxes, states and locks, `thread` where each peer's thread is,
`sleeps` whether the test's thread is waiting. `network` is what is behind the calls:
`Connect` is dropped if nobody listens, accept waits for connect, a function that receives
waits for one that sends, a close may never return. The tests are those of
`check_tcp_conn_init.c`, `check_tcp_data_transfer.c` and the samples that use the tester.

### Router

`sr` is the router with the stage it is at, `down` and `up` the two directions of its TCP
connection, `vns` the server: `srhandler.py` for the messages it has a handler for, and the
VNS server of the protocol for the template it has not. A frame is its kind and, if a
request, the address it asks for. `asked` is a ghost.

### ChircRegistry

`clients` is the linked list, newest first; look-ups stop at the first match, as the code's
do. `pc[t]` says where the thread of connection `t` is; `socket`, `nickname`, `username` and
`firstTimeLogin` are its locals. A section of code between `pthread_mutex_lock(&lock)` and
the unlock is one action; what runs without the mutex is an action of its own, so others may
come in between:

| code | actions |
|---|---|
| `accept_clients` and the start of a thread | `Accept`, `CreateThread`, `CheckSetup`, `Woken`; `SetupDone`, `SignalSetup`, `CountUnregistered` |
| a command arrives, or the end of file | `ReadNick`, `ReadUser`, `ReadQuit`, `ReadOther`; `EndOfFile`, `LateEndOfFile` |
| `handle_NICK`, `handle_USER` | `RefuseNick`, `TakeNick`; `RefuseUser`, `TakeUser` |
| end of the main loop, `main.c:443-483` | `ChooseBranch` (the unlocked tests), `Register`, `Promote`, `Welcome` |
| PRIVMSG and NOTICE to a nick, relays to a channel | `Address`, `SendOther`, `FailAwayReply`; `EvictCount`, `EvictRemove`, `EvictClose` |
| other commands | `Reply`; `Abandon`, `LockTwice` |
| `handle_QUIT`, `sock_is_gone`, `remove_client` | `QuitReply`, `Farewell`, `CountQuit`; `CountGone`; `RemoveClient`, `Close` |
| where the process crashes | `BadFree`, `CrashLookup`, `CrashNick` |

A `send` or `recv` fails only if the descriptor is closed or the peer of the connection
behind it has gone (`Hangup`); `descriptor` is the kernel's table, which gives the lowest
free number. A name is one of two nicks or empty; connection `t` calls its user `t`. The
handlers' private copies of the per-client mutex (`get_lock_from_sock` returns it by value)
exclude nobody and are left out, except where a thread locks its copy twice and waits for
ever (`LockTwice`, the stage "stuck").

When a relay cannot send, it is the sender's thread that calls `sock_is_gone` for the
addressee and closes its descriptor (`send.c:33-36`, `msg_handlers.c:183-191`). The
addressee's own thread does not learn of it: it goes on, finds no entry for its descriptor,
or that of the next connection which the kernel gives the descriptor, and calls
`sock_is_gone` once more at its end. Other handlers close their own client's descriptor and
forget the entry (`mode_handlers.c:178-182`, `msg_handlers.c:255-261`). Two ghosts keep
account: `lost` has the descriptors that were closed in such a way, and `drift` how far that
has moved the sum of the counters. What the properties except is named by these and nothing
else.

`handle_NICK` tells the client's channels its new nick while it holds `lock`
(`login_handlers.c:85-89`). If one of these sends fails, `sock_is_gone` takes `lock` again
(`addremove.c:284`), and the thread waits for itself with the mutex in its hands: the stage
"hung", after which no thread, nor the acceptor, gets the mutex again. Any other registered
client may be in a channel with the one that renames, so the model lets the relay meet any
of them.

`remove_client` on an empty list keeps the mutex for ever (`addremove.c:45`). Any connection
that leaves before the first `NICK` or `USER` of anybody does that, and the server then
stops answering. To see what else can go wrong, the runs set `Resident`: connection 1 has
registered before the run starts and stays, so that the list is never empty: its peer
neither quits nor hangs up, its thread does not get stuck, and the one `close` that can hit
any addressee's descriptor (`msg_handlers.c:233`) spares its. With `Resident` FALSE TLC
finds `Served` violated at once.

Not modelled here: the second send to a client that has just been given up by the first
(messages that are sent in two parts, `send.c:82-116`, `msg_handlers.c:194-217`), but for
the crash it may cause (`BadFree`); waits for `lock2`, which is in `ChircChannels`; what a
read of freed memory returns; and the unlock too many of `lock` by WHOIS
(`servermsg_handlers.c:252`, `285`) and by NOTICE to a nick (`msg_handlers.c:347`, `393`).
So what the runs and theorems say of the registry holds for servers whose clients use
neither WHOIS nor NOTICE to a nick: after either a section of another thread may not have
been alone.

### ChircChannels

A membership is kept twice: in the channel's list (`channels`, with the operator and voice
flags) and in the client's (`names`). `lock2` is the mutex of both; a section of code under
it that only reads is one action, and each change is one of its own. A change of a channel's
list of users is two actions: the walk to the node (`Look`) and the splice (`Splice`). JOIN
and PART make both under `lock2`, but QUIT and `sock_is_gone` call `remove_chanUser` without
it (`addremove.c:290-294`, `quit_handler.c:60-61`), and the acting thread works with the
pointers it has read. When a splice falls between the walk and the splice of another thread,
the list is `torn`, and from then on each splice of it may leave any of the nodes that are
there or that the thread saw (`Rests`): nodes are lost, or come back. PART's destruction of
an empty channel tears a list in the same way.

A relay walks a channel's users one send after the other (`Relay`), and evicts whom it
cannot reach (`StartPurge`, `PurgeLook`, `PurgeSplice`, `EndPurge`), which takes no lock.
Three more variables record what the code has done wrong. `intruded`, a ghost: an unlock of
`lock2` has released it under another thread. `late`, a ghost: clients that entered a
channel while or after somebody else took them out of the lists. `kept`: `remove_client` has
met an empty list and keeps the other mutex, so that no command begins any more. The program
counter `stuck` is a thread that waits for its copy of a mutex that it has locked already:
MODE without permission (`mode_handlers.c:377`), NAMES to a client that has gone
(`servermsg_handlers.c:467`, `542`). The properties say what still holds without them.
Commands, by module of the code: `Join...`, `Part...`, `Topic...`; `UserMode`, `Mode...`,
`Oper`; `Privmsg`, `PrivmsgUnlock`, `Notice`, `Tell`, `TellAway`; `Names...`, `List...`,
`Who`, `Whois`, `Away`; `Quit...`; `Reply` for what only answers.

Sections under the other mutex, `lock`, are single actions here although NOTICE to a nick
unlocks it twice (`msg_handlers.c:347`, `393`); nicks do not change, since the relay of NICK
and the mutex it hangs on are in `ChircRegistry`. A client that is no longer in the list
sends no further command: its nick is a null pointer, and the server crashes at the first
one that uses it, as `ChircRegistry` has it (`CrashLookup`).

## 3. What the runs check

| run | shows |
|---|---|
| `buffer_stream` | one writer, two competing readers, both modes, closes, spurious wake-ups: unread bytes are intact (`UnreadIntact`), each read returns the next bytes (`ReadsInOrder`), flags and count agree (`FlagsAgreeWithCount`), nobody sleeps on a condition that holds without a wake-up on its way (`NoLostWakeup`), and the buffer is a FIFO stream (`ImplementsByteStream`) |
| `buffer_peek` *(violation)* | a peek signals `notFull` and clears `full`: the writer overwrites unread bytes |
| `tcp_transfer` | handshake and a stream longer than the receive buffer, of which the second SEND overruns the window: a payload meets too little room, the TCP thread blocks half-way, `RCV_WND` goes below zero; still bytes arrive once and in order (`StreamIntact`), nothing is acknowledged early (`AckedWasReceived`) and no packet is forgotten (`NoStrandedPacket`) |
| `tcp_live` | the handshake completes and all bytes arrive (`AllDelivered`) |
| `tcp_teardown` | both ends close with data in flight, the client's debugger drops what comes to it, or withholds it and so aborts the daemon: flags and queues agree (`WakeUpsMatchPackets`: whoever acts on `net_recv` finds a packet, and no packet waits without it), and nothing follows a FIN (`FINIsLast`) |
| `tcp_window` *(violation)* | `send_all` exceeds the window |
| `chitcpd` | *sockets*: an entry that is in use keeps its creator (`SlotsAreNotStolen`), a TCP thread works on the socket it was made for, while handlers of its own and of other clients release it (`ThreadServesItsSocket`), a taken port is a live socket's (`PortsPointAtTheirSockets`), packets of established connections never reach the listener (`ListenersGetStrangersOnly`), no request returns with a lock (`NoLockLeftBehind`). *server*: after a stop no thread of the daemon's own is left (`StopIsOrderly`). *debug*: a monitor is not freed while a thread uses it, nor while a socket points at it unless ACCEPT has copied it behind the sweep (`MonitorOutlivesItsUsers`), the debugger waits only for threads that answer (`ActiveThreadsAnswer`). *library*: an answer is that to the thread's request (`AnswersMatch`) |
| `parts` | a write longer than the buffer returns, a read returns if data comes (`CallsComplete`); after any sequence of calls the list is what a sequence would be (`ListsAreSequences`); every test of the repository comes to its end (`TestsFinish`); the router answers a host on the wire it asked from (`AnswersGoBack`) |
| `chirc_login` | two scenes. In one, three connections beside the resident register in either order, rename, repeat, quit, vanish, fail to send. In the other everybody, the resident too, also relays, is given up by others, is forgotten, and shares descriptors with threads that live on. The two counters agree with the connections but for what such accidents add or take (`TotalAgrees`); the list holds each connected client once and nobody else although descriptors are used again (`EntriesAreConnected`), a registered client is in it, and `handle_NICK` never takes the length of a name it did not find (`LookupsSucceed`), but for descriptors that were closed under a client's thread |
| `chirc_live` | no command is left unfinished, `accept_clients` returns to `accept` (`Served`), a connection whose peer has gone ends (`Departs`), unless NICK hangs on its relay, a thread has locked its own mutex twice, or the process has crashed |
| `chirc_channels` | two clients join, part, speak, set modes, quit and vanish, with splices under `lock2` and without: the two lists of memberships agree (`MembershipAgrees`), who has left is in no channel (`DepartedIsGone`), where no two splices have met; every command ends (`CommandsEnd`) unless a mutex is left locked or its own thread has locked it twice |
| `chirc_nick` *(violation)* | two connections get the same nick |

What a reader must know:

- `StreamIntact` is conditional. If a sender has overrun its peer's window (`overran`), the
  peer discards a segment that is never sent again, and if the receive buffer is closed, its
  content is gone. The first condition is not a formality: `tcp_window` shows that the code
  violates it.
- `AllDelivered` holds in `tcp_live` because at most half a window is ever in flight there;
  section 5 says what happens otherwise.
- `TotalAgrees` is about the sum of the two counters, which LUSERS reports as the number of
  clients. Each counter by itself can be wrong (section 5).
- `TotalAgrees`, `EntriesAreConnected` and `LookupsSucceed` have exceptions because the code
  does not keep the promise without them: `drift` and `lost` count and name the occasions on
  which one thread closes another's descriptor, or a handler its own without taking the
  client out. What is left to say is that there is no other occasion.
- `MembershipAgrees` and `DepartedIsGone` are about lists that are not `torn`, and hold
  until PRIVMSG unlocks `lock2` a second time while somebody else holds it (`intruded`). A
  list is torn only if two splices meet; in every other interleaving of the unlocked
  departures with joins, parts, relays and modes they hold. `CommandsEnd` holds until a path
  leaves a mutex locked (`kept`, `Abandoned`), and for commands other than those that get
  `stuck`. Section 5 has the paths.
- `MonitorOutlivesItsUsers` has the race that a comment at `handlers.c:638` admits as its
  exception (`missed`).
- `AnswersMatch` excludes a thread whose recv a signal interrupted and one whose descriptor
  the library has closed under it: there the answers do get mixed up (section 5).
- `PortsPointAtTheirSockets` is one direction. The other does not hold: a live listening
  socket may find its port cleared (section 5).
- `TestsFinish` leaves open whether a close returns; `chisocket_close` may not (section 5).

### Bounds

Ring buffer: capacity 2 and writes of 0, 1 and 3 bytes (shorter than, and longer than, the
buffer) with two readers; capacity 3 in `parts`. The slots wrap after two bytes, and the
sequence numbers after `SeqModulus` 4, so that both wraps happen in every alignment. Nothing
is counted without a bound: content is kept as the sequence of unread bytes.

TCP: in `tcp_transfer` segments of two bytes (`MSS`), 7 slots (`BufSize`) and two SENDs of
four bytes (`MaxBytes` 8): only a sender that has overrun the window can make a payload meet
too little room, so that the TCP thread blocks in the middle of its write; the RECVs that
`MaxTaken` 2 permits then let `RCV_WND` wrap. In the other runs `MaxTaken` exceeds
`MaxBytes` or nobody receives. `MaxBytes`, `SendSizes`, `RecvSizes` and the single initial
sequence number bound the run; the protocol uses differences of sequence numbers only, and
the code assumes that they do not wrap (initial numbers are at most 1000), an assumption
`SizeAssumption` states. `RCV_WND` keeps its unsigned wrap (`% Word`). `tcp_teardown` needs
one byte in flight, since it is about the order of FINs, acknowledgments and data; it does
not repeat the receiver.

chitcpd: two sockets and two ports are enough for the table to be full, for an entry to be
used again by another client, and for ports to collide; `MaxPackets` 2 for a SYN and a
packet of the accepted connection, which may overtake its release. One connection entry, two
applications and one request (`MaxRequests`) let the daemon stop, a peer connect and a
CONNECT look for a connection at any point of each other. Two debuggers, two threads and
three sockets, of which the middle one listens (`Occupied`, `Listener`) and the other two
are free at first, so that ACCEPT takes one before it and one behind it; three breakpoints
reached (`MaxHits`) let a monitor be copied, be destroyed under a waiter, or be copied
behind the sweep and used again. The theorems say that no more sockets, packets or
breakpoints change that. Two threads, a restart (`MaxStarts` 2) and one signal for the
library.

Parts: lists of up to four elements with one spare entry pass through all quarters of a walk
and every parity of the middle pointer; `MinQuick` 2 makes quick sort recurse. The tester
has no bound but the tests. Two interfaces, a routing table that fits and one that does not,
two frames.

chirc: four connections of which one is the resident, three descriptors, so that the last
arrival gets a descriptor that has been closed; two nicks, so that the nick asked for may be
free, one's own or another's; five commands in all (`MaxCommands`), enough for two clients
to register and one more to interfere, or one to register, rename, repeat and quit. That is
the scene without relays. In the other scene (`MCChircRegistry`) two connections come one
after the other beside the resident and share one descriptor, with four commands among all
(`MaxRelayed`): enough for the first to register, for the resident to relay to it and give
it up, and for the second to come while the first one's thread lives on behind the same
descriptor, in any order. Both scenes at once have more states than a run has time for; each
bound belongs to one scene, and the theorems have neither. `chirc_live` has one connection
and two commands (without relays) less, `chirc_nick` needs two connections and two commands.
`chirc_channels`: two clients, one channel and three commands, so that one joins, the other
joins, and either speaks, leaves or sets modes while the other's command is under way;
commands that change no channel count twice (`Apart`), so that of these there is one beside
one other.

### Fairness

Weak fairness of each TCP thread and network thread: they are POSIX threads that are always
eligible when they have work, and the transport between the daemons is a real TCP connection
that delivers. Weak fairness of requests in progress: a handler thread that is not blocked
goes on. A receiving application calls RECV again. No application is obliged to send or to
close. For the buffer in `parts` fairness is per thread for threads inside a call, and a
reader calls again; the mutex is granted to some waiter. The tester's test thread and its
two peers run when they can; whether a close returns is outside their fairness. In
`ChircRegistry` and `ChircChannels` each connection's thread (and the acceptor) is fair: the
mutex is granted to whoever can take it, since every section is short; a send returns.
Nobody is obliged to connect, to send a command or to hang up. `Sockets`, `Server`,
`DebugMonitor`, `ClientLibrary` and `Router` are checked for safety only: their requests may
wait for ever (section 5).

## 4. What is proved

Eight modules hold theorems. Every theorem is about the specification TLC runs, for every
value of the constants that satisfies the assumptions of the module; only those of the ring
buffer (`PartsProofs!PartsTypes` among them) and of the byte stream have hypotheses of their
own.

| theorem | statement |
|---|---|
| `CircularBufferProofs!Invariance` | `Spec => []IInv`, the inductive invariant of the buffer |
| `!TypesHold`, `!UnreadStaysIntact`, `!ReadsAreInOrder`, `!FlagsAgree` | `[]TypeOK`, `[]UnreadIntact`, `[]ReadsInOrder`, `[]FlagsAgreeWithCount` |
| `!NoWakeupIsLost` | `[]NoLostWakeup` |
| `!BufferIsStream` | `ImplementsByteStream`, the refinement |
| `TcpProofs!Invariance` | `Spec => []Inv`, the inductive invariant of the TCP threads |
| `!PacketsAreNotStranded`, `!FINsComeLast` | `[]NoStrandedPacket`, `[]FINIsLast` |
| `!SequenceInvariance`, `!AckedIsReceived`, `!TypesHold` | `Spec => [](Inv /\ SeqInv)`, what relates the two endpoints, `[]AckedWasReceived`, `[]TypeOK` |
| `TcpStreamProofs!WakeUpsFindTheirPackets`, `!BytesArriveIntact` | `[]WakeUpsMatchPackets`, if the server's packets pass its debugger; `[]StreamIntact`, if all packets do |
| `SocketsProofs!SocketsInvariance` | `SocketsSpec => []IInv`, the inductive invariant of the tables |
| `!SocketsTypes` | `[]SocketsTypeOK` |
| `!SlotsStayOwned`, `!ThreadsKeepTheirSockets`, `!PortsHaveSockets`, `!LocksAreGivenBack`, `!StrangersKnock` | `[]SlotsAreNotStolen`, `[]ThreadServesItsSocket`, `[]PortsPointAtTheirSockets`, `[]NoLockLeftBehind`, the action property `ListenersGetStrangersOnly` |
| `ProcessProofs!LibraryInvariance`, `!AnswersAreOnesOwn` | `ClientSpec => []LibInv`, `[]AnswersMatch` |
| `!ServerInvariance`, `!ServerTypes`, `!StopJoinsAll` | `ServerSpec => []ServerInv`, `[]ServerTypeOK`, `[]StopIsOrderly` |
| `!MonitorInvariance`, `!MonitorsOutlive`, `!ActiveThreadsAreThere` | `DebugSpec => []MonitorInv`, `[]MonitorOutlivesItsUsers`, `[]ActiveThreadsAnswer` |
| `!ClientTypes`, `!DebugTypes` | `ClientSpec => []ClientTypeOK`, `DebugSpec => []DebugTypeOK` |
| `!ViewsTogether`, `!ChitcpdTypes`, `!ChitcpdIsSafe` | `MCSpec` implies the specification of each view, `[]MCTypeOK`, and the other properties of the run `chitcpd` |
| `PartsProofs!ListsStaySequences`, `!ListTypesHold` | `ListSpec => []ListsAreSequences`, `[]ListTypeOK` |
| `!SessionInvariance`, `!SessionTypesHold`, `!RepliesGoBack` | `RouterSpec => []SessionInv`, `[]RouterTypeOK`, `[]AnswersGoBack` |
| `!TesterTypes`, `!PartsTypes` | the types of the tester; `PartsSpec => []PartsTypeOK`, if one thread writes into the buffer and none peeks |
| `ChircRegistryProofs!RegistryInvariance` | `Spec => []IInv`, the inductive invariant of the registry |
| `!RegistryTypes`, `!CountersAgree`, `!EntriesHaveThreads`, `!LookupsFindEntries` | `[]TypeOK`, `[]TotalAgrees`, `[]EntriesAreConnected`, `[]LookupsSucceed` |
| `ChircChannelsProofs!ChannelsInvariance` | `Spec => []Inv`, the inductive invariant of the channels |
| `!ListTypes`, `!ListsAgree`, `!DepartedLeaveNothing` | `[]TypeOK`, `[]MembershipAgrees`, `[]DepartedIsGone` |

None of these properties is inductive as it stands: each says what holds between steps, and
the code works in steps. Every invariant was checked by TLC on a small instance before it
was proved. The proofs have one lemma per action, or per group of actions that do the same
to the invariant, and lemmas about the operators (wrapping slots, the head of a queue, the
first match in a list) that they cite.

**The ring buffer**, for every capacity, modulus, set of call lengths and any number of
readers. Assumptions: the constants' own (`CircularBuffer`), and two that restrict the users
of a buffer: `SingleWriter` (one thread writes at a time; chitcp's buffers have one
application side and one TCP thread) and `NoPeekers`. Both are necessary: with a second
writer or a peek TLC finds unread bytes overwritten (`buffer_peek` shows the latter).

Half-way through a call `start`, `end` and the flags disagree with the number of unread
bytes: a writer has advanced `end` and not `seq_end`, or has cleared `empty` before the last
byte. `IInv` says what they mean at every program counter: only the holder of the mutex is
inside a copy (`MutexInv`); the bytes held, published or not, fit the capacity (`WindowInv`)
and occupy the slots from `start` on in order (`ContentInv`); where an unfinished write
stands (`WriterInv`), where things are between writes (`RestInv`), what the flags mean while
the buffer is open (`FlagsInv`), and where a copying read stands (`ReaderInv`).

The refinement follows from it: `ContentInv` makes the abstract queue the bytes from
`seqStart` on, as many as are held; a copied byte appends one, a read's return removes a
prefix, close closes, and all other actions stutter. That no wake-up is lost needs a count
(`WakeInv`): while readers sleep beside bytes, as many readers have been woken, and are
still to take the mutex, as there are bytes to be had. It holds for finitely many readers
(`FewReaders`) that ask for at least a byte (`ReadersWantBytes`); section 5 says what a read
of nothing does.

**The TCP threads**, for all sizes of buffer, window and segment. `Inv` is local to an
endpoint: at which points of its loop a thread may sleep, or be about to, beside packets in
`pending_packets`, and which flag is then up (`WokenUp`); what has happened when a FIN has
been sent (`CloseIsFinal`, `FINIsTold`); and that a packet with FIN is the last of those in
flight from its sender (`EndsWithFIN`). The lemma `OwnState` carries the other endpoint's
half over each step.

`SeqInv` relates the two. `Phase` says which packets may be on their way at each stage of
the handshake, and what numbers the two blocks then have; a debugger that drops a packet
makes it stay where it is. Once a side has numbers, `Numbered` keeps a budget of the bytes
under way: those in flight, being handled or held back, whatever their order, are no more
than lie between the receiver's next number and the sender's, and each acknowledgment on its
way names a number that the receiver has reached. A FIN carries a number that its receiver
may already be past. From there `AckedWasReceived` is arithmetic. `Measured` adds what
bounds the numbers: what an application has sent is its acknowledged, unacknowledged and
buffered bytes together (`Accounted`), so that the distance from the end of the 32 bits that
`SizeAssumption` leaves is never used up, and `send_all` takes no more from `SND_WND` than
is there (`Windowed`).

Two theorems need more, and have a hypothesis: `LetsPass(e)`, that whoever debugs `e`
answers NONE. (A packet that a debugger drops is gone, as nothing is ever sent again, and
one that it withholds may come too late; `Monitored` without the endpoint satisfies it.) At
the client, WITHHOLD aborts the daemon (`Aborts`), so what the first theorem says of a
client's debugger is about packets it drops. *A wake-up finds a packet*: `WakeInv` counts
the wake-ups of an endpoint before it is connected, of which there is one for the one packet
that may be there, and says that the packet that completes the handshake is the first to
come (`Completing`). It fails if the server's debugger drops that one: section 5.

*The bytes arrive*: `FlowInv` says of the receiving end that the packets still to be fetched
follow on one another, from the byte it expects to the one the sender has next (`InOrder`, a
`Chain`), that they fit its window and the window its buffer, up to the part of a payload
that `use_data` has written while it waits for room (`Fits`), and that what is in the
buffer, in hand, in the queues and in the peer's buffer are the bytes from `taken` to `sent`
(`Whole`). So each packet is acceptable when it is fetched, which is what makes dropping
unacceptable ones harmless. The inductive step distinguishes who moves: the receiver
(`ReceiverStep`: accept, write, take, the rest) or its peer (`SenderStep`: a segment, a
SEND, a packet without bytes). It presupposes, as the property does, that no segment has
overrun the window (`overran`; `tcp_window` shows one) and that the receive buffer is not
closed. A queue's payload is a fold over its packets: the first section of the module proves
what a packet adds to it at either end, by induction on the queue's length, from the least
length for which it would fail (`LeastNumber`).

**The sockets' tables**, for any number of slots, ports, peers and handler threads. A
request looks an entry up, lets go of the locks, and uses what it found: `IInv` says at each
stage of each request what the entry must still be (`InStage`), which is what keeps slots
from being stolen. A listening socket's remote address is "ANY", so an established one is
preferred by the look-up (`StrangersKnock`); the constants must therefore keep "ANY" from
being a peer.

**The library**: for any number of threads and descriptors (finitely many threads). A
descriptor is its thread's own until it is closed, and the kernel's table is injective; so
the bytes on a connection are exactly those that the call in progress has still to wait for.
**The daemon's life**: which threads exist at each stage of start and stop, and that no
handler thread is missing from the list that stop walks (`NoHandlerForgotten`).

**The debug monitors**, for every number of sockets, debuggers and breakpoints and any
finite set of threads (the assumption `IsFiniteSet(Threads)` is what makes a counter of
threads mean anything). That freed monitors are not used rests on four facts that hold
together or not at all: whoever has a monitor, a thread or an entry of the table, has one
that is alive and whose DEBUG request is finished (`UsersInv`, `EntriesInv`, `RegisterInv`);
`numwaiters` is the number of threads that wait for `lock_sockfd` (`CountInv`), so that 0
means that nobody does; past that wait, the thread is the only holder (`HoldInv`), so that
nobody else is sending, answering or sweeping; and the entries behind a sweep no longer have
the monitor, unless ACCEPT has filled one since (`SweepInv`). ACCEPT's copy is the exception
the property has: the table gives out the first free entry (`serverinfo.c:116`), so the new
entry may lie before the listening socket's, and a sweep between the two no longer comes to
it. `missed` records the monitors to which that happens, and the invariant says that an
entry has a freed monitor, or a thread meets one, in no other way; nothing is assumed about
the order of entries, nor about which of them are occupied at first. The proof has a lemma
for the steps that leave the counts alone (`ThreadStep`), of which most actions are cases,
and one for each of the others. `DebuggerInv` adds the debugger's side: what is on the wire
is the concern of one thread of the daemon (`WireInv`), and at each stage of the thread of
the connection, where each socket's active thread is and what its `event_flag` and
`response` say (`Fits`).

**The list**, for lists of any length, any data and comparator's direction, any number of
spares and any length of a range that is sorted by selection (`MaxElems` is any number and
bounds what `malloc` has to give). `ListInv` says that there is a function `w` from
positions to entries (`ListHolds`), the sentinels at its ends, along which the list is
linked both ways (`Linked`), of which `mid` has the middle value (`Centred`) and the spare
entries none (`SparesApart`): `Laid`. From `Laid` alone follows what the property asks of a
list at rest: a walk of n steps along `next` comes to `w`'s n-th entry (`WalkOn`,
`WalkBack`), so `list_findpos` comes to the right one from whichever of its four starting
points (`FindPos`), and each operation on the record gives one that is laid along another
function, `w` with an entry put in or a run taken out (`InsertIs`, `DeleteAtIs`,
`DeleteRangeIs`, `ClearIs`, `ConcatIs`). There is the arithmetic that the parity tests at
`simclist.c:514` and `1391` get right: the middle of n elements and that of n + 1, or of
what a deletion leaves on either side of the old one. The contents are then the same
sequence with an element more, or a part less (`SequenceGrown`, `SequenceWithout`).

The sort keeps `w` and moves data. Its invariant (`Sorting`) has the stack of calls as
disjoint ranges of positions (`Ranges`) and says that of two positions which no pending
range contains both the earlier has the smaller key (`Settled`), so that when the stack is
empty the list is in order. At each stage of the running call: what has been selected is in
order and not above the rest (`Selected`), what the two pointers of a partition have passed
is on its side of the pivot (`Parted`), also while the loops for the longer side move the
pivot itself (`PartedDown`, `PartedUp`). That elements are neither lost nor doubled is a
count per value that a permutation of positions leaves as it is (`PermutedHolds`).

`Steps` is a recursive function of the length of the walk; what it computes is proved with
functions that hold the whole walk (`Trod`), of which there is one for each length, and
induction over a set of numbers (`SetInduction`), which needs no operator as a parameter.
The iterator forbids changes, so `w` stays while it runs (`Iterates`). Finite `ListValues`
are not needed, nor is any assumption but `SimclistAssumption`.

**The router**, for every set of interfaces and every set of routing table files, whatever
comes at whatever stage. `SessionInv` bounds what may be on its way in each direction
(requests only if they were asked; replies only to requests that were asked, and only once
the hardware has been found to agree with the routing table) and says how table and
interfaces go together at each stage (`TableInv`).

**chirc's registry**, for any number of connections, descriptors, nicks and commands. A
thread's copy of its nick and user name and its entry in the list change in different
sections, so they agree only up to what the command in progress has done (`EntryMayLag`,
`EntryAgrees`); each connection is counted in one counter or the other from one point of its
thread to another (`TotalAgrees`, by a set that gains or loses one member a step). A thread
that keeps its descriptor (`Keeps`) has it for itself in the kernel's table (`Holds`) and
knows at each stage what the list has of it (`Progress`). Evictions by other threads are
steps of the proof like any other: they put the descriptor into `lost` and take one from
`drift`; a thread behind a lost descriptor goes on with only what is true of it whatever it
finds (`Steady`), and the lemma about the others (`Bystander`) says that a step changes what
is known of another thread only through `lost`.

**chirc's channels**, for any number of clients, channels and commands. The types (`Typed`),
with what a stage remembers, hold whatever has gone wrong. The rest holds as long as no
unlock too many has let two threads into a section (`intruded`), and speaks of the lists
that are not torn: that a channel is in the list once (`Unique`), and one half for each
direction of a membership: a channel has no user that does not have the channel in its own
list (`KnowsItsChannels`), and a client is in the channels of its list unless it is being
taken out (`IsInItsChannels`). What each thread's stage says of the lists is `StandsOK`: a
JOIN's channel is still there while it holds `lock2`, who departs is only in channels it has
still to leave, and who stands between the walk and the splice of a change finds the list as
it was, or the list is torn. `LateIsOut` has the clients that a relay threw out in the
middle of their JOIN. Most actions are *quiet*, they move nobody, and one lemma serves them
(`QuietStep`); the changes of a list have a lemma for a splice that finds nobody else
between walk and splice and does what it should, and for one that tears the list, after
which nothing has to be shown of it.

**The views together.** A step of `MCChitcpd` is a step of each of the four views or leaves
it alone, so `MCSpec` implies the specification of each (`ViewsTogether`) and every theorem
about a view holds of the daemon: `ChitcpdTypes` and `ChitcpdIsSafe` state those that the
run checks. What `DebugTypes` says is more than types: `numwaiters` is a count. The parts of
`MCParts` share no variable and one of them moves: `PartsTypes` follows part by part, with
the buffer's hypotheses. The tester's own invariant (`TesterInv`) has what its mailboxes may
hold and where each peer may be, and that the calls still to make are a sequence of the
test's.

Only model-checked: that the tester's tests end (`TestsFinish`, liveness). Out of the
prover's reach, and TLC's for good: liveness under fairness and `ENABLED` (`AllDelivered`,
`Served`, `Departs`, `CommandsEnd`, `CallsComplete`, `TestsFinish`); and RECURSIVE
operators, which the modules that are proved about avoid.

## 5. What the code does that no run claims

Observed while modelling. The models do these things too; none is a property of a run,
because no document or test of the repository states the contrary, or because a property
excuses it by name.

### chitcp: the TCP thread

- When a debugger of the server drops or withholds the ACK that completes the handshake, the
  client's FIN is the first packet of SYN_RCVD. If it comes between LISTEN's packet and the
  test at `tcp_thread.c:320`, `net_recv` is raised twice for it, by that test and by the
  network thread (`connection.c:599`); SYN_RCVD refuses the FIN, and the second time
  `list_fetch` finds nothing: `tcp.c:203-205` dereferences NULL. An attempt to prove
  `WakeUpsMatchPackets` for every choice of `Monitored` showed this, and TLC confirms it;
  `tcp_teardown` monitors the client only.
- After an overrun `RCV_WND`, unsigned, wraps below zero (`tcp.c:608`), and the header then
  advertises its low 16 bits (seen in `tcp_transfer`).
- The handlers of the arrival loops continue after the state has changed. With a peer whose
  FIN acknowledges, FIN_WAIT_2 can be followed by CLOSING, and CLOSING by FIN_WAIT_2
  (`tcp.c:364`, `376`). The branch FIN_WAIT_1 to TIME_WAIT (`tcp.c:373`) is never taken.
- A FIN is sent without ACK (`tcp.c:325-328`), and the arrival handlers drop what has none
  (`298-308`; the specification has it otherwise, `chitcp_project_specification.tex:721`).
  Two chiTCPs therefore do not hear each other's FIN, and `chisocket_close` of a connected
  socket, as in `samples/simple-tester.c`, may hang.
- Between two chiTCPs LAST_ACK is never left: the last acknowledgment is not "inside the
  window", since a FIN takes no sequence number. With another peer LAST_ACK frees `tcp_data`
  (`tcp.c:533`), which lies inside the socket's entry, and clean-up frees it again: the
  daemon may abort.
- TIME_WAIT never becomes CLOSED, although the project specification says so (`tex:166`).
- In CLOSED with packets left `net_recv` is raised again for ever (`tcp_thread.c:319`), and
  clean-up, the least urgent event, never comes. When it comes, its assertion (`331-332`)
  can fail.
- A packet that comes between LISTEN's mark and its `list_init`, or after the buffers are
  freed, meets a queue that is not there.
- A close does not release a call that sleeps in the buffer: `circular_buffer_close` signals
  the conditions and leaves `empty` and `full`, which the loops test again (`buffer.c:309`),
  although `buffer.h:353` says pending calls return immediately.
- `send_all` reduces `SND_WND` by what it sends (`tcp.c:648`) and `num_allowed` subtracts
  `SND_NXT - SND_UNA` again (`630`): a second SEND sees a smaller window than there is, and
  the ACK that opens it (`298`) does not send what was left. A byte can stay behind for
  ever.
- A read of 0 bytes consumes a wake-up and takes nothing: `circular_buffer_read` sleeps
  while the buffer is empty whatever it is asked for, and RECV passes on the length the
  application gives (`handlers.c:1024`). A second reader then sleeps beside the bytes,
  unless the handler's assertion, which takes 0 for a closed buffer (1037), ends the daemon
  first. With 0 among the lengths TLC finds `NoLostWakeup` violated; the runs and the
  theorem have none.
- RECV during CLOSE: the receive buffer is closed before the state changes, RECV reads 0,
  and the assertion at `handlers.c:1037` lists neither ESTABLISHED nor FIN_WAIT_1: the
  daemon aborts (`Aborts`).
- A debugger that answers WITHHOLD for a packet to a socket that CONNECT made aborts the
  daemon: `list_append` follows the null sentinel of a list that only ACCEPT initialises
  (`handlers.c:621-622`, and `789-795` where it is missing; `connection.c:563-570`).
- Payload is accepted in the order of arrival, whatever its sequence number: the daemon
  relies on a network that keeps order (`tex:158`).

### chitcp: sockets, daemon and library

- `update_tcp_state` wakes one waiter (`serverinfo.c:90`), which may wait for another state:
  WAIT_FOR_STATE and CLOSE can sleep through the state they want. CLOSE of an ESTABLISHED
  socket that races the peer's FIN waits for states that no longer come, and one that waits
  for LAST_ACK may miss it (`handlers.c:1206`).
- Ports: an ephemeral port may be the one a BIND is about to set; a second BIND leaves the
  first port taken; the release of an accepted socket clears its listener's port, which can
  then be bound again; that of a LISTEN socket without an address clears port 65535
  (`serverinfo.c:186`); with all ports taken CONNECT uses -1.
- Two CLOSEs of one socket leave `lock_tcp_state` locked (`handlers.c:1190`).
- Stopping: a handler that has read its request and not yet taken `handler_lock` does the
  work and cannot answer (`server.c:447-449`, whose comment says that handlers in use are
  waited for); DEBUG is handled without that lock, which is then unlocked twice; stop fails
  at the shutdown of a socket that is closed already; TCP threads are not joined before
  `server_free`.
- The network thread ends, and closes the UNIX socket on its way, when a peer connects a
  second time (`server.c:601-609`) or the table of connections is full. A connection that
  the daemon opened itself has no thread of its own when stop joins it. Two creators may
  take one entry (`connection.c:224`), and `get_connection`'s assertion fails on an entry
  that is half filled.
- Debugging: a monitor for which somebody waits when it is destroyed is never freed
  (`breakpoint.c:106-118` tests the count before it is decremented), nor is the debugger's
  descriptor closed; one STOP ends the monitoring of all of a passive debugger's children;
  an event for a socket without a thread is answered with the previous answer
  (`debug_api.c:337-342`). A socket that ACCEPT puts into an entry before its listener's,
  while the debugger's monitor is being swept from the table, keeps the freed monitor
  (`handlers.c:638-648`, `breakpoint.c:171-183`); the next breakpoint there uses it.
- DUPLICATE queues one packet twice, and whoever handles it frees it (`connection.c:568`).
- The library keeps a thread's descriptor for ever. After a restart of the daemon two
  threads may share a connection and take each other's answers; after a recv that a signal
  interrupted, each answer comes one call late. `chitcpd_connect` leaks its descriptor when
  it fails, a long message is read short, and `chisocket_get_socket_state` asks twice.
- The tester of `samples/handshake.c` returns from main with its CLOSE events posted and not
  served; STATE_CLIENT_CONNECTING is never set.

### simple-router

- `srhandler.py:59-72` sends frames to every client, authenticated or not: one that comes
  during start-up ends the router or trips an assertion. OPEN before the switch has
  connected never gets its hardware; there is no `_handle_open_template_msg`, so that a
  template loses the connection.
- The end of the connection without VNSCLOSE makes the reader spin for ever
  (`sr_vns_comm.c:351-368`).
- An ARP reply for which there is no request crashes the router (`sr_arpcache.c:18-20`), and
  there never is one; the `ether_type` of a reply of the router's own cache code is not put
  in network order (`sr_arpcache.c:68`). Section 1 has the checksum.

### chirc

- `change_user_from_nick` (`main.c:448`) writes the user name into the first entry of that
  nick, which after the race of `chirc_nick` may be another client's; the writer's own entry
  stays incomplete.
- Each counter can drift although their sum is right: `sock_is_gone` takes from the one that
  the list entry suggests (`addremove.c:285`). A registered client whose entry has no user
  name (previous item), or no nick (`NICK` with an empty name is accepted and empties it),
  is taken from `unregisteredClients`; `tex:525-526` says what each should be.
- `get_lock_from_sock`, `_nick`, `_chan` return a mutex by value (`get.c:129-175`): each
  caller locks a copy of its own, so replies to one client may interleave. MODE by somebody
  who is no operator locks its copy a second time and waits for ever
  (`mode_handlers.c:377`). NAMES does the same when one of its last lines cannot be sent
  (`servermsg_handlers.c:467`, `542`).
- WHOIS unlocks `lock` twice (`servermsg_handlers.c:252`, `285`), and so does NOTICE to a
  nick (`msg_handlers.c:347`, `393`): sections of other threads may then overlap. Neither
  model has these unlocks. PRIVMSG to a channel unlocks `lock2` twice (`msg_handlers.c:111`,
  `125`), possibly another thread's hold: two JOINs may then be inside at once and create a
  channel twice.
- NICK relays the new nick while it holds `lock`; a send that fails there locks it again in
  `sock_is_gone` (`login_handlers.c:85-89`, `addremove.c:284`), and the server hangs, the
  acceptor included. A client that hangs up is enough, if another in its channel renames.
- A relay, PRIVMSG or NOTICE that cannot reach a client calls `sock_is_gone` for it and
  closes its descriptor, while its thread goes on (`send.c:33`, `64`, `97`;
  `msg_handlers.c:185`, `209`, `355`, `379`). That thread calls `sock_is_gone` again at its
  end, so a counter loses two for one connection; it may crash at its next command
  (`msg_handlers.c:52` takes the length of a null pointer, `login_handlers.c:37` likewise);
  and if a new client has got the descriptor, the old thread reads its commands, removes its
  entry and closes its connection.
- After such a failed send PRIVMSG and NOTICE go on with the buffers they have freed, and
  free them again (`msg_handlers.c:186-189` and `247-249`, `356-359` and `395-398`), and
  `close` reads the entry that `remove_client` has freed.
- MODE that cannot send an error, and PRIVMSG that cannot send ERR_NOSUCHNICK, close the
  client's descriptor and end its thread without removing the client
  (`mode_handlers.c:178-182`, `msg_handlers.c:255-261`): entry and count remain, and the
  entry becomes that of the next connection with this descriptor.
- NAMES without a channel in the server keeps `lock2` (`servermsg_handlers.c:409`), and so
  does LIST to a client that has gone.
- A client whose descriptor a relay has closed while its own JOIN is under way may be
  entered in the channel after it was thrown out, and stays there.
- QUIT and `sock_is_gone` take neither mutex for the channel lists (`addremove.c:290`,
  `quit_handler.c:60`): when their splice falls between the walk and the splice of a JOIN, a
  PART or another departure, the list of users loses nodes or keeps one that was taken out
  (`torn`). They never destroy a channel they empty; a channel's copy of a nick is not
  changed by NICK.
- A voice lets its holder change the topic; NOTICE to a channel is relayed to nobody; a
  message to a user who is away may, when its sender's descriptor fails, close another's.
- NAMES prefixes an operator of the channel with `@` by flags it reads after the list may
  have changed.

## 6. What is not modelled

- `chitcp`: conversions of `libchitcp` (marshalling, addresses, logging), the packet layout,
  two TCP threads that write parts of packets to one connection, DUPLICATE, the command
  line; samples and tests other than the four scripts in `Tester`, and the tests of data
  structures.
- `simclist`: lists of copied data, hashing, dump and restore to a file.
- `simple-router`: the forwarding of IP packets, ICMP and the queue of ARP requests with its
  sweeping thread, all unreachable at this commit (section 1); SHA-1 and the packet log.
- `chirc`: the wording of replies; the handlers that are not compiled.
- Everywhere: failures of `malloc` and `pthread_create`, and what a read of freed memory
  returns. Where code reaches one the models stop the actor or say in a comment that it is
  left out.

## 7. Plan

Done: every component of section 1 that is modelled at all, and a theorem for each invariant
and action property that a passing run checks. What would add most now:

1. The hazards that no property covers yet, of which `PROJECT.json` says why.
