------------------------------- MODULE Sockets -------------------------------
(***************************************************************************)
(* The socket table and the port table of chitcpd, and the threads that     *)
(* share them: the handler threads of the applications' connections         *)
(* (handlers.c, serverinfo.c), one TCP thread per active socket             *)
(* (tcp_thread.c), and the thread that hands incoming packets to sockets    *)
(* (connection.c). A TCP thread's handlers (tcp.c) are reduced to the       *)
(* states they may set: Tcp.tla has what decides between them. A packet is   *)
(* where it comes from and where it goes to.                                *)
(*                                                                         *)
(* An application names the sockets it made itself, binds one once and does *)
(* not connect a bound one (handlers.c:415 leaves the former to it), and    *)
(* any connection may wait for the state of any socket, as the tester does. *)
(* Requests that are refused change nothing and are not steps.              *)
(***************************************************************************)
EXTENDS Naturals, Sequences

CONSTANTS
  Clients,         \* the applications' connections, each with its handler thread
  Nobody,          \* no thread
  Servers,         \* those that BIND, LISTEN and ACCEPT
  Connectors,      \* those that CONNECT
  Watchers,        \* those that WAIT_FOR_STATE
  Peers,           \* addresses of sockets on other hosts
  TableSize,       \* chisocket_table_size
  PortTableSize,   \* port_table_size
  EphemeralStart,  \* ephemeral_port_start
  AnyLocal,        \* whether BIND names no local address: TRUE, FALSE or both
  Awaited,         \* the states WAIT_FOR_STATE requests name
  MaxQueue,        \* bound: packets queued at one socket
  MaxPackets       \* bound: packets that come

TcpStates == {"CLOSED", "LISTEN", "SYN_SENT", "SYN_RCVD", "ESTABLISHED", "FIN_WAIT_1",
              "FIN_WAIT_2", "CLOSE_WAIT", "CLOSING", "TIME_WAIT", "LAST_ACK"}

ASSUME SocketsAssumption ==
  /\ Nobody \notin Clients
  /\ "ANY" \notin Peers                 \* INADDR_ANY is no packet's source
  /\ Servers \subseteq Clients /\ Connectors \subseteq Clients /\ Watchers \subseteq Clients
  /\ TableSize \in Nat \ {0} /\ PortTableSize \in Nat \ {0} /\ EphemeralStart \in Nat
  /\ MaxQueue \in Nat \ {0} /\ MaxPackets \in Nat
  /\ Awaited \subseteq TcpStates /\ AnyLocal \subseteq BOOLEAN

Sockets == 0 .. TableSize - 1
NoSocket == TableSize
Ports == 0 .. PortTableSize - 1
Events == {"app_close", "app_connect", "net_recv", "cleanup"}

VARIABLES
  entry,       \* chisocket_table
  lock,        \* who has kept lock_tcp_state of each entry
  port_table,  \* the socket each port is assigned to
  thread,      \* the TCP thread of each entry
  req,         \* the request each handler thread is in
  arrived,       \* bound: how many packets have come
  carry,       \* the packet in the hands of the connection's thread
  aborted      \* the daemon has crashed

socketVars == <<entry, lock, port_table, thread, req, carry, arrived, aborted>>

\* An entry after calloc or free_socket_entry's memset. tcp_state 0 is CLOSED.
Blank == [available |-> TRUE, creator |-> Nobody, actpas |-> "NONE", tcp |-> "CLOSED",
          bound |-> FALSE, port |-> 0, any |-> FALSE, remote |-> "ANY",
          queue |-> FALSE, packets |-> 0, conns |-> <<>>, flags |-> {}]

NoThread == [at |-> "none"]
Waiting == [at |-> "wait"]
Idle == [at |-> "idle"]
NoPacket == [sock |-> NoSocket]

SocketsInit ==
  /\ entry = [i \in Sockets |-> Blank]
  /\ lock = [i \in Sockets |-> Nobody]
  /\ port_table = [p \in Ports |-> NoSocket]
  /\ thread = [i \in Sockets |-> NoThread]
  /\ req = [c \in Clients |-> Idle]
  /\ carry = NoPacket
  /\ arrived = 0
  /\ aborted = FALSE

Goto(c, r) == req' = [req EXCEPT ![c] = r]
Mine(c) == {i \in Sockets : ~entry[i].available /\ entry[i].creator = c}
Least(S) == CHOOSE n \in S : \A m \in S : n <= m

\* pthread_cond_signal(&entry->cv_tcp_state), the handler threads being as in r:
\* one sleeper wakes, if there is one.
Sleepers(i) == {c \in Clients : req[c].at = "sleep" /\ req[c].sock = i}
Signalled(i, r) ==
  IF Sleepers(i) = {} THEN {r} ELSE {[r EXCEPT ![c].at = "woken"] : c \in Sleepers(i)}

\* chitcpd_update_tcp_state, as far as lock_tcp_state is held.
update_tcp_state(i, s, r) ==
  /\ lock[i] = Nobody
  /\ entry' = [entry EXCEPT ![i].tcp = s]
  /\ req' \in Signalled(i, r)

\* chitcpd_free_socket_entry. The port of an address that was never set reads as -1,
\* which is the last port. Mutant: the port stays taken.
FreeKeepsPort(i) ==
  /\ entry' = [entry EXCEPT ![i] = Blank]
  /\ lock' = [lock EXCEPT ![i] = Nobody]
  /\ UNCHANGED port_table
free_socket_entry(i) ==
  /\ port_table' = [port_table EXCEPT
        ![IF entry[i].bound THEN entry[i].port ELSE PortTableSize - 1] = NoSocket]
  /\ entry' = [entry EXCEPT ![i] = Blank]
  /\ lock' = [lock EXCEPT ![i] = Nobody]

-----------------------------------------------------------------------------
(* SOCKET, BIND, LISTEN *)

\* The entries chitcpd_allocate_socket takes the first one of, under lock_chisocket_table;
\* it is filled in afterwards. Mutant: those nobody has signed for yet.
Unsigned == {i \in Sockets : entry[i].creator = Nobody}
Free == {i \in Sockets : entry[i].available}

Initialized(i, c) == [entry[i] EXCEPT !.creator = c, !.actpas = "UNINITIALIZED", !.tcp = "CLOSED"]

Socket(c) ==
  /\ req[c].at = "idle"
  /\ Free # {}
  /\ entry' = [entry EXCEPT ![Least(Free)].available = FALSE]
  /\ Goto(c, [at |-> "socket", sock |-> Least(Free)])
  /\ UNCHANGED <<lock, port_table, thread, carry, arrived, aborted>>

SocketReturn(c) ==
  /\ req[c].at = "socket"
  /\ entry' = [entry EXCEPT ![req[c].sock] = Initialized(req[c].sock, c)]
  /\ Goto(c, Idle)
  /\ UNCHANGED <<lock, port_table, thread, carry, arrived, aborted>>

\* The port is found free, and taken later.
Bind(c, i, p, any) ==
  /\ c \in Servers /\ req[c].at = "idle"
  /\ i \in Mine(c) /\ entry[i].tcp = "CLOSED" /\ ~entry[i].bound
  /\ port_table[p] = NoSocket
  /\ Goto(c, [at |-> "bind", sock |-> i, port |-> p, any |-> any])
  /\ UNCHANGED <<entry, lock, port_table, thread, carry, arrived, aborted>>

BindSet(c) ==
  /\ req[c].at = "bind"
  /\ entry' = [entry EXCEPT ![req[c].sock].bound = TRUE, ![req[c].sock].port = req[c].port,
                            ![req[c].sock].any = req[c].any]
  /\ port_table' = [port_table EXCEPT ![req[c].port] = req[c].sock]
  /\ Goto(c, Idle)
  /\ UNCHANGED <<lock, thread, carry, arrived, aborted>>

\* The socket is passive, and can be found by packets, before its queue exists.
Listen(c, i) ==
  /\ c \in Servers /\ req[c].at = "idle"
  /\ i \in Mine(c) /\ entry[i].tcp = "CLOSED"
  /\ entry' = [entry EXCEPT ![i].actpas = "PASSIVE", ![i].tcp = "LISTEN"]
  /\ Goto(c, [at |-> "listen", sock |-> i])
  /\ UNCHANGED <<lock, port_table, thread, carry, arrived, aborted>>

ListenInit(c) ==
  /\ req[c].at = "listen"
  /\ entry' = [entry EXCEPT ![req[c].sock].queue = TRUE]
  /\ Goto(c, Idle)
  /\ UNCHANGED <<lock, port_table, thread, carry, arrived, aborted>>

-----------------------------------------------------------------------------
(* ACCEPT *)

Accept(c, i) ==
  /\ req[c].at = "idle"
  /\ i \in Mine(c) /\ entry[i].actpas = "PASSIVE" /\ entry[i].tcp = "LISTEN"
  /\ Goto(c, [at |-> "accept", listener |-> i, sock |-> NoSocket])
  /\ UNCHANGED <<entry, lock, port_table, thread, carry, arrived, aborted>>

\* A pending connection is fetched and an entry allocated for it; when there is none
\* (ENOMEM) the pending connection is lost.
AcceptAllocate(c) ==
  /\ req[c].at = "accept"
  /\ LET l == req[c].listener
         from == Head(entry[l].conns)
     IN /\ entry[l].conns # <<>>
        /\ IF Free = {}
             THEN /\ entry' = [entry EXCEPT ![l].conns = Tail(@)]
                  /\ Goto(c, Idle)
             ELSE /\ entry' = [entry EXCEPT ![l].conns = Tail(@), ![Least(Free)].available = FALSE]
                  /\ Goto(c, [at |-> "address", listener |-> l, sock |-> Least(Free), peer |-> from])
  /\ UNCHANGED <<lock, port_table, thread, carry, arrived, aborted>>

\* The new socket gets the addresses of the packet, the local one being the
\* listener's port on the interface the packet came in by.
AcceptAddress(c) ==
  /\ req[c].at = "address"
  /\ LET i == req[c].sock
     IN entry' = [entry EXCEPT ![i] =
          [Initialized(i, c) EXCEPT !.actpas = "ACTIVE", !.bound = TRUE,
             !.port = entry[req[c].listener].port, !.remote = req[c].peer, !.queue = TRUE]]
  /\ req' = [req EXCEPT ![c].at = "start"]
  /\ UNCHANGED <<lock, port_table, thread, carry, arrived, aborted>>

AcceptStart(c) ==
  /\ req[c].at = "start"
  /\ entry' = [entry EXCEPT ![req[c].sock].tcp = "LISTEN", ![req[c].sock].packets = @ + 1]
  /\ thread' = [thread EXCEPT ![req[c].sock] = Waiting]
  /\ req' = [req EXCEPT ![c].at = "raise"]
  /\ UNCHANGED <<lock, port_table, carry, arrived, aborted>>

\* The wait of ACCEPT, CONNECT, CLOSE and WAIT_FOR_STATE: the request sleeps on
\* cv_tcp_state until it finds the state it wants. Nothing runs in between when it
\* wants what it finds.
Await(c, i, op, wanted) ==
  Goto(c, IF entry[i].tcp \in wanted THEN Idle
                                     ELSE [at |-> "sleep", sock |-> i, op |-> op, wanted |-> wanted])

AcceptRaise(c) ==
  /\ req[c].at = "raise"
  /\ lock[req[c].sock] = Nobody
  /\ entry' = [entry EXCEPT ![req[c].sock].flags = @ \cup {"net_recv"}]
  /\ Await(c, req[c].sock, "ACCEPT", {"ESTABLISHED"})
  /\ UNCHANGED <<lock, port_table, thread, carry, arrived, aborted>>

\* A thread that was woken looks at the state again, with the lock.
Woken(c) ==
  /\ req[c].at = "woken"
  /\ lock[req[c].sock] = Nobody
  /\ Await(c, req[c].sock, req[c].op, req[c].wanted)
  /\ UNCHANGED <<entry, lock, port_table, thread, carry, arrived, aborted>>

-----------------------------------------------------------------------------
(* CONNECT *)

\* chitcpd_find_ephemeral_port. When no port is free it returns -1 as a uint16_t, which
\* CONNECT does not tell from the last port.
\* Mutant: one past it.
PortPastTheEnd ==
  LET free == {p \in Ports : p >= EphemeralStart /\ port_table[p] = NoSocket}
  IN IF free = {} THEN PortTableSize ELSE Least(free)
find_ephemeral_port ==
  LET free == {p \in Ports : p >= EphemeralStart /\ port_table[p] = NoSocket}
  IN IF free = {} THEN PortTableSize - 1 ELSE Least(free)

Connect(c, i, r) ==
  /\ c \in Connectors /\ req[c].at = "idle"
  /\ i \in Mine(c) /\ entry[i].tcp = "CLOSED" /\ ~entry[i].bound
  /\ Goto(c, [at |-> "connect", sock |-> i, port |-> find_ephemeral_port, peer |-> r])
  /\ UNCHANGED <<entry, lock, port_table, thread, carry, arrived, aborted>>

ConnectAddress(c) ==
  /\ req[c].at = "connect"
  /\ LET i == req[c].sock
     IN /\ entry' = [entry EXCEPT ![i].actpas = "ACTIVE", ![i].bound = TRUE, ![i].any = TRUE,
                        ![i].port = req[c].port, ![i].remote = req[c].peer, ![i].queue = TRUE]
        /\ port_table' = [port_table EXCEPT ![req[c].port] = i]
  /\ req' = [req EXCEPT ![c].at = "connectStart"]
  /\ UNCHANGED <<lock, thread, carry, arrived, aborted>>

ConnectStart(c) ==
  /\ req[c].at = "connectStart"
  /\ lock[req[c].sock] = Nobody
  /\ thread' = [thread EXCEPT ![req[c].sock] = Waiting]
  /\ entry' = [entry EXCEPT ![req[c].sock].flags = @ \cup {"app_connect"}]
  /\ Await(c, req[c].sock, "CONNECT", {"ESTABLISHED"})
  /\ UNCHANGED <<lock, port_table, carry, arrived, aborted>>

-----------------------------------------------------------------------------
(* CLOSE and WAIT_FOR_STATE *)

\* The state is looked at without lock_tcp_state: a listening socket will be freed, an
\* active one closed by its TCP thread; in any other state CLOSE is refused.
\* Mutant: a socket that is closing already is not refused.
CloseAgain(c, i) ==
  /\ req[c].at = "idle"
  /\ i \in Mine(c)
  /\ \/ /\ entry[i].tcp = "LISTEN" /\ entry[i].actpas = "PASSIVE"
        /\ Goto(c, [at |-> "free", sock |-> i])
     \/ /\ entry[i].tcp \notin {"CLOSED", "LISTEN", "SYN_SENT", "SYN_RCVD"}
        /\ Goto(c, [at |-> "close", sock |-> i])
  /\ UNCHANGED <<entry, lock, port_table, thread, carry, arrived, aborted>>
Close(c, i) ==
  /\ req[c].at = "idle"
  /\ i \in Mine(c)
  /\ \/ /\ entry[i].tcp = "LISTEN" /\ entry[i].actpas = "PASSIVE"
        /\ Goto(c, [at |-> "free", sock |-> i])
     \/ /\ entry[i].tcp \in {"ESTABLISHED", "CLOSE_WAIT"}
        /\ Goto(c, [at |-> "close", sock |-> i])
  /\ UNCHANGED <<entry, lock, port_table, thread, carry, arrived, aborted>>

CloseFree(c) ==
  /\ req[c].at = "free"
  /\ free_socket_entry(req[c].sock)
  /\ Goto(c, Idle)
  /\ UNCHANGED <<thread, carry, arrived, aborted>>

ClosedStates(s) ==
  IF s = "ESTABLISHED" THEN {"FIN_WAIT_2", "CLOSING", "TIME_WAIT"} ELSE {"LAST_ACK"}

\* app_close is raised with the lock, and the state looked at once more. When it is
\* none of the two any more the request returns an error and keeps the lock.
CloseRaise(c) ==
  /\ req[c].at = "close"
  /\ LET i == req[c].sock
     IN /\ lock[i] = Nobody
        /\ entry' = [entry EXCEPT ![i].flags = @ \cup {"app_close"}]
        /\ IF entry[i].tcp \in {"ESTABLISHED", "CLOSE_WAIT"}
             THEN Await(c, i, "CLOSE", ClosedStates(entry[i].tcp)) /\ UNCHANGED lock
             ELSE Goto(c, Idle) /\ lock' = [lock EXCEPT ![i] = c]
  /\ UNCHANGED <<port_table, thread, carry, arrived, aborted>>

\* Whoever the socket belongs to.
WaitForState(c, i, s) ==
  /\ c \in Watchers /\ req[c].at = "idle"
  /\ ~entry[i].available /\ entry[i].actpas = "ACTIVE"
  /\ Goto(c, [at |-> "watch", sock |-> i, wanted |-> {s}])
  /\ UNCHANGED <<entry, lock, port_table, thread, carry, arrived, aborted>>

WaitLock(c) ==
  /\ req[c].at = "watch"
  /\ lock[req[c].sock] = Nobody
  /\ Await(c, req[c].sock, "WAIT_FOR_STATE", req[c].wanted)
  /\ UNCHANGED <<entry, lock, port_table, thread, carry, arrived, aborted>>

-----------------------------------------------------------------------------
(* The end of a connection: chitcpd_handler_dispatch's loop over the table *)

Disconnect(c) ==
  /\ req[c].at = "idle"
  /\ Goto(c, [at |-> "sweep", sock |-> 0])
  /\ UNCHANGED <<entry, lock, port_table, thread, carry, arrived, aborted>>

NextEntry(c) == [at |-> "sweep", sock |-> req[c].sock + 1]

\* An active socket is closed, for its TCP thread to clean up; a passive one is freed; one
\* that was only created is left as it is. Mutant: all are freed here.
FreeAll(c, i) == free_socket_entry(i) /\ Goto(c, NextEntry(c))
Release(c, i) ==
  \/ /\ entry[i].actpas = "ACTIVE"
     /\ update_tcp_state(i, "CLOSED", [req EXCEPT ![c].at = "sweepFlag"])
     /\ UNCHANGED <<lock, port_table>>
  \/ /\ entry[i].actpas = "PASSIVE"
     /\ free_socket_entry(i)
     /\ Goto(c, NextEntry(c))
  \/ /\ entry[i].actpas \notin {"ACTIVE", "PASSIVE"}
     /\ Goto(c, NextEntry(c))
     /\ UNCHANGED <<entry, lock, port_table>>

Sweep(c) ==
  /\ req[c].at = "sweep"
  /\ req[c].sock # NoSocket
  /\ LET i == req[c].sock
     IN IF i \in Mine(c) THEN Release(c, i)
        ELSE Goto(c, NextEntry(c)) /\ UNCHANGED <<entry, lock, port_table>>
  /\ UNCHANGED <<thread, carry, arrived, aborted>>

\* update_tcp_state goes on without lock_tcp_state, and looks at the entry as it is now.
SweepFlag(c) ==
  /\ req[c].at = "sweepFlag"
  /\ entry' = [entry EXCEPT ![req[c].sock].flags =
        IF entry[req[c].sock].actpas = "ACTIVE" THEN @ \cup {"cleanup"} ELSE @]
  /\ Goto(c, NextEntry(c))
  /\ UNCHANGED <<lock, port_table, thread, carry, arrived, aborted>>

-----------------------------------------------------------------------------
(* The TCP threads *)

Urgency == <<"app_close", "app_connect", "net_recv", "cleanup">>
MostUrgent(i) == Urgency[Least({n \in 1 .. Len(Urgency) : Urgency[n] \in entry[i].flags})]

Pending(i, f) == thread[i].at = "wait" /\ entry[i].flags # {} /\ MostUrgent(i) = f

\* The states an application's event leads to, one after the other, in the handler
\* of state s.
Causes(f, s) ==
  CASE f = "app_connect" /\ s = "CLOSED" -> <<"SYN_SENT">>
    [] f = "app_close" /\ s = "ESTABLISHED" -> <<"FIN_WAIT_1">>
    [] f = "app_close" /\ s = "CLOSE_WAIT" -> <<"LAST_ACK">>
    [] OTHER -> <<>>

\* The states one packet may lead to in the handler of state s.
Arrives(s) ==
  CASE s = "LISTEN" -> {<<>>, <<"SYN_RCVD">>}
    [] s = "SYN_SENT" -> {<<>>, <<"SYN_RCVD">>, <<"ESTABLISHED">>}
    [] s = "SYN_RCVD" -> {<<>>, <<"ESTABLISHED">>}
    [] s = "ESTABLISHED" -> {<<>>, <<"CLOSE_WAIT">>}
    [] s = "FIN_WAIT_1" -> {<<>>, <<"FIN_WAIT_2">>, <<"CLOSING">>, <<"FIN_WAIT_2", "CLOSING">>}
    [] s \in {"FIN_WAIT_2", "CLOSING"} -> {<<>>, <<"TIME_WAIT">>}
    [] s = "LAST_ACK" -> {<<>>, <<"CLOSED">>}
    [] OTHER -> {<<>>}

\* CLOSED and TIME_WAIT leave packets alone; three handlers take one packet, the
\* others go on while there are any.
Deaf == {"CLOSED", "TIME_WAIT"}
OnePacket == {"LISTEN", "SYN_SENT", "SYN_RCVD"}

Dispatch(i, f) ==
  /\ Pending(i, f) /\ f # "cleanup"
  /\ entry' = [entry EXCEPT ![i].flags = @ \ {f}]
  /\ LET s == entry[i].tcp
     IN thread' = [thread EXCEPT ![i] =
          IF f # "net_recv"
            THEN IF Causes(f, s) = <<>> THEN Waiting
                                        ELSE [at |-> "set", states |-> Causes(f, s), then |-> Waiting]
          ELSE IF s \in Deaf THEN [at |-> "after"]
          ELSE [at |-> "arrival", handler |-> s]]
  /\ UNCHANGED <<lock, port_table, req, carry, arrived, aborted>>

TakePacket(i) ==
  /\ thread[i].at = "arrival"
  /\ entry[i].packets > 0
  /\ entry' = [entry EXCEPT ![i].packets = @ - 1]
  /\ LET h == thread[i].handler
         after == IF h \in OnePacket THEN [at |-> "after"] ELSE thread[i]
     IN \E states \in Arrives(h) : thread' = [thread EXCEPT ![i] =
          IF states = <<>> THEN after ELSE [at |-> "set", states |-> states, then |-> after]]
  /\ UNCHANGED <<lock, port_table, req, carry, arrived, aborted>>

\* No packet is left, the receive buffer is full, or the packet was outside the window.
EndArrival(i) ==
  /\ thread[i].at = "arrival"
  /\ thread[i].handler \in OnePacket => entry[i].packets = 0
  /\ thread' = [thread EXCEPT ![i] = [at |-> "after"]]
  /\ UNCHANGED <<entry, lock, port_table, req, carry, arrived, aborted>>

\* The state is set whatever it has become since the handler was chosen.
Set(i) ==
  /\ thread[i].at = "set"
  /\ Head(thread[i].states) # "CLOSED"
  /\ update_tcp_state(i, Head(thread[i].states), req)
  /\ LET th == thread[i]
     IN thread' = [thread EXCEPT ![i] =
          IF Len(th.states) = 1 THEN th.then
          ELSE [at |-> "set", states |-> Tail(th.states), then |-> th.then]]
  /\ UNCHANGED <<lock, port_table, carry, arrived, aborted>>

\* LAST_ACK frees tcp_data, which lies inside the entry, before it goes to CLOSED. What the
\* allocator takes for the size of the block is event_flags: without a debugger it is 0, and
\* free aborts. (Tcp.tla has the other outcome too.)
LastAcked(i) ==
  /\ thread[i].at = "set"
  /\ Head(thread[i].states) = "CLOSED"
  /\ aborted' = TRUE
  /\ UNCHANGED <<entry, lock, port_table, thread, req, carry, arrived>>

\* net_recv is raised again as long as packets are left, whatever the state.
AfterArrival(i) ==
  /\ thread[i].at = "after"
  /\ entry' = [entry EXCEPT ![i].flags = IF entry[i].packets = 0 THEN @ ELSE @ \cup {"net_recv"}]
  /\ thread' = [thread EXCEPT ![i] = Waiting]
  /\ UNCHANGED <<lock, port_table, req, carry, arrived, aborted>>

\* The least urgent event. The CLEANUP handler of CLOSED frees the entry and ends the
\* thread; in any other state the assertion before it ends the daemon.
Cleanup(i) ==
  /\ Pending(i, "cleanup")
  /\ IF entry[i].tcp = "CLOSED"
       THEN /\ free_socket_entry(i)
            /\ thread' = [thread EXCEPT ![i] = NoThread]
            /\ UNCHANGED aborted
       ELSE aborted' = TRUE /\ UNCHANGED <<entry, lock, port_table, thread>>
  /\ UNCHANGED <<req, carry, arrived>>

-----------------------------------------------------------------------------
(* Packets from other hosts: chitcpd_recv_tcp_packet *)

\* chitcpd_lookup_socket: among the sockets whose addresses match those of the packet,
\* the first of those with the fewest wildcards.
Matches(i, p, r) ==
  /\ ~entry[i].available /\ entry[i].bound /\ entry[i].port = p
  /\ entry[i].remote \in {r, "ANY"}
Wildcards(i) == (IF entry[i].any THEN 1 ELSE 0) + (IF entry[i].remote = "ANY" THEN 1 ELSE 0)
\* Mutant: the first match.
FirstMatch(p, r) ==
  LET found == {i \in Sockets : Matches(i, p, r)}
  IN IF found = {} THEN NoSocket ELSE Least(found)
lookup_socket(p, r) ==
  LET found == {i \in Sockets : Matches(i, p, r)}
      best == {i \in found : \A j \in found : Wildcards(i) <= Wildcards(j)}
  IN IF found = {} THEN NoSocket ELSE Least(best)

\* A packet for a socket that is only bound is dropped, like one for nobody.
ReceivePacket(p, r) ==
  /\ carry = NoPacket
  /\ LET i == lookup_socket(p, r)
     IN /\ i # NoSocket
        /\ entry[i].actpas \in {"ACTIVE", "PASSIVE"}
        /\ entry[i].packets < MaxQueue /\ Len(entry[i].conns) < MaxQueue
        /\ carry' = [sock |-> i, kind |-> entry[i].actpas, peer |-> r]
  /\ arrived < MaxPackets /\ arrived' = arrived + 1
  /\ UNCHANGED <<entry, lock, port_table, thread, req, aborted>>

\* The packet joins the queue of the socket it was found to be for. When that has been
\* freed since, or its queue not been made yet, the list is all zeros: the packet is lost,
\* or the daemon follows a null pointer.
Deliver ==
  /\ carry # NoPacket
  /\ carry' = NoPacket
  /\ LET i == carry.sock
     IN IF entry[i].actpas # carry.kind \/ ~entry[i].queue
          THEN aborted' \in BOOLEAN /\ UNCHANGED entry
          ELSE /\ entry' = IF carry.kind = "PASSIVE"
                    THEN [entry EXCEPT ![i].conns = Append(@, carry.peer)]
                    ELSE [entry EXCEPT ![i].packets = @ + 1, ![i].flags = @ \cup {"net_recv"}]
               /\ UNCHANGED aborted
  /\ UNCHANGED <<lock, port_table, thread, req, arrived>>

-----------------------------------------------------------------------------

Request(c) ==
  \/ Socket(c) \/ SocketReturn(c) \/ BindSet(c) \/ ListenInit(c)
  \/ \E i \in Sockets :
       \/ \E p \in Ports, any \in AnyLocal : Bind(c, i, p, any)
       \/ Listen(c, i) \/ Accept(c, i) \/ Close(c, i)
       \/ \E r \in Peers : Connect(c, i, r)
       \/ \E s \in Awaited : WaitForState(c, i, s)
  \/ AcceptAllocate(c) \/ AcceptAddress(c) \/ AcceptStart(c) \/ AcceptRaise(c)
  \/ ConnectAddress(c) \/ ConnectStart(c) \/ CloseFree(c) \/ CloseRaise(c)
  \/ WaitLock(c) \/ Woken(c) \/ Disconnect(c) \/ Sweep(c) \/ SweepFlag(c)

TcpThread(i) ==
  \/ \E f \in Events : Dispatch(i, f)
  \/ TakePacket(i) \/ EndArrival(i) \/ Set(i) \/ LastAcked(i) \/ AfterArrival(i) \/ Cleanup(i)

SocketsNext ==
  /\ ~aborted
  /\ \/ \E c \in Clients : Request(c)
     \/ \E i \in Sockets : TcpThread(i)
     \/ \E p \in Ports, r \in Peers : ReceivePacket(p, r)
     \/ Deliver

SocketsSpec == SocketsInit /\ [][SocketsNext]_socketVars

-----------------------------------------------------------------------------

\* The tables, threads and requests keep their types; the lock has one owner at most.
SocketsTypeOK ==
  /\ entry \in [Sockets -> [available : BOOLEAN, creator : Clients \cup {Nobody},
        actpas : {"NONE", "UNINITIALIZED", "ACTIVE", "PASSIVE"}, tcp : TcpStates,
        bound : BOOLEAN, port : Ports, any : BOOLEAN, remote : Peers \cup {"ANY"},
        queue : BOOLEAN, packets : Nat, conns : Seq(Peers), flags : SUBSET Events]]
  /\ lock \in [Sockets -> Clients \cup {Nobody}]
  /\ port_table \in [Ports -> Sockets \cup {NoSocket}]
  /\ \A i \in Sockets : thread[i].at \in {"none", "wait", "set", "arrival", "after"}
  /\ \A c \in Clients : req[c].at \in {"idle", "socket", "bind", "listen", "accept", "address",
        "start", "raise", "sleep", "woken", "connect", "connectStart", "free", "close", "watch",
        "sweep", "sweepFlag"}
  /\ aborted \in BOOLEAN

\* A request works on a socket that is still its own: from allocate_socket to the answer no
\* other thread is given the entry, and none frees it. (WAIT_FOR_STATE asks about any
\* socket, and CLOSE waits for a state its socket may pass through on its way out.)
SlotsAreNotStolen ==
  \A c \in Clients :
    /\ req[c].at \in {"bind", "listen", "start", "raise", "connect", "connectStart", "free", "close"}
         => req[c].sock \in Mine(c)
    /\ req[c].at \in {"sleep", "woken"} /\ req[c].op \in {"ACCEPT", "CONNECT"}
         => req[c].sock \in Mine(c) /\ entry[req[c].sock].actpas = "ACTIVE"
    /\ req[c].at \in {"socket", "address"} =>
         /\ entry[req[c].sock] = [Blank EXCEPT !.available = FALSE]
         /\ \A d \in Clients \ {c} : req[d].at \in {"socket", "address"} => req[d].sock # req[c].sock

\* An active socket past its creation has its TCP thread, and a TCP thread its socket: no
\* thread is left running on an entry that was freed or given to somebody else.
ThreadServesItsSocket ==
  \A i \in Sockets :
    /\ thread[i].at # "none" => ~entry[i].available /\ entry[i].actpas = "ACTIVE"
    /\ entry[i].actpas = "ACTIVE" /\ thread[i].at = "none" =>
         \E c \in Clients : req[c].at \in {"start", "connectStart"} /\ req[c].sock = i

\* A port that is taken belongs to a live socket with that port: BIND is never refused
\* because of a socket that is gone.
PortsPointAtTheirSockets ==
  \A p \in Ports : port_table[p] # NoSocket =>
    LET e == entry[port_table[p]] IN ~e.available /\ e.bound /\ e.port = p

\* A packet from a peer whose connection to this port was accepted never goes to the
\* listening socket of the port, where it would be taken for a new connection.
ListenersGetStrangersOnly ==
  [][carry = NoPacket /\ carry' # NoPacket /\ carry'.kind = "PASSIVE" =>
       ~\E i \in Sockets : /\ entry[i].actpas = "ACTIVE" /\ ~entry[i].any
                           /\ entry[i].remote = carry'.peer
                           /\ entry[i].port = entry[carry'.sock].port]_socketVars

\* No request returns with lock_tcp_state of a socket locked.
NoLockLeftBehind == \A i \in Sockets : lock[i] = Nobody

=============================================================================
