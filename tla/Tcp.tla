-------------------------------- MODULE Tcp --------------------------------
(***************************************************************************)
(* Two chiTCP sockets joined by a network: chitcpd's TCP threads           *)
(* (tcp_thread.c), the state machine they run (tcp.c), the network threads *)
(* that queue their packets (connection.c) and the SEND, RECV and CLOSE    *)
(* requests of their applications (handlers.c).                            *)
(*                                                                         *)
(* A TCP thread takes one event flag at a time and runs the handler of its *)
(* state. A handler holds no lock while it runs, so whatever another       *)
(* thread can see between two of its steps is an action of its own: one    *)
(* packet of a PACKET_ARRIVAL loop, one segment of send_all, a blocking    *)
(* write into the receive buffer, the two halves of receiving a FIN.       *)
(*                                                                         *)
(* The buffers are the bounded byte streams of module ByteStream, which    *)
(* CircularBuffer implements. The n-th byte an application sends is the    *)
(* number n.                                                               *)
(***************************************************************************)
EXTENDS Integers, Sequences, SequencesExt

CONSTANTS
  Client, Server,  \* the endpoints: Client connects, Server has been accepted
  BufSize,         \* TCP_BUFFER_SIZE
  MSS,             \* TCP_MSS
  Word,            \* 2^32: RCV_WND and RCV_NXT + RCV_WND are uint32_t
  WinMod,          \* 2^16: the window field of a header is a uint16_t
  ISNs,            \* initial sequence numbers, rand() % 1000 + 1
  Others,          \* {} when both ends are chiTCP. An endpoint in it stands for
                   \* another TCP at the far end: its FIN carries the ACK bit,
                   \* and it goes on receiving after its FIN
  Monitored,       \* endpoints whose socket a debugger monitors
  Responses,       \* what it may answer at DBG_EVT_INCOMING_PACKET
  Senders,         \* endpoints whose application sends
  Receivers,       \* endpoints whose application receives
  SendSizes,       \* lengths of a SEND
  RecvSizes,       \* lengths of a RECV
  MaxBytes,        \* bound: bytes an application sends in all
  MaxTaken,        \* bound: an application that has received so many calls RECV no more
  SendStates,      \* states in which the applications use SEND
  Closers          \* endpoints whose application closes its socket

Endpoints == {Client, Server}
Peer(e) == IF e = Client THEN Server ELSE Client

States == {"CLOSED", "LISTEN", "SYN_RCVD", "SYN_SENT", "ESTABLISHED", "FIN_WAIT_1",
           "FIN_WAIT_2", "CLOSE_WAIT", "CLOSING", "TIME_WAIT", "LAST_ACK"}
ReceivingStates == {"ESTABLISHED", "FIN_WAIT_1", "FIN_WAIT_2"}
ArrivalStates == ReceivingStates \cup {"CLOSE_WAIT", "CLOSING", "LAST_ACK"}

\* The event flags, most urgent first.
Flags == <<"app_close", "app_connect", "app_recv", "app_send", "net_recv", "cleanup">>
FlagSet == {Flags[i] : i \in 1 .. Len(Flags)}

ASSUME EndpointAssumption == Client # Server
ASSUME SizeAssumption ==
  /\ BufSize \in Nat \ {0} /\ MSS \in 1 .. BufSize
  /\ BufSize < WinMod /\ WinMod \in Nat /\ WinMod <= Word /\ Word \in Nat
  /\ MaxTaken \in Nat /\ MaxBytes \in Nat /\ \A i \in ISNs : i \in Nat /\ i + 1 + MaxBytes + BufSize < Word
  /\ SendSizes \subseteq Nat \ {0} /\ RecvSizes \subseteq Nat \ {0}
ASSUME ChoiceAssumption ==
  /\ Others \subseteq Endpoints /\ Closers \subseteq Endpoints /\ Senders \subseteq Endpoints
  /\ Receivers \subseteq Endpoints
  /\ SendStates \subseteq {"SYN_SENT", "SYN_RCVD", "ESTABLISHED", "CLOSE_WAIT"}
  /\ Monitored \subseteq Endpoints
  /\ Responses \subseteq {"NONE", "DROP", "WITHHOLD", "DRAW_WITHHELD"}

VARIABLES
  tcp_state,  \* entry->tcp_state
  tcb,        \* the send and receive sequence variables of tcp_data_t
  send,       \* the send buffer: bytes accepted and not yet sent
  recv,       \* the receive buffer: bytes received and not yet read
  shut,       \* which buffers have been closed
  pending,    \* pending_packets
  withheld,   \* withheld_packets
  flags,      \* the event flags that are raised
  thread,     \* where the TCP thread is
  net,        \* packets on their way to each endpoint, in order
  raising,    \* the network thread has queued a packet, not yet raised net_recv
  writer,     \* the SEND request in progress
  reader,     \* the RECV request in progress
  closer,     \* the CLOSE request in progress
  sent,       \* ghost: bytes the application has put in the send buffer
  taken,      \* ghost: bytes the application has taken from the receive buffer
  overran,    \* ghost: a segment has gone out that the peer's window had no room for
  crashed     \* endpoints whose daemon has aborted

tcpVars == <<tcp_state, tcb, send, recv, shut>>
queues == <<pending, withheld, net, raising>>
requests == <<writer, reader, closer, sent, taken, overran>>
live == <<tcpVars, queues, flags, thread, requests>>
vars == <<live, crashed>>

MIN(a, b) == IF a < b THEN a ELSE b

Idle == [pc |-> "wait"]
NoRequest == [pc |-> "none", left |-> 0]

Packet(s, f, a, sq, an, wd, bytes) ==
  [syn |-> s, fin |-> f, ack |-> a, seq |-> sq, ack_seq |-> an, win |-> wd % WinMod, data |-> bytes]

\* send_ACK, of a control block as it is at that moment.
ACK(t) == Packet(FALSE, FALSE, TRUE, t.SND_NXT, t.RCV_NXT, t.RCV_WND, <<>>)
SYN(t) == Packet(TRUE, FALSE, FALSE, t.ISS, t.ISS + 1, t.RCV_WND, <<>>)
SYN_ACK(t) == Packet(TRUE, FALSE, TRUE, t.ISS, t.RCV_NXT, t.RCV_WND, <<>>)
FIN(e, t) == Packet(FALSE, TRUE, e \in Others, t.SND_NXT, t.RCV_NXT, t.RCV_WND, <<>>)
Segment(t, bytes) == Packet(FALSE, FALSE, TRUE, t.SND_NXT, t.RCV_NXT, t.RCV_WND, bytes)

SEG_LEN(p) == Len(p.data) + (IF p.syn THEN 1 ELSE 0) + (IF p.fin THEN 1 ELSE 0)

\* chitcpd_send_tcp_packet. A debugger may drop the packet here too, which is the
\* same as dropping it where it arrives (Enqueue).
Transmit(e, p) == net' = [net EXCEPT ![Peer(e)] = Append(@, p)]

\* circular_buffer_available. Mutant: one byte too many.
RoomPlusOne(e) == BufSize - Len(recv[e]) + 1
Room(e) == BufSize - Len(recv[e])

acceptability_test(e, p) ==
  LET t == tcb[e]
      InWindow(s) == t.RCV_NXT <= s /\ s < (t.RCV_NXT + t.RCV_WND) % Word
  IN IF SEG_LEN(p) = 0
       THEN IF t.RCV_WND = 0 THEN p.seq = t.RCV_NXT ELSE InWindow(p.seq)
       ELSE t.RCV_WND > 0 /\ (InWindow(p.seq) \/ InWindow(p.seq + SEG_LEN(p) - 1))

inside_window(t, p) == t.SND_UNA < p.ack_seq /\ p.ack_seq <= t.SND_NXT

update_WND_and_UNA(t, p) == [t EXCEPT !.SND_UNA = p.ack_seq, !.SND_WND = p.win]

-----------------------------------------------------------------------------

\* The client's CONNECT request has just started its TCP thread; the server's
\* ACCEPT will start one with the packet that opens the connection.
Init ==
  /\ tcp_state = [e \in Endpoints |-> IF e = Client THEN "CLOSED" ELSE "LISTEN"]
  /\ tcb = [e \in Endpoints |->
              [ISS |-> 0, SND_UNA |-> 0, SND_NXT |-> 0, SND_WND |-> 0, RCV_NXT |-> 0, RCV_WND |-> 0]]
  /\ send = [e \in Endpoints |-> <<>>]
  /\ recv = [e \in Endpoints |-> <<>>]
  /\ shut = [e \in Endpoints |-> {}]
  /\ pending = [e \in Endpoints |-> <<>>]
  /\ withheld = [e \in Endpoints |-> <<>>]
  /\ flags = [e \in Endpoints |-> IF e = Client THEN {"app_connect"} ELSE {}]
  /\ thread = [e \in Endpoints |-> Idle]
  /\ net = [e \in Endpoints |-> <<>>]
  /\ raising = [e \in Endpoints |-> FALSE]
  /\ writer = [e \in Endpoints |-> NoRequest]
  /\ reader = [e \in Endpoints |-> NoRequest]
  /\ closer = [e \in Endpoints |-> "none"]
  /\ sent = [e \in Endpoints |-> 0]
  /\ taken = [e \in Endpoints |-> 0]
  /\ overran = [e \in Endpoints |-> FALSE]
  /\ crashed = {}

\* The event loop takes the most urgent flag and clears it.
Take(e, f) ==
  /\ thread[e].pc = "wait"
  /\ \E i \in 1 .. Len(Flags) :
       /\ Flags[i] = f
       /\ f \in flags[e]
       /\ \A h \in 1 .. (i - 1) : Flags[h] \notin flags[e]
  /\ flags' = [flags EXCEPT ![e] = @ \ {f}]

\* After PACKET_ARRIVAL, net_recv is raised again if packets are left.
\* Mutants: it is not; it is whatever the queue holds.
NotAgain(e) == UNCHANGED flags
AlwaysAgain(e) == flags' = [flags EXCEPT ![e] = @ \cup {"net_recv"}]
RaiseAgain(e) ==
  flags' = [flags EXCEPT ![e] = IF pending[e] = <<>> THEN @ ELSE @ \cup {"net_recv"}]

AfterArrival(e) ==
  /\ thread[e].pc = "after"
  /\ RaiseAgain(e)
  /\ thread' = [thread EXCEPT ![e] = Idle]
  /\ UNCHANGED <<tcpVars, queues, requests>>

Goto(e, label) == thread' = [thread EXCEPT ![e] = [pc |-> label]]
SetState(e, s) == tcp_state' = [tcp_state EXCEPT ![e] = s]
Fetch(e) == pending' = [pending EXCEPT ![e] = Tail(@)]

\* Events that a handler only warns about.
Handled(s, f) ==
  CASE f = "app_connect" -> s = "CLOSED"
    [] f = "cleanup" -> s = "CLOSED"
    [] f = "app_close" -> s \in {"ESTABLISHED", "CLOSE_WAIT"}
    [] f \in {"app_send", "app_recv"} -> s = "ESTABLISHED"
    [] f = "net_recv" -> s \notin {"CLOSED", "TIME_WAIT"}

Ignore(e, f) ==
  /\ Take(e, f)
  /\ ~Handled(tcp_state[e], f)
  /\ Goto(e, IF f = "net_recv" THEN "after" ELSE "wait")
  /\ UNCHANGED <<tcpVars, queues, requests>>

-----------------------------------------------------------------------------
(* The handshake: handlers of CLOSED, LISTEN, SYN_SENT and SYN_RCVD *)

Connect(e) ==
  /\ Take(e, "app_connect")
  /\ tcp_state[e] = "CLOSED"
  /\ \E iss \in ISNs :
       LET t == [tcb[e] EXCEPT !.ISS = iss, !.SND_UNA = iss, !.SND_NXT = iss + 1, !.RCV_WND = Room(e)]
       IN /\ tcb' = [tcb EXCEPT ![e] = t]
          /\ Transmit(e, SYN(t))
  /\ SetState(e, "SYN_SENT")
  /\ UNCHANGED <<send, recv, shut, pending, withheld, raising, thread, requests>>

\* The handlers of these three states take one packet, whichever is first.
Arrival(e, s) ==
  /\ Take(e, "net_recv")
  /\ tcp_state[e] = s
  /\ pending[e] # <<>>
  /\ Fetch(e)
  /\ Goto(e, "after")
  /\ UNCHANGED <<send, recv, shut, withheld, raising, requests>>

ListenArrival(e) ==
  /\ Arrival(e, "LISTEN")
  /\ LET p == Head(pending[e]) IN
       IF p.syn
         THEN \E iss \in ISNs :
                LET t == [tcb[e] EXCEPT !.RCV_NXT = p.seq + 1, !.ISS = iss, !.RCV_WND = Room(e),
                            !.SND_WND = p.win, !.SND_NXT = iss + 1, !.SND_UNA = iss]
                IN /\ tcb' = [tcb EXCEPT ![e] = t]
                   /\ Transmit(e, SYN_ACK(t))
                   /\ SetState(e, "SYN_RCVD")
         ELSE UNCHANGED <<tcb, net, tcp_state>>

\* The payload of the packet that completes the handshake is not looked at.
SynRcvdArrival(e) ==
  /\ Arrival(e, "SYN_RCVD")
  /\ LET p == Head(pending[e])
         t == tcb[e]
     IN IF ~acceptability_test(e, p) THEN UNCHANGED <<tcb, net, tcp_state>>
        ELSE IF p.ack /\ t.SND_UNA <= p.ack_seq /\ p.ack_seq <= t.SND_NXT
          THEN /\ tcb' = [tcb EXCEPT ![e].SND_UNA = t.SND_NXT, ![e].SND_WND = p.win]
               /\ SetState(e, "ESTABLISHED")
               /\ UNCHANGED net
          ELSE /\ Transmit(e, ACK(t))
               /\ tcb' = [tcb EXCEPT ![e].SND_WND = p.win]
               /\ UNCHANGED tcp_state

SynSentArrival(e) ==
  /\ Arrival(e, "SYN_SENT")
  /\ LET p == Head(pending[e])
         t == [tcb[e] EXCEPT !.RCV_NXT = p.seq + 1,
                             !.SND_WND = IF p.ack THEN p.win ELSE @,
                             !.SND_UNA = IF p.ack THEN p.ack_seq ELSE @]
         acked == tcb[e].SND_UNA <= p.ack_seq /\ p.ack_seq <= tcb[e].SND_NXT
     IN IF ~(p.syn /\ (p.ack => acked)) THEN UNCHANGED <<tcb, net, tcp_state>>
        ELSE IF t.SND_UNA > t.ISS
          THEN /\ Transmit(e, ACK(t))
               /\ tcb' = [tcb EXCEPT ![e] = [t EXCEPT !.SND_UNA = t.SND_NXT]]
               /\ SetState(e, "ESTABLISHED")
          ELSE /\ Transmit(e, SYN_ACK(t))
               /\ tcb' = [tcb EXCEPT ![e] = t]
               /\ SetState(e, "SYN_RCVD")

-----------------------------------------------------------------------------
(* PACKET_ARRIVAL in the synchronized states: a loop over pending_packets *)

\* The thread stays in the handler of the state it was dispatched on, whatever
\* becomes of tcp_state meanwhile.
StartArrival(e) ==
  /\ Take(e, "net_recv")
  /\ tcp_state[e] \in ArrivalStates
  /\ thread' = [thread EXCEPT ![e] = [pc |-> "arrival", handler |-> tcp_state[e]]]
  /\ UNCHANGED <<tcpVars, queues, requests>>

InArrival(e) == thread[e].pc = "arrival"

\* The loop condition. While the receive buffer is full the packets stay where
\* they are.
MoreToProcess(e) ==
  /\ pending[e] # <<>>
  /\ thread[e].handler \in ReceivingStates => Room(e) > 0

EndArrival(e) ==
  /\ InArrival(e)
  /\ ~MoreToProcess(e)
  /\ Goto(e, "after")
  /\ UNCHANGED <<tcpVars, queues, flags, requests>>

\* A packet outside the window is answered, and ends the handler.
RejectPacket(e) ==
  /\ InArrival(e)
  /\ MoreToProcess(e)
  /\ ~acceptability_test(e, Head(pending[e]))
  /\ Fetch(e)
  /\ Transmit(e, ACK(tcb[e]))
  /\ Goto(e, "after")
  /\ UNCHANGED <<tcpVars, withheld, raising, flags, requests>>

\* Where the thread goes with a packet it has accepted.
Next_pc(handler, p) ==
  IF ~p.ack \/ (handler = "ESTABLISHED" /\ p.syn) THEN "arrival"
  ELSE IF p.data # <<>> /\ handler \in ReceivingStates THEN "useData"
  ELSE IF p.fin /\ handler # "LAST_ACK" THEN "gotFIN"
  ELSE "arrival"

\* What an acknowledgment inside the window does to the state.
AckedState(handler, s) ==
  CASE handler = "FIN_WAIT_1" -> "FIN_WAIT_2"
    [] handler = "CLOSING" -> "TIME_WAIT"
    [] OTHER -> s

AcceptPacket(e) ==
  /\ InArrival(e)
  /\ MoreToProcess(e)
  /\ acceptability_test(e, Head(pending[e]))
  /\ Fetch(e)
  /\ LET p == Head(pending[e])
         handler == thread[e].handler
         useful == p.ack /\ ~(handler = "ESTABLISHED" /\ p.syn)
         acks == useful /\ inside_window(tcb[e], p)
     IN /\ ~(acks /\ handler = "LAST_ACK")
        /\ IF acks
             THEN /\ tcb' = [tcb EXCEPT ![e] = update_WND_and_UNA(@, p)]
                  /\ SetState(e, AckedState(handler, tcp_state[e]))
             ELSE UNCHANGED <<tcb, tcp_state>>
        /\ thread' = [thread EXCEPT ![e] =
              [pc |-> Next_pc(handler, p), handler |-> handler, packet |-> p, rest |-> p.data]]
  /\ UNCHANGED <<send, recv, shut, withheld, net, raising, flags, requests>>

\* use_data: a blocking write into the receive buffer. Until all of the payload
\* is in, the thread waits for RECV requests to make room. A closed buffer
\* takes nothing. RCV_NXT, RCV_WND and the ACK follow once the write returns.
\* Mutant: one byte too many is acknowledged.
AdvanceTooFar(t, written) ==
  [t EXCEPT !.RCV_NXT = @ + written + 1, !.RCV_WND = (@ - written) % Word]
Advance(t, written) ==
  [t EXCEPT !.RCV_NXT = @ + written, !.RCV_WND = (@ - written) % Word]

Written(e, t) ==
  /\ tcb' = [tcb EXCEPT ![e] = t]
  /\ Transmit(e, ACK(t))
  /\ thread' = [thread EXCEPT ![e].pc = IF thread[e].packet.fin THEN "gotFIN" ELSE "arrival"]

use_data(e) ==
  /\ thread[e].pc = "useData"
  /\ LET rest == thread[e].rest
         n == MIN(Room(e), Len(rest))
     IN \/ /\ "recv" \in shut[e]
           /\ Written(e, tcb[e])
           /\ UNCHANGED recv
        \/ /\ "recv" \notin shut[e]
           /\ n > 0
           /\ recv' = [recv EXCEPT ![e] = @ \o SubSeq(rest, 1, n)]
           /\ IF n < Len(rest)
                THEN /\ thread' = [thread EXCEPT ![e].rest = SubSeq(@, n + 1, Len(@))]
                     /\ UNCHANGED <<tcb, net>>
                ELSE Written(e, Advance(tcb[e], Len(thread[e].packet.data)))
  /\ UNCHANGED <<tcp_state, send, shut, pending, withheld, raising, flags, requests>>

\* A FIN, first half (always_on_fb): it is acknowledged with its own sequence
\* number, and the receive buffer is closed.
always_on_fb(e) ==
  /\ thread[e].pc = "gotFIN"
  /\ LET t == [tcb[e] EXCEPT !.RCV_NXT = thread[e].packet.seq]
     IN tcb' = [tcb EXCEPT ![e] = t] /\ Transmit(e, ACK(t))
  /\ shut' = [shut EXCEPT ![e] = @ \cup {"recv"}]
  /\ thread' = [thread EXCEPT ![e].pc = "setState"]
  /\ UNCHANGED <<tcp_state, send, recv, pending, withheld, raising, flags, requests>>

\* Second half: the state that follows from it.
FinState(handler, s, t, p) ==
  CASE handler = "ESTABLISHED" -> "CLOSE_WAIT"
    [] handler = "FIN_WAIT_1" -> IF inside_window(t, p) THEN "TIME_WAIT" ELSE "CLOSING"
    [] handler = "FIN_WAIT_2" -> "TIME_WAIT"
    [] OTHER -> s

FinishFIN(e) ==
  /\ thread[e].pc = "setState"
  /\ SetState(e, FinState(thread[e].handler, tcp_state[e], tcb[e], thread[e].packet))
  /\ thread' = [thread EXCEPT ![e].pc = "arrival"]
  /\ UNCHANGED <<tcb, send, recv, shut, queues, flags, requests>>

\* The acknowledgment LAST_ACK waits for. The handler frees the buffers, the
\* queues and tcp_data itself, which lies inside the socket entry: the
\* allocator may notice (see Aborts), or the thread goes on to CLOSED.
HearsLastACK(e) ==
  /\ InArrival(e)
  /\ thread[e].handler = "LAST_ACK"
  /\ MoreToProcess(e)
  /\ LET p == Head(pending[e])
     IN acceptability_test(e, p) /\ p.ack /\ inside_window(tcb[e], p)

LastAcked(e) ==
  /\ HearsLastACK(e)
  /\ pending' = [pending EXCEPT ![e] = <<>>]
  /\ withheld' = [withheld EXCEPT ![e] = <<>>]
  /\ SetState(e, "CLOSED")
  /\ flags' = [flags EXCEPT ![e] = @ \cup {"cleanup"}]
  /\ UNCHANGED <<tcb, send, recv, shut, net, raising, thread, requests>>

\* CLEANUP: the socket entry is freed, and its buffers once more.
Cleanup(e) ==
  /\ Take(e, "cleanup")
  /\ tcp_state[e] = "CLOSED"
  /\ Goto(e, "exited")
  /\ UNCHANGED <<tcpVars, queues, requests>>

-----------------------------------------------------------------------------
(* APPLICATION_RECEIVE, APPLICATION_SEND and APPLICATION_CLOSE *)

Receive(e) ==
  /\ Take(e, "app_recv")
  /\ tcp_state[e] = "ESTABLISHED"
  /\ tcb' = [tcb EXCEPT ![e].RCV_WND = Room(e)]
  /\ UNCHANGED <<tcp_state, send, recv, shut, queues, thread, requests>>

\* send_all sends at most toSend bytes at a time. num_allowed is what the window
\* lets it send when it starts, and is not computed again.
ToSend(allowed, t, count) == MIN(allowed, MIN(MIN(MSS, t.SND_WND), count))

StartSendAll(e, f) ==
  /\ Take(e, f)
  /\ LET t == tcb[e]
         allowed == t.SND_UNA + t.SND_WND - t.SND_NXT
     IN thread' = [thread EXCEPT ![e] =
          [pc |-> "sendAll", event |-> f, allowed |-> allowed,
           toSend |-> ToSend(allowed, t, Len(send[e]))]]
  /\ UNCHANGED <<tcpVars, queues, requests>>

\* Mutant: the state is not looked at.
SendAlways(e) == StartSendAll(e, "app_send")
Send(e) == tcp_state[e] = "ESTABLISHED" /\ StartSendAll(e, "app_send")
StartClose(e) ==
  tcp_state[e] \in {"ESTABLISHED", "CLOSE_WAIT"} /\ StartSendAll(e, "app_close")

SendAllGoesOn(e) == send[e] # <<>> /\ thread[e].toSend > 0

\* The bytes of the next segment are taken off the send buffer. Mutant: they
\* stay in it.
Unsent(bytes, n) == bytes
Removed(bytes, n) == SubSeq(bytes, n + 1, Len(bytes))

SendSegment(e) ==
  /\ thread[e].pc = "sendAll"
  /\ SendAllGoesOn(e)
  /\ LET n == MIN(thread[e].toSend, Len(send[e]))
         t == [tcb[e] EXCEPT !.SND_NXT = @ + n, !.SND_WND = @ - n]
         left == Removed(send[e], n)
         peer == tcb[Peer(e)]
     IN /\ send' = [send EXCEPT ![e] = left]
        /\ Transmit(e, Segment(tcb[e], SubSeq(send[e], 1, n)))
        /\ tcb' = [tcb EXCEPT ![e] = t]
        /\ thread' = [thread EXCEPT ![e].toSend = ToSend(thread[e].allowed, t, Len(left))]
        /\ overran' = [overran EXCEPT ![e] = @ \/ t.SND_NXT > peer.RCV_NXT + peer.RCV_WND]
  /\ UNCHANGED <<tcp_state, recv, shut, pending, withheld, raising, flags, writer, reader, closer, sent, taken>>

EndSendAll(e) ==
  /\ thread[e].pc = "sendAll"
  /\ ~SendAllGoesOn(e)
  /\ thread[e].event = "app_send"
  /\ thread' = [thread EXCEPT ![e] = Idle]
  /\ UNCHANGED <<tcpVars, queues, flags, requests>>

\* After send_all a close sends its FIN, closes both buffers and changes state.
SendFIN(e) ==
  /\ thread[e].pc = "sendAll"
  /\ ~SendAllGoesOn(e)
  /\ thread[e].event = "app_close"
  /\ Transmit(e, FIN(e, tcb[e]))
  /\ shut' = [shut EXCEPT ![e] = @ \cup {"send"} \cup (IF e \in Others THEN {} ELSE {"recv"})]
  /\ Goto(e, "closing")
  /\ UNCHANGED <<tcp_state, tcb, send, recv, pending, withheld, raising, flags, requests>>

FinishClose(e) ==
  /\ thread[e].pc = "closing"
  /\ SetState(e, IF tcp_state[e] = "ESTABLISHED" THEN "FIN_WAIT_1" ELSE "LAST_ACK")
  /\ thread' = [thread EXCEPT ![e] = Idle]
  /\ UNCHANGED <<tcb, send, recv, shut, queues, flags, requests>>

-----------------------------------------------------------------------------
(* The network: chitcpd_enqueue_packet, in the thread of a connection *)

\* First half: the packet joins pending_packets or withheld_packets, or neither,
\* as the debugger answers. (Its answer DUPLICATE queues one packet twice, and each
\* taker frees it: what the second one reads is undefined, and it is left out.)
\* Packets for a socket that is gone stay in net. The socket of a CONNECT has no list of
\* withheld packets: see Aborts.
Enqueue(e, r) ==
  /\ net[e] # <<>>
  /\ ~raising[e]
  /\ thread[e].pc # "exited"
  /\ r = "WITHHOLD" => e # Client
  /\ net' = [net EXCEPT ![e] = Tail(@)]
  /\ LET p == Head(net[e])
         drawn == IF r = "DRAW_WITHHELD" THEN SubSeq(withheld[e], 1, MIN(1, Len(withheld[e]))) ELSE <<>>
     IN /\ pending' = [pending EXCEPT ![e] =
              IF r \in {"DROP", "WITHHOLD"} THEN @ ELSE @ \o drawn \o <<p>>]
        /\ withheld' = [withheld EXCEPT ![e] =
              IF r = "WITHHOLD" THEN Append(@, p) ELSE SubSeq(@, Len(drawn) + 1, Len(@))]
  /\ raising' = [raising EXCEPT ![e] = r \notin {"DROP", "WITHHOLD"}]
  /\ UNCHANGED <<tcpVars, flags, thread, requests>>

\* chitcpd_debug_breakpoint: no debugger, no answer but "NONE".
DebugResponses(e) == IF e \in Monitored THEN Responses ELSE {"NONE"}

\* Second half: net_recv is raised.
RaiseNetRecv(e) ==
  /\ raising[e]
  /\ raising' = [raising EXCEPT ![e] = FALSE]
  /\ flags' = [flags EXCEPT ![e] = @ \cup {"net_recv"}]
  /\ UNCHANGED <<tcpVars, pending, withheld, net, thread, requests>>

-----------------------------------------------------------------------------
(* SEND, RECV and CLOSE requests *)

SendCall(e, n) ==
  /\ e \in Senders
  /\ writer[e].pc = "none"
  /\ tcp_state[e] \in SendStates
  /\ sent[e] + n <= MaxBytes
  /\ writer' = [writer EXCEPT ![e] =
        IF "send" \in shut[e] THEN [pc |-> "notify", left |-> 0]
                             ELSE [pc |-> "writing", left |-> MIN(n, BufSize)]]
  /\ UNCHANGED <<tcpVars, queues, flags, thread, reader, closer, sent, taken, overran>>

\* The blocking write into the send buffer, as far as there is room.
SendPut(e) ==
  /\ writer[e].pc = "writing"
  /\ LET n == MIN(BufSize - Len(send[e]), writer[e].left)
     IN /\ n > 0
        /\ IF "send" \in shut[e]
             THEN /\ writer' = [writer EXCEPT ![e] = [pc |-> "notify", left |-> 0]]
                  /\ UNCHANGED <<send, sent>>
             ELSE /\ send' = [send EXCEPT ![e] = @ \o [i \in 1 .. n |-> sent[e] + i]]
                  /\ sent' = [sent EXCEPT ![e] = @ + n]
                  /\ writer' = [writer EXCEPT ![e] =
                        [pc |-> IF n = @.left THEN "notify" ELSE "writing", left |-> @.left - n]]
  /\ UNCHANGED <<tcp_state, tcb, recv, shut, queues, flags, thread, reader, closer, taken, overran>>

\* The TCP thread is told once the whole write is done, if the connection is
\* synchronized. Mutant: it is not told.
NotifyNever(e) == UNCHANGED flags
NotifySend(e) ==
  flags' = [flags EXCEPT ![e] =
    IF tcp_state[e] \in {"ESTABLISHED", "CLOSE_WAIT"} THEN @ \cup {"app_send"} ELSE @]

SendReturn(e) ==
  /\ writer[e].pc = "notify"
  /\ NotifySend(e)
  /\ writer' = [writer EXCEPT ![e] = NoRequest]
  /\ UNCHANGED <<tcpVars, queues, thread, reader, closer, sent, taken, overran>>

\* A blocking read of a closed buffer returns 0.
RecvCall(e, n) ==
  /\ e \in Receivers
  /\ reader[e].pc = "none"
  /\ taken[e] < MaxTaken
  /\ tcp_state[e] \notin {"CLOSED", "LAST_ACK", "TIME_WAIT", "CLOSING"}
  /\ reader' = [reader EXCEPT ![e] =
        [pc |-> IF "recv" \in shut[e] THEN "zero" ELSE "reading", left |-> n]]
  /\ UNCHANGED <<tcpVars, queues, flags, thread, writer, closer, sent, taken, overran>>

RecvTake(e) ==
  /\ reader[e].pc = "reading"
  /\ recv[e] # <<>>
  /\ LET n == MIN(reader[e].left, Len(recv[e]))
     IN IF "recv" \in shut[e]
          THEN /\ reader' = [reader EXCEPT ![e].pc = "zero"]
               /\ UNCHANGED <<recv, taken>>
          ELSE /\ recv' = [recv EXCEPT ![e] = SubSeq(@, n + 1, Len(@))]
               /\ taken' = [taken EXCEPT ![e] = @ + n]
               /\ reader' = [reader EXCEPT ![e].pc = "notify"]
  /\ UNCHANGED <<tcp_state, tcb, send, shut, queues, flags, thread, writer, closer, sent, overran>>

\* The states in which RECV asserts that the connection is when it has read nothing.
ReadsNothing == {"CLOSING", "TIME_WAIT", "CLOSE_WAIT", "LAST_ACK", "CLOSED"}

RecvReturn(e) ==
  /\ reader[e].pc \in {"notify", "zero"}
  /\ reader[e].pc = "zero" => tcp_state[e] \in ReadsNothing
  /\ flags' = [flags EXCEPT ![e] =
        IF reader[e].pc = "notify" /\ tcp_state[e] \in ReceivingStates
          THEN @ \cup {"app_recv"} ELSE @]
  /\ reader' = [reader EXCEPT ![e] = NoRequest]
  /\ UNCHANGED <<tcpVars, queues, thread, writer, closer, sent, taken, overran>>

\* CLOSE raises app_close and waits for a state that depends on the one it found.
CloseCall(e) ==
  /\ e \in Closers
  /\ closer[e] = "none"
  /\ tcp_state[e] \in {"ESTABLISHED", "CLOSE_WAIT"}
  /\ flags' = [flags EXCEPT ![e] = @ \cup {"app_close"}]
  /\ closer' = [closer EXCEPT ![e] = tcp_state[e]]
  /\ UNCHANGED <<tcpVars, queues, thread, writer, reader, sent, taken, overran>>

CloseReturn(e) ==
  /\ \/ closer[e] = "ESTABLISHED" /\ tcp_state[e] \in {"FIN_WAIT_2", "CLOSING", "TIME_WAIT"}
     \/ closer[e] = "CLOSE_WAIT" /\ tcp_state[e] = "LAST_ACK"
  /\ closer' = [closer EXCEPT ![e] = "returned"]
  /\ UNCHANGED <<tcpVars, queues, flags, thread, writer, reader, sent, taken, overran>>

-----------------------------------------------------------------------------

\* The daemon aborts.
\* - ACCEPT calls list_init for withheld_packets and CONNECT does not: the table was
\*   calloc'ed, and list_append follows a null tail_sentinel. (list_fetch finds it empty.)
\* - A RECV that has read nothing asserts a state that comes after a FIN. The receive buffer
\*   is closed before the state changes, and after a CLOSE the state is FIN_WAIT_1.
\* - The handler of LAST_ACK frees what was not allocated by itself.
Aborts(e) ==
  /\ e \notin crashed
  /\ \/ /\ e = Client /\ "WITHHOLD" \in DebugResponses(e)
        /\ net[e] # <<>> /\ ~raising[e] /\ thread[e].pc # "exited"
     \/ reader[e].pc = "zero" /\ tcp_state[e] \notin ReadsNothing
     \/ HearsLastACK(e)
  /\ crashed' = crashed \cup {e}
  /\ UNCHANGED live

TcpThread(e) ==
  \/ Connect(e) \/ ListenArrival(e) \/ SynRcvdArrival(e) \/ SynSentArrival(e)
  \/ StartArrival(e) \/ EndArrival(e) \/ RejectPacket(e) \/ AcceptPacket(e)
  \/ use_data(e) \/ always_on_fb(e) \/ FinishFIN(e) \/ LastAcked(e) \/ Cleanup(e)
  \/ AfterArrival(e) \/ Receive(e) \/ Send(e) \/ StartClose(e)
  \/ SendSegment(e) \/ EndSendAll(e) \/ SendFIN(e) \/ FinishClose(e)
  \/ \E f \in FlagSet : Ignore(e, f)

NetworkThread(e) == (\E r \in DebugResponses(e) : Enqueue(e, r)) \/ RaiseNetRecv(e)

Sending(e) == SendPut(e) \/ SendReturn(e)
Receiving(e) == (\E n \in RecvSizes : RecvCall(e, n)) \/ RecvTake(e) \/ RecvReturn(e)
Closing(e) == CloseCall(e) \/ CloseReturn(e)

Step(e) ==
  \/ TcpThread(e)
  \/ NetworkThread(e)
  \/ \E n \in SendSizes : SendCall(e, n)
  \/ Sending(e)
  \/ Receiving(e)
  \/ Closing(e)

\* Nothing runs in a daemon that has aborted.
Alive(e) == e \notin crashed /\ UNCHANGED crashed
Next == \E e \in Endpoints : (Alive(e) /\ Step(e)) \/ Aborts(e)

Spec == Init /\ [][Next]_vars

\* The threads of both daemons are scheduled, the network delivers, requests in
\* progress go on, and a receiving application keeps receiving. No application
\* has to send or to close.
Fairness ==
  \A e \in Endpoints :
    /\ WF_vars(Alive(e) /\ TcpThread(e)) /\ WF_vars(Alive(e) /\ NetworkThread(e))
    /\ WF_vars(Alive(e) /\ Sending(e)) /\ WF_vars(Alive(e) /\ Receiving(e))
    /\ WF_vars(Alive(e) /\ CloseReturn(e))

FairSpec == Spec /\ Fairness

-----------------------------------------------------------------------------
(* Properties *)

TCB == [ISS : 0 .. (Word - 1), SND_UNA : 0 .. (Word - 1), SND_NXT : 0 .. (Word - 1),
        SND_WND : 0 .. (Word - 1), RCV_NXT : 0 .. (Word - 1), RCV_WND : 0 .. (Word - 1)]

ThreadPcs == {"wait", "after", "arrival", "useData", "gotFIN", "setState", "sendAll",
              "closing", "exited"}

\* The types of the socket entry's fields; buffers never exceed their capacity.
TypeOK ==
  /\ tcp_state \in [Endpoints -> States]
  /\ tcb \in [Endpoints -> TCB]
  /\ shut \in [Endpoints -> SUBSET {"send", "recv"}]
  /\ flags \in [Endpoints -> SUBSET FlagSet]
  /\ raising \in [Endpoints -> BOOLEAN]
  /\ crashed \subseteq Endpoints
  /\ \A e \in Endpoints :
       /\ Len(send[e]) <= BufSize /\ Len(recv[e]) <= BufSize
       /\ thread[e].pc \in ThreadPcs
       /\ writer[e].pc \in {"none", "writing", "notify"}
       /\ reader[e].pc \in {"none", "reading", "notify", "zero"}
       /\ closer[e] \in {"none", "ESTABLISHED", "CLOSE_WAIT", "returned"}

Synchronized(e) == tcp_state[e] \notin {"CLOSED", "LISTEN", "SYN_SENT", "SYN_RCVD"}

Payload(packets) == FlattenSeq([i \in 1 .. Len(packets) |-> packets[i].data])
InHand(e) == IF thread[e].pc = "useData" THEN thread[e].rest ELSE <<>>

\* No byte is lost, repeated or reordered on its way from one application to
\* the other: the receive buffer, the payload the TCP thread is writing, the
\* queued packets, the network and the peer's send buffer hold, in this order,
\* exactly the bytes sent and not yet received. This depends on the sender having
\* kept to the window, which it does not always do: see WindowRespected.
StreamIntact ==
  \A e \in Endpoints : ~overran[Peer(e)] /\ "recv" \notin shut[e] =>
    recv[e] \o InHand(e) \o Payload(pending[e]) \o Payload(net[e]) \o send[Peer(e)] =
      [i \in 1 .. (sent[Peer(e)] - taken[e]) |-> taken[e] + i]

\* Nothing is acknowledged before it is in the receive buffer, and nothing is
\* received that was not sent.
AckedWasReceived ==
  \A e \in Endpoints :
    Synchronized(e) /\ Synchronized(Peer(e)) =>
      /\ tcb[e].SND_UNA <= tcb[Peer(e)].RCV_NXT
      /\ tcb[Peer(e)].RCV_NXT <= tcb[e].SND_NXT

\* The handlers of LISTEN, SYN_SENT and SYN_RCVD fetch a packet without looking
\* whether there is one (list_fetch would return NULL): net_recv is never taken
\* in these states with an empty queue.
FetchFindsPacket ==
  \A e \in Endpoints :
    thread[e].pc = "wait" /\ flags[e] = {"net_recv"}
    /\ tcp_state[e] \in {"LISTEN", "SYN_SENT", "SYN_RCVD"} => pending[e] # <<>>

\* A queued packet is never forgotten: when the TCP thread is about to sleep,
\* net_recv is raised or the network thread is about to raise it.
NoStrandedPacket ==
  \A e \in Endpoints :
    thread[e].pc = "wait" /\ pending[e] # <<>> => "net_recv" \in flags[e] \/ raising[e]

\* A wake-up for a packet finds one where it has to, and no packet is without a wake-up.
WakeUpsMatchPackets == FetchFindsPacket /\ NoStrandedPacket

\* send_all sends a byte only if the peer's window has room for it.
WindowRespected == \A e \in Endpoints : ~overran[e]

\* A FIN is the last thing an endpoint says: no data follows it.
FINIsLast ==
  \A e \in Endpoints : \A i, j \in 1 .. Len(net[e]) :
    i < j /\ net[e][i].fin => net[e][j].data = <<>> /\ ~net[e][j].fin

\* The handshake completes, and what an application has put in its send buffer reaches the
\* peer's application.
AllDelivered ==
  /\ <>(\A e \in Endpoints : tcp_state[e] = "ESTABLISHED")
  /\ \A e \in Endpoints : \A n \in 1 .. MaxBytes : sent[e] >= n ~> taken[Peer(e)] >= n

=============================================================================
