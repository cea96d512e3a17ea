------------------------------ MODULE TcpProofs ------------------------------
(***************************************************************************)
(* What TLAPS proves of the TCP threads of module Tcp, for every size of   *)
(* buffer, window and segment, whatever the applications send and the      *)
(* debuggers answer: no queued packet is left without a wake-up, no data   *)
(* follows a FIN, nothing is acknowledged that was not received, and the   *)
(* sequence numbers, buffers and windows keep to their ranges.             *)
(*                                                                         *)
(* Three inductive invariants, each on top of the one before. Inv is       *)
(* local: but for the packets in flight, every conjunct speaks of one      *)
(* endpoint, and OwnState shows that a step of one endpoint leaves the     *)
(* other one's alone. SeqInv relates the two endpoints: the phases of the  *)
(* handshake, and for either direction the bytes in flight, which end      *)
(* where the sender's next number begins. Measured accounts for the bytes  *)
(* of an application: sent, in the send buffer or still to come.           *)
(***************************************************************************)
EXTENDS Tcp, SequenceTheorems, TLAPS

-----------------------------------------------------------------------------
(* The invariant *)

\* The types. The ranges of TypeOK (32-bit sequence numbers, buffers within their
\* capacity) take an argument about the stream, which Measured has; these do not, and
\* are all that the rest of the invariant needs.
Packets ==
  [syn : BOOLEAN, fin : BOOLEAN, ack : BOOLEAN,
   seq : Int, ack_seq : Int, win : 0 .. (WinMod - 1), data : Seq(Int)]

ControlBlocks ==
  [ISS : Int, SND_UNA : Int, SND_NXT : Int, SND_WND : Int, RCV_NXT : Int, RCV_WND : Int]

\* Where a TCP thread can be: with a packet, just dispatched to a handler, in
\* send_all, or at a place that needs no data.
InHandler == [pc : {"arrival", "useData", "gotFIN", "setState"}, handler : ArrivalStates,
              packet : Packets, rest : Seq(Int)]
Dispatched == [pc : {"arrival"}, handler : ArrivalStates]
SendingAll == [pc : {"sendAll"}, event : FlagSet, allowed : Int, toSend : Int]
Elsewhere == [pc : {"wait", "after", "closing", "exited"}]
Positions == InHandler \cup Dispatched \cup SendingAll \cup Elsewhere

Typed ==
  /\ tcp_state \in [Endpoints -> States]
  /\ tcb \in [Endpoints -> ControlBlocks]
  /\ send \in [Endpoints -> Seq(Int)]
  /\ recv \in [Endpoints -> Seq(Int)]
  /\ shut \in [Endpoints -> SUBSET {"send", "recv"}]
  /\ pending \in [Endpoints -> Seq(Packets)]
  /\ withheld \in [Endpoints -> Seq(Packets)]
  /\ net \in [Endpoints -> Seq(Packets)]
  /\ raising \in [Endpoints -> BOOLEAN]
  /\ flags \in [Endpoints -> SUBSET FlagSet]
  /\ thread \in [Endpoints -> Positions]
  /\ writer \in [Endpoints -> [pc : {"none", "writing", "notify"}, left : Int]]
  /\ reader \in [Endpoints -> [pc : {"none", "reading", "notify", "zero"}, left : Nat]]
  /\ sent \in [Endpoints -> Int]

Asleep == {"wait", "sendAll", "closing"}
AtPacket == {"arrival", "useData", "gotFIN", "setState"}

\* NoStrandedPacket speaks of a thread about to sleep. It holds at every place from
\* which the thread gets there without looking at pending_packets: send_all and
\* CLOSE return to the event loop straight away.
WokenUp(e) ==
  thread[e].pc \in Asleep /\ pending[e] # <<>> => "net_recv" \in flags[e] \/ raising[e]

Sendable == {"ESTABLISHED", "CLOSE_WAIT"}
Finished == {"FIN_WAIT_1", "FIN_WAIT_2", "CLOSING", "TIME_WAIT", "LAST_ACK", "CLOSED"}

\* Once its FIN is out an endpoint never runs send_all again: until CLOSE has
\* changed the state the thread is in CLOSE, and no state that follows sends. Two
\* things could undo this: a handler of ESTABLISHED that sets CLOSE_WAIT late, and
\* an app_connect that opens a CLOSED socket again.
CloseIsFinal(e) ==
  /\ "app_connect" \in flags[e] =>
       tcp_state[e] = "CLOSED" /\ "send" \notin shut[e] /\ thread[e].pc = "wait"
  /\ thread[e].pc = "sendAll" => tcp_state[e] \in Sendable /\ "send" \notin shut[e]
  /\ thread[e].pc \in AtPacket /\ thread[e].handler = "ESTABLISHED" => tcp_state[e] \in Sendable
  /\ "send" \in shut[e] => thread[e].pc = "closing" \/ tcp_state[e] \in Finished

\* FINIsLast, of one queue of packets.
FINLast(q) == \A i, j \in 1 .. Len(q) : i < j /\ q[i].fin => q[j].data = <<>> /\ ~q[j].fin
HasFIN(q) == \E i \in 1 .. Len(q) : q[i].fin

\* A FIN in flight: its sender has closed its send buffer.
FINIsTold(e) == HasFIN(net[Peer(e)]) => "send" \in shut[e]
EndsWithFIN(e) == FINLast(net[Peer(e)])

Inv ==
  /\ Typed
  /\ \A e \in Endpoints : WokenUp(e) /\ CloseIsFinal(e) /\ FINIsTold(e) /\ EndsWithFIN(e)

-----------------------------------------------------------------------------
(* The types are preserved *)

\* The other end is an end.
LEMMA PeerIsEndpoint == ASSUME NEW e \in Endpoints PROVE Peer(e) \in Endpoints
BY DEF Endpoints, Peer

\* The flags, spelled out.
LEMMA FlagNames ==
  FlagSet = {"app_close", "app_connect", "app_recv", "app_send", "net_recv", "cleanup"}
<1>1. Len(Flags) = 6
  BY DEF Flags
<1>2. FlagSet = {Flags[i] : i \in 1 .. 6}
  BY <1>1 DEF FlagSet
<1>3. 1 .. 6 = {1, 2, 3, 4, 5, 6}
  OBVIOUS
<1>4. /\ Flags[1] = "app_close" /\ Flags[2] = "app_connect" /\ Flags[3] = "app_recv"
      /\ Flags[4] = "app_send" /\ Flags[5] = "net_recv" /\ Flags[6] = "cleanup"
  BY DEF Flags
<1> QED BY <1>2, <1>3, <1>4

\* What the event loop takes: a raised flag, and not one behind app_connect while
\* that is raised.
LEMMA Taking ==
  ASSUME NEW e, NEW f, Take(e, f)
  PROVE  /\ thread[e].pc = "wait" /\ f \in flags[e] /\ f \in FlagSet
         /\ flags' = [flags EXCEPT ![e] = @ \ {f}]
         /\ f \notin {"app_close", "app_connect"} => "app_connect" \notin flags[e]
<1>1. Len(Flags) = 6
  BY DEF Flags
<1>2. PICK i \in 1 .. 6 : /\ Flags[i] = f /\ f \in flags[e]
                          /\ \A h \in 1 .. (i - 1) : Flags[h] \notin flags[e]
  BY <1>1 DEF Take
<1>3. Flags[1] = "app_close" /\ Flags[2] = "app_connect"
  BY DEF Flags
<1>4. f \in FlagSet
  BY <1>1, <1>2 DEF FlagSet
<1>5. ASSUME f \notin {"app_close", "app_connect"} PROVE "app_connect" \notin flags[e]
  <2>1. i > 2
    BY <1>2, <1>3, <1>5
  <2> QED BY <2>1, <1>2, <1>3
<1> QED BY <1>2, <1>4, <1>5 DEF Take

\* Taking a flag leaves flags.
LEMMA TakingTypes ==
  ASSUME NEW e \in Endpoints, NEW f, Take(e, f), flags \in [Endpoints -> SUBSET FlagSet]
  PROVE  flags' \in [Endpoints -> SUBSET FlagSet]
BY Taking

\* A control block with a field set to a number is a control block.
LEMMA FieldTypes ==
  ASSUME NEW t \in ControlBlocks, NEW i \in Int
  PROVE  /\ [t EXCEPT !.ISS = i] \in ControlBlocks
         /\ [t EXCEPT !.SND_UNA = i] \in ControlBlocks
         /\ [t EXCEPT !.SND_NXT = i] \in ControlBlocks
         /\ [t EXCEPT !.SND_WND = i] \in ControlBlocks
         /\ [t EXCEPT !.RCV_NXT = i] \in ControlBlocks
         /\ [t EXCEPT !.RCV_WND = i] \in ControlBlocks
BY DEF ControlBlocks

\* All the daemon sends are packets.
LEMMA PacketTypes ==
  ASSUME NEW t \in ControlBlocks, NEW e, NEW bytes \in Seq(Int)
  PROVE  /\ ACK(t) \in Packets /\ SYN(t) \in Packets /\ SYN_ACK(t) \in Packets
         /\ FIN(e, t) \in Packets /\ Segment(t, bytes) \in Packets
<1>1. <<>> \in Seq(Int)
  OBVIOUS
<1>2. \A x \in Int : x % WinMod \in 0 .. (WinMod - 1)
  BY SizeAssumption
<1> QED BY <1>1, <1>2 DEF ACK, SYN, SYN_ACK, FIN, Segment, Packet, Packets, ControlBlocks

\* Sending a packet keeps the network typed.
LEMMA TransmitType ==
  ASSUME NEW e \in Endpoints, NEW p \in Packets, net \in [Endpoints -> Seq(Packets)], Transmit(e, p)
  PROVE  net' \in [Endpoints -> Seq(Packets)]
<1>1. Append(net[Peer(e)], p) \in Seq(Packets)
  BY PeerIsEndpoint
<1> QED BY <1>1, PeerIsEndpoint DEF Transmit

\* What is fetched from pending_packets is a packet, and packets remain.
LEMMA FetchType ==
  ASSUME NEW e \in Endpoints, pending \in [Endpoints -> Seq(Packets)], pending[e] # <<>>
  PROVE  /\ Head(pending[e]) \in Packets /\ Tail(pending[e]) \in Seq(Packets)
         /\ Fetch(e) => pending' \in [Endpoints -> Seq(Packets)]
<1>1. pending[e] \in Seq(Packets)
  OBVIOUS
<1>2. Head(pending[e]) \in Packets /\ Tail(pending[e]) \in Seq(Packets)
  BY <1>1
<1> QED BY <1>2 DEF Fetch

\* The initial state is typed.
LEMMA TypedInit == Init => Typed
<1> SUFFICES ASSUME Init PROVE Typed
  OBVIOUS
<1>1. /\ "CLOSED" \in States /\ "LISTEN" \in States /\ {} \in SUBSET FlagSet
      /\ {"app_connect"} \in SUBSET FlagSet /\ Idle \in Positions
      /\ \A S : <<>> \in Seq(S)
  BY FlagNames DEF States, Idle, Positions, Elsewhere
<1> QED BY <1>1 DEF Init, Typed, ControlBlocks, NoRequest

\* The handlers of the handshake preserve the types.
LEMMA HandshakeTypes ==
  ASSUME Typed, NEW e \in Endpoints,
         \/ Connect(e) \/ ListenArrival(e) \/ SynRcvdArrival(e) \/ SynSentArrival(e)
  PROVE  Typed'
<1> DEFINE New(t) == /\ t \in ControlBlocks /\ tcb' = [tcb EXCEPT ![e] = t]
           Told == \/ UNCHANGED net
                   \/ \E p \in Packets : Transmit(e, p)
           Moved == \/ UNCHANGED tcp_state
                    \/ \E s \in States : SetState(e, s)
<1>0. ISNs \subseteq Int /\ tcb[e] \in ControlBlocks /\ <<>> \in Seq(Int)
  BY SizeAssumption DEF Typed
<1>a. Room(e) \in Int
  BY SizeAssumption DEF Room, Typed
<1>1. /\ UNCHANGED tcb \/ \E t : New(t)
      /\ Told
      /\ Moved
  <2>1. CASE Connect(e)
    <3>1. PICK iss \in ISNs :
            LET t == [tcb[e] EXCEPT !.ISS = iss, !.SND_UNA = iss, !.SND_NXT = iss + 1,
                                    !.RCV_WND = Room(e)]
            IN tcb' = [tcb EXCEPT ![e] = t] /\ Transmit(e, SYN(t))
      BY <2>1 DEF Connect
    <3> DEFINE t == [tcb[e] EXCEPT !.ISS = iss, !.SND_UNA = iss, !.SND_NXT = iss + 1,
                                   !.RCV_WND = Room(e)]
    <3>2. t \in ControlBlocks
      <4>1. /\ iss \in Int /\ iss + 1 \in Int /\ Room(e) \in Int
        BY <1>0, <1>a
      <4>2. [tcb[e] EXCEPT !.ISS = iss, !.SND_UNA = iss] \in ControlBlocks
        BY <1>0, <4>1 DEF ControlBlocks
      <4>3. [[tcb[e] EXCEPT !.ISS = iss, !.SND_UNA = iss] EXCEPT !.SND_NXT = iss + 1]
               \in ControlBlocks
        BY <4>1, <4>2, FieldTypes
      <4>4. [[tcb[e] EXCEPT !.ISS = iss, !.SND_UNA = iss, !.SND_NXT = iss + 1]
               EXCEPT !.RCV_WND = Room(e)] \in ControlBlocks
        BY <4>1, <4>3, FieldTypes
      <4> QED BY <4>4
    <3>3. SYN(t) \in Packets
      BY <3>2, <1>0, PacketTypes
    <3>4. Moved
      BY <2>1 DEF Connect, States
    <3> QED BY <3>1, <3>2, <3>3, <3>4
  <2> DEFINE p == Head(pending[e])
  <2>a. ASSUME NEW s, Arrival(e, s) PROVE p \in Packets
    BY <2>a, FetchType DEF Arrival, Typed
  <2>2. CASE ListenArrival(e)
    <3>1. CASE p.syn
      <4>1. PICK iss \in ISNs :
            LET t == [tcb[e] EXCEPT !.RCV_NXT = p.seq + 1, !.ISS = iss, !.RCV_WND = Room(e),
                        !.SND_WND = p.win, !.SND_NXT = iss + 1, !.SND_UNA = iss]
            IN tcb' = [tcb EXCEPT ![e] = t] /\ Transmit(e, SYN_ACK(t))
        BY <2>2, <3>1 DEF ListenArrival
      <4> DEFINE t == [tcb[e] EXCEPT !.RCV_NXT = p.seq + 1, !.ISS = iss, !.RCV_WND = Room(e),
                        !.SND_WND = p.win, !.SND_NXT = iss + 1, !.SND_UNA = iss]
      <4>2. t \in ControlBlocks
        <5>0. p \in Packets
          BY <2>a, <2>2 DEF ListenArrival
        <5>1. /\ iss \in Int /\ iss + 1 \in Int /\ Room(e) \in Int
              /\ p.seq + 1 \in Int /\ p.win \in Int
          BY <1>0, <1>a, <5>0 DEF Packets
        <5> DEFINE t1 == [tcb[e] EXCEPT !.RCV_NXT = p.seq + 1, !.ISS = iss]
                   t2 == [t1 EXCEPT !.RCV_WND = Room(e), !.SND_WND = p.win]
        <5>2. t1 \in ControlBlocks
          BY <1>0, <5>1 DEF ControlBlocks
        <5>3. t = [t2 EXCEPT !.SND_NXT = iss + 1, !.SND_UNA = iss]
          OBVIOUS
        <5> HIDE DEF t1
        <5>4. t2 \in ControlBlocks
          BY <5>1, <5>2 DEF ControlBlocks
        <5> HIDE DEF t2, t
        <5> QED BY <5>1, <5>3, <5>4 DEF ControlBlocks
      <4>3. SYN_ACK(t) \in Packets
        BY <4>2, <1>0, PacketTypes
      <4>4. Moved
        BY <2>2, <3>1 DEF ListenArrival, States
      <4> QED BY <4>1, <4>2, <4>3, <4>4
    <3> QED BY <2>2, <3>1 DEF ListenArrival
  <2>3. CASE SynRcvdArrival(e)
    <3>0. p.win \in Int /\ tcb[e].SND_NXT \in Int
      <4>1. p \in Packets
        BY <2>a, <2>3 DEF SynRcvdArrival
      <4> QED BY <1>0, <4>1 DEF Packets, ControlBlocks
    <3>1. [tcb[e] EXCEPT !.SND_UNA = tcb[e].SND_NXT, !.SND_WND = p.win] \in ControlBlocks
      BY <1>0, <3>0 DEF ControlBlocks
    <3>2. [tcb[e] EXCEPT !.SND_WND = p.win] \in ControlBlocks
      BY <1>0, <3>0 DEF ControlBlocks
    <3>3. ACK(tcb[e]) \in Packets
      BY <1>0, PacketTypes
    <3>4. "ESTABLISHED" \in States
      BY DEF States
    <3> QED BY <2>3, <3>1, <3>2, <3>3, <3>4 DEF SynRcvdArrival
  <2>4. CASE SynSentArrival(e)
    <3> DEFINE t == [tcb[e] EXCEPT !.RCV_NXT = p.seq + 1,
                             !.SND_WND = IF p.ack THEN p.win ELSE @,
                             !.SND_UNA = IF p.ack THEN p.ack_seq ELSE @]
               u == [t EXCEPT !.SND_UNA = t.SND_NXT]
    <3>1. t \in ControlBlocks
      <4>1. p.seq + 1 \in Int /\ p.win \in Int /\ p.ack_seq \in Int
        BY <2>4, <2>a DEF SynSentArrival, Packets
      <4>2. CASE p.ack
        <5>1. [tcb[e] EXCEPT !.RCV_NXT = p.seq + 1, !.SND_WND = p.win] \in ControlBlocks
          BY <1>0, <4>1 DEF ControlBlocks
        <5>2. [[tcb[e] EXCEPT !.RCV_NXT = p.seq + 1, !.SND_WND = p.win]
                 EXCEPT !.SND_UNA = p.ack_seq] \in ControlBlocks
          BY <4>1, <5>1, FieldTypes
        <5>3. t = [tcb[e] EXCEPT !.RCV_NXT = p.seq + 1, !.SND_WND = p.win, !.SND_UNA = p.ack_seq]
          BY <4>2
        <5> QED BY <5>2, <5>3
      <4>3. CASE ~p.ack
        <5>1. [tcb[e] EXCEPT !.RCV_NXT = p.seq + 1] \in ControlBlocks
          BY <1>0, <4>1, FieldTypes
        <5>2. t = [tcb[e] EXCEPT !.RCV_NXT = p.seq + 1]
          BY <1>0, <4>3 DEF ControlBlocks
        <5> QED BY <5>1, <5>2
      <4> QED BY <4>2, <4>3
    <3>2. u \in ControlBlocks
      BY <3>1 DEF ControlBlocks
    <3>3. ACK(t) \in Packets /\ SYN_ACK(t) \in Packets
      BY <1>0, <3>1, PacketTypes
    <3>4. "ESTABLISHED" \in States /\ "SYN_RCVD" \in States
      BY DEF States
    <3>5. \/ UNCHANGED <<tcb, net, tcp_state>>
          \/ Transmit(e, ACK(t)) /\ tcb' = [tcb EXCEPT ![e] = u] /\ SetState(e, "ESTABLISHED")
          \/ Transmit(e, SYN_ACK(t)) /\ tcb' = [tcb EXCEPT ![e] = t] /\ SetState(e, "SYN_RCVD")
      BY <2>4 DEF SynSentArrival
    <3> HIDE DEF t, u
    <3> QED BY <3>1, <3>2, <3>3, <3>4, <3>5
  <2> QED BY <2>1, <2>2, <2>3, <2>4
<1>2. tcb' \in [Endpoints -> ControlBlocks]
  BY <1>1 DEF Typed
<1>3. net' \in [Endpoints -> Seq(Packets)]
  BY <1>1, TransmitType DEF Typed
<1>4. tcp_state' \in [Endpoints -> States]
  BY <1>1 DEF Typed, SetState
<1>5. CASE Connect(e)
  <2>1. flags' \in [Endpoints -> SUBSET FlagSet]
    BY <1>5, TakingTypes DEF Connect, Typed
  <2>2. UNCHANGED <<send, recv, shut, pending, withheld, raising, thread, writer, reader, sent>>
    BY <1>5 DEF Connect, requests
  <2> QED BY <1>2, <1>3, <1>4, <2>1, <2>2 DEF Typed
<1>6. ASSUME NEW s, Arrival(e, s) PROVE Typed'
  <2>1. flags' \in [Endpoints -> SUBSET FlagSet]
    BY <1>6, TakingTypes DEF Arrival, Typed
  <2>2. pending' \in [Endpoints -> Seq(Packets)]
    BY <1>6, FetchType DEF Arrival, Typed
  <2>3. thread' \in [Endpoints -> Positions]
    BY <1>6 DEF Arrival, Typed, Goto, Positions, Elsewhere
  <2>4. UNCHANGED <<send, recv, shut, withheld, raising, writer, reader, sent>>
    BY <1>6 DEF Arrival, requests
  <2> QED BY <1>2, <1>3, <1>4, <2>1, <2>2, <2>3, <2>4 DEF Typed
<1> QED BY <1>5, <1>6 DEF ListenArrival, SynRcvdArrival, SynSentArrival

\* What the place of a thread says about the rest of its record.
LEMMA PositionTypes ==
  ASSUME NEW x \in Positions
  PROVE  /\ x.pc = "arrival" => x.handler \in ArrivalStates
         /\ x.pc \in {"useData", "gotFIN", "setState"} => x \in InHandler
         /\ x.pc = "sendAll" => x \in SendingAll
         /\ \A q \in {"wait", "after", "closing", "exited"} : [pc |-> q] \in Positions
<1>1. ASSUME x.pc = "arrival" PROVE x.handler \in ArrivalStates
  BY <1>1 DEF Positions, InHandler, Dispatched, SendingAll, Elsewhere
<1>2. ASSUME x.pc \in {"useData", "gotFIN", "setState"} PROVE x \in InHandler
  BY <1>2 DEF Positions, InHandler, Dispatched, SendingAll, Elsewhere
<1>3. ASSUME x.pc = "sendAll" PROVE x \in SendingAll
  BY <1>3 DEF Positions, InHandler, Dispatched, SendingAll, Elsewhere
<1>4. \A q \in {"wait", "after", "closing", "exited"} : [pc |-> q] \in Elsewhere
  BY DEF Elsewhere
<1> QED BY <1>1, <1>2, <1>3, <1>4 DEF Positions

\* A thread that moves on with the packet in its hand still has one.
LEMMA HandlerMoves ==
  ASSUME NEW x \in InHandler
  PROVE  /\ \A q \in {"arrival", "useData", "gotFIN", "setState"} :
              [x EXCEPT !.pc = q] \in InHandler
         /\ \A s \in Seq(Int) : [x EXCEPT !.rest = s] \in InHandler
BY DEF InHandler

\* The loop over pending_packets preserves the types.
LEMMA ArrivalTypes ==
  ASSUME Typed, NEW e \in Endpoints,
         StartArrival(e) \/ EndArrival(e) \/ RejectPacket(e) \/ AcceptPacket(e) \/ LastAcked(e)
  PROVE  Typed'
<1>0. /\ tcb[e] \in ControlBlocks /\ thread[e] \in Positions /\ <<>> \in Seq(Packets)
      /\ tcp_state[e] \in States
  BY DEF Typed
<1>1. CASE StartArrival(e)
  <2>1. flags' \in [Endpoints -> SUBSET FlagSet]
    BY <1>1, TakingTypes DEF StartArrival, Typed
  <2>2. [pc |-> "arrival", handler |-> tcp_state[e]] \in Positions
    BY <1>1 DEF StartArrival, Positions, Dispatched
  <2>3. thread' \in [Endpoints -> Positions]
    BY <1>1, <2>2 DEF StartArrival, Typed
  <2>4. UNCHANGED <<tcpVars, queues, requests>>
    BY <1>1 DEF StartArrival
  <2> QED BY <2>1, <2>3, <2>4 DEF Typed, tcpVars, queues, requests
<1>2. CASE EndArrival(e)
  <2>1. thread' \in [Endpoints -> Positions]
    BY <1>0, <1>2, PositionTypes DEF EndArrival, Goto, Typed
  <2>2. UNCHANGED <<tcpVars, queues, flags, requests>>
    BY <1>2 DEF EndArrival
  <2> QED BY <2>1, <2>2 DEF Typed, tcpVars, queues, requests
<1>3. CASE RejectPacket(e)
  <2>1. thread' \in [Endpoints -> Positions]
    BY <1>0, <1>3, PositionTypes DEF RejectPacket, Goto, Typed
  <2>2. pending' \in [Endpoints -> Seq(Packets)]
    BY <1>3, FetchType DEF RejectPacket, MoreToProcess, Typed
  <2>3. ACK(tcb[e]) \in Packets
    BY <1>0, PacketTypes, EmptySeq
  <2>4. net' \in [Endpoints -> Seq(Packets)]
    BY <1>3, <2>3, TransmitType DEF RejectPacket, Typed
  <2>5. UNCHANGED <<tcpVars, withheld, raising, flags, requests>>
    BY <1>3 DEF RejectPacket
  <2> QED BY <2>1, <2>2, <2>4, <2>5 DEF Typed, tcpVars, requests
<1>4. CASE AcceptPacket(e)
  <2> DEFINE p == Head(pending[e])
             handler == thread[e].handler
             q == Next_pc(handler, p)
  <2>1. p \in Packets /\ pending' \in [Endpoints -> Seq(Packets)]
    BY <1>4, FetchType DEF AcceptPacket, MoreToProcess, Typed
  <2>2. handler \in ArrivalStates
    BY <1>0, <1>4, PositionTypes DEF AcceptPacket, InArrival
  <2>3. [pc |-> q, handler |-> handler, packet |-> p, rest |-> p.data] \in Positions
    <3>1. q \in {"arrival", "useData", "gotFIN", "setState"}
      BY DEF Next_pc
    <3>2. p.data \in Seq(Int)
      BY <2>1 DEF Packets
    <3> HIDE DEF p, handler, q
    <3> QED BY <2>1, <2>2, <3>1, <3>2 DEF Positions, InHandler
  <2>4. thread' \in [Endpoints -> Positions]
    BY <1>4, <2>3 DEF AcceptPacket, Typed
  <2>5. tcb' \in [Endpoints -> ControlBlocks]
    <3>1. p.ack_seq \in Int /\ p.win \in Int
      BY <2>1 DEF Packets
    <3>2. update_WND_and_UNA(tcb[e], p) \in ControlBlocks
      <4> HIDE DEF p
      <4> QED BY <1>0, <3>1 DEF update_WND_and_UNA, ControlBlocks
    <3>3. UNCHANGED tcb \/ tcb' = [tcb EXCEPT ![e] = update_WND_and_UNA(tcb[e], p)]
      BY <1>4 DEF AcceptPacket
    <3>4. \E u \in ControlBlocks : tcb' = tcb \/ tcb' = [tcb EXCEPT ![e] = u]
      BY <1>0, <3>2, <3>3
    <3>5. tcb \in [Endpoints -> ControlBlocks]
      BY DEF Typed
    <3> QED BY <3>4, <3>5
  <2>6. tcp_state' \in [Endpoints -> States]
    <3>1. UNCHANGED tcp_state \/ SetState(e, AckedState(handler, tcp_state[e]))
      BY <1>4 DEF AcceptPacket
    <3>2. AckedState(handler, tcp_state[e]) \in States
      BY <1>0 DEF AckedState, States
    <3>3. \E s \in States : tcp_state' = tcp_state \/ tcp_state' = [tcp_state EXCEPT ![e] = s]
      BY <1>0, <3>1, <3>2 DEF SetState
    <3>4. tcp_state \in [Endpoints -> States]
      BY DEF Typed
    <3> QED BY <3>3, <3>4
  <2>7. UNCHANGED <<send, recv, shut, withheld, net, raising, flags, requests>>
    BY <1>4 DEF AcceptPacket
  <2> QED BY <2>1, <2>4, <2>5, <2>6, <2>7 DEF Typed, requests
<1>5. CASE LastAcked(e)
  <2>1. /\ pending' = [pending EXCEPT ![e] = <<>>]
        /\ withheld' = [withheld EXCEPT ![e] = <<>>]
        /\ SetState(e, "CLOSED")
        /\ flags' = [flags EXCEPT ![e] = @ \cup {"cleanup"}]
        /\ UNCHANGED <<tcb, send, recv, shut, net, raising, thread, requests>>
    BY <1>5 DEF LastAcked, HearsLastACK
  <2>2. "cleanup" \in FlagSet /\ "CLOSED" \in States
    BY FlagNames DEF States
  <2>3. thread' \in [Endpoints -> Positions]
    BY <1>0, <2>1, PositionTypes DEF Goto, Typed
  <2>4. flags' \in [Endpoints -> SUBSET FlagSet] /\ tcp_state' \in [Endpoints -> States]
    <3>1. flags[e] \cup {"cleanup"} \in SUBSET FlagSet
      BY <2>2 DEF Typed
    <3>2. flags' \in [Endpoints -> SUBSET FlagSet]
      BY <2>1, <3>1 DEF Typed
    <3>3. tcp_state' \in [Endpoints -> States]
      BY <2>1, <2>2 DEF SetState, Typed
    <3> QED BY <3>2, <3>3
  <2>5. pending' \in [Endpoints -> Seq(Packets)] /\ withheld' \in [Endpoints -> Seq(Packets)]
    BY <1>0, <2>1 DEF Typed
  <2> QED BY <2>1, <2>3, <2>4, <2>5 DEF Typed, requests
<1> QED BY <1>1, <1>2, <1>3, <1>4, <1>5

\* The handling of one packet preserves the types.
LEMMA HandlingTypes ==
  ASSUME Typed, NEW e \in Endpoints, use_data(e) \/ always_on_fb(e) \/ FinishFIN(e)
  PROVE  Typed'
<1> DEFINE x == thread[e]
<1>0. /\ tcb[e] \in ControlBlocks /\ x \in Positions /\ tcp_state[e] \in States
      /\ recv[e] \in Seq(Int)
  BY DEF Typed
<1>1. /\ x \in InHandler /\ x.handler \in ArrivalStates /\ x.packet \in Packets
      /\ x.rest \in Seq(Int)
  <2>1. x.pc \in {"useData", "gotFIN", "setState"}
    BY DEF use_data, always_on_fb, FinishFIN
  <2>2. x \in InHandler
    BY <1>0, <2>1, PositionTypes
  <2> QED BY <2>2 DEF InHandler
<1>2. ASSUME NEW q \in {"arrival", "gotFIN", "setState"}, thread' = [thread EXCEPT ![e].pc = q]
      PROVE  thread' \in [Endpoints -> Positions]
  <2>1. [x EXCEPT !.pc = q] \in Positions
    BY <1>1, HandlerMoves DEF Positions
  <2> QED BY <1>2, <2>1 DEF Typed
<1>3. ASSUME NEW t \in ControlBlocks, Written(e, t)
      PROVE  /\ tcb' \in [Endpoints -> ControlBlocks] /\ net' \in [Endpoints -> Seq(Packets)]
             /\ thread' \in [Endpoints -> Positions]
  <2>1. ACK(t) \in Packets
    BY PacketTypes, EmptySeq
  <2>2. net' \in [Endpoints -> Seq(Packets)]
    BY <1>3, <2>1, TransmitType DEF Written, Typed
  <2>3. thread' \in [Endpoints -> Positions]
    BY <1>2, <1>3 DEF Written
  <2> QED BY <1>3, <2>2, <2>3 DEF Written, Typed
<1>4. CASE use_data(e)
  <2> DEFINE rest == x.rest
             n == MIN(Room(e), Len(rest))
  <2>1. CASE Written(e, tcb[e]) /\ UNCHANGED recv
    <3>1. /\ tcb' \in [Endpoints -> ControlBlocks] /\ net' \in [Endpoints -> Seq(Packets)]
          /\ thread' \in [Endpoints -> Positions]
      BY <1>0, <1>3, <2>1
    <3>2. UNCHANGED <<tcp_state, send, shut, pending, withheld, raising, flags, requests>>
      BY <1>4 DEF use_data
    <3> QED BY <2>1, <3>1, <3>2 DEF Typed, requests
  <2>2. CASE /\ n > 0
             /\ recv' = [recv EXCEPT ![e] = @ \o SubSeq(rest, 1, n)]
             /\ IF n < Len(rest)
                  THEN /\ thread' = [thread EXCEPT ![e].rest = SubSeq(@, n + 1, Len(@))]
                       /\ UNCHANGED <<tcb, net>>
                  ELSE Written(e, Advance(tcb[e], Len(x.packet.data)))
    <3>0. n \in Int /\ n > 0 /\ n <= Len(rest) /\ Len(rest) \in Nat /\ rest \in Seq(Int)
      <4>1. rest \in Seq(Int) /\ Len(rest) \in Nat
        BY <1>1
      <4>2. Room(e) \in Int
        BY <1>0, SizeAssumption DEF Room
      <4> HIDE DEF rest
      <4> QED BY <4>1, <4>2, <2>2 DEF MIN
    <3>1. SubSeq(rest, 1, n) \in Seq(Int)
      BY <3>0
    <3>2. recv' \in [Endpoints -> Seq(Int)]
      <4>1. recv[e] \o SubSeq(rest, 1, n) \in Seq(Int)
        BY <1>0, <3>1
      <4> QED BY <2>2, <4>1 DEF Typed
    <3>3. CASE n < Len(rest)
      <4>1. SubSeq(rest, n + 1, Len(rest)) \in Seq(Int)
        BY <3>0
      <4>2. [x EXCEPT !.rest = SubSeq(rest, n + 1, Len(rest))] \in Positions
        BY <1>1, <4>1, HandlerMoves DEF Positions
      <4>3. thread' \in [Endpoints -> Positions]
        <5>1. thread' = [thread EXCEPT ![e] = [x EXCEPT !.rest = SubSeq(rest, n + 1, Len(rest))]]
          BY <2>2, <3>3
        <5>2. thread \in [Endpoints -> Positions]
          BY DEF Typed
        <5> HIDE DEF n, rest, x
        <5> QED BY <4>2, <5>1, <5>2
      <4>4. UNCHANGED <<tcp_state, send, shut, pending, withheld, raising, flags, requests, tcb,
                        net>>
        BY <1>4, <2>2, <3>3 DEF use_data
      <4> QED BY <3>2, <4>3, <4>4 DEF Typed, requests
    <3>4. CASE ~(n < Len(rest))
      <4> DEFINE t == Advance(tcb[e], Len(x.packet.data))
      <4>1. t \in ControlBlocks
        <5>1. Len(x.packet.data) \in Nat
          BY <1>1 DEF Packets
        <5> DEFINE w == Len(x.packet.data)
                   old == tcb[e]
        <5>2. /\ old.RCV_NXT + w \in Int /\ (old.RCV_WND - w) % Word \in Int
          <6>1. \A i \in Int : i % Word \in Int
            BY SizeAssumption
          <6>2. old.RCV_NXT \in Int /\ old.RCV_WND \in Int
            BY <1>0 DEF ControlBlocks
          <6> HIDE DEF w, old
          <6>3. w \in Int
            BY <5>1 DEF w
          <6> QED BY <6>1, <6>2, <6>3
        <5> HIDE DEF w, old
        <5>3. [old EXCEPT !.RCV_NXT = old.RCV_NXT + w] \in ControlBlocks
          BY <1>0, <5>2, FieldTypes DEF old
        <5>4. [[old EXCEPT !.RCV_NXT = old.RCV_NXT + w]
                 EXCEPT !.RCV_WND = (old.RCV_WND - w) % Word] \in ControlBlocks
          BY <5>2, <5>3, FieldTypes
        <5>5. [old EXCEPT !.RCV_NXT = old.RCV_NXT + w].RCV_WND = old.RCV_WND
          BY <1>0 DEF ControlBlocks, old
        <5>6. t = [[old EXCEPT !.RCV_NXT = old.RCV_NXT + w]
                     EXCEPT !.RCV_WND = (old.RCV_WND - w) % Word]
          BY <5>5 DEF Advance, old, w
        <5> QED BY <5>4, <5>6
      <4>2. Written(e, t)
        BY <2>2, <3>4
      <4>3. /\ tcb' \in [Endpoints -> ControlBlocks] /\ net' \in [Endpoints -> Seq(Packets)]
            /\ thread' \in [Endpoints -> Positions]
        BY <1>3, <4>1, <4>2
      <4>4. UNCHANGED <<tcp_state, send, shut, pending, withheld, raising, flags, requests>>
        BY <1>4 DEF use_data
      <4> QED BY <3>2, <4>3, <4>4 DEF Typed, requests
    <3> QED BY <3>3, <3>4
  <2> QED BY <1>4, <2>1, <2>2 DEF use_data
<1>5. CASE always_on_fb(e)
  <2> DEFINE t == [tcb[e] EXCEPT !.RCV_NXT = x.packet.seq]
  <2>1. t \in ControlBlocks
    BY <1>0, <1>1, FieldTypes DEF Packets
  <2>2. ACK(t) \in Packets
    BY <2>1, PacketTypes, EmptySeq
  <2>3. tcb' = [tcb EXCEPT ![e] = t] /\ Transmit(e, ACK(t))
    BY <1>5 DEF always_on_fb
  <2>4. net' \in [Endpoints -> Seq(Packets)]
    BY <2>2, <2>3, TransmitType DEF Typed
  <2>5. tcb' \in [Endpoints -> ControlBlocks]
    BY <2>1, <2>3 DEF Typed
  <2>6. thread' \in [Endpoints -> Positions]
    BY <1>2, <1>5 DEF always_on_fb
  <2>7. shut' \in [Endpoints -> SUBSET {"send", "recv"}]
    BY <1>5 DEF always_on_fb, Typed
  <2>8. UNCHANGED <<tcp_state, send, recv, pending, withheld, raising, flags, requests>>
    BY <1>5 DEF always_on_fb
  <2> QED BY <2>4, <2>5, <2>6, <2>7, <2>8 DEF Typed, requests
<1>6. CASE FinishFIN(e)
  <2>1. thread' \in [Endpoints -> Positions]
    BY <1>2, <1>6 DEF FinishFIN
  <2>2. FinState(x.handler, tcp_state[e], tcb[e], x.packet) \in States
    BY <1>0 DEF FinState, States
  <2>3. tcp_state' \in [Endpoints -> States]
    BY <1>6, <2>2 DEF FinishFIN, SetState, Typed
  <2>4. UNCHANGED <<tcb, send, recv, shut, queues, flags, requests>>
    BY <1>6 DEF FinishFIN
  <2> QED BY <2>1, <2>3, <2>4 DEF Typed, queues, requests
<1> QED BY <1>4, <1>5, <1>6

\* The other steps of the event loop preserve the types.
LEMMA ThreadTypes ==
  ASSUME Typed, NEW e \in Endpoints,
         \/ Cleanup(e) \/ AfterArrival(e) \/ Receive(e) \/ Send(e) \/ StartClose(e)
         \/ EndSendAll(e) \/ FinishClose(e) \/ (\E f \in FlagSet : Ignore(e, f))
  PROVE  Typed'
<1>0. /\ tcb[e] \in ControlBlocks /\ thread[e] \in Positions
      /\ tcb \in [Endpoints -> ControlBlocks] /\ thread \in [Endpoints -> Positions]
      /\ flags \in [Endpoints -> SUBSET FlagSet] /\ tcp_state \in [Endpoints -> States]
  BY DEF Typed
<1>1. ASSUME NEW q \in {"wait", "after", "closing", "exited"}, Goto(e, q)
      PROVE  thread' \in [Endpoints -> Positions]
  <2>1. [pc |-> q] \in Positions
    BY <1>0, PositionTypes
  <2> QED BY <1>0, <1>1, <2>1 DEF Goto
<1>2. ASSUME thread' = [thread EXCEPT ![e] = Idle] PROVE thread' \in [Endpoints -> Positions]
  BY <1>1, <1>2 DEF Goto, Idle
<1>3. CASE Cleanup(e)
  <2>1. thread' \in [Endpoints -> Positions]
    BY <1>1, <1>3 DEF Cleanup
  <2>2. flags' \in [Endpoints -> SUBSET FlagSet]
    BY <1>0, <1>3, TakingTypes DEF Cleanup
  <2>3. UNCHANGED <<tcpVars, queues, requests>>
    BY <1>3 DEF Cleanup
  <2> QED BY <2>1, <2>2, <2>3 DEF Typed, tcpVars, queues, requests
<1>4. CASE AfterArrival(e)
  <2>1. thread' \in [Endpoints -> Positions]
    BY <1>2, <1>4 DEF AfterArrival
  <2>2. flags' \in [Endpoints -> SUBSET FlagSet]
    <3>1. flags[e] \cup {"net_recv"} \in SUBSET FlagSet
      BY <1>0, FlagNames
    <3>2. \E S \in SUBSET FlagSet : flags' = [flags EXCEPT ![e] = S]
      BY <1>0, <1>4, <3>1 DEF AfterArrival, RaiseAgain
    <3> QED BY <1>0, <3>2
  <2>3. UNCHANGED <<tcpVars, queues, requests>>
    BY <1>4 DEF AfterArrival
  <2> QED BY <2>1, <2>2, <2>3 DEF Typed, tcpVars, queues, requests
<1>5. CASE Receive(e)
  <2>1. flags' \in [Endpoints -> SUBSET FlagSet]
    BY <1>0, <1>5, TakingTypes DEF Receive
  <2>2. Room(e) \in Int
    BY SizeAssumption DEF Room, Typed
  <2>3. tcb' \in [Endpoints -> ControlBlocks]
    <3>1. [tcb[e] EXCEPT !.RCV_WND = Room(e)] \in ControlBlocks
      BY <1>0, <2>2, FieldTypes
    <3> QED BY <1>0, <1>5, <3>1 DEF Receive
  <2>4. UNCHANGED <<tcp_state, send, recv, shut, queues, thread, requests>>
    BY <1>5 DEF Receive
  <2> QED BY <2>1, <2>3, <2>4 DEF Typed, queues, requests
<1>6. ASSUME NEW f, StartSendAll(e, f) PROVE Typed'
  <2>1. flags' \in [Endpoints -> SUBSET FlagSet] /\ f \in FlagSet
    BY <1>0, <1>6, Taking, TakingTypes DEF StartSendAll
  <2> DEFINE t == tcb[e]
             allowed == t.SND_UNA + t.SND_WND - t.SND_NXT
             n == ToSend(allowed, t, Len(send[e]))
  <2>2. t.SND_WND \in Int /\ allowed \in Int
    BY <1>0 DEF ControlBlocks
  <2>3. n \in Int
    <3>1. Len(send[e]) \in Int /\ MSS \in Int
      BY SizeAssumption DEF Typed
    <3> HIDE DEF t, allowed
    <3> QED BY <2>2, <3>1 DEF ToSend, MIN
  <2>4. [pc |-> "sendAll", event |-> f, allowed |-> allowed, toSend |-> n] \in Positions
    <3> HIDE DEF t, allowed, n
    <3> QED BY <2>1, <2>2, <2>3 DEF Positions, SendingAll
  <2>5. thread' = [thread EXCEPT ![e] =
           [pc |-> "sendAll", event |-> f, allowed |-> allowed, toSend |-> n]]
    BY <1>6 DEF StartSendAll
  <2>6. thread' \in [Endpoints -> Positions]
    BY <1>0, <2>4, <2>5
  <2>7. UNCHANGED <<tcpVars, queues, requests>>
    BY <1>6 DEF StartSendAll
  <2> QED BY <2>1, <2>6, <2>7 DEF Typed, tcpVars, queues, requests
<1>7. CASE Send(e) \/ StartClose(e)
  BY <1>6, <1>7 DEF Send, StartClose
<1>8. CASE EndSendAll(e)
  <2>1. thread' \in [Endpoints -> Positions]
    BY <1>2, <1>8 DEF EndSendAll
  <2>2. UNCHANGED <<tcpVars, queues, flags, requests>>
    BY <1>8 DEF EndSendAll
  <2> QED BY <2>1, <2>2 DEF Typed, tcpVars, queues, requests
<1>9. CASE FinishClose(e)
  <2>1. thread' \in [Endpoints -> Positions]
    BY <1>2, <1>9 DEF FinishClose
  <2>2. tcp_state' \in [Endpoints -> States]
    <3>1. "FIN_WAIT_1" \in States /\ "LAST_ACK" \in States
      BY DEF States
    <3> QED BY <1>0, <1>9, <3>1 DEF FinishClose, SetState
  <2>3. UNCHANGED <<tcb, send, recv, shut, queues, flags, requests>>
    BY <1>9 DEF FinishClose
  <2> QED BY <2>1, <2>2, <2>3 DEF Typed, queues, requests
<1>10. ASSUME NEW f \in FlagSet, Ignore(e, f) PROVE Typed'
  <2>1. thread' \in [Endpoints -> Positions]
    BY <1>1, <1>10 DEF Ignore
  <2>2. flags' \in [Endpoints -> SUBSET FlagSet]
    BY <1>0, <1>10, TakingTypes DEF Ignore
  <2>3. UNCHANGED <<tcpVars, queues, requests>>
    BY <1>10 DEF Ignore
  <2> QED BY <2>1, <2>2, <2>3 DEF Typed, tcpVars, queues, requests
<1> QED BY <1>3, <1>4, <1>5, <1>7, <1>8, <1>9, <1>10

\* send_all and the FIN after it preserve the types.
LEMMA SegmentTypes ==
  ASSUME Typed, NEW e \in Endpoints, SendSegment(e) \/ SendFIN(e)
  PROVE  Typed'
<1>0. /\ tcb[e] \in ControlBlocks /\ send[e] \in Seq(Int)
      /\ tcb \in [Endpoints -> ControlBlocks] /\ thread \in [Endpoints -> Positions]
      /\ net \in [Endpoints -> Seq(Packets)] /\ send \in [Endpoints -> Seq(Int)]
      /\ shut \in [Endpoints -> SUBSET {"send", "recv"}] /\ <<>> \in Seq(Int)
  BY DEF Typed
<1>1. thread[e] \in SendingAll
  BY <1>0, PositionTypes DEF SendSegment, SendFIN
<1>2. CASE SendSegment(e)
  <2> DEFINE n == MIN(thread[e].toSend, Len(send[e]))
             old == tcb[e]
             t == [old EXCEPT !.SND_NXT = @ + n, !.SND_WND = @ - n]
             left == Removed(send[e], n)
             more == ToSend(thread[e].allowed, t, Len(left))
             bytes == SubSeq(send[e], 1, n)
  <2>1. n \in Int /\ n > 0 /\ n <= Len(send[e]) /\ Len(send[e]) \in Nat
    <3>1. thread[e].toSend \in Int /\ thread[e].toSend > 0
      BY <1>1, <1>2 DEF SendSegment, SendAllGoesOn, SendingAll
    <3>2. Len(send[e]) \in Nat /\ Len(send[e]) > 0
      BY <1>0, <1>2, EmptySeq DEF SendSegment, SendAllGoesOn
    <3> QED BY <3>1, <3>2 DEF MIN
  <2>2. left \in Seq(Int) /\ bytes \in Seq(Int)
    <3> HIDE DEF n
    <3> QED BY <1>0, <2>1 DEF Removed
  <2>3. t \in ControlBlocks
    <3> HIDE DEF n, old
    <3>1. old \in ControlBlocks
      BY <1>0 DEF old
    <3>2. old.SND_NXT + n \in Int /\ old.SND_WND - n \in Int
      BY <2>1, <3>1 DEF ControlBlocks
    <3>3. [old EXCEPT !.SND_NXT = old.SND_NXT + n] \in ControlBlocks
      BY <3>1, <3>2, FieldTypes
    <3>4. [[old EXCEPT !.SND_NXT = old.SND_NXT + n] EXCEPT !.SND_WND = old.SND_WND - n]
             \in ControlBlocks
      BY <3>2, <3>3, FieldTypes
    <3>5. [old EXCEPT !.SND_NXT = old.SND_NXT + n].SND_WND = old.SND_WND
      BY <3>1 DEF ControlBlocks
    <3>6. t = [[old EXCEPT !.SND_NXT = old.SND_NXT + n] EXCEPT !.SND_WND = old.SND_WND - n]
      BY <3>5
    <3> QED BY <3>4, <3>6
  <2>4. more \in Int
    <3>1. Len(left) \in Int /\ MSS \in Int /\ thread[e].allowed \in Int
      BY <1>1, <2>2, SizeAssumption DEF SendingAll
    <3>2. t.SND_WND \in Int
      BY <2>3 DEF ControlBlocks
    <3> HIDE DEF left, t
    <3> QED BY <3>1, <3>2 DEF ToSend, MIN
  <2>5. /\ send' = [send EXCEPT ![e] = left]
        /\ Transmit(e, Segment(tcb[e], bytes))
        /\ tcb' = [tcb EXCEPT ![e] = t]
        /\ thread' = [thread EXCEPT ![e].toSend = more]
    BY <1>2 DEF SendSegment
  <2>6. UNCHANGED <<tcp_state, recv, shut, pending, withheld, raising, flags, writer, reader, sent>>
    BY <1>2 DEF SendSegment
  <2> HIDE DEF left, t, more, bytes
  <2>7. Segment(tcb[e], bytes) \in Packets
    BY <1>0, <2>2, PacketTypes
  <2>8. net' \in [Endpoints -> Seq(Packets)]
    BY <1>0, <2>5, <2>7, TransmitType
  <2>9. [thread[e] EXCEPT !.toSend = more] \in Positions
    BY <1>1, <2>4 DEF SendingAll, Positions
  <2>10. /\ send' \in [Endpoints -> Seq(Int)]
         /\ tcb' \in [Endpoints -> ControlBlocks]
         /\ thread' \in [Endpoints -> Positions]
    BY <1>0, <2>2, <2>3, <2>5, <2>9
  <2> QED BY <2>6, <2>8, <2>10 DEF Typed
<1>3. CASE SendFIN(e)
  <2>1. FIN(e, tcb[e]) \in Packets
    BY <1>0, PacketTypes
  <2>2. net' \in [Endpoints -> Seq(Packets)]
    BY <1>0, <1>3, <2>1, TransmitType DEF SendFIN
  <2>3. [pc |-> "closing"] \in Positions
    BY DEF Positions, Elsewhere
  <2>4. thread' \in [Endpoints -> Positions]
    BY <1>0, <1>3, <2>3 DEF SendFIN, Goto
  <2>5. shut' \in [Endpoints -> SUBSET {"send", "recv"}]
    BY <1>0, <1>3 DEF SendFIN
  <2>6. UNCHANGED <<tcp_state, tcb, send, recv, pending, withheld, raising, flags, requests>>
    BY <1>3 DEF SendFIN
  <2> QED BY <2>2, <2>4, <2>5, <2>6 DEF Typed, requests
<1> QED BY <1>2, <1>3

\* The network thread preserves the types.
LEMMA NetworkTypes ==
  ASSUME Typed, NEW e \in Endpoints, NetworkThread(e)
  PROVE  Typed'
<1>0. /\ net \in [Endpoints -> Seq(Packets)] /\ pending \in [Endpoints -> Seq(Packets)]
      /\ withheld \in [Endpoints -> Seq(Packets)] /\ raising \in [Endpoints -> BOOLEAN]
      /\ flags \in [Endpoints -> SUBSET FlagSet]
      /\ net[e] \in Seq(Packets) /\ pending[e] \in Seq(Packets) /\ withheld[e] \in Seq(Packets)
  BY DEF Typed
<1>1. ASSUME NEW r, Enqueue(e, r) PROVE Typed'
  <2> DEFINE p == Head(net[e])
             k == MIN(1, Len(withheld[e]))
             taking == SubSeq(withheld[e], 1, k)
             drawn == IF r = "DRAW_WITHHELD" THEN taking ELSE <<>>
  <2>1. p \in Packets /\ Tail(net[e]) \in Seq(Packets)
    BY <1>0, <1>1 DEF Enqueue
  <2>2. drawn \in Seq(Packets) /\ Len(drawn) \in Nat
    <3>1. k \in 0 .. Len(withheld[e])
      BY <1>0 DEF MIN
    <3>2. taking \in Seq(Packets)
      <4> HIDE DEF k
      <4> QED BY <1>0, <3>1
    <3> QED BY <3>2
  <2>3. /\ net' = [net EXCEPT ![e] = Tail(@)]
        /\ pending' = [pending EXCEPT ![e] =
              IF r \in {"DROP", "WITHHOLD"} THEN @ ELSE @ \o drawn \o <<p>>]
        /\ withheld' = [withheld EXCEPT ![e] =
              IF r = "WITHHOLD" THEN Append(@, p) ELSE SubSeq(@, Len(drawn) + 1, Len(@))]
        /\ raising' = [raising EXCEPT ![e] = r \notin {"DROP", "WITHHOLD"}]
        /\ UNCHANGED <<tcpVars, flags, thread, requests>>
    BY <1>1 DEF Enqueue
  <2> HIDE DEF p, drawn
  <2>4. pending[e] \o drawn \o <<p>> \in Seq(Packets)
    BY <1>0, <2>1, <2>2
  <2>5. /\ Append(withheld[e], p) \in Seq(Packets)
        /\ SubSeq(withheld[e], Len(drawn) + 1, Len(withheld[e])) \in Seq(Packets)
    BY <1>0, <2>1, <2>2
  <2>6. net' \in [Endpoints -> Seq(Packets)]
    BY <1>0, <2>1, <2>3
  <2>7. pending' \in [Endpoints -> Seq(Packets)]
    BY <1>0, <2>3, <2>4
  <2>8. withheld' \in [Endpoints -> Seq(Packets)]
    BY <1>0, <2>3, <2>5
  <2>9. raising' \in [Endpoints -> BOOLEAN]
    BY <1>0, <2>3
  <2> QED BY <2>3, <2>6, <2>7, <2>8, <2>9 DEF Typed, tcpVars, requests
<1>2. CASE RaiseNetRecv(e)
  <2>1. flags[e] \cup {"net_recv"} \in SUBSET FlagSet
    BY <1>0, FlagNames
  <2>2. flags' \in [Endpoints -> SUBSET FlagSet]
    BY <1>0, <1>2, <2>1 DEF RaiseNetRecv
  <2>3. raising' \in [Endpoints -> BOOLEAN]
    BY <1>0, <1>2 DEF RaiseNetRecv
  <2>4. UNCHANGED <<tcpVars, pending, withheld, net, thread, requests>>
    BY <1>2 DEF RaiseNetRecv
  <2> QED BY <2>2, <2>3, <2>4 DEF Typed, tcpVars, requests
<1> QED BY <1>1, <1>2 DEF NetworkThread

\* SEND, RECV and CLOSE requests preserve the types.
LEMMA RequestTypes ==
  ASSUME Typed, NEW e \in Endpoints,
         (\E n \in SendSizes : SendCall(e, n)) \/ Sending(e) \/ Receiving(e) \/ Closing(e)
  PROVE  Typed'
<1> DEFINE Writers == [pc : {"none", "writing", "notify"}, left : Int]
           Readers == [pc : {"none", "reading", "notify", "zero"}, left : Nat]
<1>0. /\ writer \in [Endpoints -> Writers] /\ reader \in [Endpoints -> Readers]
      /\ writer[e] \in Writers /\ reader[e] \in Readers
      /\ flags \in [Endpoints -> SUBSET FlagSet] /\ sent \in [Endpoints -> Int] /\ sent[e] \in Int
      /\ send \in [Endpoints -> Seq(Int)] /\ recv \in [Endpoints -> Seq(Int)]
      /\ send[e] \in Seq(Int) /\ recv[e] \in Seq(Int)
  BY DEF Typed
<1>f. ASSUME NEW f \in FlagSet, \/ UNCHANGED flags
                                \/ flags' = [flags EXCEPT ![e] = @ \cup {f}]
      PROVE  flags' \in [Endpoints -> SUBSET FlagSet]
  <2>1. flags[e] \cup {f} \in SUBSET FlagSet
    BY <1>0
  <2> QED BY <1>0, <1>f, <2>1
<1>g. "app_send" \in FlagSet /\ "app_recv" \in FlagSet /\ "app_close" \in FlagSet
  BY FlagNames
<1>1. ASSUME NEW n \in SendSizes, SendCall(e, n) PROVE Typed'
  <2>1. MIN(n, BufSize) \in Int
    BY SizeAssumption DEF MIN
  <2>2. /\ [pc |-> "notify", left |-> 0] \in Writers
        /\ [pc |-> "writing", left |-> MIN(n, BufSize)] \in Writers
    BY <2>1
  <2>3. writer' \in [Endpoints -> Writers]
    <3>1. writer' = [writer EXCEPT ![e] = [pc |-> "notify", left |-> 0]]
          \/ writer' = [writer EXCEPT ![e] = [pc |-> "writing", left |-> MIN(n, BufSize)]]
      BY <1>1 DEF SendCall
    <3> HIDE DEF Writers
    <3> QED BY <1>0, <2>2, <3>1
  <2>4. UNCHANGED <<tcpVars, queues, flags, thread, reader, closer, sent, taken, overran>>
    BY <1>1 DEF SendCall
  <2> QED BY <2>3, <2>4 DEF Typed, tcpVars, queues
<1>2. CASE SendPut(e)
  <2> DEFINE n == MIN(BufSize - Len(send[e]), writer[e].left)
             new == [i \in 1 .. n |-> sent[e] + i]
  <2>1. n \in Int /\ n > 0 /\ writer[e].left \in Int
    BY <1>0, <1>2, SizeAssumption DEF SendPut, MIN
  <2> HIDE DEF n
  <2>2. new \in Seq(Int)
    BY <1>0, <2>1
  <2> HIDE DEF new
  <2>3. send[e] \o new \in Seq(Int)
    BY <1>0, <2>2
  <2>4. \/ UNCHANGED <<send, sent>>
        \/ send' = [send EXCEPT ![e] = @ \o new] /\ sent' = [sent EXCEPT ![e] = @ + n]
    BY <1>2 DEF SendPut, n, new
  <2>5. \E q \in {"notify", "writing"}, j \in Int :
           writer' = [writer EXCEPT ![e] = [pc |-> q, left |-> j]]
    <3>1. writer[e].left - n \in Int
      BY <2>1
    <3> QED BY <1>0, <1>2, <3>1 DEF SendPut, n
  <2>6. writer' \in [Endpoints -> Writers]
    BY <1>0, <2>5
  <2>7. send' \in [Endpoints -> Seq(Int)]
    BY <1>0, <2>3, <2>4
  <2>8. sent' \in [Endpoints -> Int]
    BY <1>0, <2>1, <2>4
  <2>9. UNCHANGED <<tcp_state, tcb, recv, shut, queues, flags, thread, reader, closer, taken,
                    overran>>
    BY <1>2 DEF SendPut
  <2> QED BY <2>6, <2>7, <2>8, <2>9 DEF Typed, queues
<1>3. CASE SendReturn(e)
  <2>1. flags' \in [Endpoints -> SUBSET FlagSet]
    <3>1. UNCHANGED flags \/ flags' = [flags EXCEPT ![e] = @ \cup {"app_send"}]
      BY <1>0, <1>3 DEF SendReturn, NotifySend
    <3> QED BY <1>f, <1>g, <3>1
  <2>2. writer' \in [Endpoints -> Writers]
    BY <1>0, <1>3 DEF SendReturn, NoRequest
  <2>3. UNCHANGED <<tcpVars, queues, thread, reader, closer, sent, taken, overran>>
    BY <1>3 DEF SendReturn
  <2> QED BY <2>1, <2>2, <2>3 DEF Typed, tcpVars, queues
<1>4. ASSUME NEW n \in RecvSizes, RecvCall(e, n) PROVE Typed'
  <2>1. n \in Nat
    BY SizeAssumption
  <2>2. reader' \in [Endpoints -> Readers]
    BY <1>0, <1>4, <2>1 DEF RecvCall
  <2>3. UNCHANGED <<tcpVars, queues, flags, thread, writer, closer, sent, taken, overran>>
    BY <1>4 DEF RecvCall
  <2> QED BY <2>2, <2>3 DEF Typed, tcpVars, queues
<1>5. CASE RecvTake(e)
  <2> DEFINE n == MIN(reader[e].left, Len(recv[e]))
  <2>1. n \in Int /\ Len(recv[e]) \in Nat
    BY <1>0 DEF MIN
  <2>2. \/ UNCHANGED recv
        \/ recv' = [recv EXCEPT ![e] = SubSeq(@, n + 1, Len(@))]
    BY <1>5 DEF RecvTake
  <2>3. \/ reader' = [reader EXCEPT ![e].pc = "zero"]
        \/ reader' = [reader EXCEPT ![e].pc = "notify"]
    BY <1>5 DEF RecvTake
  <2>4. /\ [reader[e] EXCEPT !.pc = "zero"] \in Readers
        /\ [reader[e] EXCEPT !.pc = "notify"] \in Readers
    BY <1>0
  <2>5. reader' \in [Endpoints -> Readers]
    BY <1>0, <2>3, <2>4
  <2>6. recv' \in [Endpoints -> Seq(Int)]
    <3>0. n \in Nat
      BY <1>0 DEF MIN
    <3> HIDE DEF n
    <3>1. SubSeq(recv[e], n + 1, Len(recv[e])) \in Seq(Int)
      BY <1>0, <2>1, <3>0
    <3> HIDE DEF Readers
    <3> QED BY <1>0, <2>2, <3>1
  <2>7. UNCHANGED <<tcp_state, tcb, send, shut, queues, flags, thread, writer, closer, sent,
                    overran>>
    BY <1>5 DEF RecvTake
  <2> QED BY <2>5, <2>6, <2>7 DEF Typed, queues
<1>6. CASE RecvReturn(e)
  <2>1. flags' \in [Endpoints -> SUBSET FlagSet]
    <3>1. UNCHANGED flags \/ flags' = [flags EXCEPT ![e] = @ \cup {"app_recv"}]
      BY <1>0, <1>6 DEF RecvReturn
    <3> QED BY <1>f, <1>g, <3>1
  <2>2. reader' \in [Endpoints -> Readers]
    BY <1>0, <1>6 DEF RecvReturn, NoRequest
  <2>3. UNCHANGED <<tcpVars, queues, thread, writer, closer, sent, taken, overran>>
    BY <1>6 DEF RecvReturn
  <2> QED BY <2>1, <2>2, <2>3 DEF Typed, tcpVars, queues
<1>7. CASE CloseCall(e)
  <2>1. flags' \in [Endpoints -> SUBSET FlagSet]
    BY <1>f, <1>g, <1>7 DEF CloseCall
  <2>2. UNCHANGED <<tcpVars, queues, thread, writer, reader, sent, taken, overran>>
    BY <1>7 DEF CloseCall
  <2> QED BY <2>1, <2>2 DEF Typed, tcpVars, queues
<1>8. CASE CloseReturn(e)
  <2>1. UNCHANGED <<tcpVars, queues, flags, thread, writer, reader, sent, taken, overran>>
    BY <1>8 DEF CloseReturn
  <2> QED BY <2>1 DEF Typed, tcpVars, queues
<1> QED BY <1>1, <1>2, <1>3, <1>4, <1>5, <1>6, <1>7, <1>8 DEF Sending, Receiving, Closing

\* Every step of an endpoint preserves the types.
LEMMA TypedBy ==
  ASSUME Typed, NEW e \in Endpoints, Step(e)
  PROVE  Typed'
<1>1. CASE TcpThread(e)
  BY <1>1, HandshakeTypes, ArrivalTypes, HandlingTypes, ThreadTypes, SegmentTypes DEF TcpThread
<1>2. CASE NetworkThread(e)
  BY <1>2, NetworkTypes
<1> QED BY <1>1, <1>2, RequestTypes DEF Step

\* A daemon that aborts changes nothing but that.
LEMMA StepOrStill == [Next]_vars => (\E e \in Endpoints : Step(e)) \/ UNCHANGED live
BY DEF Next, Alive, Aborts, vars

-----------------------------------------------------------------------------
(* A step of one endpoint leaves the other alone *)

\* What another thread can see of an endpoint.
Mine(e) == <<tcp_state[e], shut[e], pending[e], flags[e], thread[e], raising[e]>>

\* A step of one endpoint changes nothing of the other one but what is on its way to it.
LEMMA OwnState ==
  ASSUME Typed, NEW e \in Endpoints, Step(e), NEW d \in Endpoints, d # e
  PROVE  UNCHANGED Mine(d)
<1>0. ASSUME NEW f, Take(e, f) PROVE flags'[d] = flags[d]
  BY <1>0, Taking DEF Typed
<1>1. CASE Connect(e) \/ ListenArrival(e) \/ SynRcvdArrival(e) \/ SynSentArrival(e)
  <2>1. ASSUME NEW s, Arrival(e, s) PROVE flags'[d] = flags[d]
    BY <1>0, <2>1 DEF Arrival
  <2>2. CASE Connect(e)
    <3>1. flags'[d] = flags[d]
      BY <1>0, <2>2 DEF Connect
    <3> QED BY <2>2, <3>1 DEF Connect, SetState, Mine, Typed
  <2>3. CASE ListenArrival(e)
    <3>1. tcp_state'[d] = tcp_state[d]
      BY <2>3 DEF ListenArrival, SetState, Typed
    <3> QED BY <2>1, <2>3, <3>1 DEF ListenArrival, Arrival, Fetch, Goto, Mine, Typed
  <2>4. CASE SynRcvdArrival(e)
    <3>1. tcp_state'[d] = tcp_state[d]
      BY <2>4 DEF SynRcvdArrival, SetState, Typed
    <3> QED BY <2>1, <2>4, <3>1 DEF SynRcvdArrival, Arrival, Fetch, Goto, Mine, Typed
  <2>5. CASE SynSentArrival(e)
    <3>1. tcp_state'[d] = tcp_state[d]
      BY <2>5 DEF SynSentArrival, SetState, Typed
    <3> QED BY <2>1, <2>5, <3>1 DEF SynSentArrival, Arrival, Fetch, Goto, Mine, Typed
  <2> QED BY <1>1, <2>2, <2>3, <2>4, <2>5
<1>2. CASE StartArrival(e)
  BY <1>0, <1>2 DEF StartArrival, tcpVars, queues, Mine, Typed
<1>3. CASE EndArrival(e) \/ RejectPacket(e)
  BY <1>3 DEF EndArrival, RejectPacket, Goto, Fetch, tcpVars, queues, Mine, Typed
<1>4. CASE AcceptPacket(e)
  <2>1. tcp_state'[d] = tcp_state[d]
    BY <1>4 DEF AcceptPacket, SetState, Typed
  <2> QED BY <1>4, <2>1 DEF AcceptPacket, Fetch, Mine, Typed
<1>5. CASE use_data(e)
  <2>1. thread'[d] = thread[d]
    BY <1>5 DEF use_data, Written, Typed
  <2> QED BY <1>5, <2>1 DEF use_data, Mine
<1>6. CASE always_on_fb(e) \/ FinishFIN(e)
  BY <1>6 DEF always_on_fb, FinishFIN, SetState, queues, Mine, Typed
<1>7. CASE LastAcked(e)
  BY <1>7 DEF LastAcked, HearsLastACK, SetState, Goto, Mine, Typed
<1>8. CASE Cleanup(e) \/ AfterArrival(e)
  BY <1>0, <1>8 DEF Cleanup, AfterArrival, RaiseAgain, Goto, tcpVars, queues, Mine, Typed
<1>9. CASE Receive(e)
  BY <1>0, <1>9 DEF Receive, queues, Mine, Typed
<1>10. CASE Send(e) \/ StartClose(e)
  BY <1>0, <1>10 DEF Send, StartClose, StartSendAll, tcpVars, queues, Mine, Typed
<1>11. CASE SendSegment(e) \/ EndSendAll(e)
  <2>1. thread'[d] = thread[d]
    BY <1>11 DEF SendSegment, EndSendAll, Typed
  <2> QED BY <1>11, <2>1 DEF SendSegment, EndSendAll, tcpVars, queues, Mine
<1>12. CASE SendFIN(e) \/ FinishClose(e)
  BY <1>12 DEF SendFIN, FinishClose, SetState, Goto, queues, Mine, Typed
<1>13. ASSUME NEW f \in FlagSet, Ignore(e, f) PROVE UNCHANGED Mine(d)
  BY <1>0, <1>13 DEF Ignore, Goto, tcpVars, queues, Mine, Typed
<1>14. CASE NetworkThread(e)
  BY <1>14 DEF NetworkThread, Enqueue, RaiseNetRecv, tcpVars, Mine, Typed
<1>15. CASE (\E n \in SendSizes : SendCall(e, n)) \/ Sending(e) \/ Receiving(e) \/ Closing(e)
  <2>1. UNCHANGED <<tcp_state, shut, queues, thread>>
    BY <1>15 DEF SendCall, Sending, SendPut, SendReturn, Receiving, RecvCall, RecvTake, RecvReturn,
                 Closing, CloseCall, CloseReturn, tcpVars
  <2>2. flags'[d] = flags[d]
    BY <1>15 DEF SendCall, Sending, SendPut, SendReturn, NotifySend, Receiving, RecvCall, RecvTake,
                 RecvReturn, Closing, CloseCall, CloseReturn, Typed
  <2> QED BY <2>1, <2>2 DEF queues, Mine
<1> QED BY <1>1, <1>2, <1>3, <1>4, <1>5, <1>6, <1>7, <1>8, <1>9, <1>10, <1>11, <1>12, <1>13,
           <1>14, <1>15 DEF Step, TcpThread

-----------------------------------------------------------------------------
(* A queued packet is never forgotten *)

\* While a packet is handled, the handler stays what it was.
LEMMA AtPacketMoves ==
  ASSUME Typed, NEW e \in Endpoints, use_data(e) \/ always_on_fb(e) \/ FinishFIN(e)
  PROVE  /\ thread'[e].pc \in AtPacket /\ thread[e].pc \in AtPacket
         /\ thread'[e].handler = thread[e].handler
<1>1. thread[e] \in InHandler /\ thread[e].pc \in {"useData", "gotFIN", "setState"}
  BY PositionTypes DEF use_data, always_on_fb, FinishFIN, Typed
<1>2. ASSUME NEW q \in AtPacket, thread' = [thread EXCEPT ![e].pc = q]
      PROVE  thread'[e].pc \in AtPacket /\ thread'[e].handler = thread[e].handler
  BY <1>1, <1>2 DEF InHandler, Typed
<1>3. ASSUME NEW s, thread' = [thread EXCEPT ![e].rest = s]
      PROVE  thread'[e].pc = thread[e].pc /\ thread'[e].handler = thread[e].handler
  BY <1>1, <1>3 DEF InHandler, Typed
<1>4. \/ \E q \in AtPacket : thread' = [thread EXCEPT ![e].pc = q]
      \/ \E s : thread' = [thread EXCEPT ![e].rest = s]
  BY DEF use_data, always_on_fb, FinishFIN, Written, AtPacket
<1> QED BY <1>1, <1>2, <1>3, <1>4 DEF AtPacket

\* After a segment the thread is still in send_all.
LEMMA SendSegmentStays ==
  ASSUME Typed, NEW e \in Endpoints, SendSegment(e)
  PROVE  thread'[e].pc = "sendAll" /\ thread[e].pc = "sendAll"
<1>1. thread[e] \in SendingAll
  BY PositionTypes DEF SendSegment, Typed
<1> QED BY <1>1 DEF SendSegment, SendingAll, Typed

\* A step of an endpoint does not leave it with packets and no wake-up.
LEMMA WokenUpStep ==
  ASSUME Typed, NEW e \in Endpoints, WokenUp(e), Step(e)
  PROVE  WokenUp(e)'
<1>0. /\ flags \in [Endpoints -> SUBSET FlagSet] /\ thread \in [Endpoints -> Positions]
      /\ pending \in [Endpoints -> Seq(Packets)] /\ raising \in [Endpoints -> BOOLEAN]
  BY DEF Typed
<1>a. ASSUME NEW f, Take(e, f)
      PROVE  thread[e].pc = "wait" /\ flags'[e] = flags[e] \ {f}
  BY <1>0, <1>a, Taking
<1>1. ASSUME thread'[e].pc \notin Asleep PROVE WokenUp(e)'
  BY <1>1 DEF WokenUp
<1>2. ASSUME thread[e].pc \in Asleep, pending'[e] = pending[e], raising'[e] = raising[e],
             "net_recv" \in flags[e] => "net_recv" \in flags'[e]
      PROVE  WokenUp(e)'
  BY <1>2 DEF WokenUp
<1>b. ASSUME NEW f, f # "net_recv", Take(e, f), UNCHANGED <<pending, raising>> PROVE WokenUp(e)'
  BY <1>2, <1>a, <1>b DEF Asleep
<1>3. CASE Connect(e) \/ Receive(e) \/ Send(e) \/ StartClose(e)
  <2>1. CASE Connect(e)
    BY <1>b, <2>1 DEF Connect
  <2>2. CASE Receive(e)
    BY <1>b, <2>2 DEF Receive, queues
  <2>3. CASE Send(e)
    BY <1>b, <2>3 DEF Send, StartSendAll, queues
  <2>4. CASE StartClose(e)
    BY <1>b, <2>4 DEF StartClose, StartSendAll, queues
  <2> QED BY <1>3, <2>1, <2>2, <2>3, <2>4
<1>4. CASE ListenArrival(e) \/ SynRcvdArrival(e) \/ SynSentArrival(e)
  <2>1. thread' = [thread EXCEPT ![e] = [pc |-> "after"]]
    BY <1>4 DEF ListenArrival, SynRcvdArrival, SynSentArrival, Arrival, Goto
  <2> QED BY <1>0, <1>1, <2>1 DEF Asleep
<1>5. CASE StartArrival(e) \/ EndArrival(e) \/ RejectPacket(e)
  BY <1>0, <1>1, <1>5 DEF StartArrival, EndArrival, RejectPacket, Goto, Asleep
<1>6. CASE AcceptPacket(e)
  <2>1. thread'[e].pc \in AtPacket
    BY <1>0, <1>6 DEF AcceptPacket, Next_pc, AtPacket
  <2> QED BY <1>1, <2>1 DEF Asleep, AtPacket
<1>7. CASE use_data(e) \/ always_on_fb(e) \/ FinishFIN(e)
  BY <1>1, <1>7, AtPacketMoves DEF Asleep, AtPacket
<1>8. CASE LastAcked(e)
  BY <1>0, <1>1, <1>8 DEF LastAcked, HearsLastACK, InArrival, Goto, Asleep
<1>9. CASE Cleanup(e)
  BY <1>0, <1>1, <1>9 DEF Cleanup, Goto, Asleep
<1>10. CASE AfterArrival(e)
  <2>1. pending'[e] # <<>> => "net_recv" \in flags'[e]
    BY <1>0, <1>10 DEF AfterArrival, RaiseAgain, queues
  <2> QED BY <2>1 DEF WokenUp
<1>11. CASE SendSegment(e)
  <2>1. UNCHANGED <<pending, raising, flags>>
    BY <1>11 DEF SendSegment
  <2> QED BY <1>2, <1>11, <2>1, SendSegmentStays DEF Asleep
<1>12. CASE EndSendAll(e) \/ SendFIN(e) \/ FinishClose(e)
  BY <1>2, <1>12 DEF EndSendAll, SendFIN, FinishClose, queues, Asleep
<1>13. ASSUME NEW f \in FlagSet, Ignore(e, f) PROVE WokenUp(e)'
  <2>1. CASE f = "net_recv"
    BY <1>0, <1>1, <1>13, <2>1 DEF Ignore, Goto, Asleep
  <2>2. CASE f # "net_recv"
    BY <1>b, <1>13, <2>2 DEF Ignore, queues
  <2> QED BY <2>1, <2>2
<1>14. ASSUME NEW r, Enqueue(e, r) PROVE WokenUp(e)'
  <2>1. CASE r \in {"DROP", "WITHHOLD"}
    <3>1. UNCHANGED <<thread, flags, pending>> /\ raising[e] = FALSE /\ raising'[e] = FALSE
      BY <1>0, <1>14, <2>1 DEF Enqueue
    <3> QED BY <3>1 DEF WokenUp
  <2>2. CASE r \notin {"DROP", "WITHHOLD"}
    BY <1>0, <1>14, <2>2 DEF Enqueue, WokenUp
  <2> QED BY <2>1, <2>2
<1>15. CASE RaiseNetRecv(e)
  BY <1>0, <1>15 DEF RaiseNetRecv, WokenUp
<1>16. CASE (\E n \in SendSizes : SendCall(e, n)) \/ Sending(e) \/ Receiving(e) \/ Closing(e)
  <2>1. UNCHANGED <<queues, thread>>
    BY <1>16 DEF SendCall, Sending, SendPut, SendReturn, Receiving, RecvCall, RecvTake, RecvReturn,
                 Closing, CloseCall, CloseReturn
  <2>2. flags[e] \subseteq flags'[e]
    BY <1>0, <1>16
      DEF SendCall, Sending, SendPut, SendReturn, NotifySend, Receiving, RecvCall, RecvTake,
          RecvReturn, Closing, CloseCall, CloseReturn
  <2> QED BY <2>1, <2>2 DEF queues, WokenUp
<1> QED BY <1>3, <1>4, <1>5, <1>6, <1>7, <1>8, <1>9, <1>10, <1>11, <1>12, <1>13, <1>14, <1>15,
           <1>16 DEF Step, TcpThread, NetworkThread

-----------------------------------------------------------------------------
(* Nothing is sent after the FIN *)

\* A step of an endpoint does not make it send after its FIN.
LEMMA CloseIsFinalStep ==
  ASSUME Typed, NEW e \in Endpoints, CloseIsFinal(e), Step(e)
  PROVE  CloseIsFinal(e)'
<1>0. /\ flags \in [Endpoints -> SUBSET FlagSet] /\ thread \in [Endpoints -> Positions]
      /\ tcp_state \in [Endpoints -> States] /\ shut \in [Endpoints -> SUBSET {"send", "recv"}]
  BY DEF Typed
<1>a. ASSUME NEW f, Take(e, f)
      PROVE  /\ thread[e].pc = "wait" /\ flags'[e] = flags[e] \ {f}
             /\ f \notin {"app_close", "app_connect"} => "app_connect" \notin flags'[e]
  BY <1>0, <1>a, Taking
<1>1. CASE Connect(e)
  <2>1. /\ thread' = thread /\ shut' = shut /\ tcp_state'[e] = "SYN_SENT"
        /\ thread[e].pc = "wait" /\ "app_connect" \notin flags'[e] /\ "send" \notin shut[e]
    <3>1. /\ thread' = thread /\ shut' = shut /\ tcp_state' = [tcp_state EXCEPT ![e] = "SYN_SENT"]
          /\ Take(e, "app_connect")
      BY <1>1 DEF Connect, SetState
    <3>2. "app_connect" \in flags[e]
      BY <3>1, Taking
    <3> QED BY <1>0, <1>a, <3>1, <3>2 DEF CloseIsFinal
  <2> QED BY <2>1 DEF CloseIsFinal, AtPacket
<1>2. ASSUME NEW s \in {"LISTEN", "SYN_RCVD", "SYN_SENT"}, Arrival(e, s) PROVE CloseIsFinal(e)'
  <2>1. /\ Take(e, "net_recv") /\ tcp_state[e] = s /\ shut' = shut
        /\ thread' = [thread EXCEPT ![e] = [pc |-> "after"]]
    BY <1>2 DEF Arrival, Goto
  <2>2. "app_connect" \notin flags'[e] /\ thread[e].pc = "wait"
    BY <1>a, <2>1
  <2>3. "send" \notin shut'[e]
    BY <2>1, <2>2 DEF CloseIsFinal, Finished
  <2> QED BY <1>0, <2>1, <2>2, <2>3 DEF CloseIsFinal, AtPacket
<1>3. CASE ListenArrival(e) \/ SynRcvdArrival(e) \/ SynSentArrival(e)
  BY <1>2, <1>3 DEF ListenArrival, SynRcvdArrival, SynSentArrival
<1>4. CASE StartArrival(e)
  <2>1. /\ Take(e, "net_recv") /\ UNCHANGED <<shut, tcp_state>>
        /\ thread' = [thread EXCEPT ![e] = [pc |-> "arrival", handler |-> tcp_state[e]]]
    BY <1>4 DEF StartArrival, tcpVars
  <2>2. "app_connect" \notin flags'[e] /\ thread[e].pc = "wait"
    BY <1>a, <2>1
  <2> QED BY <1>0, <2>1, <2>2 DEF CloseIsFinal, AtPacket, Sendable
<1>5. CASE EndArrival(e) \/ RejectPacket(e)
  <2>1. /\ UNCHANGED <<shut, tcp_state, flags>> /\ thread[e].pc = "arrival"
        /\ thread' = [thread EXCEPT ![e] = [pc |-> "after"]]
    BY <1>5 DEF EndArrival, RejectPacket, InArrival, Goto, tcpVars
  <2> QED BY <1>0, <2>1 DEF CloseIsFinal, AtPacket
<1>6. CASE AcceptPacket(e)
  <2> DEFINE handler == thread[e].handler
  <2>1. /\ UNCHANGED <<shut, flags>> /\ thread[e].pc = "arrival"
        /\ thread'[e].pc \in AtPacket /\ thread'[e].handler = handler
    BY <1>0, <1>6 DEF AcceptPacket, InArrival, Next_pc, AtPacket
  <2>2. tcp_state'[e] = tcp_state[e] \/ tcp_state'[e] = AckedState(handler, tcp_state[e])
    BY <1>0, <1>6 DEF AcceptPacket, SetState
  <2>3. CASE tcp_state'[e] = tcp_state[e]
    BY <2>1, <2>3 DEF CloseIsFinal, AtPacket
  <2>4. CASE tcp_state'[e] \in {"FIN_WAIT_2", "TIME_WAIT"} /\ handler # "ESTABLISHED"
    BY <2>1, <2>4 DEF CloseIsFinal, AtPacket, Finished
  <2> QED BY <2>2, <2>3, <2>4 DEF AckedState
<1>7. CASE use_data(e) \/ always_on_fb(e)
  <2>1. UNCHANGED <<tcp_state, flags>> /\ ("send" \in shut'[e] <=> "send" \in shut[e])
    BY <1>0, <1>7 DEF use_data, always_on_fb
  <2> QED BY <1>7, <2>1, AtPacketMoves DEF CloseIsFinal, AtPacket
<1>8. CASE FinishFIN(e)
  <2> DEFINE s == FinState(thread[e].handler, tcp_state[e], tcb[e], thread[e].packet)
  <2>1. UNCHANGED <<shut, flags>> /\ tcp_state'[e] = s
    BY <1>0, <1>8 DEF FinishFIN, SetState
  <2>2. \/ s = tcp_state[e]
        \/ s = "CLOSE_WAIT" /\ thread[e].handler = "ESTABLISHED"
        \/ s \in {"TIME_WAIT", "CLOSING"} /\ thread[e].handler # "ESTABLISHED"
    BY DEF FinState
  <2> HIDE DEF s
  <2>3. /\ thread'[e].pc \in AtPacket /\ thread[e].pc \in AtPacket
        /\ thread'[e].handler = thread[e].handler
    BY <1>8, AtPacketMoves
  <2>4. CASE s = "CLOSE_WAIT" /\ thread[e].handler = "ESTABLISHED"
    BY <2>1, <2>3, <2>4 DEF CloseIsFinal, AtPacket, Sendable, Finished
  <2>5. CASE s \in {"TIME_WAIT", "CLOSING"} /\ thread[e].handler # "ESTABLISHED"
    BY <2>1, <2>3, <2>5 DEF CloseIsFinal, AtPacket, Finished
  <2>6. CASE s = tcp_state[e]
    BY <2>1, <2>3, <2>6 DEF CloseIsFinal, AtPacket
  <2> QED BY <2>2, <2>4, <2>5, <2>6
<1>9. CASE LastAcked(e)
  <2>1. /\ UNCHANGED shut /\ thread[e].pc = "arrival" /\ thread[e].handler = "LAST_ACK"
        /\ tcp_state' = [tcp_state EXCEPT ![e] = "CLOSED"]
        /\ flags' = [flags EXCEPT ![e] = @ \cup {"cleanup"}] /\ UNCHANGED thread
    BY <1>9 DEF LastAcked, HearsLastACK, InArrival, SetState
  <2>2. "app_connect" \notin flags[e]
    BY <2>1 DEF CloseIsFinal
  <2> QED BY <1>0, <2>1, <2>2 DEF CloseIsFinal, AtPacket, Finished
<1>10. CASE Cleanup(e)
  <2>1. /\ Take(e, "cleanup") /\ UNCHANGED <<shut, tcp_state>>
        /\ thread' = [thread EXCEPT ![e] = [pc |-> "exited"]]
    BY <1>10 DEF Cleanup, Goto, tcpVars
  <2>2. "app_connect" \notin flags'[e] /\ thread[e].pc = "wait"
    BY <1>a, <2>1
  <2> QED BY <1>0, <2>1, <2>2 DEF CloseIsFinal, AtPacket
<1>11. CASE AfterArrival(e)
  <2>1. /\ UNCHANGED <<shut, tcp_state>> /\ thread[e].pc = "after" /\ thread'[e] = Idle
        /\ flags'[e] \subseteq flags[e] \cup {"net_recv"}
    BY <1>0, <1>11 DEF AfterArrival, RaiseAgain, tcpVars
  <2> QED BY <2>1 DEF CloseIsFinal, AtPacket, Idle
<1>12. CASE Receive(e)
  <2>1. Take(e, "app_recv") /\ UNCHANGED <<shut, tcp_state, thread>>
    BY <1>12 DEF Receive
  <2> QED BY <1>a, <2>1 DEF CloseIsFinal
<1>13. CASE Send(e) \/ StartClose(e)
  <2>1. PICK f \in {"app_send", "app_close"} :
             StartSendAll(e, f) /\ tcp_state[e] \in Sendable
    BY <1>13 DEF Send, StartClose, Sendable
  <2>2. /\ Take(e, f) /\ UNCHANGED <<shut, tcp_state>> /\ thread'[e].pc = "sendAll"
    BY <1>0, <2>1 DEF StartSendAll, tcpVars
  <2>3. thread[e].pc = "wait" /\ flags'[e] \subseteq flags[e]
    BY <1>a, <2>2
  <2> QED BY <2>1, <2>2, <2>3 DEF CloseIsFinal, AtPacket, Sendable, Finished
<1>14. CASE SendSegment(e)
  <2>1. UNCHANGED <<shut, tcp_state, flags>>
    BY <1>14 DEF SendSegment
  <2> QED BY <1>14, <2>1, SendSegmentStays DEF CloseIsFinal, AtPacket
<1>15. CASE EndSendAll(e)
  <2>1. UNCHANGED <<shut, tcp_state, flags>> /\ thread[e].pc = "sendAll" /\ thread'[e] = Idle
    BY <1>0, <1>15 DEF EndSendAll, tcpVars
  <2> QED BY <2>1 DEF CloseIsFinal, AtPacket, Idle
<1>16. CASE SendFIN(e)
  <2>1. /\ UNCHANGED <<tcp_state, flags>>
        /\ thread[e].pc = "sendAll" /\ thread'[e] = [pc |-> "closing"]
    BY <1>0, <1>16 DEF SendFIN, Goto
  <2> QED BY <2>1 DEF CloseIsFinal, AtPacket
<1>17. CASE FinishClose(e)
  <2>1. /\ UNCHANGED <<shut, flags>> /\ thread[e].pc = "closing" /\ thread'[e] = Idle
        /\ tcp_state'[e] \in {"FIN_WAIT_1", "LAST_ACK"}
    BY <1>0, <1>17 DEF FinishClose, SetState
  <2> QED BY <2>1 DEF CloseIsFinal, AtPacket, Idle, Finished
<1>18. ASSUME NEW f \in FlagSet, Ignore(e, f) PROVE CloseIsFinal(e)'
  <2>1. Take(e, f) /\ UNCHANGED <<shut, tcp_state>>
    BY <1>18 DEF Ignore, tcpVars
  <2>2. CASE f = "net_recv"
    <3>1. thread'[e].pc = "after"
      BY <1>0, <1>18, <2>2 DEF Ignore, Goto
    <3> QED BY <1>a, <2>1, <2>2, <3>1 DEF CloseIsFinal, AtPacket
  <2>3. CASE f # "net_recv"
    <3>1. thread'[e].pc = "wait"
      BY <1>0, <1>18, <2>3 DEF Ignore, Goto
    <3> QED BY <1>a, <2>1, <3>1 DEF CloseIsFinal, AtPacket
  <2> QED BY <2>2, <2>3
<1>19. CASE NetworkThread(e)
  <2>1. UNCHANGED <<shut, tcp_state, thread>> /\ flags'[e] \subseteq flags[e] \cup {"net_recv"}
    BY <1>0, <1>19 DEF NetworkThread, Enqueue, RaiseNetRecv, tcpVars
  <2> QED BY <2>1 DEF CloseIsFinal
<1>20. CASE (\E n \in SendSizes : SendCall(e, n)) \/ Sending(e) \/ Receiving(e) \/ Closing(e)
  <2>1. UNCHANGED <<tcp_state, shut, thread>>
    BY <1>20 DEF SendCall, Sending, SendPut, SendReturn, Receiving, RecvCall, RecvTake, RecvReturn,
                 Closing, CloseCall, CloseReturn, tcpVars
  <2>2. flags'[e] \subseteq flags[e] \cup {"app_send", "app_recv", "app_close"}
    BY <1>0, <1>20
      DEF SendCall, Sending, SendPut, SendReturn, NotifySend, Receiving, RecvCall, RecvTake,
          RecvReturn, Closing, CloseCall, CloseReturn
  <2> QED BY <2>1, <2>2 DEF CloseIsFinal
<1> QED BY <1>1, <1>3, <1>4, <1>5, <1>6, <1>7, <1>8, <1>9, <1>10, <1>11, <1>12, <1>13, <1>14, <1>15,
           <1>16, <1>17, <1>18, <1>19, <1>20 DEF Step, TcpThread

\* The network holds packets only, so what joins it is one.
LEMMA WhatIsSentIsAPacket ==
  ASSUME Typed, Typed', NEW e \in Endpoints, NEW p, Transmit(e, p)
  PROVE  p \in Packets
<1> DEFINE d == Peer(e)
           s == net[d]
           S == Packets \cup {p}
<1>1. d \in Endpoints
  BY PeerIsEndpoint
<1>2. net'[d] = Append(s, p) /\ net'[d] \in Seq(Packets) /\ s \in Seq(Packets)
  BY <1>1 DEF Transmit, Typed
<1> HIDE DEF d
<1>3. s \in Seq(S) /\ p \in S
  BY <1>2
<1>4. Len(net'[d]) = Len(s) + 1 /\ net'[d][Len(s) + 1] = p /\ Len(s) \in Nat
  BY <1>2, <1>3, AppendProperties
<1>5. Len(s) + 1 \in 1 .. Len(net'[d])
  BY <1>4
<1>6. net'[d][Len(s) + 1] \in Packets
  BY <1>2, <1>5
<1> QED BY <1>4, <1>6

\* A packet that joins the network.
Says(e, p) ==
  /\ p \in Packets
  /\ Transmit(e, p)
  /\ p.data # <<>> \/ p.fin => thread[e].pc = "sendAll"
  /\ p.fin => "send" \in shut'[e]

\* What a step does to the network: nothing, or a packet joins it, with data or a
\* FIN only from send_all and with a FIN only as the send buffer is closed, or the
\* first packet leaves it.
LEMMA Utterances ==
  ASSUME Typed, NEW e \in Endpoints, Step(e)
  PROVE  /\ "send" \in shut[e] => "send" \in shut'[e]
         /\ \/ UNCHANGED net
            \/ \E p : Says(e, p)
            \/ net[e] # <<>> /\ net' = [net EXCEPT ![e] = Tail(@)]
<1> DEFINE Quiet == UNCHANGED <<shut, net>>
           Goal == /\ "send" \in shut[e] => "send" \in shut'[e]
                   /\ \/ UNCHANGED net
                      \/ \E p : Says(e, p)
                      \/ net[e] # <<>> /\ net' = [net EXCEPT ![e] = Tail(@)]
<1>0. shut \in [Endpoints -> SUBSET {"send", "recv"}] /\ Typed'
  BY TypedBy DEF Typed
<1>1. ASSUME Quiet PROVE Goal
  BY <1>1
<1>2. ASSUME NEW p, p.data = <<>> /\ ~p.fin, Transmit(e, p) PROVE \E q : Says(e, q)
  BY <1>0, <1>2, WhatIsSentIsAPacket DEF Says
<1>3. ASSUME NEW t, Transmit(e, ACK(t)) \/ Transmit(e, SYN(t)) \/ Transmit(e, SYN_ACK(t))
      PROVE  \E q : Says(e, q)
  BY <1>2, <1>3 DEF ACK, SYN, SYN_ACK, Packet
<1>4. CASE Connect(e)
  <2>1. shut' = shut /\ \E t : Transmit(e, SYN(t))
    BY <1>4 DEF Connect
  <2> QED BY <1>3, <2>1
<1>5. CASE ListenArrival(e)
  <2>1. shut' = shut /\ (UNCHANGED net \/ \E t : Transmit(e, SYN_ACK(t)))
    BY <1>5 DEF ListenArrival, Arrival
  <2> QED BY <1>3, <2>1
<1>6. CASE SynRcvdArrival(e)
  <2>1. shut' = shut /\ (UNCHANGED net \/ \E t : Transmit(e, ACK(t)))
    BY <1>6 DEF SynRcvdArrival, Arrival
  <2> QED BY <1>3, <2>1
<1>7. CASE SynSentArrival(e)
  <2>1. shut' = shut /\ (UNCHANGED net \/ \E t : Transmit(e, SYN_ACK(t)) \/ Transmit(e, ACK(t)))
    BY <1>7 DEF SynSentArrival, Arrival
  <2> QED BY <1>3, <2>1
<1>8. CASE RejectPacket(e)
  <2>1. shut' = shut /\ \E t : Transmit(e, ACK(t))
    BY <1>8 DEF RejectPacket, tcpVars
  <2> QED BY <1>3, <2>1
<1>9. CASE use_data(e)
  <2>1. shut' = shut /\ (UNCHANGED net \/ \E t : Transmit(e, ACK(t)))
    BY <1>9 DEF use_data, Written
  <2> QED BY <1>3, <2>1
<1>10. CASE always_on_fb(e)
  <2>1. ("send" \in shut[e] => "send" \in shut'[e]) /\ \E t : Transmit(e, ACK(t))
    BY <1>0, <1>10 DEF always_on_fb
  <2> QED BY <1>3, <2>1
<1>11. CASE SendSegment(e)
  <2>1. PICK bytes : shut' = shut /\ thread[e].pc = "sendAll" /\ Transmit(e, Segment(tcb[e], bytes))
    BY <1>11 DEF SendSegment
  <2>2. Segment(tcb[e], bytes) \in Packets
    BY <1>0, <2>1, WhatIsSentIsAPacket
  <2>3. ~Segment(tcb[e], bytes).fin
    BY DEF Segment, Packet
  <2>4. Says(e, Segment(tcb[e], bytes))
    BY <2>1, <2>2, <2>3 DEF Says
  <2> QED BY <2>1, <2>4
<1>12. CASE SendFIN(e)
  <2>1. /\ thread[e].pc = "sendAll" /\ Transmit(e, FIN(e, tcb[e])) /\ "send" \in shut'[e]
    BY <1>0, <1>12 DEF SendFIN
  <2>2. FIN(e, tcb[e]) \in Packets
    BY <1>0, <2>1, WhatIsSentIsAPacket
  <2> QED BY <2>1, <2>2 DEF Says
<1>13. ASSUME NEW r, Enqueue(e, r) PROVE Goal
  BY <1>13 DEF Enqueue, tcpVars
<1>14. CASE \/ StartArrival(e) \/ EndArrival(e) \/ FinishFIN(e) \/ Cleanup(e) \/ AfterArrival(e)
            \/ EndSendAll(e) \/ FinishClose(e)
  BY <1>1, <1>14 DEF StartArrival, EndArrival, FinishFIN, Cleanup, AfterArrival, EndSendAll,
                     FinishClose, tcpVars, queues
<1>15. CASE Receive(e) \/ Send(e) \/ StartClose(e) \/ RaiseNetRecv(e)
  BY <1>1, <1>15 DEF Receive, Send, StartClose, StartSendAll, RaiseNetRecv, tcpVars, queues
<1>16. CASE AcceptPacket(e) \/ LastAcked(e)
  BY <1>1, <1>16 DEF AcceptPacket, LastAcked, HearsLastACK
<1>17. ASSUME NEW f \in FlagSet, Ignore(e, f) PROVE Goal
  BY <1>1, <1>17 DEF Ignore, tcpVars, queues
<1>18. CASE (\E n \in SendSizes : SendCall(e, n)) \/ Sending(e) \/ Receiving(e) \/ Closing(e)
  <2>1. Quiet
    BY <1>18 DEF SendCall, Sending, SendPut, SendReturn, Receiving, RecvCall, RecvTake, RecvReturn,
                 Closing, CloseCall, CloseReturn, tcpVars, queues
  <2> QED BY <1>1, <2>1
<1> QED BY <1>4, <1>5, <1>6, <1>7, <1>8, <1>9, <1>10, <1>11, <1>12, <1>13, <1>14, <1>15, <1>16,
           <1>17, <1>18 DEF Step, TcpThread, NetworkThread

\* A plain packet, or the first FIN, may join a queue in which the FIN comes last.
LEMMA AppendToFINs ==
  ASSUME NEW q \in Seq(Packets), NEW p \in Packets
  PROVE  /\ FINLast(q) /\ (HasFIN(q) => p.data = <<>> /\ ~p.fin) => FINLast(Append(q, p))
         /\ HasFIN(Append(q, p)) => HasFIN(q) \/ p.fin
<1> DEFINE r == Append(q, p)
<1>1. /\ Len(r) = Len(q) + 1 /\ Len(q) \in Nat /\ r[Len(q) + 1] = p
      /\ \A i \in 1 .. Len(q) : r[i] = q[i]
  BY AppendProperties
<1> HIDE DEF r
<1>2. ASSUME FINLast(q), HasFIN(q) => p.data = <<>> /\ ~p.fin PROVE FINLast(r)
  <2> SUFFICES ASSUME NEW i \in 1 .. Len(r), NEW j \in 1 .. Len(r), i < j, r[i].fin
               PROVE  r[j].data = <<>> /\ ~r[j].fin
    BY DEF FINLast
  <2>1. i \in 1 .. Len(q) /\ q[i].fin
    BY <1>1
  <2>2. CASE j = Len(q) + 1
    BY <1>1, <1>2, <2>1, <2>2 DEF HasFIN
  <2>3. CASE j # Len(q) + 1
    <3>1. j \in 1 .. Len(q)
      BY <1>1, <2>3
    <3> QED BY <1>1, <1>2, <2>1, <3>1 DEF FINLast
  <2> QED BY <2>2, <2>3
<1>3. ASSUME HasFIN(r) PROVE HasFIN(q) \/ p.fin
  <2>1. PICK i \in 1 .. Len(r) : r[i].fin
    BY <1>3 DEF HasFIN
  <2>2. i \in 1 .. Len(q) \/ i = Len(q) + 1
    BY <1>1
  <2> QED BY <1>1, <2>1, <2>2 DEF HasFIN
<1> QED BY <1>2, <1>3 DEF r

\* The first packet may leave such a queue.
LEMMA TailOfFINs ==
  ASSUME NEW q \in Seq(Packets), q # <<>>
  PROVE  /\ FINLast(q) => FINLast(Tail(q))
         /\ HasFIN(Tail(q)) => HasFIN(q)
<1>1. /\ Len(Tail(q)) = Len(q) - 1 /\ Len(q) \in Nat
      /\ \A i \in 1 .. Len(Tail(q)) : Tail(q)[i] = q[i + 1] /\ i + 1 \in 1 .. Len(q)
  BY HeadTailProperties
<1>2. ASSUME FINLast(q), NEW i \in 1 .. Len(Tail(q)), NEW j \in 1 .. Len(Tail(q)), i < j,
             Tail(q)[i].fin
      PROVE  Tail(q)[j].data = <<>> /\ ~Tail(q)[j].fin
  <2>1. i + 1 < j + 1
    BY <1>2, <1>1
  <2> QED BY <1>1, <1>2, <2>1 DEF FINLast
<1>3. ASSUME HasFIN(Tail(q)) PROVE HasFIN(q)
  BY <1>1, <1>3 DEF HasFIN
<1> QED BY <1>2, <1>3 DEF FINLast

\* Two endpoints, each the peer of the other.
LEMMA PeerOfPeer ==
  ASSUME NEW e \in Endpoints, NEW d \in Endpoints
  PROVE  Peer(Peer(e)) = e /\ (Peer(e) = Peer(d) <=> e = d) /\ (d # e => d = Peer(e))
BY EndpointAssumption DEF Endpoints, Peer

\* A step of one endpoint keeps what each has said in order.
LEMMA FINStep ==
  ASSUME Typed, NEW e \in Endpoints, CloseIsFinal(e), Step(e), NEW d \in Endpoints,
         FINIsTold(d), EndsWithFIN(d)
  PROVE  FINIsTold(d)' /\ EndsWithFIN(d)'
<1> DEFINE q == net[Peer(d)]
<1>0. Typed' /\ Peer(d) \in Endpoints
  BY TypedBy, PeerIsEndpoint
<1>1. q \in Seq(Packets) /\ net \in [Endpoints -> Seq(Packets)]
  BY <1>0 DEF Typed
<1>2. "send" \in shut[d] => "send" \in shut'[d]
  BY Utterances, OwnState DEF Mine
<1>3. CASE net'[Peer(d)] = q
  BY <1>2, <1>3 DEF FINIsTold, EndsWithFIN
<1>4. CASE \E p : Says(e, p)
  <2>1. PICK p : Says(e, p)
    BY <1>4
  <2>2. CASE d # e
    BY <1>0, <1>1, <1>3, <2>1, <2>2, PeerOfPeer DEF Says, Transmit
  <2>3. CASE d = e
    <3>1. net'[Peer(d)] = Append(q, p) /\ p \in Packets
      BY <1>0, <1>1, <2>1, <2>3 DEF Says, Transmit
    <3>2. HasFIN(q) => p.data = <<>> /\ ~p.fin
      BY <2>1, <2>3 DEF Says, CloseIsFinal, FINIsTold
    <3>3. p.fin => "send" \in shut'[d]
      BY <2>1, <2>3 DEF Says
    <3> HIDE DEF q
    <3>4. EndsWithFIN(d)'
      BY <1>1, <3>1, <3>2, AppendToFINs DEF EndsWithFIN, q
    <3>5. FINIsTold(d)'
      BY <1>1, <1>2, <3>1, <3>3, AppendToFINs DEF FINIsTold, q
    <3> QED BY <3>4, <3>5
  <2> QED BY <2>2, <2>3
<1>5. CASE net[e] # <<>> /\ net' = [net EXCEPT ![e] = Tail(@)]
  <2>1. CASE Peer(d) # e
    BY <1>0, <1>1, <1>3, <1>5, <2>1
  <2>2. CASE Peer(d) = e
    <3>1. net'[Peer(d)] = Tail(q) /\ q # <<>>
      BY <1>0, <1>1, <1>5, <2>2
    <3> HIDE DEF q
    <3> QED BY <1>1, <1>2, <3>1, TailOfFINs DEF FINIsTold, EndsWithFIN, q
  <2> QED BY <2>1, <2>2
<1> QED BY <1>3, <1>4, <1>5, Utterances

-----------------------------------------------------------------------------
(* The invariant and the theorems *)

\* The initial state satisfies the invariant.
LEMMA InvInit == Init => Inv
<1> SUFFICES ASSUME Init PROVE Inv
  OBVIOUS
<1>1. \A e \in Endpoints : net[e] = <<>> /\ net[Peer(e)] = <<>>
  BY PeerIsEndpoint DEF Init
<1>2. ASSUME NEW e \in Endpoints PROVE FINIsTold(e) /\ EndsWithFIN(e)
  BY <1>1 DEF FINIsTold, EndsWithFIN, HasFIN, FINLast
<1>3. ASSUME NEW e \in Endpoints PROVE WokenUp(e) /\ CloseIsFinal(e)
  BY DEF Init, WokenUp, CloseIsFinal, Idle, AtPacket
<1> QED BY <1>2, <1>3, TypedInit DEF Inv

\* Every step preserves the invariant.
LEMMA InvStep == Inv /\ [Next]_vars => Inv'
<1> SUFFICES ASSUME Inv, [Next]_vars PROVE Inv'
  OBVIOUS
<1>1. CASE \E e \in Endpoints : Step(e)
  <2>1. PICK e \in Endpoints : Step(e)
    BY <1>1
  <2>2. Typed'
    BY <2>1, TypedBy DEF Inv
  <2>3. ASSUME NEW d \in Endpoints PROVE WokenUp(d)' /\ CloseIsFinal(d)'
    <3>1. CASE d = e
      BY <2>1, <3>1, WokenUpStep, CloseIsFinalStep DEF Inv
    <3>2. CASE d # e
      <4>1. UNCHANGED Mine(d)
        BY <2>1, <3>2, OwnState DEF Inv
      <4>2. WokenUp(d) /\ CloseIsFinal(d)
        BY DEF Inv
      <4> QED BY <4>1, <4>2 DEF Mine, WokenUp, CloseIsFinal
    <3> QED BY <3>1, <3>2
  <2>4. ASSUME NEW d \in Endpoints PROVE FINIsTold(d)' /\ EndsWithFIN(d)'
    BY <2>1, FINStep DEF Inv
  <2> QED BY <2>2, <2>3, <2>4 DEF Inv
<1>2. CASE UNCHANGED live
  BY <1>2 DEF Inv, Typed, WokenUp, CloseIsFinal, FINIsTold, EndsWithFIN,
              live, tcpVars, queues, requests
<1> QED BY <1>1, <1>2, StepOrStill

\* Inv is an invariant of the TCP threads: the types, and what the two theorems below need.
THEOREM Invariance == Spec => []Inv
<1>1. Inv /\ [Next]_vars => Inv'
  BY InvStep
<1> QED BY InvInit, <1>1, PTL DEF Spec

\* No queued packet is forgotten: whenever a TCP thread is about to sleep with packets
\* in pending_packets, net_recv is raised or about to be, for all sizes, all numbers of
\* requests and all the debugger's answers.
THEOREM PacketsAreNotStranded == Spec => []NoStrandedPacket
<1>1. Inv => NoStrandedPacket
  BY DEF Inv, WokenUp, NoStrandedPacket, Asleep
<1> QED BY <1>1, Invariance, PTL

\* No endpoint says anything but plain acknowledgments after its FIN, however CLOSE,
\* send_all and the packets that arrive are interleaved.
THEOREM FINsComeLast == Spec => []FINIsLast
<1>1. ASSUME Inv PROVE FINIsLast
  <2>1. ASSUME NEW e \in Endpoints PROVE FINLast(net[e])
    <3>1. Peer(e) \in Endpoints /\ Peer(Peer(e)) = e
      BY PeerIsEndpoint, PeerOfPeer
    <3> QED BY <1>1, <3>1 DEF Inv, EndsWithFIN
  <2> QED BY <2>1 DEF FINLast, FINIsLast
<1> QED BY <1>1, Invariance, PTL

-----------------------------------------------------------------------------
(* Sequence numbers: the packets on their way, and the bytes they carry *)

\* What is on its way to e, wherever it waits.
Toward(e) == Range(net[e]) \cup Range(pending[e]) \cup Range(withheld[e])
Count(e) == Len(net[e]) + Len(pending[e]) + Len(withheld[e])

\* The packets of q carry n bytes. The sum is given by its partial sums, of which a packet
\* that joins or leaves adds or takes one away.
PartialSums(q, f) ==
  /\ f \in [0 .. Len(q) -> Nat] /\ f[0] = 0
  /\ \A i \in 1 .. Len(q) : f[i] = f[i - 1] + Len(q[i].data)
  /\ \A i, j \in 0 .. Len(q) : i <= j => f[i] <= f[j]
Carries(q, n) == \E f : PartialSums(q, f) /\ f[Len(q)] = n

\* At most n bytes are on their way to e.
CarryAtMost(q, r, s, n) ==
  \E a, b, c \in Nat : Carries(q, a) /\ Carries(r, b) /\ Carries(s, c) /\ a + b + c <= n
Load(e, n) == CarryAtMost(net[e], pending[e], withheld[e], n)

\* An empty queue carries nothing.
LEMMA NothingCarried == Carries(<<>>, 0)
<1> DEFINE f == [i \in 0 .. 0 |-> 0]
<1>1. PartialSums(<<>>, f) /\ f[Len(<<>>)] = 0
  BY DEF PartialSums
<1> QED BY <1>1 DEF Carries

\* A packet adds its bytes.
LEMMA AppendCarries ==
  ASSUME NEW q \in Seq(Packets), NEW p \in Packets, NEW n, Carries(q, n)
  PROVE  n \in Nat /\ Len(p.data) \in Nat /\ Carries(Append(q, p), n + Len(p.data))
<1>1. PICK f : PartialSums(q, f) /\ f[Len(q)] = n
  BY DEF Carries
<1> DEFINE k == Len(q)
           r == Append(q, p)
           m == n + Len(p.data)
           g == [i \in 0 .. k + 1 |-> IF i = k + 1 THEN m ELSE f[i]]
<1>2. /\ k \in Nat /\ Len(r) = k + 1 /\ r[k + 1] = p /\ \A i \in 1 .. k : r[i] = q[i]
      /\ Len(p.data) \in Nat
  BY AppendProperties DEF Packets
<1>3. n \in Nat /\ f \in [0 .. k -> Nat] /\ f[k] = n /\ f[0] = 0
  BY <1>1, <1>2 DEF PartialSums
<1>4. m \in Nat /\ m >= n /\ g \in [0 .. k + 1 -> Nat] /\ g[0] = 0 /\ g[k + 1] = m
  BY <1>2, <1>3
<1>5. ASSUME NEW i \in 1 .. k + 1 PROVE g[i] = g[i - 1] + Len(r[i].data)
  <2>1. CASE i = k + 1
    BY <1>2, <1>3, <2>1
  <2>2. CASE i # k + 1
    <3>1. i \in 1 .. k /\ i - 1 \in 0 .. k
      BY <1>2, <2>2
    <3>2. g[i] = f[i] /\ g[i - 1] = f[i - 1] /\ r[i] = q[i]
      BY <1>2, <3>1
    <3> QED BY <1>1, <3>1, <3>2 DEF PartialSums
  <2> QED BY <2>1, <2>2
<1>6. ASSUME NEW i \in 0 .. k + 1, NEW j \in 0 .. k + 1, i <= j PROVE g[i] <= g[j]
  <2>1. CASE i = k + 1
    BY <1>2, <1>4, <1>6, <2>1
  <2>2. CASE i # k + 1 /\ j = k + 1
    <3>1. i \in 0 .. k /\ k \in 0 .. k
      BY <1>2, <2>2
    <3>2. f[i] <= n /\ f[i] \in Nat
      BY <1>1, <1>2, <1>3, <3>1 DEF PartialSums
    <3>3. g[i] = f[i] /\ g[j] = m
      BY <1>4, <2>2, <3>1
    <3> HIDE DEF g, m
    <3> QED BY <1>3, <1>4, <3>2, <3>3
  <2>3. CASE j # k + 1
    <3>1. i \in 0 .. k /\ j \in 0 .. k /\ i # k + 1
      BY <1>2, <1>6, <2>3
    <3>2. g[i] = f[i] /\ g[j] = f[j]
      BY <2>3, <3>1
    <3> QED BY <1>1, <1>2, <1>6, <3>1, <3>2 DEF PartialSums
  <2> QED BY <2>1, <2>2, <2>3
<1> HIDE DEF g, m, r, k
<1>7. PartialSums(r, g) /\ g[Len(r)] = m
  BY <1>2, <1>4, <1>5, <1>6 DEF PartialSums
<1> QED BY <1>2, <1>3, <1>7 DEF Carries, r, m

\* The packet that leaves takes its bytes away.
LEMMA TailCarries ==
  ASSUME NEW q \in Seq(Packets), q # <<>>, NEW n, Carries(q, n)
  PROVE  /\ n \in Nat /\ Len(Head(q).data) \in Nat /\ n - Len(Head(q).data) \in Nat
         /\ Carries(Tail(q), n - Len(Head(q).data))
<1>1. PICK f : PartialSums(q, f) /\ f[Len(q)] = n
  BY DEF Carries
<1> DEFINE k == Len(q)
           r == Tail(q)
           l == Len(Head(q).data)
           g == [i \in 0 .. k - 1 |-> f[i + 1] - l]
<1>2. /\ k \in Nat \ {0} /\ Len(r) = k - 1 /\ Head(q) = q[1] /\ l \in Nat
      /\ \A i \in 1 .. k - 1 : r[i] = q[i + 1]
  BY HeadTailProperties DEF Packets
<1>3. f \in [0 .. k -> Nat] /\ f[0] = 0 /\ f[k] = n
  BY <1>1, <1>2 DEF PartialSums
<1>4. f[1] = l
  BY <1>1, <1>2, <1>3 DEF PartialSums
<1>5. ASSUME NEW i \in 0 .. k - 1 PROVE f[i + 1] \in Nat /\ f[i + 1] >= l
  BY <1>1, <1>2, <1>3, <1>4 DEF PartialSums
<1>6. /\ g \in [0 .. k - 1 -> Nat] /\ g[0] = 0 /\ g[k - 1] = n - l
      /\ n \in Nat /\ n - l \in Nat
  <2>1. \A i \in 0 .. k - 1 : f[i + 1] - l \in Nat
    BY <1>2, <1>5
  <2>2. /\ f[0 + 1] - l = 0 /\ k - 1 \in 0 .. k - 1 /\ 0 \in 0 .. k - 1
        /\ (k - 1) + 1 = k /\ k \in 0 .. k
    BY <1>2, <1>4
  <2>3. f[(k - 1) + 1] = n /\ n \in Nat
    BY <1>3, <2>2
  <2>4. g[0] = f[0 + 1] - l /\ g[k - 1] = f[(k - 1) + 1] - l
    BY <2>2
  <2>5. g \in [0 .. k - 1 -> Nat]
    BY <2>1
  <2>6. g[k - 1] \in Nat
    BY <2>2, <2>5
  <2> HIDE DEF g, l
  <2> QED BY <2>2, <2>3, <2>4, <2>5, <2>6
<1>7. ASSUME NEW i \in 1 .. k - 1 PROVE g[i] = g[i - 1] + Len(r[i].data)
  <2>1. /\ i - 1 \in 0 .. k - 1 /\ i \in 0 .. k - 1 /\ i + 1 \in 1 .. k
        /\ (i - 1) + 1 = i /\ (i + 1) - 1 = i
    BY <1>2
  <2>2. g[i] = f[i + 1] - l /\ g[i - 1] = f[i] - l
    BY <2>1
  <2>3. f[i + 1] = f[i] + Len(q[i + 1].data) /\ r[i] = q[i + 1]
    BY <1>1, <1>2, <2>1 DEF PartialSums
  <2>4. f[i] \in Nat /\ f[i + 1] \in Nat
    BY <1>3, <2>1
  <2>5. q[i + 1] \in Packets
    BY <2>1
  <2>6. Len(q[i + 1].data) \in Nat
    BY <2>5 DEF Packets
  <2> HIDE DEF g, l
  <2> QED BY <1>2, <2>2, <2>3, <2>4, <2>6
<1>8. ASSUME NEW i \in 0 .. k - 1, NEW j \in 0 .. k - 1, i <= j PROVE g[i] <= g[j]
  <2>1. i + 1 \in 0 .. k /\ j + 1 \in 0 .. k /\ i + 1 <= j + 1
    BY <1>2, <1>8
  <2>2. f[i + 1] <= f[j + 1] /\ f[i + 1] \in Nat /\ f[j + 1] \in Nat
    BY <1>1, <1>3, <2>1 DEF PartialSums
  <2>3. g[i] = f[i + 1] - l /\ g[j] = f[j + 1] - l
    OBVIOUS
  <2> HIDE DEF g, l
  <2> QED BY <1>2, <2>2, <2>3
<1> HIDE DEF g, l, r, k
<1>9. PartialSums(r, g) /\ g[Len(r)] = n - l
  BY <1>2, <1>6, <1>7, <1>8 DEF PartialSums
<1> QED BY <1>2, <1>6, <1>9 DEF Carries, r, l

\* The members of a queue to which a packet joins, or which one leaves.
LEMMA RangeMoves ==
  ASSUME NEW q \in Seq(Packets)
  PROVE  /\ \A p \in Packets : Range(Append(q, p)) = Range(q) \cup {p}
         /\ q # <<>> => Range(Tail(q)) \subseteq Range(q) /\ Head(q) \in Range(q)
         /\ Range(q) \subseteq Packets /\ Range(<<>>) = {}
<1>0. DOMAIN q = 1 .. Len(q) /\ Len(q) \in Nat
  OBVIOUS
<1>1. ASSUME NEW p \in Packets PROVE Range(Append(q, p)) = Range(q) \cup {p}
  <2>1. /\ DOMAIN Append(q, p) = 1 .. Len(q) + 1 /\ Append(q, p)[Len(q) + 1] = p
        /\ \A i \in 1 .. Len(q) : Append(q, p)[i] = q[i]
    BY AppendProperties
  <2>2. 1 .. Len(q) + 1 = (1 .. Len(q)) \cup {Len(q) + 1}
    BY <1>0
  <2> QED BY <1>0, <2>1, <2>2 DEF Range
<1>2. ASSUME q # <<>> PROVE Range(Tail(q)) \subseteq Range(q) /\ Head(q) \in Range(q)
  <2>1. /\ DOMAIN Tail(q) = 1 .. Len(q) - 1 /\ Head(q) = q[1] /\ Len(q) # 0
        /\ \A i \in 1 .. Len(q) - 1 : Tail(q)[i] = q[i + 1]
    BY <1>2, HeadTailProperties
  <2>2. 1 \in 1 .. Len(q) /\ \A i \in 1 .. Len(q) - 1 : i + 1 \in 1 .. Len(q)
    BY <1>0, <2>1
  <2> QED BY <1>0, <2>1, <2>2 DEF Range
<1>3. Range(q) \subseteq Packets /\ Range(<<>>) = {}
  BY <1>0 DEF Range
<1> QED BY <1>1, <1>2, <1>3

-----------------------------------------------------------------------------
(* What a step does to the queues of an endpoint, and of its peer *)

\* What a step can do to the packets on their way to the endpoint that takes it.
Kept(e) == net'[e] = net[e] /\ pending'[e] = pending[e] /\ withheld'[e] = withheld[e]
Fetched(e) ==
  /\ pending[e] # <<>> /\ pending'[e] = Tail(pending[e])
  /\ net'[e] = net[e] /\ withheld'[e] = withheld[e]
Flushed(e) == net'[e] = net[e] /\ pending'[e] = <<>> /\ withheld'[e] = <<>>
Queued(e) ==
  /\ net[e] # <<>> /\ net'[e] = Tail(net[e])
  /\ LET p == Head(net[e])
     IN \/ pending'[e] = pending[e] /\ withheld'[e] = withheld[e]
        \/ pending'[e] = pending[e] /\ withheld'[e] = Append(withheld[e], p)
        \/ pending'[e] = Append(pending[e], p) /\ withheld'[e] = withheld[e]
        \/ /\ withheld[e] # <<>> /\ withheld'[e] = Tail(withheld[e])
           /\ pending'[e] = Append(Append(pending[e], Head(withheld[e])), p)

\* What the network thread does with a packet.
LEMMA EnqueueMoves ==
  ASSUME Typed, NEW e \in Endpoints, NEW r, Enqueue(e, r)
  PROVE  /\ Queued(e)
         /\ r \notin {"DROP", "WITHHOLD", "DRAW_WITHHELD"} =>
              pending'[e] = Append(pending[e], Head(net[e])) /\ withheld'[e] = withheld[e]
<1> DEFINE w == withheld[e]
           p == Head(net[e])
           drawn == IF r = "DRAW_WITHHELD" THEN SubSeq(w, 1, MIN(1, Len(w))) ELSE <<>>
<1>1. /\ net[e] # <<>> /\ net'[e] = Tail(net[e]) /\ w \in Seq(Packets) /\ pending[e] \in Seq(Packets)
      /\ p \in Packets
  BY DEF Enqueue, Typed
<1>2. /\ pending'[e] = IF r \in {"DROP", "WITHHOLD"} THEN pending[e] ELSE pending[e] \o drawn \o <<p>>
      /\ withheld'[e] = IF r = "WITHHOLD" THEN Append(w, p) ELSE SubSeq(w, Len(drawn) + 1, Len(w))
  BY DEF Enqueue, Typed
<1>3. \A x, y \in Seq(Packets) : x \o <<>> = x /\ x \o <<p>> = Append(x, p)
  BY <1>1
<1>4. SubSeq(w, 0 + 1, Len(w)) = w
  BY <1>1
<1>5. CASE r # "DRAW_WITHHELD" \/ w = <<>>
  <2>1. drawn = <<>>
    <3>1. CASE r # "DRAW_WITHHELD"
      BY <3>1
    <3>2. CASE w = <<>>
      <4>1. MIN(1, Len(w)) = 0
        BY <3>2 DEF MIN
      <4> QED BY <3>2, <4>1
    <3> QED BY <1>5, <3>1, <3>2
  <2>2. Len(drawn) = 0 /\ pending[e] \o drawn \o <<p>> = Append(pending[e], p)
    BY <1>1, <1>3, <2>1
  <2> HIDE DEF drawn
  <2>3. \/ pending'[e] = pending[e] /\ withheld'[e] = w
        \/ pending'[e] = pending[e] /\ withheld'[e] = Append(w, p)
        \/ pending'[e] = Append(pending[e], p) /\ withheld'[e] = w
    BY <1>2, <1>4, <2>2
  <2>4. r \notin {"DROP", "WITHHOLD", "DRAW_WITHHELD"} =>
          pending'[e] = Append(pending[e], p) /\ withheld'[e] = w
    BY <1>2, <1>4, <2>2
  <2> QED BY <1>1, <2>3, <2>4 DEF Queued
<1>6. CASE r = "DRAW_WITHHELD" /\ w # <<>>
  <2>1. Len(w) \in Nat \ {0} /\ MIN(1, Len(w)) = 1
    <3>1. Len(w) \in Nat /\ Len(w) # 0
      BY <1>1, <1>6
    <3>2. \A k \in Nat \ {0} : MIN(1, k) = 1
      BY DEF MIN
    <3> QED BY <3>1, <3>2
  <2>2. drawn = <<Head(w)>> /\ Len(drawn) = 1
    <3>1. SubSeq(w, 1, 1) = <<Head(w)>>
      <4>1. Len(SubSeq(w, 1, 1)) = 1 /\ SubSeq(w, 1, 1)[1] = w[1] /\ SubSeq(w, 1, 1) \in Seq(Packets)
        BY <1>1, <2>1, SubSeqProperties
      <4>2. Head(w) = w[1]
        BY <1>1, <1>6
      <4>3. w[1] \in Packets
        BY <1>1, <2>1
      <4>4. <<w[1]>> \in Seq(Packets) /\ Len(<<w[1]>>) = 1 /\ <<w[1]>>[1] = w[1]
        BY <4>3
      <4>5. \A i \in 1 .. 1 : SubSeq(w, 1, 1)[i] = <<w[1]>>[i]
        BY <4>1
      <4> HIDE DEF w
      <4> QED BY <4>1, <4>2, <4>4, <4>5, SeqEqual
    <3> QED BY <1>6, <2>1, <3>1
  <2>3. SubSeq(w, 1 + 1, Len(w)) = Tail(w)
    BY <1>1, <2>1
  <2>4. pending[e] \o <<Head(w)>> \o <<p>> = Append(Append(pending[e], Head(w)), p)
    <3>1. Head(w) \in Packets
      BY <1>1, <1>6
    <3> QED BY <1>1, <3>1
  <2> HIDE DEF drawn
  <2> QED BY <1>1, <1>2, <1>6, <2>2, <2>3, <2>4 DEF Queued
<1> QED BY <1>5, <1>6

\* Every step moves the packets in one of these ways.
LEMMA OwnQueues ==
  ASSUME Typed, NEW e \in Endpoints, Step(e)
  PROVE  Kept(e) \/ Fetched(e) \/ Flushed(e) \/ Queued(e)
<1>0. Peer(e) \in Endpoints /\ Peer(e) # e
  BY PeerIsEndpoint, EndpointAssumption DEF Peer, Endpoints
<1>1. ASSUME NEW p, Transmit(e, p) PROVE net'[e] = net[e]
  BY <1>0, <1>1 DEF Transmit, Typed
<1>2. CASE UNCHANGED <<pending, withheld>> /\ (UNCHANGED net \/ \E p : Transmit(e, p))
  BY <1>1, <1>2 DEF Kept
<1>3. CASE /\ pending[e] # <<>> /\ Fetch(e) /\ UNCHANGED withheld
           /\ UNCHANGED net \/ \E p : Transmit(e, p)
  BY <1>1, <1>3 DEF Fetched, Fetch, Typed
<1>4. CASE Connect(e)
  BY <1>2, <1>4 DEF Connect
<1>5. CASE ListenArrival(e)
  BY <1>3, <1>5 DEF ListenArrival, Arrival
<1>6. CASE SynRcvdArrival(e)
  BY <1>3, <1>6 DEF SynRcvdArrival, Arrival
<1>7. CASE SynSentArrival(e)
  BY <1>3, <1>7 DEF SynSentArrival, Arrival
<1>8. CASE RejectPacket(e)
  BY <1>3, <1>8 DEF RejectPacket, MoreToProcess
<1>9. CASE AcceptPacket(e)
  BY <1>3, <1>9 DEF AcceptPacket, MoreToProcess
<1>10. CASE use_data(e)
  <2>1. UNCHANGED <<pending, withheld>> /\ (UNCHANGED net \/ \E p : Transmit(e, p))
    BY <1>10 DEF use_data, Written
  <2> QED BY <1>2, <2>1
<1>11. CASE always_on_fb(e) \/ SendSegment(e) \/ SendFIN(e)
  <2>1. UNCHANGED <<pending, withheld>> /\ \E p : Transmit(e, p)
    BY <1>11 DEF always_on_fb, SendSegment, SendFIN
  <2> QED BY <1>2, <2>1
<1>12. CASE LastAcked(e)
  BY <1>12 DEF LastAcked, HearsLastACK, Flushed, Typed
<1>13. ASSUME NEW r, Enqueue(e, r) PROVE Queued(e)
  BY <1>13, EnqueueMoves
<1>14. CASE \/ StartArrival(e) \/ EndArrival(e) \/ FinishFIN(e) \/ Cleanup(e) \/ AfterArrival(e)
            \/ EndSendAll(e) \/ FinishClose(e)
  BY <1>2, <1>14 DEF StartArrival, EndArrival, FinishFIN, Cleanup, AfterArrival, EndSendAll,
                     FinishClose, queues
<1>15. CASE Receive(e) \/ Send(e) \/ StartClose(e) \/ RaiseNetRecv(e)
  BY <1>2, <1>15 DEF Receive, Send, StartClose, StartSendAll, RaiseNetRecv, queues
<1>16. ASSUME NEW f \in FlagSet, Ignore(e, f) PROVE Kept(e)
  BY <1>16 DEF Ignore, queues, Kept
<1>17. CASE (\E n \in SendSizes : SendCall(e, n)) \/ Sending(e) \/ Receiving(e) \/ Closing(e)
  <2>1. UNCHANGED queues
    BY <1>17 DEF SendCall, Sending, SendPut, SendReturn, Receiving, RecvCall, RecvTake, RecvReturn,
                 Closing, CloseCall, CloseReturn
  <2> QED BY <1>2, <2>1 DEF queues
<1> QED BY <1>4, <1>5, <1>6, <1>7, <1>8, <1>9, <1>10, <1>11, <1>12, <1>13, <1>14, <1>15, <1>16,
           <1>17 DEF Step, TcpThread, NetworkThread

\* A sum of bytes may be bounded by more.
LEMMA CarryMore ==
  ASSUME NEW q, NEW r, NEW s, NEW n \in Int, NEW m \in Int, n <= m, CarryAtMost(q, r, s, n)
  PROVE  CarryAtMost(q, r, s, m) /\ n >= 0
BY DEF CarryAtMost

\* The packet that is fetched was on its way, and its bytes no longer are.
LEMMA FetchEffect ==
  ASSUME Typed, NEW e \in Endpoints, Fetched(e)
  PROVE  /\ Head(pending[e]) \in Toward(e) /\ Head(pending[e]) \in Packets
         /\ Toward(e)' \subseteq Toward(e)
         /\ Count(e) \in Nat \ {0} /\ Count(e)' = Count(e) - 1
         /\ \A n \in Int : Load(e, n) =>
              CarryAtMost(net'[e], pending'[e], withheld'[e], n - Len(Head(pending[e]).data))
<1> DEFINE q == net[e]
           r == pending[e]
           s == withheld[e]
<1>1. q \in Seq(Packets) /\ r \in Seq(Packets) /\ s \in Seq(Packets)
  BY DEF Typed
<1>2. r # <<>> /\ net'[e] = q /\ pending'[e] = Tail(r) /\ withheld'[e] = s
  BY DEF Fetched
<1>3. /\ Head(r) \in Packets /\ Len(Tail(r)) = Len(r) - 1 /\ Len(r) \in Nat \ {0}
      /\ Len(q) \in Nat /\ Len(s) \in Nat
  BY <1>1, <1>2
<1>4. Head(r) \in Range(r) /\ Range(Tail(r)) \subseteq Range(r)
  BY <1>1, <1>2, RangeMoves
<1>5. ASSUME NEW n \in Int, CarryAtMost(q, r, s, n)
      PROVE  CarryAtMost(q, Tail(r), s, n - Len(Head(r).data))
  <2>1. PICK a \in Nat, b \in Nat, c \in Nat :
          Carries(q, a) /\ Carries(r, b) /\ Carries(s, c) /\ a + b + c <= n
    BY <1>5 DEF CarryAtMost
  <2> DEFINE l == Len(Head(r).data)
  <2>2. b - l \in Nat /\ Carries(Tail(r), b - l) /\ l \in Nat
    BY <1>1, <1>2, <2>1, TailCarries
  <2> HIDE DEF l
  <2>3. a + (b - l) + c <= n - l
    BY <2>1, <2>2
  <2>4. CarryAtMost(q, Tail(r), s, n - l)
    BY <2>1, <2>2, <2>3 DEF CarryAtMost
  <2> QED BY <2>4 DEF l
<1>6. Toward(e)' \subseteq Toward(e) /\ Head(r) \in Toward(e)
  BY <1>2, <1>4 DEF Toward
<1>7. Count(e) \in Nat \ {0} /\ Count(e)' = Count(e) - 1
  <2>1. /\ Count(e) = Len(q) + Len(r) + Len(s)
        /\ Count(e)' = Len(q) + Len(Tail(r)) + Len(s)
    BY <1>2 DEF Count
  <2> HIDE DEF q, r, s
  <2> QED BY <1>3, <2>1
<1>8. \A n : Load(e, n) <=> CarryAtMost(q, r, s, n)
  BY DEF Load
<1> QED BY <1>2, <1>3, <1>5, <1>6, <1>7, <1>8

\* The network thread only moves packets, or drops one.
LEMMA QueueEffect ==
  ASSUME Typed, NEW e \in Endpoints, Queued(e)
  PROVE  /\ Toward(e)' \subseteq Toward(e)
         /\ Count(e) \in Nat /\ Count(e)' \in Nat /\ Count(e)' <= Count(e)
         /\ \A n \in Int : Load(e, n) => CarryAtMost(net'[e], pending'[e], withheld'[e], n)
<1> DEFINE q == net[e]
           r == pending[e]
           s == withheld[e]
           p == Head(q)
           h == Head(s)
<1>1. q \in Seq(Packets) /\ r \in Seq(Packets) /\ s \in Seq(Packets)
  BY DEF Typed
<1>2. q # <<>> /\ net'[e] = Tail(q)
  BY DEF Queued
<1>3. \/ pending'[e] = r /\ withheld'[e] = s
      \/ pending'[e] = r /\ withheld'[e] = Append(s, p)
      \/ pending'[e] = Append(r, p) /\ withheld'[e] = s
      \/ s # <<>> /\ withheld'[e] = Tail(s) /\ pending'[e] = Append(Append(r, h), p)
  BY DEF Queued
<1>4. /\ p \in Packets /\ Len(Tail(q)) = Len(q) - 1 /\ Len(q) \in Nat \ {0}
      /\ Len(r) \in Nat /\ Len(s) \in Nat
      /\ Len(Append(r, p)) = Len(r) + 1 /\ Len(Append(s, p)) = Len(s) + 1
      /\ Append(r, p) \in Seq(Packets)
  BY <1>1, <1>2
<1>5. /\ p \in Range(q) /\ Range(Tail(q)) \subseteq Range(q)
      /\ Range(Append(r, p)) = Range(r) \cup {p} /\ Range(Append(s, p)) = Range(s) \cup {p}
  BY <1>1, <1>2, <1>4, RangeMoves
<1>6. ASSUME s # <<>>
      PROVE  /\ h \in Packets /\ Append(r, h) \in Seq(Packets) /\ Len(Tail(s)) = Len(s) - 1
             /\ h \in Range(s) /\ Range(Tail(s)) \subseteq Range(s)
             /\ Range(Append(Append(r, h), p)) = Range(r) \cup {h} \cup {p}
             /\ Len(Append(Append(r, h), p)) = Len(r) + 2
             /\ Len(s) # 0
  <2>1. h \in Packets /\ Append(r, h) \in Seq(Packets) /\ Len(Tail(s)) = Len(s) - 1
    BY <1>1, <1>6
  <2>2. Len(Append(Append(r, h), p)) = Len(r) + 2 /\ Len(s) # 0
    BY <1>1, <1>4, <1>6, <2>1
  <2>3. h \in Range(s) /\ Range(Tail(s)) \subseteq Range(s)
    BY <1>1, <1>6, RangeMoves
  <2>4. Range(Append(Append(r, h), p)) = Range(r) \cup {h} \cup {p}
    <3>1. Range(Append(r, h)) = Range(r) \cup {h}
      BY <1>1, <2>1, RangeMoves
    <3> DEFINE x == Append(r, h)
    <3>2. x \in Seq(Packets) /\ p \in Packets
      BY <1>4, <2>1
    <3> HIDE DEF x
    <3>3. Range(Append(x, p)) = Range(x) \cup {p}
      BY <3>2, RangeMoves
    <3> QED BY <3>1, <3>3 DEF x
  <2> QED BY <2>1, <2>2, <2>3, <2>4
<1>7. /\ Toward(e) = Range(q) \cup Range(r) \cup Range(s) /\ Count(e) = Len(q) + Len(r) + Len(s)
      /\ Toward(e)' = Range(net'[e]) \cup Range(pending'[e]) \cup Range(withheld'[e])
      /\ Count(e)' = Len(net'[e]) + Len(pending'[e]) + Len(withheld'[e])
  BY DEF Toward, Count
<1>8. ASSUME NEW n \in Int, CarryAtMost(q, r, s, n)
      PROVE  /\ CarryAtMost(Tail(q), r, s, n) /\ CarryAtMost(Tail(q), r, Append(s, p), n)
             /\ CarryAtMost(Tail(q), Append(r, p), s, n)
             /\ s # <<>> => CarryAtMost(Tail(q), Append(Append(r, h), p), Tail(s), n)
  <2>1. PICK a \in Nat, b \in Nat, c \in Nat :
          Carries(q, a) /\ Carries(r, b) /\ Carries(s, c) /\ a + b + c <= n
    BY <1>8 DEF CarryAtMost
  <2> DEFINE l == Len(p.data)
  <2>2. l \in Nat /\ a - l \in Nat /\ Carries(Tail(q), a - l)
    BY <1>1, <1>2, <2>1, TailCarries
  <2>3. Carries(Append(r, p), b + l) /\ Carries(Append(s, p), c + l)
    BY <1>1, <1>4, <2>1, AppendCarries
  <2> HIDE DEF l
  <2>4. /\ (a - l) + b + c <= n /\ (a - l) + (b + l) + c <= n /\ (a - l) + b + (c + l) <= n
        /\ b + l \in Nat /\ c + l \in Nat
    BY <2>1, <2>2
  <2>5. ASSUME s # <<>> PROVE CarryAtMost(Tail(q), Append(Append(r, h), p), Tail(s), n)
    <3> DEFINE k == Len(h.data)
    <3>1. k \in Nat /\ c - k \in Nat /\ Carries(Tail(s), c - k)
      BY <1>1, <2>1, <2>5, TailCarries
    <3>2. b + k \in Nat /\ Carries(Append(r, h), b + k)
      BY <1>1, <1>6, <2>1, <2>5, <3>1, AppendCarries
    <3>3. Carries(Append(Append(r, h), p), (b + k) + l)
      BY <1>4, <1>6, <2>5, <3>2, AppendCarries DEF l
    <3> HIDE DEF k
    <3>4. (a - l) + ((b + k) + l) + (c - k) <= n /\ (b + k) + l \in Nat
      BY <2>1, <2>2, <3>1
    <3> QED BY <2>2, <3>1, <3>3, <3>4 DEF CarryAtMost
  <2> QED BY <2>1, <2>2, <2>3, <2>4, <2>5 DEF CarryAtMost
<1>9. \A n : Load(e, n) <=> CarryAtMost(q, r, s, n)
  BY DEF Load
<1> HIDE DEF q, r, s, p, h
<1>10. Toward(e)' \subseteq Toward(e)
  BY <1>2, <1>3, <1>5, <1>6, <1>7
<1>11. Count(e) \in Nat /\ Count(e)' \in Nat /\ Count(e)' <= Count(e)
  <2>1. Len(net'[e]) = Len(q) - 1
    BY <1>2, <1>4
  <2>2. CASE Len(pending'[e]) \in Nat /\ Len(withheld'[e]) \in Nat
             /\ Len(pending'[e]) + Len(withheld'[e]) <= Len(r) + Len(s) + 1
    <3> DEFINE i == Len(q)
               j == Len(r)
               k == Len(s)
               x == Len(pending'[e])
               y == Len(withheld'[e])
    <3>1. Count(e) = i + j + k /\ Count(e)' = (i - 1) + x + y
      BY <1>7, <2>1
    <3>2. i \in Nat \ {0} /\ j \in Nat /\ k \in Nat /\ x \in Nat /\ y \in Nat /\ x + y <= j + k + 1
      BY <1>4, <2>2
    <3> HIDE DEF i, j, k, x, y
    <3> QED BY <3>1, <3>2
  <2>3. CASE pending'[e] = r /\ withheld'[e] = s
    BY <1>4, <2>2, <2>3
  <2>4. CASE pending'[e] = r /\ withheld'[e] = Append(s, p)
    BY <1>4, <2>2, <2>4
  <2>5. CASE pending'[e] = Append(r, p) /\ withheld'[e] = s
    BY <1>4, <2>2, <2>5
  <2>6. CASE s # <<>> /\ withheld'[e] = Tail(s) /\ pending'[e] = Append(Append(r, h), p)
    BY <1>4, <1>6, <2>2, <2>6
  <2> QED BY <1>3, <2>3, <2>4, <2>5, <2>6
<1>12. ASSUME NEW n \in Int, Load(e, n) PROVE CarryAtMost(net'[e], pending'[e], withheld'[e], n)
  BY <1>2, <1>3, <1>8, <1>9, <1>12
<1> QED BY <1>10, <1>11, <1>12

\* So nothing comes by itself: what is on its way was on its way, and carries no more.
LEMMA OwnEffects ==
  ASSUME Typed, NEW e \in Endpoints, Kept(e) \/ Fetched(e) \/ Flushed(e) \/ Queued(e)
  PROVE  /\ Toward(e)' \subseteq Toward(e) /\ Toward(e) \subseteq Packets
         /\ Count(e) \in Nat /\ Count(e)' \in Nat /\ Count(e)' <= Count(e)
         /\ \A n \in Int : Load(e, n) => CarryAtMost(net'[e], pending'[e], withheld'[e], n)
<1> DEFINE q == net[e]
           r == pending[e]
           s == withheld[e]
<1>1. q \in Seq(Packets) /\ r \in Seq(Packets) /\ s \in Seq(Packets)
  BY DEF Typed
<1>2. Len(q) \in Nat /\ Len(r) \in Nat /\ Len(s) \in Nat
  BY <1>1
<1>3. /\ Range(q) \subseteq Packets /\ Range(r) \subseteq Packets /\ Range(s) \subseteq Packets
      /\ Range(<<>>) = {} /\ Len(<<>>) = 0
  BY <1>1, RangeMoves
<1>4. Toward(e) \subseteq Packets
  BY <1>3 DEF Toward
<1>5. CASE Kept(e)
  <2>1. net'[e] = q /\ pending'[e] = r /\ withheld'[e] = s
    BY <1>5 DEF Kept
  <2>2. Toward(e)' \subseteq Toward(e)
    BY <2>1 DEF Toward
  <2>3. Count(e) = Len(q) + Len(r) + Len(s) /\ Count(e)' = Len(q) + Len(r) + Len(s)
    BY <2>1 DEF Count
  <2>4. \A n \in Int : Load(e, n) => CarryAtMost(net'[e], pending'[e], withheld'[e], n)
    BY <2>1 DEF Load
  <2> HIDE DEF q, r, s
  <2> QED BY <1>2, <1>4, <2>2, <2>3, <2>4
<1>6. CASE Fetched(e)
  <2>1. Head(r) \in Packets
    BY <1>6, FetchEffect
  <2>2. Len(Head(r).data) \in Nat
    BY <2>1 DEF Packets
  <2>3. ASSUME NEW n \in Int, Load(e, n) PROVE CarryAtMost(net'[e], pending'[e], withheld'[e], n)
    <3>1. CarryAtMost(net'[e], pending'[e], withheld'[e], n - Len(Head(r).data))
      BY <1>6, <2>3, FetchEffect
    <3> QED BY <2>2, <3>1, CarryMore
  <2> QED BY <1>4, <1>6, <2>3, FetchEffect
<1>7. CASE Flushed(e)
  <2>1. net'[e] = q /\ pending'[e] = <<>> /\ withheld'[e] = <<>>
    BY <1>7 DEF Flushed
  <2>2. ASSUME NEW n \in Int, Load(e, n) PROVE CarryAtMost(q, <<>>, <<>>, n)
    <3>1. PICK a \in Nat, b \in Nat, c \in Nat :
            Carries(q, a) /\ Carries(r, b) /\ Carries(s, c) /\ a + b + c <= n
      BY <2>2 DEF CarryAtMost, Load
    <3>2. a + 0 + 0 <= n
      BY <3>1
    <3> QED BY <3>1, <3>2, NothingCarried DEF CarryAtMost
  <2>3. Toward(e)' \subseteq Toward(e)
    BY <1>3, <2>1 DEF Toward
  <2>4. Count(e) \in Nat /\ Count(e)' \in Nat /\ Count(e)' <= Count(e)
    <3>1. Count(e) = Len(q) + Len(r) + Len(s) /\ Count(e)' = Len(q) + 0 + 0
      BY <1>3, <2>1 DEF Count
    <3>2. \A i, j, k \in Nat : i + j + k \in Nat /\ i + 0 + 0 \in Nat /\ i + 0 + 0 <= i + j + k
      OBVIOUS
    <3> HIDE DEF q, r, s
    <3> QED BY <1>2, <3>1, <3>2
  <2> QED BY <1>4, <2>1, <2>2, <2>3, <2>4
<1>8. CASE Queued(e)
  BY <1>4, <1>8, QueueEffect
<1> QED BY <1>5, <1>6, <1>7, <1>8

-----------------------------------------------------------------------------
(* The two halves of a connection *)

\* Before an endpoint has taken part in the handshake; after it.
Early == {"LISTEN", "SYN_SENT", "SYN_RCVD"}
Unconnected(e) == "app_connect" \in flags[e]
Open(e) == tcp_state[e] \notin Early /\ ~Unconnected(e)

\* Bytes in the hands of the TCP thread, which RCV_NXT does not count until all are in.
HandLen(e) == IF thread[e].pc = "useData" THEN Len(thread[e].packet.data) ELSE 0
AtFIN == {"useData", "gotFIN"}
FINInHand(e) == thread[e].pc = "gotFIN" => thread[e].packet.fin

\* A step says nothing, or one packet, which acknowledges what has been received and carries
\* the next bytes; those that follow a FIN are none.
Speaks(e) ==
  \/ net'[Peer(e)] = net[Peer(e)] /\ tcb'[e].SND_NXT = tcb[e].SND_NXT
  \/ \E p \in Packets :
       /\ net'[Peer(e)] = Append(net[Peer(e)], p)
       /\ ~p.syn /\ p.ack_seq = tcb'[e].RCV_NXT /\ p.seq = tcb[e].SND_NXT
       /\ tcb'[e].SND_NXT = tcb[e].SND_NXT + Len(p.data)
       /\ p.data # <<>> => "send" \notin shut[e]
       /\ p.fin => p.data = <<>> /\ "send" \in shut'[e]

\* What it learns of its own bytes, it learns from a packet.
Hears(e) ==
  \/ tcb'[e].SND_UNA = tcb[e].SND_UNA
  \/ \E p \in Toward(e) : tcb'[e].SND_UNA = p.ack_seq

\* It takes a packet in hand, or what it has in hand into the receive buffer, or neither; or
\* the FIN in hand closes the receive buffer.
Takes(e) ==
  \/ tcb'[e].RCV_NXT = tcb[e].RCV_NXT /\ HandLen(e)' <= HandLen(e)
  \/ /\ tcb'[e].RCV_NXT = tcb[e].RCV_NXT /\ Fetched(e)
     /\ HandLen(e) = 0 /\ HandLen(e)' <= Len(Head(pending[e]).data)
  \/ /\ "recv" \notin shut[e] /\ tcb'[e].RCV_NXT = tcb[e].RCV_NXT + HandLen(e)
     /\ HandLen(e)' = 0
  \/ /\ "recv" \in shut'[e] /\ thread[e].pc = "gotFIN"
     /\ tcb'[e].RCV_NXT = thread[e].packet.seq /\ HandLen(e)' = 0

\* The packet in hand came from the network.
Holds(e) ==
  /\ thread'[e].pc \in AtFIN =>
       \/ thread[e].pc \in AtFIN /\ thread'[e].packet = thread[e].packet
       \/ thread'[e].packet \in Toward(e)
  /\ FINInHand(e)'

Converses(e) ==
  /\ (Open(e)' <=> Open(e)) /\ tcb'[e].ISS = tcb[e].ISS /\ shut[e] \subseteq shut'[e]
  /\ Speaks(e) /\ Hears(e) /\ Takes(e) /\ Holds(e)

\* What is in hand is a packet of so many bytes.
LEMMA AtFINTypes ==
  ASSUME NEW x \in Positions, x.pc \in AtFIN
  PROVE  x \in InHandler /\ x.packet \in Packets /\ Len(x.packet.data) \in Nat
<1>1. x \in InHandler
  BY PositionTypes DEF AtFIN
<1>2. \A p \in Packets : Len(p.data) \in Nat
  BY DEF Packets
<1> QED BY <1>1, <1>2 DEF InHandler

LEMMA HandTypes ==
  ASSUME Typed, NEW e \in Endpoints
  PROVE  /\ thread[e].pc \in AtFIN => thread[e] \in InHandler /\ thread[e].packet \in Packets
         /\ HandLen(e) \in Nat
BY AtFINTypes DEF Typed, HandLen, AtFIN

LEMMA NextHandTypes ==
  ASSUME Typed', NEW e \in Endpoints
  PROVE  HandLen(e)' \in Nat
BY AtFINTypes DEF Typed, HandLen, AtFIN

\* The steps that say nothing, hear nothing and take nothing.
Calm(e) ==
  /\ tcb'[e].ISS = tcb[e].ISS /\ tcb'[e].SND_UNA = tcb[e].SND_UNA
  /\ tcb'[e].SND_NXT = tcb[e].SND_NXT /\ tcb'[e].RCV_NXT = tcb[e].RCV_NXT
  /\ shut'[e] = shut[e] /\ net'[Peer(e)] = net[Peer(e)]
  /\ thread'[e] = thread[e] \/ thread'[e].pc \notin AtFIN

Handshakes(e) == Connect(e) \/ ListenArrival(e) \/ SynRcvdArrival(e) \/ SynSentArrival(e)
Talks(e) ==
  \/ RejectPacket(e) \/ AcceptPacket(e) \/ use_data(e) \/ always_on_fb(e)
  \/ SendSegment(e) \/ SendFIN(e)

\* All steps but these are calm.
LEMMA CalmSteps ==
  ASSUME Typed, NEW e \in Endpoints, Step(e), ~Handshakes(e), ~Talks(e)
  PROVE  Calm(e)
<1>0. /\ thread \in [Endpoints -> Positions] /\ tcb \in [Endpoints -> ControlBlocks]
      /\ net \in [Endpoints -> Seq(Packets)]
  BY DEF Typed
<1>d. Peer(e) \in Endpoints /\ Peer(e) # e
  BY PeerIsEndpoint, EndpointAssumption DEF Peer, Endpoints
<1>1. ASSUME UNCHANGED <<tcb, shut, net>>, thread'[e] = thread[e] \/ thread'[e].pc \notin AtFIN
      PROVE  Calm(e)
  BY <1>1 DEF Calm
<1>2. CASE StartArrival(e) \/ EndArrival(e) \/ LastAcked(e) \/ Cleanup(e) \/ AfterArrival(e)
  BY <1>0, <1>1, <1>2 DEF StartArrival, EndArrival, LastAcked, HearsLastACK, Cleanup, AfterArrival, Goto, Idle,
                          tcpVars, queues, AtFIN
<1>3. CASE FinishFIN(e)
  <2>1. thread[e].pc = "setState" /\ thread[e] \in InHandler
    BY <1>0, <1>3, PositionTypes DEF FinishFIN
  <2>2. thread'[e].pc = "arrival"
    BY <1>0, <1>3, <2>1 DEF FinishFIN, InHandler
  <2> QED BY <1>1, <1>3, <2>2 DEF FinishFIN, queues, AtFIN
<1>4. CASE Receive(e)
  <2>1. tcb' = [tcb EXCEPT ![e].RCV_WND = Room(e)] /\ UNCHANGED <<shut, net, thread>>
    BY <1>4 DEF Receive, queues
  <2> QED BY <1>0, <2>1 DEF Calm, ControlBlocks
<1>5. CASE Send(e) \/ StartClose(e)
  <2>1. UNCHANGED <<tcb, shut, net>> /\ thread'[e].pc = "sendAll"
    BY <1>0, <1>5 DEF Send, StartClose, StartSendAll, tcpVars, queues
  <2> QED BY <1>1, <2>1 DEF AtFIN
<1>6. CASE EndSendAll(e) \/ FinishClose(e)
  BY <1>0, <1>1, <1>6 DEF EndSendAll, FinishClose, Idle, tcpVars, queues, AtFIN
<1>7. ASSUME NEW f \in FlagSet, Ignore(e, f) PROVE Calm(e)
  BY <1>0, <1>1, <1>7 DEF Ignore, Goto, tcpVars, queues, AtFIN
<1>8. ASSUME NEW r, Enqueue(e, r) PROVE Calm(e)
  BY <1>0, <1>d, <1>8 DEF Enqueue, tcpVars, Calm
<1>9. CASE RaiseNetRecv(e)
  BY <1>1, <1>9 DEF RaiseNetRecv, tcpVars
<1>10. CASE (\E n \in SendSizes : SendCall(e, n)) \/ Sending(e) \/ Receiving(e) \/ Closing(e)
  <2>1. UNCHANGED <<tcb, shut, net, thread>>
    BY <1>10 DEF SendCall, Sending, SendPut, SendReturn, Receiving, RecvCall, RecvTake, RecvReturn,
                 Closing, CloseCall, CloseReturn, tcpVars, queues
  <2> QED BY <1>1, <2>1
<1> QED BY <1>2, <1>3, <1>4, <1>5, <1>6, <1>7, <1>8, <1>9, <1>10
        DEF Step, TcpThread, NetworkThread, Handshakes, Talks

\* No step after the handshake leads back to it.
LEMMA OpenStays ==
  ASSUME Typed, NEW e \in Endpoints, CloseIsFinal(e), Open(e), Step(e)
  PROVE  Open(e)' /\ ~Handshakes(e)
<1>0. /\ thread \in [Endpoints -> Positions] /\ tcp_state \in [Endpoints -> States]
      /\ flags \in [Endpoints -> SUBSET FlagSet]
  BY DEF Typed
<1>a. ASSUME NEW f, Take(e, f) PROVE flags'[e] \subseteq flags[e] /\ f \in flags[e]
  BY <1>0, <1>a, Taking
<1>1. ASSUME tcp_state'[e] \notin Early, "app_connect" \notin flags'[e] PROVE Open(e)'
  BY <1>1 DEF Open, Unconnected
<1>2. tcp_state[e] \notin Early /\ "app_connect" \notin flags[e]
  BY DEF Open, Unconnected
<1>3. ~Handshakes(e)
  BY <1>a, <1>2 DEF Handshakes, Connect, ListenArrival, SynRcvdArrival, SynSentArrival, Arrival, Early
<1> SUFFICES Open(e)'
  BY <1>3
<1>4. CASE StartArrival(e) \/ Receive(e) \/ Send(e) \/ StartClose(e) \/ Cleanup(e)
  BY <1>a, <1>1, <1>2, <1>4 DEF StartArrival, Receive, Send, StartClose, StartSendAll, Cleanup, tcpVars
<1>5. CASE EndArrival(e) \/ RejectPacket(e) \/ use_data(e) \/ always_on_fb(e) \/ SendSegment(e)
           \/ EndSendAll(e) \/ SendFIN(e)
  BY <1>1, <1>2, <1>5 DEF EndArrival, RejectPacket, use_data, always_on_fb, SendSegment, EndSendAll,
                          SendFIN, tcpVars
<1>6. CASE AcceptPacket(e)
  <2>1. tcp_state'[e] = tcp_state[e] \/ tcp_state'[e] = AckedState(thread[e].handler, tcp_state[e])
    BY <1>0, <1>6 DEF AcceptPacket, SetState
  <2>2. UNCHANGED flags
    BY <1>6 DEF AcceptPacket
  <2> QED BY <1>1, <1>2, <2>1, <2>2 DEF AckedState, Early
<1>7. CASE FinishFIN(e)
  <2>1. tcp_state'[e] = FinState(thread[e].handler, tcp_state[e], tcb[e], thread[e].packet)
    BY <1>0, <1>7 DEF FinishFIN, SetState
  <2>2. UNCHANGED flags
    BY <1>7 DEF FinishFIN
  <2> QED BY <1>1, <1>2, <2>1, <2>2 DEF FinState, Early
<1>8. CASE LastAcked(e)
  <2>1. tcp_state'[e] = tcp_state[e] \/ tcp_state'[e] = "CLOSED"
    BY <1>0, <1>8 DEF LastAcked, HearsLastACK, SetState
  <2>2. flags'[e] \subseteq flags[e] \cup {"cleanup"}
    BY <1>0, <1>8 DEF LastAcked, HearsLastACK
  <2> QED BY <1>1, <1>2, <2>1, <2>2 DEF Early
<1>9. CASE AfterArrival(e)
  BY <1>0, <1>1, <1>2, <1>9 DEF AfterArrival, RaiseAgain, tcpVars
<1>10. CASE FinishClose(e)
  <2>1. tcp_state'[e] \in {"FIN_WAIT_1", "LAST_ACK"} /\ UNCHANGED flags
    BY <1>0, <1>10 DEF FinishClose, SetState
  <2> QED BY <1>1, <1>2, <2>1 DEF Early
<1>11. ASSUME NEW f \in FlagSet, Ignore(e, f) PROVE Open(e)'
  BY <1>a, <1>1, <1>2, <1>11 DEF Ignore, tcpVars
<1>12. CASE NetworkThread(e)
  BY <1>0, <1>1, <1>2, <1>12 DEF NetworkThread, Enqueue, RaiseNetRecv, tcpVars
<1>13. CASE (\E n \in SendSizes : SendCall(e, n)) \/ Sending(e) \/ Receiving(e) \/ Closing(e)
  <2>1. UNCHANGED tcp_state
    BY <1>13 DEF SendCall, Sending, SendPut, SendReturn, Receiving, RecvCall, RecvTake, RecvReturn,
                 Closing, CloseCall, CloseReturn, tcpVars
  <2>2. flags'[e] \subseteq flags[e] \cup {"app_send", "app_recv", "app_close"}
    BY <1>0, <1>13
      DEF SendCall, Sending, SendPut, SendReturn, NotifySend, Receiving, RecvCall, RecvTake,
          RecvReturn, Closing, CloseCall, CloseReturn
  <2> QED BY <1>1, <1>2, <2>1, <2>2
<1> QED BY <1>3, <1>4, <1>5, <1>6, <1>7, <1>8, <1>9, <1>10, <1>11, <1>12, <1>13
        DEF Step, TcpThread, Handshakes

-----------------------------------------------------------------------------
(* What a step after the handshake does *)

\* A plain acknowledgment, of what has been received when it is sent.
LEMMA Acknowledges ==
  ASSUME Typed, NEW e \in Endpoints, NEW t \in ControlBlocks, Transmit(e, ACK(t)), tcb'[e] = t,
         t.SND_NXT = tcb[e].SND_NXT
  PROVE  Speaks(e)
<1>1. Peer(e) \in Endpoints /\ net \in [Endpoints -> Seq(Packets)]
  BY PeerIsEndpoint DEF Typed
<1>2. net'[Peer(e)] = Append(net[Peer(e)], ACK(t))
  BY <1>1 DEF Transmit
<1>a. <<>> \in Seq(Int)
  OBVIOUS
<1>3. ACK(t) \in Packets /\ <<>> \in Seq(Int)
  BY <1>a, PacketTypes
<1>4. /\ ~ACK(t).syn /\ ~ACK(t).fin /\ ACK(t).data = <<>>
      /\ ACK(t).seq = t.SND_NXT /\ ACK(t).ack_seq = t.RCV_NXT
  BY DEF ACK, Packet
<1>5. t.SND_NXT = t.SND_NXT + Len(<<>>)
  BY DEF ControlBlocks
<1> QED BY <1>2, <1>3, <1>4, <1>5 DEF Speaks

\* A calm step is an empty conversation.
LEMMA CalmConverses ==
  ASSUME Typed, NEW e \in Endpoints, FINInHand(e), Open(e)' <=> Open(e), Calm(e)
  PROVE  Converses(e)
<1>1. HandLen(e) \in Nat
  BY HandTypes
<1>2. HandLen(e)' = 0 \/ HandLen(e)' = HandLen(e)
  BY DEF Calm, HandLen, AtFIN
<1>3. Takes(e)
  BY <1>1, <1>2 DEF Takes, Calm
<1>4. Holds(e)
  BY DEF Calm, Holds, FINInHand, AtFIN
<1> QED BY <1>3, <1>4 DEF Converses, Calm, Speaks, Hears

\* A packet outside the window is only answered.
LEMMA RejectConverses ==
  ASSUME Typed, NEW e \in Endpoints, FINInHand(e), Open(e)' <=> Open(e), RejectPacket(e)
  PROVE  Converses(e)
<1>1. /\ UNCHANGED <<tcb, shut>> /\ Transmit(e, ACK(tcb[e])) /\ thread'[e] = [pc |-> "after"]
      /\ tcb[e] \in ControlBlocks /\ HandLen(e) \in Nat
  BY HandTypes DEF RejectPacket, Goto, tcpVars, Typed
<1>2. Speaks(e)
  BY <1>1, Acknowledges
<1>3. HandLen(e)' = 0 /\ thread'[e].pc \notin AtFIN
  BY <1>1 DEF HandLen, AtFIN
<1> QED BY <1>1, <1>2, <1>3 DEF Converses, Hears, Takes, Holds, FINInHand, AtFIN

\* The packet that is accepted may acknowledge, and is then in hand.
LEMMA AcceptConverses ==
  ASSUME Typed, NEW e \in Endpoints, FINInHand(e), Open(e)' <=> Open(e), AcceptPacket(e)
  PROVE  Converses(e)
<1> DEFINE p == Head(pending[e])
<1>1. /\ pending[e] # <<>> /\ Fetch(e) /\ UNCHANGED <<shut, net, withheld>> /\ thread[e].pc = "arrival"
      /\ tcb' = tcb \/ tcb' = [tcb EXCEPT ![e] = update_WND_and_UNA(@, p)]
      /\ thread'[e] = [pc |-> Next_pc(thread[e].handler, p), handler |-> thread[e].handler,
                       packet |-> p, rest |-> p.data]
      /\ tcb[e] \in ControlBlocks /\ HandLen(e) = 0
  BY DEF AcceptPacket, MoreToProcess, InArrival, HandLen, Typed
<1>2. Fetched(e)
  BY <1>1 DEF Fetched, Fetch, Typed
<1>3. p \in Toward(e) /\ p \in Packets
  BY <1>2, FetchEffect
<1>4. Len(p.data) \in Nat
  BY <1>3 DEF Packets
<1>5. /\ tcb'[e].ISS = tcb[e].ISS /\ tcb'[e].SND_NXT = tcb[e].SND_NXT
      /\ tcb'[e].RCV_NXT = tcb[e].RCV_NXT
      /\ tcb'[e].SND_UNA = tcb[e].SND_UNA \/ tcb'[e].SND_UNA = p.ack_seq
  <2>1. tcb'[e] = tcb[e] \/ tcb'[e] = update_WND_and_UNA(tcb[e], p)
    BY <1>1 DEF Typed
  <2> HIDE DEF p
  <2> QED BY <1>1, <2>1 DEF update_WND_and_UNA, ControlBlocks
<1>6. thread'[e].pc = Next_pc(thread[e].handler, p) /\ thread'[e].packet = p
  BY <1>1
<1>7. Next_pc(thread[e].handler, p) = "gotFIN" => p.fin
  BY DEF Next_pc
<1> HIDE DEF p
<1>8. HandLen(e)' = 0 \/ HandLen(e)' = Len(p.data)
  BY <1>6 DEF HandLen
<1>9. Takes(e)
  BY <1>1, <1>2, <1>4, <1>5, <1>8 DEF Takes, p
<1>10. Holds(e)
  BY <1>3, <1>6, <1>7 DEF Holds, FINInHand
<1>11. Hears(e)
  BY <1>3, <1>5 DEF Hears
<1>12. Speaks(e)
  BY <1>1, <1>5 DEF Speaks
<1> QED BY <1>1, <1>5, <1>9, <1>10, <1>11, <1>12 DEF Converses

\* The payload in hand goes into the receive buffer, unless that is closed.
LEMMA UseConverses ==
  ASSUME Typed, NEW e \in Endpoints, FINInHand(e), Open(e)' <=> Open(e), use_data(e)
  PROVE  Converses(e)
<1> DEFINE x == thread[e]
           l == Len(x.packet.data)
<1>1. /\ x.pc = "useData" /\ x \in InHandler /\ x.packet \in Packets /\ l \in Nat
      /\ HandLen(e) = l /\ tcb[e] \in ControlBlocks /\ UNCHANGED shut
  BY HandTypes DEF use_data, HandLen, AtFIN, Typed
<1>2. CASE UNCHANGED <<tcb, net>> /\ \E s : thread' = [thread EXCEPT ![e].rest = s]
  <2>1. thread'[e].pc = "useData" /\ thread'[e].packet = x.packet
    BY <1>1, <1>2 DEF InHandler, Typed
  <2>2. HandLen(e)' = l
    BY <2>1 DEF HandLen
  <2> QED BY <1>1, <1>2, <2>1, <2>2 DEF Converses, Speaks, Hears, Takes, Holds, FINInHand, AtFIN
<1>3. ASSUME NEW t \in ControlBlocks, Written(e, t), t.ISS = tcb[e].ISS, t.SND_UNA = tcb[e].SND_UNA,
             t.SND_NXT = tcb[e].SND_NXT,
             \/ t.RCV_NXT = tcb[e].RCV_NXT
             \/ "recv" \notin shut[e] /\ t.RCV_NXT = tcb[e].RCV_NXT + l
      PROVE  Converses(e)
  <2>1. tcb'[e] = t /\ Transmit(e, ACK(t))
    BY <1>3 DEF Written, Typed
  <2>2. /\ thread'[e].packet = x.packet
        /\ thread'[e].pc = IF x.packet.fin THEN "gotFIN" ELSE "arrival"
    BY <1>1, <1>3 DEF Written, InHandler, Typed
  <2>3. HandLen(e)' = 0 /\ thread'[e].pc # "useData"
    BY <2>2 DEF HandLen
  <2>4. Speaks(e)
    BY <1>3, <2>1, Acknowledges
  <2>5. Takes(e)
    BY <1>1, <1>3, <2>1, <2>3 DEF Takes
  <2>6. Holds(e)
    BY <1>1, <2>2 DEF Holds, FINInHand, AtFIN
  <2> QED BY <1>1, <1>3, <2>1, <2>4, <2>5, <2>6 DEF Converses, Hears
<1>4. CASE Written(e, tcb[e])
  BY <1>1, <1>3, <1>4
<1>5. CASE "recv" \notin shut[e] /\ Written(e, Advance(tcb[e], Len(thread[e].packet.data)))
  <2> DEFINE t == Advance(tcb[e], l)
  <2>0. /\ \A i \in Int : i % Word \in Int
        /\ tcb[e].RCV_WND \in Int /\ tcb[e].RCV_NXT \in Int
    BY <1>1, SizeAssumption DEF ControlBlocks
  <2> HIDE DEF l
  <2>1. l \in Int /\ (tcb[e].RCV_WND - l) % Word \in Int /\ tcb[e].RCV_NXT + l \in Int
    BY <1>1, <2>0
  <2>2. /\ t \in ControlBlocks /\ t.ISS = tcb[e].ISS /\ t.SND_UNA = tcb[e].SND_UNA
        /\ t.SND_NXT = tcb[e].SND_NXT /\ t.RCV_NXT = tcb[e].RCV_NXT + l
    BY <1>1, <2>1 DEF Advance, ControlBlocks
  <2> HIDE DEF t
  <2>3. Written(e, t)
    BY <1>5 DEF t, l
  <2> QED BY <1>3, <1>5, <2>2, <2>3
<1>6. \/ UNCHANGED <<tcb, net>> /\ \E s : thread' = [thread EXCEPT ![e].rest = s]
      \/ Written(e, tcb[e])
      \/ "recv" \notin shut[e] /\ Written(e, Advance(tcb[e], Len(thread[e].packet.data)))
  BY DEF use_data
<1> QED BY <1>2, <1>4, <1>5, <1>6

\* The FIN in hand closes the receive buffer.
LEMMA FINConverses ==
  ASSUME Typed, NEW e \in Endpoints, FINInHand(e), Open(e)' <=> Open(e), always_on_fb(e)
  PROVE  Converses(e)
<1> DEFINE x == thread[e]
           t == [tcb[e] EXCEPT !.RCV_NXT = x.packet.seq]
<1>1. x.pc = "gotFIN" /\ x \in InHandler /\ x.packet \in Packets /\ tcb[e] \in ControlBlocks
  BY HandTypes DEF always_on_fb, AtFIN, Typed
<1>2. x.packet.seq \in Int
  BY <1>1 DEF Packets
<1>3. /\ t \in ControlBlocks /\ t.ISS = tcb[e].ISS /\ t.SND_UNA = tcb[e].SND_UNA
      /\ t.SND_NXT = tcb[e].SND_NXT /\ t.RCV_NXT = x.packet.seq
  BY <1>1, <1>2 DEF ControlBlocks
<1>4. tcb'[e] = t /\ Transmit(e, ACK(t)) /\ shut'[e] = shut[e] \cup {"recv"}
  BY DEF always_on_fb, Typed
<1> HIDE DEF t
<1>5. Speaks(e)
  BY <1>3, <1>4, Acknowledges
<1>6. thread'[e].pc = "setState"
  BY <1>1 DEF always_on_fb, InHandler, Typed
<1>7. HandLen(e)' = 0
  BY <1>6 DEF HandLen
<1> QED BY <1>1, <1>3, <1>4, <1>5, <1>6, <1>7 DEF Converses, Hears, Takes, Holds, FINInHand, AtFIN

\* The next bytes of the send buffer become a segment.
LEMMA SegmentConverses ==
  ASSUME Typed, NEW e \in Endpoints, FINInHand(e), CloseIsFinal(e), Open(e)' <=> Open(e), SendSegment(e)
  PROVE  Converses(e)
<1> DEFINE n == MIN(thread[e].toSend, Len(send[e]))
           bytes == SubSeq(send[e], 1, n)
           p == Segment(tcb[e], bytes)
<1>1. /\ thread[e] \in SendingAll /\ thread[e].pc = "sendAll" /\ thread'[e].pc = "sendAll"
      /\ send[e] \in Seq(Int) /\ send[e] # <<>> /\ thread[e].toSend > 0 /\ tcb[e] \in ControlBlocks
      /\ UNCHANGED shut
  BY SendSegmentStays, PositionTypes DEF SendSegment, SendAllGoesOn, Typed
<1>2. n \in 1 .. Len(send[e])
  <2>1. thread[e].toSend \in Int /\ Len(send[e]) \in Nat \ {0}
    BY <1>1 DEF SendingAll
  <2>2. \A i \in Int, k \in Nat \ {0} : i > 0 => MIN(i, k) \in 1 .. k
    BY DEF MIN
  <2> QED BY <1>1, <2>1, <2>2
<1>3. Len(bytes) = n /\ bytes \in Seq(Int)
  BY <1>1, <1>2, SubSeqProperties
<1>4. /\ tcb' = [tcb EXCEPT ![e] = [tcb[e] EXCEPT !.SND_NXT = @ + n, !.SND_WND = @ - n]]
      /\ Transmit(e, p)
  BY DEF SendSegment
<1>5. /\ tcb'[e].SND_NXT = tcb[e].SND_NXT + n /\ tcb'[e].RCV_NXT = tcb[e].RCV_NXT
      /\ tcb'[e].ISS = tcb[e].ISS /\ tcb'[e].SND_UNA = tcb[e].SND_UNA
  <2>1. tcb'[e] = [tcb[e] EXCEPT !.SND_NXT = @ + n, !.SND_WND = @ - n]
    BY <1>4 DEF Typed
  <2> HIDE DEF n
  <2> QED BY <1>1, <2>1 DEF ControlBlocks
<1> HIDE DEF bytes, n
<1>6. /\ p \in Packets /\ ~p.syn /\ ~p.fin /\ p.data = bytes
      /\ p.seq = tcb[e].SND_NXT /\ p.ack_seq = tcb[e].RCV_NXT
  BY <1>1, <1>3, PacketTypes DEF Segment, Packet
<1>7. "send" \notin shut[e]
  BY <1>1 DEF CloseIsFinal
<1>8. net'[Peer(e)] = Append(net[Peer(e)], p)
  BY <1>4, PeerIsEndpoint DEF Transmit, Typed
<1> HIDE DEF p
<1>9. Speaks(e)
  BY <1>3, <1>5, <1>6, <1>7, <1>8 DEF Speaks
<1>10. HandLen(e) = 0 /\ HandLen(e)' = 0
  BY <1>1 DEF HandLen
<1> QED BY <1>1, <1>5, <1>9, <1>10 DEF Converses, Hears, Takes, Holds, FINInHand, AtFIN

\* CLOSE says its FIN.
LEMMA CloseConverses ==
  ASSUME Typed, NEW e \in Endpoints, FINInHand(e), Open(e)' <=> Open(e), SendFIN(e)
  PROVE  Converses(e)
<1> DEFINE p == FIN(e, tcb[e])
<1>1. /\ thread[e].pc = "sendAll" /\ thread'[e].pc = "closing" /\ UNCHANGED tcb
      /\ tcb[e] \in ControlBlocks /\ shut[e] \subseteq shut'[e] /\ "send" \in shut'[e]
      /\ net'[Peer(e)] = Append(net[Peer(e)], p)
  BY PeerIsEndpoint DEF SendFIN, Goto, Transmit, Typed
<1>a. <<>> \in Seq(Int)
  OBVIOUS
<1>b. p \in Packets
  BY <1>1, <1>a, PacketTypes
<1>2. /\ p \in Packets /\ ~p.syn /\ p.fin /\ p.data = <<>>
      /\ p.seq = tcb[e].SND_NXT /\ p.ack_seq = tcb[e].RCV_NXT /\ <<>> \in Seq(Int)
  BY <1>a, <1>b DEF FIN, Packet
<1>3. tcb[e].SND_NXT = tcb[e].SND_NXT + Len(<<>>)
  BY <1>1 DEF ControlBlocks
<1> HIDE DEF p
<1>4. Speaks(e)
  BY <1>1, <1>2, <1>3 DEF Speaks
<1>5. HandLen(e) = 0 /\ HandLen(e)' = 0
  BY <1>1 DEF HandLen
<1> QED BY <1>1, <1>4, <1>5 DEF Converses, Hears, Takes, Holds, FINInHand, AtFIN

\* All of it: what any step of an endpoint after the handshake can do.
LEMMA OpenConverses ==
  ASSUME Typed, NEW e \in Endpoints, CloseIsFinal(e), FINInHand(e), Open(e), Step(e)
  PROVE  Converses(e)
<1>1. Open(e)' /\ ~Handshakes(e)
  BY OpenStays
<1>2. CASE Talks(e)
  BY <1>1, <1>2, RejectConverses, AcceptConverses, UseConverses, FINConverses, SegmentConverses,
     CloseConverses DEF Talks
<1>3. CASE ~Talks(e)
  BY <1>1, <1>3, CalmSteps, CalmConverses
<1> QED BY <1>2, <1>3

-----------------------------------------------------------------------------
(* What a step does to the other endpoint *)

\* A step leaves the other endpoint's control block alone, and what a debugger withholds
\* from it.
LEMMA OtherBlock ==
  ASSUME Typed, NEW e \in Endpoints, Step(e), NEW d \in Endpoints, d # e
  PROVE  tcb'[d] = tcb[d] /\ withheld'[d] = withheld[d]
<1>1. CASE UNCHANGED withheld /\ \E t : tcb' = [tcb EXCEPT ![e] = t]
  BY <1>1 DEF Typed
<1>2. CASE UNCHANGED tcb /\ (UNCHANGED withheld \/ \E q : withheld' = [withheld EXCEPT ![e] = q])
  BY <1>2 DEF Typed
<1>3. CASE Connect(e)
  BY <1>1, <1>3 DEF Connect
<1>4. CASE ListenArrival(e)
  BY <1>1, <1>2, <1>4 DEF ListenArrival, Arrival
<1>5. CASE SynRcvdArrival(e)
  <2>1. UNCHANGED withheld /\ (UNCHANGED tcb \/ tcb'[d] = tcb[d])
    BY <1>5 DEF SynRcvdArrival, Arrival, Typed
  <2> QED BY <2>1
<1>6. CASE SynSentArrival(e)
  <2>1. UNCHANGED withheld /\ (UNCHANGED tcb \/ tcb'[d] = tcb[d])
    BY <1>6 DEF SynSentArrival, Arrival, Typed
  <2> QED BY <2>1
<1>7. CASE StartArrival(e) \/ EndArrival(e) \/ RejectPacket(e) \/ LastAcked(e)
  BY <1>2, <1>7 DEF StartArrival, EndArrival, RejectPacket, LastAcked, HearsLastACK, tcpVars, queues
<1>8. CASE AcceptPacket(e)
  <2>1. UNCHANGED withheld /\ (UNCHANGED tcb \/ tcb'[d] = tcb[d])
    BY <1>8 DEF AcceptPacket, Typed
  <2> QED BY <2>1
<1>9. CASE use_data(e) \/ always_on_fb(e)
  <2>1. UNCHANGED withheld /\ (UNCHANGED tcb \/ tcb'[d] = tcb[d])
    BY <1>9 DEF use_data, Written, always_on_fb, Typed
  <2> QED BY <2>1
<1>10. CASE FinishFIN(e) \/ Cleanup(e) \/ AfterArrival(e) \/ Send(e) \/ StartClose(e) \/ EndSendAll(e)
  BY <1>2, <1>10 DEF FinishFIN, Cleanup, AfterArrival, Send, StartClose, StartSendAll, EndSendAll,
                     tcpVars, queues
<1>11. CASE Receive(e) \/ SendSegment(e) \/ SendFIN(e) \/ FinishClose(e)
  <2>1. UNCHANGED withheld /\ (UNCHANGED tcb \/ tcb'[d] = tcb[d])
    BY <1>11 DEF Receive, SendSegment, SendFIN, FinishClose, queues, Typed
  <2> QED BY <2>1
<1>12. ASSUME NEW f \in FlagSet, Ignore(e, f) PROVE tcb'[d] = tcb[d] /\ withheld'[d] = withheld[d]
  BY <1>12 DEF Ignore, tcpVars, queues
<1>13. ASSUME NEW r, Enqueue(e, r) PROVE tcb'[d] = tcb[d] /\ withheld'[d] = withheld[d]
  BY <1>2, <1>13 DEF Enqueue, tcpVars
<1>14. CASE RaiseNetRecv(e)
  BY <1>14 DEF RaiseNetRecv, tcpVars
<1>15. CASE (\E n \in SendSizes : SendCall(e, n)) \/ Sending(e) \/ Receiving(e) \/ Closing(e)
  <2>1. UNCHANGED <<tcb, queues>>
    BY <1>15 DEF SendCall, Sending, SendPut, SendReturn, Receiving, RecvCall, RecvTake, RecvReturn,
                 Closing, CloseCall, CloseReturn, tcpVars
  <2> QED BY <2>1 DEF queues
<1> QED BY <1>3, <1>4, <1>5, <1>6, <1>7, <1>8, <1>9, <1>10, <1>11, <1>12, <1>13, <1>14, <1>15
        DEF Step, TcpThread, NetworkThread

\* All that stays as it is at the other end: everything, but for what is on its way to it.
LEMMA OtherEnd ==
  ASSUME Typed, NEW e \in Endpoints, Step(e), NEW d \in Endpoints, d = Peer(e)
  PROVE  /\ d # e /\ Peer(d) = e
         /\ tcp_state'[d] = tcp_state[d] /\ tcb'[d] = tcb[d] /\ shut'[d] = shut[d]
         /\ thread'[d] = thread[d] /\ flags'[d] = flags[d]
         /\ pending'[d] = pending[d] /\ withheld'[d] = withheld[d]
         /\ (Open(d)' <=> Open(d)) /\ HandLen(d)' = HandLen(d)
<1>1. d # e /\ Peer(d) = e
  BY EndpointAssumption DEF Peer, Endpoints
<1> QED BY <1>1, OwnState, OtherBlock DEF Mine, Open, Unconnected, HandLen

\* A packet on its way to the other end.
LEMMA PacketJoins ==
  ASSUME Typed, NEW d \in Endpoints, NEW p \in Packets, net'[d] = Append(net[d], p),
         pending'[d] = pending[d], withheld'[d] = withheld[d]
  PROVE  /\ Toward(d)' = Toward(d) \cup {p} /\ Len(p.data) \in Nat
         /\ Count(d) \in Nat /\ Count(d)' = Count(d) + 1
         /\ \A n \in Int : Load(d, n) =>
              CarryAtMost(net'[d], pending'[d], withheld'[d], n + Len(p.data))
<1> DEFINE q == net[d]
           r == pending[d]
           s == withheld[d]
<1>1. q \in Seq(Packets) /\ r \in Seq(Packets) /\ s \in Seq(Packets)
  BY DEF Typed
<1>2. Len(q) \in Nat /\ Len(r) \in Nat /\ Len(s) \in Nat /\ Len(Append(q, p)) = Len(q) + 1
  BY <1>1
<1>3. Toward(d)' = Toward(d) \cup {p}
  BY <1>1, RangeMoves DEF Toward
<1>4. Count(d) \in Nat /\ Count(d)' = Count(d) + 1
  <2>1. Count(d) = Len(q) + Len(r) + Len(s) /\ Count(d)' = Len(Append(q, p)) + Len(r) + Len(s)
    BY DEF Count
  <2> HIDE DEF q, r, s
  <2> QED BY <1>2, <2>1
<1>5. Len(p.data) \in Nat
  BY DEF Packets
<1>6. ASSUME NEW n \in Int, CarryAtMost(q, r, s, n)
      PROVE  CarryAtMost(Append(q, p), r, s, n + Len(p.data))
  <2>1. PICK a \in Nat, b \in Nat, c \in Nat :
          Carries(q, a) /\ Carries(r, b) /\ Carries(s, c) /\ a + b + c <= n
    BY <1>6 DEF CarryAtMost
  <2>2. Carries(Append(q, p), a + Len(p.data)) /\ a + Len(p.data) \in Nat
    BY <1>1, <1>5, <2>1, AppendCarries
  <2>3. (a + Len(p.data)) + b + c <= n + Len(p.data)
    BY <1>5, <2>1
  <2> QED BY <2>1, <2>2, <2>3 DEF CarryAtMost
<1>7. \A n : Load(d, n) <=> CarryAtMost(q, r, s, n)
  BY DEF Load
<1> QED BY <1>3, <1>4, <1>5, <1>6, <1>7

\* Three queues without packets carry nothing.
LEMMA EmptyQueues ==
  ASSUME NEW q \in Seq(Packets), NEW r \in Seq(Packets), NEW s \in Seq(Packets),
         Len(q) + Len(r) + Len(s) = 0
  PROVE  Range(q) \cup Range(r) \cup Range(s) = {} /\ CarryAtMost(q, r, s, 0)
<1>1. Len(q) \in Nat /\ Len(r) \in Nat /\ Len(s) \in Nat
  OBVIOUS
<1>2. Len(q) = 0 /\ Len(r) = 0 /\ Len(s) = 0
  <2> DEFINE i == Len(q)
             j == Len(r)
             k == Len(s)
  <2>1. i \in Nat /\ j \in Nat /\ k \in Nat /\ i + j + k = 0
    BY <1>1
  <2> HIDE DEF i, j, k
  <2>2. i = 0 /\ j = 0 /\ k = 0
    BY <2>1
  <2> QED BY <2>2 DEF i, j, k
<1>3. q = <<>> /\ r = <<>> /\ s = <<>>
  BY <1>2, EmptySeq
<1>4. Range(<<>>) = {}
  BY RangeMoves
<1>5. CarryAtMost(<<>>, <<>>, <<>>, 0)
  BY NothingCarried DEF CarryAtMost
<1> QED BY <1>3, <1>4, <1>5

\* Before and after a step.
LEMMA NothingOnItsWay ==
  ASSUME NEW e \in Endpoints
  PROVE  /\ Typed /\ Count(e) = 0 => Toward(e) = {} /\ Load(e, 0)
         /\ Typed' /\ Count(e)' = 0 => Toward(e)' = {} /\ CarryAtMost(net'[e], pending'[e], withheld'[e], 0)
<1>1. ASSUME Typed, Count(e) = 0 PROVE Toward(e) = {} /\ Load(e, 0)
  BY <1>1, EmptyQueues DEF Typed, Count, Toward, Load
<1>2. ASSUME Typed', Count(e)' = 0
      PROVE  Toward(e)' = {} /\ CarryAtMost(net'[e], pending'[e], withheld'[e], 0)
  BY <1>2, EmptyQueues DEF Typed, Count, Toward
<1> QED BY <1>1, <1>2

\* A step of an endpoint before the handshake that is not a step of the handshake.
LEMMA EarlyKeeps ==
  ASSUME Typed, NEW e \in Endpoints, CloseIsFinal(e), ~Open(e), thread[e].pc \in {"wait", "after"},
         Step(e), ~Handshakes(e)
  PROVE  /\ tcb'[e] = tcb[e] /\ tcp_state'[e] = tcp_state[e] /\ shut'[e] = shut[e]
         /\ net'[Peer(e)] = net[Peer(e)] /\ thread'[e].pc \in {"wait", "after"}
         /\ (Unconnected(e)' <=> Unconnected(e)) /\ ~Talks(e)
<1>0. /\ thread \in [Endpoints -> Positions] /\ tcp_state \in [Endpoints -> States]
      /\ flags \in [Endpoints -> SUBSET FlagSet] /\ net \in [Endpoints -> Seq(Packets)]
      /\ Peer(e) \in Endpoints /\ Peer(e) # e
  BY PeerIsEndpoint, EndpointAssumption DEF Typed, Peer, Endpoints
<1>a. ASSUME NEW f, Take(e, f) PROVE flags'[e] = flags[e] \ {f} /\ f \in flags[e]
  BY <1>0, <1>a, Taking
<1>b. tcp_state[e] \in Early \/ (tcp_state[e] = "CLOSED" /\ "app_connect" \in flags[e])
  BY DEF Open, Unconnected, CloseIsFinal
<1>c. tcp_state[e] \in Early => "app_connect" \notin flags[e]
  BY DEF Early, CloseIsFinal
<1> DEFINE Still == tcb'[e] = tcb[e] /\ tcp_state'[e] = tcp_state[e] /\ shut'[e] = shut[e]
                    /\ net'[Peer(e)] = net[Peer(e)] /\ thread'[e].pc \in {"wait", "after"}
                    /\ (Unconnected(e)' <=> Unconnected(e))
<1>1. ~Talks(e)
  BY DEF Talks, RejectPacket, AcceptPacket, InArrival, use_data, always_on_fb, SendSegment, SendFIN
<1>2. ~(\/ StartArrival(e) \/ EndArrival(e) \/ FinishFIN(e) \/ LastAcked(e)
        \/ EndSendAll(e) \/ FinishClose(e))
  BY <1>b DEF StartArrival, EndArrival, FinishFIN, LastAcked, HearsLastACK, InArrival, EndSendAll, FinishClose,
              ArrivalStates, ReceivingStates, Early
<1>3. ~(Receive(e) \/ Send(e) \/ StartClose(e))
  BY <1>b DEF Receive, Send, StartClose, Early
<1>4. ~Cleanup(e)
  BY <1>b, Taking DEF Cleanup, Early
<1>5. CASE AfterArrival(e)
  <2>1. Still
    BY <1>0, <1>5 DEF AfterArrival, RaiseAgain, tcpVars, queues, Idle, Unconnected
  <2> QED BY <1>1, <2>1
<1>6. ASSUME NEW f \in FlagSet, Ignore(e, f) PROVE Still
  <2>1. Take(e, f) /\ UNCHANGED <<tcpVars, queues>>
    BY <1>6 DEF Ignore
  <2>2. f # "app_connect"
    BY <1>a, <1>b, <1>c, <1>6, <2>1 DEF Ignore, Handled
  <2>3. thread'[e].pc \in {"wait", "after"}
    BY <1>0, <1>6 DEF Ignore, Goto
  <2> QED BY <1>a, <2>1, <2>2, <2>3 DEF tcpVars, queues, Unconnected
<1>7. CASE NetworkThread(e)
  <2>1. Still
    BY <1>0, <1>7 DEF NetworkThread, Enqueue, RaiseNetRecv, tcpVars, Unconnected
  <2> QED BY <1>1, <2>1
<1>8. CASE (\E n \in SendSizes : SendCall(e, n)) \/ Sending(e) \/ Receiving(e) \/ Closing(e)
  <2>1. UNCHANGED <<tcb, tcp_state, shut, net, thread>>
    BY <1>8 DEF SendCall, Sending, SendPut, SendReturn, Receiving, RecvCall, RecvTake, RecvReturn,
                Closing, CloseCall, CloseReturn, tcpVars, queues
  <2>2. "app_connect" \in flags'[e] <=> "app_connect" \in flags[e]
    BY <1>0, <1>8
      DEF SendCall, Sending, SendPut, SendReturn, NotifySend, Receiving, RecvCall, RecvTake,
          RecvReturn, Closing, CloseCall, CloseReturn
  <2> QED BY <1>1, <2>1, <2>2 DEF Unconnected
<1> QED BY <1>1, <1>2, <1>3, <1>4, <1>5, <1>6, <1>7, <1>8
        DEF Step, TcpThread, Handshakes, Talks

-----------------------------------------------------------------------------
(* The sequence numbers of two endpoints *)

Plain(e) == \A p \in Toward(e) : ~p.syn

\* The five stages of the handshake: no SYN yet; a SYN on its way, until the server has it;
\* a SYN_ACK, until the client has it; its ACK, until the server has it; over.
HasSaidSYN(e) == tcb[e].SND_UNA = tcb[e].ISS /\ tcb[e].SND_NXT = tcb[e].ISS + 1
Unasked ==
  /\ Unconnected(Client) /\ tcp_state[Server] = "LISTEN" /\ tcb[Server].RCV_NXT = 0
  /\ Count(Client) = 0 /\ Count(Server) = 0
Asked ==
  /\ tcp_state[Client] = "SYN_SENT" /\ tcp_state[Server] = "LISTEN" /\ tcb[Server].RCV_NXT = 0
  /\ HasSaidSYN(Client)
  /\ Count(Client) = 0 /\ Count(Server) <= 1
  /\ \A p \in Toward(Server) : p = SYN(tcb[Client])
Answered ==
  /\ tcp_state[Client] = "SYN_SENT" /\ tcp_state[Server] = "SYN_RCVD"
  /\ HasSaidSYN(Client) /\ HasSaidSYN(Server) /\ tcb[Server].RCV_NXT = tcb[Client].SND_NXT
  /\ Count(Client) <= 1 /\ Count(Server) = 0
  /\ \A p \in Toward(Client) : p = SYN_ACK(tcb[Server])
HalfOpen ==
  /\ Open(Client) /\ tcp_state[Server] = "SYN_RCVD"
  /\ HasSaidSYN(Server) /\ tcb[Client].RCV_NXT = tcb[Server].SND_NXT
  /\ tcb[Server].RCV_NXT = tcb[Client].ISS + 1
  /\ Plain(Client) /\ Plain(Server)
BothOpen == Open(Client) /\ Open(Server) /\ Plain(Client) /\ Plain(Server)

Phase ==
  /\ ~Unconnected(Server)
  /\ \A e \in Endpoints : ~Open(e) => thread[e].pc \in {"wait", "after"}
  /\ ~Open(Client) => tcb[Client].RCV_NXT = 0
  /\ Unasked \/ Asked \/ Answered \/ HalfOpen \/ BothOpen

\* What is acknowledged has been received: in the packets on their way, and by whoever has
\* heard of it.
AcksInFlight(e) == \A p \in Toward(e) : ~p.syn => p.ack_seq <= tcb[Peer(e)].RCV_NXT
AcksHeard(e) == Open(e) => tcb[e].SND_UNA <= tcb[Peer(e)].RCV_NXT

\* A FIN has the last sequence number of its sender, which says no more.
SaidFIN(e, p) == p.seq = tcb[e].SND_NXT /\ "send" \in shut[e]
FINsInFlight(e) == \A p \in Toward(e) : p.fin => SaidFIN(Peer(e), p)
FINsAtHand(e) ==
  /\ thread[e].pc \in AtFIN /\ thread[e].packet.fin => SaidFIN(Peer(e), thread[e].packet)
  /\ FINInHand(e)

\* What has been received, what is in hand and what is on its way is no more than what was
\* sent. After a FIN, RCV_NXT has gone back to its sequence number and only this counts.
Budget(e) ==
  /\ tcb[e].RCV_NXT >= 0 /\ tcb[e].RCV_NXT <= tcb[Peer(e)].SND_NXT
  /\ "recv" \notin shut[e] => Load(e, tcb[Peer(e)].SND_NXT - tcb[e].RCV_NXT - HandLen(e))

Numbered(e) == AcksInFlight(e) /\ AcksHeard(e) /\ FINsInFlight(e) /\ FINsAtHand(e) /\ Budget(e)
SeqInv == Phase /\ \A e \in Endpoints : Numbered(e)

\* The numbers of a control block, and what becomes of them.
LEMMA BlockTypes ==
  ASSUME Typed, NEW e \in Endpoints
  PROVE  /\ tcb[e].ISS \in Int /\ tcb[e].SND_UNA \in Int /\ tcb[e].SND_NXT \in Int
         /\ tcb[e].RCV_NXT \in Int /\ tcb[e].RCV_WND \in Int /\ tcb[e].SND_WND \in Int
BY DEF Typed, ControlBlocks

\* What is received grows: the FIN's number is the last.
LEMMA ReceiptGrows ==
  ASSUME Typed, Typed', NEW e \in Endpoints, Takes(e), Numbered(e),
         tcb'[Peer(e)].SND_NXT = tcb[Peer(e)].SND_NXT, Kept(e) \/ Fetched(e) \/ Flushed(e) \/ Queued(e),
         shut[e] \subseteq shut'[e]
  PROVE  tcb'[e].RCV_NXT >= tcb[e].RCV_NXT /\ Budget(e)'
<1> DEFINE d == Peer(e)
           N == tcb[d].SND_NXT
           R == tcb[e].RCV_NXT
           H == HandLen(e)
           L(n) == CarryAtMost(net'[e], pending'[e], withheld'[e], n)
<1>1. /\ d \in Endpoints /\ N \in Int /\ R \in Int /\ H \in Nat
      /\ tcb'[e].RCV_NXT \in Int /\ HandLen(e)' \in Nat
  <2>1. d \in Endpoints
    BY PeerIsEndpoint
  <2>2. tcb'[e].RCV_NXT \in Int
    BY DEF Typed, ControlBlocks
  <2> QED BY <2>1, <2>2, BlockTypes, HandTypes, NextHandTypes
<1>2. R >= 0 /\ R <= N /\ ("recv" \notin shut[e] => Load(e, N - R - H))
  BY DEF Numbered, Budget
<1>3. \A n \in Int : Load(e, n) => L(n)
  BY OwnEffects
<1>4. \A n, m \in Int : n <= m /\ L(n) => L(m) /\ n >= 0
  BY CarryMore
<1>5. ASSUME tcb'[e].RCV_NXT >= R, tcb'[e].RCV_NXT <= N,
             "recv" \notin shut'[e] => L(N - tcb'[e].RCV_NXT - HandLen(e)')
      PROVE  tcb'[e].RCV_NXT >= R /\ Budget(e)'
  <2>1. tcb'[e].RCV_NXT >= 0
    BY <1>1, <1>2, <1>5
  <2> QED BY <1>5, <2>1 DEF Budget, Load
<1> HIDE DEF L, N, R
<1>6. CASE tcb'[e].RCV_NXT = R /\ HandLen(e)' <= H
  <2>1. ASSUME "recv" \notin shut'[e] PROVE L(N - tcb'[e].RCV_NXT - HandLen(e)')
    <3>1. L(N - R - H)
      BY <1>1, <1>2, <1>3, <2>1
    <3>2. N - R - H <= N - tcb'[e].RCV_NXT - HandLen(e)'
      BY <1>1, <1>6
    <3> QED BY <1>1, <1>4, <3>1, <3>2
  <2> QED BY <1>1, <1>2, <1>5, <1>6, <2>1 DEF R
<1>7. CASE /\ tcb'[e].RCV_NXT = R /\ Fetched(e) /\ H = 0
           /\ HandLen(e)' <= Len(Head(pending[e]).data)
  <2> DEFINE l == Len(Head(pending[e]).data)
  <2>1. Head(pending[e]) \in Packets /\ \A n \in Int : Load(e, n) => L(n - l)
    BY <1>7, FetchEffect DEF L
  <2>2. l \in Nat
    BY <2>1 DEF Packets
  <2>3. ASSUME "recv" \notin shut'[e] PROVE L(N - tcb'[e].RCV_NXT - HandLen(e)')
    <3>1. L(N - R - H - l)
      BY <1>1, <1>2, <2>1, <2>3
    <3>2. HandLen(e)' <= l
      BY <1>7
    <3> HIDE DEF l
    <3>3. N - R - H - l <= N - tcb'[e].RCV_NXT - HandLen(e)' /\ N - R - H - l \in Int
      BY <1>1, <1>7, <2>2, <3>2
    <3> QED BY <1>1, <1>4, <3>1, <3>3
  <2> QED BY <1>1, <1>2, <1>5, <1>7, <2>3 DEF R
<1>8. CASE "recv" \notin shut[e] /\ tcb'[e].RCV_NXT = R + H /\ HandLen(e)' = 0
  <2>1. L(N - R - H)
    BY <1>1, <1>2, <1>3, <1>8
  <2>2. N - R - H >= 0
    BY <1>1, <1>4, <2>1
  <2>3. N - R - H = N - tcb'[e].RCV_NXT - HandLen(e)'
    BY <1>1, <1>8
  <2>4. tcb'[e].RCV_NXT >= R /\ tcb'[e].RCV_NXT <= N
    BY <1>1, <1>8, <2>2
  <2> QED BY <1>5, <1>8, <2>1, <2>3, <2>4 DEF R
<1>9. CASE /\ "recv" \in shut'[e] /\ thread[e].pc = "gotFIN"
           /\ tcb'[e].RCV_NXT = thread[e].packet.seq /\ HandLen(e)' = 0
  <2>1. thread[e].packet.seq = N
    BY <1>9 DEF Numbered, FINsAtHand, FINInHand, SaidFIN, AtFIN, N
  <2> QED BY <1>1, <1>2, <1>5, <1>9, <2>1 DEF R
<1> QED BY <1>6, <1>7, <1>8, <1>9 DEF Takes, R

\* A step keeps the numbers of the endpoint that takes it, if it takes and hears what there is.
LEMMA OwnNumbers ==
  ASSUME Typed, Typed', NEW e \in Endpoints, Step(e), Numbered(e), shut[e] \subseteq shut'[e],
         Takes(e), Holds(e), AcksHeard(e)'
  PROVE  Numbered(e)' /\ tcb'[e].RCV_NXT >= tcb[e].RCV_NXT
<1> DEFINE d == Peer(e)
<1>0. d \in Endpoints
  BY PeerIsEndpoint
<1>1. tcb'[d] = tcb[d] /\ shut'[d] = shut[d]
  BY <1>0, OtherEnd
<1>2. Toward(e)' \subseteq Toward(e)
  BY OwnQueues, OwnEffects
<1>3. Budget(e)' /\ tcb'[e].RCV_NXT >= tcb[e].RCV_NXT
  BY <1>1, OwnQueues, ReceiptGrows
<1>4. AcksInFlight(e)'
  BY <1>1, <1>2 DEF Numbered, AcksInFlight
<1>6. FINsInFlight(e)'
  BY <1>1, <1>2 DEF Numbered, FINsInFlight, SaidFIN
<1>7. FINsAtHand(e)'
  <2>1. FINInHand(e)'
    BY DEF Holds
  <2>2. ASSUME thread'[e].pc \in AtFIN, thread'[e].packet.fin
        PROVE  thread'[e].packet.seq = tcb[d].SND_NXT /\ "send" \in shut[d]
    <3>1. CASE thread[e].pc \in AtFIN /\ thread'[e].packet = thread[e].packet
      BY <2>2, <3>1 DEF Numbered, FINsAtHand, SaidFIN
    <3>2. CASE thread'[e].packet \in Toward(e)
      BY <2>2, <3>2 DEF Numbered, FINsInFlight, SaidFIN
    <3> QED BY <2>2, <3>1, <3>2 DEF Holds
  <2> QED BY <1>1, <2>1, <2>2 DEF FINsAtHand, SaidFIN
<1> QED BY <1>3, <1>4, <1>6, <1>7 DEF Numbered

\* And those of the other, if it says what there is to say.
LEMMA OtherNumbers ==
  ASSUME Typed, Typed', NEW e \in Endpoints, Step(e), shut[e] \subseteq shut'[e], Speaks(e),
         NEW d \in Endpoints, d = Peer(e), tcb'[e].RCV_NXT >= tcb[e].RCV_NXT, Numbered(d)
  PROVE  Numbered(d)'
<1>1. /\ Peer(d) = e /\ tcb'[d] = tcb[d] /\ shut'[d] = shut[d] /\ thread'[d] = thread[d]
      /\ pending'[d] = pending[d] /\ withheld'[d] = withheld[d]
      /\ (Open(d)' <=> Open(d)) /\ HandLen(d)' = HandLen(d)
  BY OtherEnd
<1>2. /\ tcb[e].RCV_NXT \in Int /\ tcb'[e].RCV_NXT \in Int /\ tcb[d].SND_UNA \in Int
      /\ tcb[e].SND_NXT \in Int /\ tcb'[e].SND_NXT \in Int /\ tcb[d].RCV_NXT \in Int
      /\ HandLen(d) \in Nat
  BY BlockTypes, HandTypes DEF Typed, ControlBlocks
<1>3. shut[e] \subseteq shut'[e]
  OBVIOUS
<1>4. \A p \in Toward(d) : p.ack_seq \in Int
  <2>1. Toward(d) \subseteq Packets
    BY OwnEffects, RangeMoves DEF Toward, Typed
  <2> QED BY <2>1 DEF Packets
<1>5. AcksHeard(d)'
  BY <1>1, <1>2 DEF Numbered, AcksHeard
<1> DEFINE L(n) == CarryAtMost(net'[d], pending'[d], withheld'[d], n)
           N == tcb[e].SND_NXT
<1>6. ASSUME Toward(d)' = Toward(d), tcb'[e].SND_NXT = N, \A n \in Int : Load(d, n) => L(n)
      PROVE  Numbered(d)'
  <2>1. AcksInFlight(d)'
    BY <1>1, <1>2, <1>4, <1>6 DEF Numbered, AcksInFlight
  <2>2. FINsInFlight(d)'
    BY <1>1, <1>3, <1>6 DEF Numbered, FINsInFlight, SaidFIN
  <2>3. FINsAtHand(d)'
    BY <1>1, <1>3, <1>6 DEF Numbered, FINsAtHand, FINInHand, SaidFIN
  <2>4. Budget(d)'
    BY <1>1, <1>2, <1>6 DEF Numbered, Budget, Load
  <2> QED BY <1>5, <2>1, <2>2, <2>3, <2>4 DEF Numbered
<1>7. CASE net'[d] = net[d] /\ tcb'[e].SND_NXT = N
  BY <1>1, <1>6, <1>7 DEF Toward, Load
<1>8. ASSUME NEW p \in Packets, net'[d] = Append(net[d], p), ~p.syn, p.ack_seq = tcb'[e].RCV_NXT,
             p.seq = N, tcb'[e].SND_NXT = N + Len(p.data),
             p.data # <<>> => "send" \notin shut[e], p.fin => p.data = <<>> /\ "send" \in shut'[e]
      PROVE  Numbered(d)'
  <2>1. /\ Toward(d)' = Toward(d) \cup {p} /\ Len(p.data) \in Nat
        /\ \A n \in Int : Load(d, n) => L(n + Len(p.data))
    BY <1>1, <1>8, PacketJoins
  <2>2. AcksInFlight(d)'
    BY <1>1, <1>2, <1>4, <1>8, <2>1 DEF Numbered, AcksInFlight
  <2>3. "send" \in shut[e] \/ p.fin => tcb'[e].SND_NXT = N
    BY <1>2, <1>8
  <2>4. FINsInFlight(d)'
    <3> SUFFICES ASSUME NEW x \in Toward(d)', x.fin
                 PROVE  x.seq = tcb'[e].SND_NXT /\ "send" \in shut'[e]
      BY <1>1 DEF FINsInFlight, SaidFIN
    <3>1. CASE x \in Toward(d)
      BY <1>1, <1>3, <2>3, <3>1 DEF Numbered, FINsInFlight, SaidFIN
    <3>2. CASE x = p
      BY <1>8, <2>3, <3>2
    <3> QED BY <2>1, <3>1, <3>2
  <2>5. FINsAtHand(d)'
    BY <1>1, <1>3, <2>3 DEF Numbered, FINsAtHand, FINInHand, SaidFIN
  <2>6. Budget(d)'
    <3>1. tcb[d].RCV_NXT >= 0 /\ tcb[d].RCV_NXT <= tcb'[e].SND_NXT
      BY <1>1, <1>2, <1>8, <2>1 DEF Numbered, Budget
    <3>2. ASSUME "recv" \notin shut[d] PROVE L(tcb'[e].SND_NXT - tcb[d].RCV_NXT - HandLen(d))
      <4> DEFINE n == N - tcb[d].RCV_NXT - HandLen(d)
      <4>1. Load(d, n) /\ n \in Int
        BY <1>1, <1>2, <3>2 DEF Numbered, Budget
      <4>2. tcb'[e].SND_NXT - tcb[d].RCV_NXT - HandLen(d) = n + Len(p.data)
        BY <1>2, <1>8, <2>1
      <4> HIDE DEF n, N, L
      <4> QED BY <2>1, <4>1, <4>2
    <3> QED BY <1>1, <3>1, <3>2 DEF Budget, Load
  <2> QED BY <1>5, <2>2, <2>4, <2>5, <2>6 DEF Numbered
<1> QED BY <1>7, <1>8 DEF Speaks

-----------------------------------------------------------------------------
(* The handshake, and what follows it *)

\* Plain packets stay plain, and plain ones join them.
LEMMA PlainStays ==
  ASSUME Typed, Typed', NEW e \in Endpoints, Step(e), Speaks(e), NEW d \in Endpoints, d = Peer(e)
  PROVE  /\ Plain(e) => Plain(e)'
         /\ Plain(d) => Plain(d)'
<1>1. Toward(e)' \subseteq Toward(e)
  BY OwnQueues, OwnEffects
<1>2. pending'[d] = pending[d] /\ withheld'[d] = withheld[d]
  BY OtherEnd
<1>3. CASE net'[d] = net[d]
  BY <1>1, <1>2, <1>3 DEF Plain, Toward
<1>4. ASSUME NEW p \in Packets, net'[d] = Append(net[d], p), ~p.syn PROVE Plain(d) => Plain(d)'
  <2>1. Toward(d)' = Toward(d) \cup {p}
    BY <1>2, <1>4, PacketJoins
  <2> QED BY <1>4, <2>1 DEF Plain
<1> QED BY <1>1, <1>3, <1>4 DEF Speaks, Plain

\* Client and Server are the two ends.
LEMMA TwoEnds ==
  /\ Client \in Endpoints /\ Server \in Endpoints /\ Client # Server
  /\ Peer(Client) = Server /\ Peer(Server) = Client
  /\ \A e \in Endpoints : e = Client \/ e = Server
BY EndpointAssumption DEF Endpoints, Peer

\* Which stage it is, seen from an endpoint.
LEMMA StageOf ==
  ASSUME Phase, NEW e \in Endpoints
  PROVE  /\ Open(e) => (e = Client /\ HalfOpen) \/ BothOpen
         /\ Open(e) => Plain(e) /\ Plain(Peer(e))
         /\ Unconnected(e) /\ tcp_state[e] = "CLOSED" => e = Client /\ Unasked
         /\ tcp_state[e] = "LISTEN" /\ ~Unconnected(e) => e = Server /\ (Unasked \/ Asked)
         /\ tcp_state[e] = "SYN_SENT" /\ ~Unconnected(e) => e = Client /\ (Asked \/ Answered)
         /\ tcp_state[e] = "SYN_RCVD" /\ ~Unconnected(e) => e = Server /\ (Answered \/ HalfOpen)
<1>1. e = Client \/ e = Server
  BY TwoEnds
<1>2. CASE Unasked
  BY <1>1, <1>2 DEF Unasked, Phase, Open, Early
<1>3. CASE Asked
  BY <1>1, <1>3 DEF Asked, Phase, Open, Early
<1>4. CASE Answered
  BY <1>1, <1>4 DEF Answered, Phase, Open, Early
<1>5. CASE HalfOpen
  BY <1>1, <1>5, TwoEnds DEF HalfOpen, Phase, Open, Early
<1>6. CASE BothOpen
  BY <1>1, <1>6, TwoEnds DEF BothOpen, Phase, Open, Early
<1> QED BY <1>2, <1>3, <1>4, <1>5, <1>6 DEF Phase

\* A step after the handshake.
LEMMA OpenSeq ==
  ASSUME Typed, Typed', NEW e \in Endpoints, CloseIsFinal(e), Open(e), Step(e), SeqInv
  PROVE  SeqInv'
<1> DEFINE d == Peer(e)
<1>1. d \in Endpoints /\ Numbered(e) /\ Numbered(d) /\ FINInHand(e) /\ Phase
  BY PeerIsEndpoint DEF SeqInv, Numbered, FINsAtHand
<1>2. Converses(e)
  BY <1>1, OpenConverses
<1>3. Plain(e) /\ Plain(d)
  BY <1>1, StageOf
<1>4. /\ d # e /\ Peer(d) = e /\ tcp_state'[d] = tcp_state[d] /\ tcb'[d] = tcb[d] /\ thread'[d] = thread[d]
      /\ flags'[d] = flags[d] /\ (Open(d)' <=> Open(d))
  BY <1>1, OtherEnd
<1>5. AcksHeard(e)'
  BY <1>1, <1>2, <1>3, <1>4 DEF Numbered, AcksHeard, AcksInFlight, Converses, Hears, Plain
<1>6. Numbered(e)' /\ tcb'[e].RCV_NXT >= tcb[e].RCV_NXT
  BY <1>1, <1>2, <1>5, OwnNumbers DEF Converses
<1>7. Numbered(d)'
  BY <1>1, <1>2, <1>6, OtherNumbers DEF Converses
<1>8. Plain(e)' /\ Plain(d)'
  BY <1>1, <1>2, <1>3, PlainStays DEF Converses
<1>9. Open(e)' /\ (Unconnected(d)' <=> Unconnected(d)) /\ tcb'[e].ISS = tcb[e].ISS
  BY <1>2, <1>4 DEF Converses, Unconnected
<1> HIDE DEF d
<1>10. CASE e = Client /\ HalfOpen
  <2>1. d = Server
    BY <1>10, TwoEnds DEF d
  <2>2. tcb'[Client].RCV_NXT <= tcb[Server].SND_NXT
    BY <1>4, <1>6, <1>10, <2>1 DEF Numbered, Budget, d
  <2>3. tcb'[Client].RCV_NXT = tcb[Server].SND_NXT
    <3>1. tcb'[Client].RCV_NXT \in Int /\ tcb[Server].SND_NXT \in Int
      BY TwoEnds DEF Typed, ControlBlocks
    <3> QED BY <1>6, <1>10, <2>2, <3>1 DEF HalfOpen
  <2>4. HalfOpen'
    BY <1>4, <1>8, <1>9, <1>10, <2>1, <2>3, TwoEnds DEF HalfOpen, HasSaidSYN
  <2>5. Phase'
    BY <1>1, <1>4, <1>9, <1>10, <2>1, <2>4, TwoEnds DEF Phase
  <2> QED BY <1>6, <1>7, <1>10, <2>1, <2>5, TwoEnds DEF SeqInv
<1>11. CASE BothOpen
  <2>1. \A x \in Endpoints : x = e \/ x = d
    BY TwoEnds DEF d
  <2>2. Open(Client)' /\ Open(Server)' /\ Plain(Client)' /\ Plain(Server)'
    BY <1>4, <1>8, <1>9, <1>11, <2>1, TwoEnds DEF BothOpen
  <2>3. Phase'
    BY <2>2, TwoEnds DEF Phase, BothOpen, Open
  <2> QED BY <1>6, <1>7, <2>1, <2>3 DEF SeqInv
<1> QED BY <1>1, <1>10, <1>11, StageOf

\* A step before it, and not of it.
LEMMA EarlySeq ==
  ASSUME Typed, Typed', NEW e \in Endpoints, CloseIsFinal(e), ~Open(e), Step(e), ~Handshakes(e), SeqInv
  PROVE  SeqInv'
<1> DEFINE d == Peer(e)
<1>1. /\ d \in Endpoints /\ Numbered(e) /\ Numbered(d) /\ FINInHand(e) /\ Phase
      /\ thread[e].pc \in {"wait", "after"}
  BY PeerIsEndpoint DEF SeqInv, Numbered, FINsAtHand, Phase
<1>2. /\ tcb'[e] = tcb[e] /\ tcp_state'[e] = tcp_state[e] /\ shut'[e] = shut[e]
      /\ net'[d] = net[d] /\ thread'[e].pc \in {"wait", "after"}
      /\ (Unconnected(e)' <=> Unconnected(e)) /\ ~Talks(e)
  BY <1>1, EarlyKeeps
<1>3. Open(e)' <=> Open(e)
  BY <1>2 DEF Open
<1>4. Converses(e)
  BY <1>1, <1>2, <1>3, CalmSteps, CalmConverses
<1>5. /\ d # e /\ Peer(d) = e /\ tcp_state'[d] = tcp_state[d] /\ tcb'[d] = tcb[d] /\ thread'[d] = thread[d]
      /\ flags'[d] = flags[d] /\ (Open(d)' <=> Open(d))
      /\ pending'[d] = pending[d] /\ withheld'[d] = withheld[d]
  BY <1>1, OtherEnd
<1>6. AcksHeard(e)'
  BY <1>3 DEF AcksHeard
<1>7. Numbered(e)' /\ tcb'[e].RCV_NXT >= tcb[e].RCV_NXT
  BY <1>1, <1>4, <1>6, OwnNumbers DEF Converses
<1>8. Numbered(d)'
  BY <1>1, <1>4, <1>7, OtherNumbers DEF Converses
<1>9. /\ Toward(e)' \subseteq Toward(e) /\ Toward(d)' = Toward(d)
      /\ Count(e) \in Nat /\ Count(e)' \in Nat /\ Count(e)' <= Count(e) /\ Count(d)' = Count(d)
  BY <1>2, <1>5, OwnQueues, OwnEffects DEF Toward, Count
<1>10. Count(d) \in Nat
  BY <1>1 DEF Count, Typed
<1> HIDE DEF d
<1>11. ASSUME NEW x \in Endpoints
       PROVE  /\ tcb'[x] = tcb[x] /\ tcp_state'[x] = tcp_state[x]
              /\ (Unconnected(x)' <=> Unconnected(x)) /\ (Open(x)' <=> Open(x))
              /\ ~Open(x) => thread'[x].pc \in {"wait", "after"}
              /\ Toward(x)' \subseteq Toward(x)
              /\ Count(x) \in Nat /\ Count(x)' \in Nat /\ Count(x)' <= Count(x)
  <2>1. x = e \/ x = d
    BY TwoEnds DEF d
  <2>2. CASE x = e
    BY <1>2, <1>3, <1>9, <2>2
  <2>3. CASE x = d
    BY <1>1, <1>5, <1>9, <1>10, <2>3 DEF Unconnected, Phase
  <2> QED BY <2>1, <2>2, <2>3
<1>12. Client \in Endpoints /\ Server \in Endpoints
  BY TwoEnds
<1>13. Unasked => Unasked'
  BY <1>11, <1>12 DEF Unasked
<1>14. Asked => Asked'
  BY <1>11, <1>12 DEF Asked, HasSaidSYN
<1>15. Answered => Answered'
  BY <1>11, <1>12 DEF Answered, HasSaidSYN
<1>16. HalfOpen => HalfOpen'
  BY <1>11, <1>12 DEF HalfOpen, HasSaidSYN, Plain
<1>17. BothOpen => BothOpen'
  BY <1>11, <1>12 DEF BothOpen, Plain
<1>18. Phase'
  BY <1>1, <1>11, <1>12, <1>13, <1>14, <1>15, <1>16, <1>17 DEF Phase
<1>19. \A x \in Endpoints : x = e \/ x = d
  BY TwoEnds DEF d
<1> QED BY <1>7, <1>8, <1>18, <1>19 DEF SeqInv

-----------------------------------------------------------------------------
(* The steps of the handshake, and the theorem *)

\* An endpoint to which nothing is on its way.
LEMMA SilentNumbers ==
  ASSUME Typed', NEW e \in Endpoints, Count(e)' = 0, AcksHeard(e)', thread'[e].pc \in {"wait", "after"},
         tcb'[e].RCV_NXT >= 0, tcb'[e].RCV_NXT <= tcb'[Peer(e)].SND_NXT
  PROVE  Numbered(e)' /\ Toward(e)' = {}
<1>1. Toward(e)' = {} /\ CarryAtMost(net'[e], pending'[e], withheld'[e], 0)
  BY NothingOnItsWay
<1>2. AcksInFlight(e)' /\ FINsInFlight(e)' /\ FINsAtHand(e)'
  BY <1>1 DEF AcksInFlight, FINsInFlight, FINsAtHand, FINInHand, AtFIN
<1>3. tcb'[e].RCV_NXT \in Int /\ tcb'[Peer(e)].SND_NXT \in Int /\ HandLen(e)' = 0
  BY PeerIsEndpoint DEF Typed, ControlBlocks, HandLen
<1>4. Budget(e)'
  <2> DEFINE n == tcb'[Peer(e)].SND_NXT - tcb'[e].RCV_NXT - HandLen(e)'
  <2>1. n \in Int /\ 0 <= n
    BY <1>3
  <2>2. CarryAtMost(net'[e], pending'[e], withheld'[e], n)
    BY <1>1, <2>1, CarryMore
  <2> QED BY <2>2 DEF Budget, Load
<1> QED BY <1>1, <1>2, <1>4 DEF Numbered

\* An endpoint of which nothing was heard, as the first packet sets out to it.
LEMMA FirstWord ==
  ASSUME Typed, Typed', NEW e \in Endpoints, Step(e), NEW d \in Endpoints, d = Peer(e), NEW p \in Packets,
         Count(d) = 0, ~Open(d), thread[d].pc \in {"wait", "after"},
         net'[d] = Append(net[d], p), p.syn, ~p.fin, p.data = <<>>,
         tcb[d].RCV_NXT >= 0, tcb[d].RCV_NXT <= tcb'[e].SND_NXT
  PROVE  Numbered(d)' /\ Toward(d)' = {p} /\ Count(d)' = 1
<1>1. /\ Peer(d) = e /\ tcb'[d] = tcb[d] /\ thread'[d] = thread[d] /\ pending'[d] = pending[d]
      /\ withheld'[d] = withheld[d] /\ ~Open(d)'
  BY OtherEnd
<1>2. Toward(d) = {} /\ Load(d, 0)
  BY NothingOnItsWay
<1>3. /\ Toward(d)' = {p} /\ Count(d)' = 1
      /\ CarryAtMost(net'[d], pending'[d], withheld'[d], 0 + Len(p.data))
  <2>1. /\ Toward(d)' = Toward(d) \cup {p} /\ Count(d)' = Count(d) + 1
        /\ \A n \in Int : Load(d, n) =>
             CarryAtMost(net'[d], pending'[d], withheld'[d], n + Len(p.data))
    BY <1>1, PacketJoins
  <2>2. 0 \in Int /\ 0 + 1 = 1 /\ {} \cup {p} = {p}
    OBVIOUS
  <2> QED BY <1>2, <2>1, <2>2
<1>4. AcksInFlight(d)' /\ AcksHeard(d)' /\ FINsInFlight(d)' /\ FINsAtHand(d)'
  BY <1>1, <1>3 DEF AcksInFlight, AcksHeard, FINsInFlight, FINsAtHand, FINInHand, AtFIN
<1>5. Budget(d)'
  <2> DEFINE n == tcb'[e].SND_NXT - tcb'[d].RCV_NXT - HandLen(d)'
  <2>1. tcb'[d].RCV_NXT \in Int /\ tcb'[e].SND_NXT \in Int /\ HandLen(d)' = 0
    BY <1>1 DEF Typed, ControlBlocks, HandLen
  <2>2. n \in Int /\ 0 <= n /\ 0 + Len(p.data) = 0
    BY <1>1, <2>1
  <2>3. CarryAtMost(net'[d], pending'[d], withheld'[d], n)
    BY <1>3, <2>2, CarryMore
  <2> QED BY <1>1, <2>3 DEF Budget, Load
<1> QED BY <1>3, <1>4, <1>5 DEF Numbered

\* What the handlers of the handshake do with the packet they fetch.
LEMMA Arrived ==
  ASSUME Typed, NEW e \in Endpoints, NEW s, Arrival(e, s)
  PROVE  /\ tcp_state[e] = s /\ thread[e].pc = "wait" /\ thread'[e].pc = "after"
         /\ Fetched(e) \/ net' # net
         /\ pending[e] # <<>> /\ pending'[e] = Tail(pending[e]) /\ withheld'[e] = withheld[e]
         /\ shut' = shut /\ flags'[e] = flags[e] \ {"net_recv"}
         /\ ~Unconnected(e) /\ ~Unconnected(e)'
<1>1. /\ thread[e].pc = "wait" /\ flags' = [flags EXCEPT ![e] = @ \ {"net_recv"}]
      /\ "app_connect" \notin flags[e]
  BY Taking DEF Arrival
<1> QED BY <1>1 DEF Arrival, Fetch, Goto, Fetched, Unconnected, Typed

\* CONNECT sends the SYN.
LEMMA ConnectSeq ==
  ASSUME Typed, Typed', NEW e \in Endpoints, Step(e), CloseIsFinal(e), Connect(e), SeqInv
  PROVE  SeqInv'
<1>1. e = Client /\ Unasked /\ Phase /\ Take(e, "app_connect")
  <2>1. Take(e, "app_connect") /\ tcp_state[e] = "CLOSED" /\ Phase
    BY DEF Connect, SeqInv
  <2>2. Unconnected(e)
    BY <2>1, Taking DEF Unconnected
  <2> QED BY <2>1, <2>2, StageOf
<1> DEFINE d == Server
<1>2. /\ d = Peer(e) /\ d \in Endpoints /\ d # e
      /\ tcp_state'[d] = tcp_state[d] /\ tcb'[d] = tcb[d] /\ thread'[d] = thread[d]
      /\ flags'[d] = flags[d] /\ (Open(d)' <=> Open(d))
  BY <1>1, TwoEnds, OtherEnd
<1>3. PICK iss \in ISNs :
        LET t == [tcb[e] EXCEPT !.ISS = iss, !.SND_UNA = iss, !.SND_NXT = iss + 1, !.RCV_WND = Room(e)]
        IN tcb' = [tcb EXCEPT ![e] = t] /\ Transmit(e, SYN(t))
  BY DEF Connect
<1> DEFINE t == [tcb[e] EXCEPT !.ISS = iss, !.SND_UNA = iss, !.SND_NXT = iss + 1, !.RCV_WND = Room(e)]
<1>4. /\ t.ISS = iss /\ t.SND_UNA = iss /\ t.SND_NXT = iss + 1 /\ t.RCV_NXT = tcb[e].RCV_NXT
      /\ tcb'[e] = t /\ iss \in Nat
  BY <1>3, SizeAssumption DEF Typed, ControlBlocks
<1>5. tcb[e].RCV_NXT = 0 /\ tcb[d].RCV_NXT = 0 /\ Count(e) = 0 /\ Count(d) = 0 /\ ~Open(d) /\ ~Open(e)
  BY <1>1 DEF Phase, Unasked, Open, Early
<1>6. /\ tcp_state'[e] = "SYN_SENT" /\ thread' = thread /\ thread[e].pc = "wait"
      /\ flags'[e] = flags[e] \ {"app_connect"} /\ pending' = pending /\ withheld' = withheld
      /\ net' = [net EXCEPT ![d] = Append(@, SYN(t))]
  <2>1. /\ thread[e].pc = "wait" /\ flags'[e] = flags[e] \ {"app_connect"}
    BY <1>1, Taking DEF Typed
  <2>2. Transmit(e, SYN(t))
    BY <1>3
  <2>3. net' = [net EXCEPT ![d] = Append(@, SYN(t))]
    BY <1>2, <2>2 DEF Transmit
  <2>4. tcp_state'[e] = "SYN_SENT" /\ UNCHANGED <<thread, pending, withheld>>
    BY DEF Connect, SetState, Typed
  <2> QED BY <2>1, <2>3, <2>4
<1> HIDE DEF t, d
<1>7. ~Open(e)' /\ ~Unconnected(e)'
  BY <1>6 DEF Open, Early, Unconnected
<1>8. Numbered(e)' /\ Toward(e)' = {} /\ Count(e)' = 0
  <2>1. net'[e] = net[e] /\ pending'[e] = pending[e] /\ withheld'[e] = withheld[e]
    BY <1>2, <1>6 DEF Typed
  <2>2. Count(e)' = 0
    BY <1>5, <2>1 DEF Count
  <2>3. tcb'[e].RCV_NXT >= 0 /\ tcb'[e].RCV_NXT <= tcb'[d].SND_NXT
    BY <1>1, <1>2, <1>4 DEF SeqInv, Numbered, Budget
  <2>4. AcksHeard(e)'
    BY <1>7 DEF AcksHeard
  <2> QED BY <1>2, <1>6, <2>2, <2>3, <2>4, SilentNumbers
<1>9. Numbered(d)' /\ Toward(d)' = {SYN(t)} /\ Count(d)' = 1
  <2>1. SYN(t) \in Packets
    <3>1. t \in ControlBlocks /\ <<>> \in Seq(Int)
      BY <1>4 DEF Typed
    <3> QED BY <3>1, PacketTypes
  <2>2. SYN(t).syn /\ ~SYN(t).fin /\ SYN(t).data = <<>>
    BY DEF SYN, Packet
  <2>3. net'[d] = Append(net[d], SYN(t))
    BY <1>2, <1>6 DEF Typed
  <2>4. thread[d].pc \in {"wait", "after"}
    BY <1>1, <1>2, <1>5 DEF Phase
  <2>5. tcb[d].RCV_NXT >= 0 /\ tcb[d].RCV_NXT <= tcb'[e].SND_NXT
    BY <1>4, <1>5
  <2> QED BY <1>2, <1>5, <2>1, <2>2, <2>3, <2>4, <2>5, FirstWord
<1>10. Asked'
  BY <1>1, <1>2, <1>4, <1>5, <1>6, <1>8, <1>9 DEF Asked, HasSaidSYN, Unasked, d
<1>11. Phase'
  <2>1. ~Unconnected(d)'
    BY <1>1, <1>2 DEF Phase, Unconnected, d
  <2>2. \A x \in Endpoints : ~Open(x)' => thread'[x].pc \in {"wait", "after"}
    BY <1>1, <1>2, <1>6, TwoEnds DEF Phase, d
  <2>3. tcb'[e].RCV_NXT = 0
    BY <1>4, <1>5
  <2> QED BY <1>1, <1>10, <2>1, <2>2, <2>3 DEF Phase, d
<1> QED BY <1>1, <1>8, <1>9, <1>11, TwoEnds DEF SeqInv, d

\* The server answers it.
LEMMA ListenSeq ==
  ASSUME Typed, Typed', NEW e \in Endpoints, Step(e), ListenArrival(e), SeqInv
  PROVE  SeqInv'
<1>0. Arrival(e, "LISTEN") /\ Phase
  BY DEF ListenArrival, SeqInv
<1>1. /\ tcp_state[e] = "LISTEN" /\ thread[e].pc = "wait" /\ thread'[e].pc = "after"
      /\ pending[e] # <<>> /\ pending'[e] = Tail(pending[e]) /\ withheld'[e] = withheld[e]
      /\ ~Unconnected(e) /\ ~Unconnected(e)'
  BY <1>0, Arrived
<1> DEFINE p == Head(pending[e])
           d == Client
           c == tcb[Client]
<1>2. e = Server /\ (Unasked \/ Asked)
  BY <1>0, <1>1, StageOf
<1>3. /\ d = Peer(e) /\ d \in Endpoints /\ d # e
      /\ tcp_state'[d] = tcp_state[d] /\ tcb'[d] = tcb[d] /\ thread'[d] = thread[d]
      /\ flags'[d] = flags[d] /\ (Open(d)' <=> Open(d))
  BY <1>2, TwoEnds, OtherEnd
<1>4. net'[e] = net[e]
  BY <1>3 DEF ListenArrival, Transmit, Typed
<1>5. p \in Toward(e) /\ Count(e) \in Nat \ {0} /\ Count(e)' = Count(e) - 1
  BY <1>1, <1>4, FetchEffect DEF Fetched
<1>6. Asked /\ p = SYN(c) /\ Count(e)' = 0
  BY <1>2, <1>5 DEF Unasked, Asked
<1>7. p.syn /\ p.seq = c.ISS
  BY <1>6 DEF SYN, Packet
<1>8. PICK iss \in ISNs :
        LET t == [tcb[e] EXCEPT !.RCV_NXT = p.seq + 1, !.ISS = iss, !.RCV_WND = Room(e),
                    !.SND_WND = p.win, !.SND_NXT = iss + 1, !.SND_UNA = iss]
        IN tcb' = [tcb EXCEPT ![e] = t] /\ Transmit(e, SYN_ACK(t)) /\ SetState(e, "SYN_RCVD")
  BY <1>7 DEF ListenArrival
<1> DEFINE t == [tcb[e] EXCEPT !.RCV_NXT = p.seq + 1, !.ISS = iss, !.RCV_WND = Room(e),
                   !.SND_WND = p.win, !.SND_NXT = iss + 1, !.SND_UNA = iss]
<1>9. /\ t.ISS = iss /\ t.SND_UNA = iss /\ t.SND_NXT = iss + 1 /\ t.RCV_NXT = p.seq + 1
      /\ tcb'[e] = t /\ iss \in Nat
  BY <1>8, SizeAssumption DEF Typed, ControlBlocks
<1>10. t.RCV_NXT = c.SND_NXT /\ c.RCV_NXT = 0 /\ Count(d) = 0 /\ ~Open(d)
  BY <1>0, <1>6, <1>7, <1>9 DEF Phase, Asked, HasSaidSYN, Open, Early
<1>11. tcp_state'[e] = "SYN_RCVD" /\ net'[d] = Append(net[d], SYN_ACK(t))
  BY <1>3, <1>8 DEF SetState, Transmit, Typed
<1> HIDE DEF t, d, p
<1>12. ~Open(e)'
  BY <1>11 DEF Open, Early
<1>13. Numbered(e)' /\ Toward(e)' = {}
  <2>1. AcksHeard(e)'
    BY <1>12 DEF AcksHeard
  <2>2. tcb'[e].RCV_NXT \in Int /\ tcb'[e].RCV_NXT = tcb'[d].SND_NXT
    BY <1>3, <1>9, <1>10 DEF Typed, ControlBlocks, d
  <2>3. tcb'[e].RCV_NXT >= 0
    <3>1. tcb[e].RCV_NXT \in Int /\ tcb[e].RCV_NXT >= 0 /\ tcb[e].RCV_NXT <= c.SND_NXT
      BY <1>3, BlockTypes DEF SeqInv, Numbered, Budget, d
    <3> QED BY <1>9, <1>10, <2>2, <3>1
  <2>4. tcb'[e].RCV_NXT <= tcb'[Peer(e)].SND_NXT
    BY <1>3, <2>2
  <2> QED BY <1>1, <1>6, <2>1, <2>3, <2>4, SilentNumbers
<1>14. Numbered(d)' /\ Toward(d)' = {SYN_ACK(t)} /\ Count(d)' = 1
  <2>1. SYN_ACK(t) \in Packets
    <3>1. t \in ControlBlocks /\ <<>> \in Seq(Int)
      BY <1>9 DEF Typed
    <3> QED BY <3>1, PacketTypes
  <2>2. SYN_ACK(t).syn /\ ~SYN_ACK(t).fin /\ SYN_ACK(t).data = <<>>
    BY DEF SYN_ACK, Packet
  <2>3. thread[d].pc \in {"wait", "after"}
    BY <1>0, <1>3, <1>10 DEF Phase
  <2>4. tcb[d].RCV_NXT >= 0 /\ tcb[d].RCV_NXT <= tcb'[e].SND_NXT
    BY <1>9, <1>10 DEF d
  <2> QED BY <1>3, <1>10, <1>11, <2>1, <2>2, <2>3, <2>4, FirstWord
<1>15. Answered'
  BY <1>2, <1>3, <1>6, <1>9, <1>10, <1>11, <1>14 DEF Asked, Answered, HasSaidSYN, d
<1>16. Phase'
  <2>1. \A x \in Endpoints : ~Open(x)' => thread'[x].pc \in {"wait", "after"}
    BY <1>0, <1>1, <1>2, <1>3, TwoEnds DEF Phase, d
  <2> QED BY <1>1, <1>2, <1>3, <1>10, <1>15, <2>1 DEF Phase, d
<1> QED BY <1>2, <1>13, <1>14, <1>16, TwoEnds DEF SeqInv, d

\* The client acknowledges the answer, and is open.
LEMMA SynSentSeq ==
  ASSUME Typed, Typed', NEW e \in Endpoints, Step(e), SynSentArrival(e), SeqInv
  PROVE  SeqInv'
<1>0. Arrival(e, "SYN_SENT") /\ Phase
  BY DEF SynSentArrival, SeqInv
<1>1. /\ tcp_state[e] = "SYN_SENT" /\ thread[e].pc = "wait" /\ thread'[e].pc = "after"
      /\ pending[e] # <<>> /\ pending'[e] = Tail(pending[e]) /\ withheld'[e] = withheld[e]
      /\ shut' = shut /\ ~Unconnected(e) /\ ~Unconnected(e)'
  BY <1>0, Arrived
<1> DEFINE p == Head(pending[e])
           d == Server
           s == tcb[Server]
           c == tcb[e]
<1>2. e = Client /\ (Asked \/ Answered)
  BY <1>0, <1>1, StageOf
<1>3. /\ d = Peer(e) /\ d \in Endpoints /\ d # e
      /\ tcp_state'[d] = tcp_state[d] /\ tcb'[d] = tcb[d] /\ thread'[d] = thread[d]
      /\ flags'[d] = flags[d] /\ (Open(d)' <=> Open(d))
  BY <1>2, TwoEnds, OtherEnd
<1>4. net'[e] = net[e]
  BY <1>3 DEF SynSentArrival, Transmit, Typed
<1>5. p \in Toward(e) /\ Count(e) \in Nat \ {0} /\ Count(e)' = Count(e) - 1
  BY <1>1, <1>4, FetchEffect DEF Fetched
<1>6. Answered /\ p = SYN_ACK(s) /\ Count(e)' = 0
  BY <1>2, <1>5 DEF Asked, Answered
<1>7. p.syn /\ p.ack /\ p.seq = s.ISS /\ p.ack_seq = s.RCV_NXT
  BY <1>6 DEF SYN_ACK, Packet
<1>8. /\ c.ISS \in Int /\ c.SND_UNA = c.ISS /\ c.SND_NXT = c.ISS + 1 /\ s.RCV_NXT = c.SND_NXT
      /\ s.ISS \in Int /\ s.SND_UNA = s.ISS /\ s.SND_NXT = s.ISS + 1 /\ c.SND_NXT \in Int
      /\ s.RCV_NXT \in Int /\ s.SND_NXT \in Int /\ c.RCV_NXT \in Int
  BY <1>2, <1>3, <1>6, BlockTypes DEF Answered, HasSaidSYN
<1> DEFINE t == [c EXCEPT !.RCV_NXT = p.seq + 1, !.SND_WND = IF p.ack THEN p.win ELSE @,
                          !.SND_UNA = IF p.ack THEN p.ack_seq ELSE @]
           u == [t EXCEPT !.SND_UNA = t.SND_NXT]
<1>9. c \in ControlBlocks
  BY DEF Typed
<1>10. /\ t.SND_UNA = p.ack_seq /\ t.ISS = c.ISS /\ t.SND_NXT = c.SND_NXT /\ t.RCV_NXT = p.seq + 1
       /\ t.RCV_WND = c.RCV_WND
  BY <1>7, <1>9 DEF ControlBlocks
<1>11. /\ u.SND_UNA = c.SND_NXT /\ u.ISS = c.ISS /\ u.SND_NXT = c.SND_NXT /\ u.RCV_NXT = p.seq + 1
       /\ u.RCV_WND = c.RCV_WND
  BY <1>9, <1>10 DEF ControlBlocks
<1> HIDE DEF c, s
<1>12. t.SND_UNA > t.ISS /\ c.SND_UNA <= p.ack_seq /\ p.ack_seq <= c.SND_NXT
  BY <1>7, <1>8, <1>10
<1>13. Transmit(e, ACK(t)) /\ tcb' = [tcb EXCEPT ![e] = u] /\ SetState(e, "ESTABLISHED")
  BY <1>7, <1>12 DEF SynSentArrival, c
<1>14. tcb'[e] = u /\ tcp_state'[e] = "ESTABLISHED" /\ u \in ControlBlocks
  <2>1. tcb'[e] = u /\ tcp_state'[e] = "ESTABLISHED"
    BY <1>13 DEF SetState, Typed
  <2> QED BY <2>1 DEF Typed
<1>15. ACK(t) = ACK(u)
  BY <1>10, <1>11 DEF ACK
<1> HIDE DEF t, u, d, p
<1>16. Open(e)'
  BY <1>1, <1>14 DEF Open, Early
<1>17. u.RCV_NXT = s.SND_NXT
  BY <1>7, <1>8, <1>11
<1>18. Numbered(e)' /\ Toward(e)' = {}
  <2>1. AcksHeard(e)'
    BY <1>3, <1>8, <1>11, <1>14 DEF AcksHeard, d, s
  <2>2. tcb'[e].RCV_NXT <= tcb'[Peer(e)].SND_NXT
    BY <1>3, <1>8, <1>14, <1>17 DEF d, s
  <2>3. tcb'[e].RCV_NXT >= 0
    <3>1. c.RCV_NXT >= 0 /\ c.RCV_NXT <= s.SND_NXT
      BY <1>3 DEF SeqInv, Numbered, Budget, c, s, d
    <3> QED BY <1>8, <1>14, <1>17, <3>1
  <2> QED BY <1>1, <1>6, <2>1, <2>2, <2>3, SilentNumbers
<1>19. Speaks(e)
  BY <1>11, <1>13, <1>14, <1>15, Acknowledges DEF c
<1>20. Numbered(d)'
  <2>1. tcb'[e].RCV_NXT >= tcb[e].RCV_NXT
    <3>1. c.RCV_NXT <= s.SND_NXT
      BY <1>3 DEF SeqInv, Numbered, Budget, c, s, d
    <3> QED BY <1>8, <1>14, <1>17, <3>1 DEF c
  <2>2. Numbered(d)
    BY <1>3 DEF SeqInv
  <2> QED BY <1>1, <1>3, <1>19, <2>1, <2>2, OtherNumbers
<1>21. Plain(e)' /\ Plain(d)'
  <2>1. Plain(d)
    <3>1. Toward(d) = {}
      BY <1>3, <1>6, NothingOnItsWay DEF Answered, d
    <3> QED BY <3>1 DEF Plain
  <2> QED BY <1>3, <1>18, <1>19, <2>1, PlainStays DEF Plain
<1>22. HalfOpen'
  BY <1>2, <1>3, <1>6, <1>8, <1>11, <1>14, <1>16, <1>17, <1>21
     DEF Answered, HalfOpen, HasSaidSYN, d, s
<1>23. Phase'
  <2>1. ~Unconnected(d)'
    BY <1>0, <1>3 DEF Phase, Unconnected, d
  <2>2. \A x \in Endpoints : ~Open(x)' => thread'[x].pc \in {"wait", "after"}
    BY <1>0, <1>1, <1>2, <1>3, TwoEnds DEF Phase, d
  <2> QED BY <1>2, <1>16, <1>22, <2>1, <2>2 DEF Phase, d
<1> QED BY <1>2, <1>18, <1>20, <1>23, TwoEnds DEF SeqInv, d

\* The server takes a packet that completes the handshake, or does not.
LEMMA SynRcvdSeq ==
  ASSUME Typed, Typed', NEW e \in Endpoints, Step(e), SynRcvdArrival(e), SeqInv
  PROVE  SeqInv'
<1>0. Arrival(e, "SYN_RCVD") /\ Phase
  BY DEF SynRcvdArrival, SeqInv
<1>1. /\ tcp_state[e] = "SYN_RCVD" /\ thread[e].pc = "wait" /\ thread'[e].pc = "after"
      /\ pending[e] # <<>> /\ pending'[e] = Tail(pending[e]) /\ withheld'[e] = withheld[e]
      /\ shut' = shut /\ ~Unconnected(e) /\ ~Unconnected(e)'
  BY <1>0, Arrived
<1> DEFINE p == Head(pending[e])
           d == Client
           s == tcb[e]
<1>2. e = Server /\ (Answered \/ HalfOpen)
  BY <1>0, <1>1, StageOf
<1>3. /\ d = Peer(e) /\ d \in Endpoints /\ d # e
      /\ tcp_state'[d] = tcp_state[d] /\ tcb'[d] = tcb[d] /\ thread'[d] = thread[d]
      /\ flags'[d] = flags[d] /\ (Open(d)' <=> Open(d))
  BY <1>2, TwoEnds, OtherEnd
<1>4. net'[e] = net[e]
  BY <1>3 DEF SynRcvdArrival, Transmit, Typed
<1>5. Count(e) \in Nat \ {0}
  BY <1>1, <1>4, FetchEffect DEF Fetched
<1>6. HalfOpen
  BY <1>2, <1>5 DEF Answered
<1>7. s \in ControlBlocks
  BY DEF Typed
<1>8. \/ UNCHANGED <<tcb, net, tcp_state>>
      \/ /\ tcb' = [tcb EXCEPT ![e].SND_UNA = s.SND_NXT, ![e].SND_WND = p.win]
         /\ SetState(e, "ESTABLISHED") /\ UNCHANGED net
      \/ Transmit(e, ACK(s)) /\ tcb' = [tcb EXCEPT ![e].SND_WND = p.win] /\ UNCHANGED tcp_state
  BY DEF SynRcvdArrival
<1>9. /\ tcb'[e].ISS = s.ISS /\ tcb'[e].SND_NXT = s.SND_NXT /\ tcb'[e].RCV_NXT = s.RCV_NXT
      /\ tcb'[e].RCV_WND = s.RCV_WND
      /\ \/ tcp_state'[e] = "SYN_RCVD" /\ tcb'[e].SND_UNA = s.SND_UNA
         \/ tcp_state'[e] = "ESTABLISHED" /\ tcb'[e].SND_UNA = s.SND_NXT
      /\ net' = net \/ Transmit(e, ACK(s))
  <2>1. CASE UNCHANGED <<tcb, net, tcp_state>>
    BY <1>1, <2>1
  <2>2. CASE /\ tcb' = [tcb EXCEPT ![e].SND_UNA = s.SND_NXT, ![e].SND_WND = p.win]
             /\ SetState(e, "ESTABLISHED") /\ UNCHANGED net
    <3>1. tcb'[e] = [[s EXCEPT !.SND_UNA = s.SND_NXT] EXCEPT !.SND_WND = p.win]
      BY <2>2 DEF Typed
    <3>2. tcp_state'[e] = "ESTABLISHED"
      BY <2>2 DEF SetState, Typed
    <3> DEFINE u == [s EXCEPT !.SND_UNA = s.SND_NXT]
               v == [u EXCEPT !.SND_WND = p.win]
    <3>3. /\ u.ISS = s.ISS /\ u.SND_NXT = s.SND_NXT /\ u.RCV_NXT = s.RCV_NXT
          /\ u.RCV_WND = s.RCV_WND /\ u.SND_UNA = s.SND_NXT /\ u \in ControlBlocks
      BY <1>7 DEF ControlBlocks
    <3> HIDE DEF u
    <3>4. /\ v.ISS = u.ISS /\ v.SND_NXT = u.SND_NXT /\ v.RCV_NXT = u.RCV_NXT
          /\ v.RCV_WND = u.RCV_WND /\ v.SND_UNA = u.SND_UNA
      BY <3>3 DEF ControlBlocks
    <3> QED BY <2>2, <3>1, <3>2, <3>3, <3>4 DEF u
  <2>3. CASE Transmit(e, ACK(s)) /\ tcb' = [tcb EXCEPT ![e].SND_WND = p.win] /\ UNCHANGED tcp_state
    <3>1. tcb'[e] = [s EXCEPT !.SND_WND = p.win]
      BY <2>3 DEF Typed
    <3>2. tcp_state'[e] = "SYN_RCVD"
      BY <1>1, <2>3
    <3> QED BY <1>7, <2>3, <3>1, <3>2 DEF ControlBlocks
  <2> QED BY <1>8, <2>1, <2>2, <2>3
<1> HIDE DEF p, d
<1>10. Speaks(e)
  <2>1. CASE net' = net
    BY <1>9, <2>1 DEF Speaks
  <2>2. CASE Transmit(e, ACK(s))
    <3>1. ACK(s) = ACK(tcb'[e]) /\ tcb'[e] \in ControlBlocks
      BY <1>9 DEF ACK, Typed
    <3> QED BY <1>9, <2>2, <3>1, Acknowledges
  <2> QED BY <1>9, <2>1, <2>2
<1>11. Takes(e) /\ Holds(e)
  BY <1>1, <1>9 DEF Takes, Holds, HandLen, AtFIN, FINInHand
<1>12. AcksHeard(e)'
  <2>1. s.SND_NXT = tcb[d].RCV_NXT /\ s.SND_NXT \in Int
    BY <1>2, <1>6, BlockTypes DEF HalfOpen, d
  <2> QED BY <1>3, <1>9, <2>1 DEF AcksHeard, Open, Early
<1>13. Numbered(e)' /\ tcb'[e].RCV_NXT >= tcb[e].RCV_NXT
  BY <1>1, <1>11, <1>12, OwnNumbers DEF SeqInv
<1>14. Numbered(d)'
  BY <1>1, <1>3, <1>10, <1>13, OtherNumbers DEF SeqInv
<1>15. Plain(e)' /\ Plain(d)'
  BY <1>2, <1>3, <1>6, <1>10, PlainStays DEF HalfOpen, d
<1>16. HalfOpen' \/ BothOpen'
  <2>1. CASE tcp_state'[e] = "SYN_RCVD" /\ tcb'[e].SND_UNA = s.SND_UNA
    BY <1>2, <1>3, <1>6, <1>9, <1>15, <2>1 DEF HalfOpen, HasSaidSYN, d
  <2>2. CASE tcp_state'[e] = "ESTABLISHED"
    BY <1>1, <1>2, <1>3, <1>6, <1>15, <2>2 DEF HalfOpen, BothOpen, Open, Early, d
  <2> QED BY <1>9, <2>1, <2>2
<1>17. Phase'
  <2>1. \A x \in Endpoints : ~Open(x)' => thread'[x].pc \in {"wait", "after"}
    BY <1>0, <1>1, <1>2, <1>3, TwoEnds DEF Phase, d
  <2>2. Open(Client)'
    BY <1>3, <1>6 DEF HalfOpen, d
  <2> QED BY <1>1, <1>2, <1>16, <2>1, <2>2 DEF Phase
<1> QED BY <1>2, <1>13, <1>14, <1>17, TwoEnds DEF SeqInv, d

\* At the start nobody has said anything.
LEMMA SeqInit == Init => SeqInv
<1> SUFFICES ASSUME Init PROVE SeqInv
  OBVIOUS
<1>1. Typed
  BY TypedInit
<1>2. ASSUME NEW e \in Endpoints
      PROVE  /\ Count(e) = 0 /\ thread[e].pc = "wait" /\ ~Open(e)
             /\ tcb[e].RCV_NXT = 0 /\ tcb[Peer(e)].SND_NXT = 0
  <2>1. Peer(e) \in Endpoints /\ (e = Client \/ e = Server)
    BY PeerIsEndpoint, TwoEnds
  <2> QED BY <2>1 DEF Init, Idle, Count, Open, Early, Unconnected
<1>3. ASSUME NEW e \in Endpoints PROVE Numbered(e)
  <2>1. Toward(e) = {} /\ Load(e, 0)
    BY <1>1, <1>2, NothingOnItsWay
  <2>2. HandLen(e) = 0 /\ 0 - 0 - 0 = 0
    BY <1>2 DEF HandLen
  <2>3. Budget(e)
    BY <1>2, <2>1, <2>2 DEF Budget
  <2> QED BY <1>2, <2>1, <2>3
          DEF Numbered, AcksInFlight, AcksHeard, FINsInFlight, FINsAtHand, FINInHand, AtFIN
<1>4. Phase
  <2>1. Unasked
    BY <1>2, TwoEnds DEF Init, Unasked, Unconnected
  <2>2. ~Unconnected(Server)
    BY TwoEnds DEF Init, Unconnected
  <2> QED BY <1>2, <2>1, <2>2, TwoEnds DEF Phase
<1> QED BY <1>3, <1>4 DEF SeqInv

\* Every step preserves it.
LEMMA SeqStep == Inv /\ SeqInv /\ [Next]_vars => SeqInv'
<1> SUFFICES ASSUME Inv, SeqInv, [Next]_vars PROVE SeqInv'
  OBVIOUS
<1>1. CASE \E e \in Endpoints : Step(e)
  <2>1. PICK e \in Endpoints : Step(e)
    BY <1>1
  <2>2. Typed /\ Typed' /\ CloseIsFinal(e)
    BY <2>1, TypedBy DEF Inv
  <2>3. CASE Handshakes(e)
    BY <2>1, <2>2, <2>3, ConnectSeq, ListenSeq, SynSentSeq, SynRcvdSeq DEF Handshakes
  <2>4. CASE ~Handshakes(e) /\ Open(e)
    BY <2>1, <2>2, <2>4, OpenSeq
  <2>5. CASE ~Handshakes(e) /\ ~Open(e)
    BY <2>1, <2>2, <2>5, EarlySeq
  <2> QED BY <2>3, <2>4, <2>5
<1>2. CASE UNCHANGED live
  <2>1. /\ UNCHANGED <<tcp_state, tcb, shut, net, pending, withheld, thread, flags>>
    BY <1>2 DEF live, tcpVars, queues
  <2>2. ASSUME NEW e \in Endpoints
        PROVE  /\ Toward(e)' = Toward(e) /\ Count(e)' = Count(e) /\ (Open(e)' <=> Open(e))
               /\ (Unconnected(e)' <=> Unconnected(e)) /\ HandLen(e)' = HandLen(e)
    BY <2>1 DEF Toward, Count, Open, Unconnected, HandLen
  <2>3. ASSUME NEW e \in Endpoints PROVE Numbered(e)'
    BY <2>1, <2>2 DEF SeqInv, Numbered, AcksInFlight, AcksHeard, FINsInFlight, FINsAtHand, FINInHand,
                      SaidFIN, Budget, Load
  <2>4. Phase'
    BY <2>1, <2>2, TwoEnds DEF SeqInv, Phase, Unasked, Asked, Answered, HalfOpen, BothOpen, Plain,
                               HasSaidSYN
  <2> QED BY <2>3, <2>4 DEF SeqInv
<1> QED BY <1>1, <1>2, StepOrStill

\* SeqInv is an invariant of the TCP threads: the stages of the handshake, and the sequence
\* numbers of what each end has sent, received and acknowledged.
THEOREM SequenceInvariance == Spec => [](Inv /\ SeqInv)
<1>1. Init => Inv /\ SeqInv
  BY InvInit, SeqInit
<1>2. Inv /\ SeqInv /\ [Next]_vars => (Inv /\ SeqInv)'
  BY InvStep, SeqStep
<1> QED BY <1>1, <1>2, PTL DEF Spec

\* Once both ends are synchronized, what one of them takes for acknowledged is in the other's
\* receive buffer, and nothing is received that was not sent: for all sizes of windows and
\* buffers, and whatever a debugger drops, withholds or delivers out of order.
THEOREM AckedIsReceived == Spec => []AckedWasReceived
<1>1. ASSUME Inv, SeqInv PROVE AckedWasReceived
  <2> SUFFICES ASSUME NEW e \in Endpoints, Synchronized(e), Synchronized(Peer(e))
               PROVE  /\ tcb[e].SND_UNA <= tcb[Peer(e)].RCV_NXT
                      /\ tcb[Peer(e)].RCV_NXT <= tcb[e].SND_NXT
    BY DEF AckedWasReceived
  <2>1. Peer(e) \in Endpoints /\ Peer(Peer(e)) = e
    BY PeerIsEndpoint, PeerOfPeer
  <2>2. Open(e)
    <3>1. CloseIsFinal(e)
      BY <1>1 DEF Inv
    <3> QED BY <3>1 DEF CloseIsFinal, Synchronized, Open, Early, Unconnected
  <2>3. AcksHeard(e) /\ Budget(Peer(e))
    BY <1>1, <2>1 DEF SeqInv, Numbered
  <2> QED BY <2>1, <2>2, <2>3 DEF AcksHeard, Budget
<1> QED BY <1>1, SequenceInvariance, PTL

-----------------------------------------------------------------------------
(* The bytes of the application, and the ranges of the types *)

\* CONNECT or a SYN has given the endpoint its numbers.
Begun(e) == tcp_state[e] # "LISTEN" /\ ~Unconnected(e)

\* What the application has put in the send buffer has a sequence number or is in it still,
\* and a SEND asks for no more than the bound.
Accounted(e) ==
  /\ sent[e] >= 0 /\ sent[e] <= MaxBytes
  /\ writer[e].pc = "writing" => writer[e].left >= 0 /\ sent[e] + writer[e].left <= MaxBytes
  /\ Begun(e) =>
       /\ tcb[e].ISS \in ISNs /\ tcb[e].ISS <= tcb[e].SND_UNA /\ tcb[e].SND_UNA <= tcb[e].SND_NXT
       /\ tcb[e].SND_NXT + Len(send[e]) = tcb[e].ISS + 1 + sent[e]
  /\ ~Begun(e) =>
       /\ tcb[e].ISS = 0 /\ tcb[e].SND_UNA = 0 /\ tcb[e].SND_NXT = 0
       /\ send[e] = <<>> /\ sent[e] = 0 /\ writer[e].pc = "none"

\* The buffers keep to their capacity, and the windows to their fields: send_all takes no
\* more from the peer's window than is left of it.
Windowed(e) ==
  /\ Len(send[e]) <= BufSize /\ Len(recv[e]) <= BufSize
  /\ tcb[e].RCV_WND \in 0 .. (Word - 1) /\ tcb[e].SND_WND \in 0 .. (Word - 1)
  /\ thread[e].pc = "sendAll" => thread[e].toSend <= tcb[e].SND_WND

Measured(e) == Accounted(e) /\ Windowed(e)

\* The smaller of two numbers.
LEMMA MinIsLeast ==
  ASSUME NEW a \in Int, NEW b \in Int
  PROVE  /\ MIN(a, b) \in Int /\ MIN(a, b) <= a /\ MIN(a, b) <= b
         /\ a >= 0 /\ b >= 0 => MIN(a, b) >= 0
BY DEF MIN

\* The types of what the bounds speak of.
LEMMA MeasureTypes ==
  ASSUME Typed, NEW e \in Endpoints
  PROVE  /\ tcb[e] \in ControlBlocks /\ tcb[e].ISS \in Int /\ tcb[e].SND_UNA \in Int
         /\ tcb[e].SND_NXT \in Int /\ tcb[e].SND_WND \in Int /\ tcb[e].RCV_NXT \in Int
         /\ tcb[e].RCV_WND \in Int
         /\ send[e] \in Seq(Int) /\ recv[e] \in Seq(Int) /\ Len(send[e]) \in Nat /\ Len(recv[e]) \in Nat
         /\ sent[e] \in Int /\ writer[e].left \in Int
         /\ thread[e].pc = "sendAll" => thread[e] \in SendingAll
         /\ BufSize \in Nat /\ MSS \in Nat /\ Word \in Nat /\ WinMod \in Nat /\ BufSize < WinMod
         /\ WinMod <= Word /\ MaxBytes \in Nat
<1>1. tcb[e] \in ControlBlocks /\ thread[e] \in Positions
      /\ send[e] \in Seq(Int) /\ recv[e] \in Seq(Int) /\ sent[e] \in Int /\ writer[e].left \in Int
  BY DEF Typed
<1>2. thread[e].pc = "sendAll" => thread[e] \in SendingAll
  BY <1>1, PositionTypes
<1>3. BufSize \in Nat /\ MSS \in Nat
  BY SizeAssumption
<1>4. Word \in Nat /\ WinMod \in Nat /\ BufSize < WinMod /\ WinMod <= Word /\ MaxBytes \in Nat
  BY SizeAssumption
<1>5. Len(send[e]) \in Nat /\ Len(recv[e]) \in Nat
  BY <1>1
<1> QED BY <1>1, <1>2, <1>3, <1>4, <1>5 DEF ControlBlocks

\* The room in the receive buffer fits a window.
LEMMA RoomFits ==
  ASSUME Typed, NEW e \in Endpoints, Windowed(e)
  PROVE  Room(e) \in Int /\ Room(e) \in 0 .. (Word - 1)
BY MeasureTypes DEF Room, Windowed

\* The other end's buffers and requests are its own.
LEMMA OtherBuffers ==
  ASSUME Typed, NEW e \in Endpoints, Step(e), NEW d \in Endpoints, d # e
  PROVE  send'[d] = send[d] /\ recv'[d] = recv[d] /\ sent'[d] = sent[d] /\ writer'[d] = writer[d]
<1>1. CASE UNCHANGED <<send, recv, sent, writer>>
  BY <1>1
<1>2. CASE Connect(e) \/ ListenArrival(e) \/ SynRcvdArrival(e) \/ SynSentArrival(e)
  BY <1>1, <1>2 DEF Connect, ListenArrival, SynRcvdArrival, SynSentArrival, Arrival, requests
<1>3. CASE \/ StartArrival(e) \/ EndArrival(e) \/ RejectPacket(e) \/ AcceptPacket(e)
           \/ always_on_fb(e) \/ FinishFIN(e) \/ LastAcked(e) \/ Cleanup(e) \/ AfterArrival(e)
  BY <1>1, <1>3 DEF StartArrival, EndArrival, RejectPacket, AcceptPacket, always_on_fb, FinishFIN,
                    LastAcked, HearsLastACK, Cleanup, AfterArrival, tcpVars, requests
<1>4. CASE \/ Receive(e) \/ Send(e) \/ StartClose(e) \/ EndSendAll(e) \/ SendFIN(e) \/ FinishClose(e)
           \/ \E f \in FlagSet : Ignore(e, f)
  BY <1>1, <1>4 DEF Receive, Send, StartClose, StartSendAll, EndSendAll, SendFIN, FinishClose, Ignore,
                    tcpVars, requests
<1>5. CASE use_data(e)
  BY <1>5 DEF use_data, requests, Typed
<1>6. CASE SendSegment(e)
  BY <1>6 DEF SendSegment, Typed
<1>7. CASE NetworkThread(e)
  BY <1>1, <1>7 DEF NetworkThread, Enqueue, RaiseNetRecv, tcpVars, requests
<1>8. CASE \E n \in SendSizes : SendCall(e, n)
  BY <1>8 DEF SendCall, tcpVars, Typed
<1>9. CASE Sending(e)
  BY <1>9 DEF Sending, SendPut, SendReturn, tcpVars, Typed
<1>10. CASE Receiving(e)
  BY <1>10 DEF Receiving, RecvCall, RecvTake, RecvReturn, tcpVars, Typed
<1>11. CASE Closing(e)
  BY <1>1, <1>11 DEF Closing, CloseCall, CloseReturn, tcpVars
<1> QED BY <1>2, <1>3, <1>4, <1>5, <1>6, <1>7, <1>8, <1>9, <1>10, <1>11 DEF Step, TcpThread

\* Steps that touch neither the numbers nor the buffers.
LEMMA StillMeasured ==
  ASSUME NEW e \in Endpoints, Measured(e), Begun(e)' <=> Begun(e),
         tcb'[e] = tcb[e], send'[e] = send[e], recv'[e] = recv[e], sent'[e] = sent[e],
         writer'[e] = writer[e] \/ writer'[e].pc = "none",
         thread'[e] = thread[e] \/ thread'[e].pc # "sendAll"
  PROVE  Measured(e)'
BY DEF Measured, Accounted, Windowed

\* The handshake gives the numbers.
LEMMA HandshakeMeasured ==
  ASSUME Typed, Typed', NEW e \in Endpoints, Measured(e), Phase, CloseIsFinal(e), Handshakes(e)
  PROVE  Measured(e)'
<1>0. /\ tcb[e] \in ControlBlocks /\ ISNs \subseteq Nat
  BY SizeAssumption DEF Typed
<1>1. ASSUME NEW s, Arrival(e, s)
      PROVE  /\ tcp_state[e] = s /\ ~Unconnected(e) /\ ~Unconnected(e)' /\ thread'[e].pc = "after"
             /\ pending[e] # <<>>
             /\ send'[e] = send[e] /\ recv'[e] = recv[e] /\ sent'[e] = sent[e] /\ writer'[e] = writer[e]
  BY <1>1, Arrived DEF Arrival, requests
<1>2. \A p : p = Head(pending[e]) /\ pending[e] # <<>> => p \in Packets
  BY FetchType DEF Typed
<1>3. Room(e) \in Int /\ Room(e) \in 0 .. (Word - 1)
  BY RoomFits DEF Measured
<1>4. \A x \in 0 .. (WinMod - 1) : x \in 0 .. (Word - 1)
  BY MeasureTypes
<1>5. CASE Connect(e)
  <2>1. PICK iss \in ISNs :
          tcb' = [tcb EXCEPT ![e] = [tcb[e] EXCEPT !.ISS = iss, !.SND_UNA = iss, !.SND_NXT = iss + 1,
                                                   !.RCV_WND = Room(e)]]
    BY <1>5 DEF Connect
  <2>2. /\ tcb'[e].ISS = iss /\ tcb'[e].SND_UNA = iss /\ tcb'[e].SND_NXT = iss + 1
        /\ tcb'[e].RCV_WND = Room(e) /\ tcb'[e].SND_WND = tcb[e].SND_WND
    BY <1>0, <2>1 DEF ControlBlocks, Typed
  <2>3. Take(e, "app_connect") /\ UNCHANGED <<send, recv, thread, sent, writer>>
    BY <1>5 DEF Connect, requests
  <2>4. Unconnected(e) /\ thread[e].pc = "wait"
    BY <2>3, Taking DEF Unconnected
  <2>5. ~Begun(e)
    BY <2>4 DEF Begun
  <2>6. iss \in Nat /\ Len(send[e]) = 0 /\ sent[e] = 0
    BY <1>0, <2>5 DEF Measured, Accounted
  <2>7. Accounted(e)'
    <3>1. tcp_state'[e] = "SYN_SENT" /\ flags'[e] = flags[e] \ {"app_connect"}
      BY <1>5, <2>3, Taking DEF Connect, SetState, Typed
    <3>2. Begun(e)'
      BY <3>1 DEF Begun, Unconnected
    <3> QED BY <2>2, <2>3, <2>5, <2>6, <3>2 DEF Measured, Accounted
  <2>8. Windowed(e)'
    BY <1>3, <2>2, <2>3, <2>4 DEF Measured, Windowed
  <2> QED BY <2>7, <2>8 DEF Measured
<1>6. CASE ListenArrival(e)
  <2> DEFINE p == Head(pending[e])
  <2>0. /\ tcp_state[e] = "LISTEN" /\ ~Unconnected(e)' /\ thread'[e].pc = "after" /\ p \in Packets
        /\ send'[e] = send[e] /\ recv'[e] = recv[e] /\ sent'[e] = sent[e] /\ writer'[e] = writer[e]
    BY <1>1, <1>2, <1>6 DEF ListenArrival
  <2>1. ~Begun(e)
    BY <2>0 DEF Begun
  <2>2. CASE ~p.syn
    <3>1. tcb' = tcb /\ tcp_state' = tcp_state
      BY <1>6, <2>2 DEF ListenArrival
    <3>2. ~Begun(e)'
      BY <2>0, <3>1 DEF Begun
    <3> QED BY <2>0, <2>1, <3>1, <3>2, StillMeasured
  <2>3. CASE p.syn
    <3>1. PICK iss \in ISNs :
            /\ tcb' = [tcb EXCEPT ![e] = [tcb[e] EXCEPT !.RCV_NXT = p.seq + 1, !.ISS = iss,
                 !.RCV_WND = Room(e), !.SND_WND = p.win, !.SND_NXT = iss + 1, !.SND_UNA = iss]]
            /\ SetState(e, "SYN_RCVD")
      BY <1>6, <2>3 DEF ListenArrival
    <3>2. /\ tcb'[e].ISS = iss /\ tcb'[e].SND_UNA = iss /\ tcb'[e].SND_NXT = iss + 1
          /\ tcb'[e].RCV_WND = Room(e) /\ tcb'[e].SND_WND = p.win
      BY <1>0, <3>1 DEF ControlBlocks, Typed
    <3>3. iss \in Nat /\ Len(send[e]) = 0 /\ sent[e] = 0
      BY <1>0, <2>1 DEF Measured, Accounted
    <3>4. Begun(e)'
      BY <2>0, <3>1 DEF Begun, SetState, Typed
    <3>5. Accounted(e)'
      BY <2>0, <2>1, <3>2, <3>3, <3>4 DEF Measured, Accounted
    <3>6. p.win \in 0 .. (Word - 1)
      BY <1>4, <2>0 DEF Packets
    <3>7. Windowed(e)'
      BY <1>3, <2>0, <3>2, <3>6 DEF Measured, Windowed
    <3> QED BY <3>5, <3>7 DEF Measured
  <2> QED BY <2>2, <2>3
<1>7. CASE SynRcvdArrival(e) \/ SynSentArrival(e)
  <2> DEFINE p == Head(pending[e])
             t == tcb[e]
  <2>0. /\ tcp_state[e] \in {"SYN_RCVD", "SYN_SENT"} /\ ~Unconnected(e) /\ ~Unconnected(e)'
        /\ thread'[e].pc = "after" /\ p \in Packets
        /\ send'[e] = send[e] /\ recv'[e] = recv[e] /\ sent'[e] = sent[e] /\ writer'[e] = writer[e]
    BY <1>1, <1>2, <1>7 DEF SynRcvdArrival, SynSentArrival
  <2>1. p.win \in 0 .. (Word - 1) /\ p.ack_seq \in Int
    BY <1>4, <2>0 DEF Packets
  <2>2. Begun(e) /\ Begun(e)'
    <3>1. tcp_state'[e] \in {"SYN_RCVD", "ESTABLISHED", tcp_state[e]}
      BY <1>7 DEF SynRcvdArrival, SynSentArrival, SetState, Typed
    <3> QED BY <2>0, <3>1 DEF Begun
  <2>3. /\ tcb'[e].ISS = t.ISS /\ tcb'[e].SND_NXT = t.SND_NXT /\ tcb'[e].RCV_WND = t.RCV_WND
        /\ tcb'[e].SND_WND = t.SND_WND \/ tcb'[e].SND_WND = p.win
        /\ \/ tcb'[e].SND_UNA = t.SND_UNA \/ tcb'[e].SND_UNA = t.SND_NXT
           \/ tcb'[e].SND_UNA = p.ack_seq /\ t.SND_UNA <= p.ack_seq /\ p.ack_seq <= t.SND_NXT
    <3>1. CASE SynRcvdArrival(e)
      <4> DEFINE u == [t EXCEPT !.SND_UNA = t.SND_NXT]
                 v == [u EXCEPT !.SND_WND = p.win]
                 w == [t EXCEPT !.SND_WND = p.win]
      <4>1. tcb'[e] = t \/ tcb'[e] = v \/ tcb'[e] = w
        BY <3>1 DEF SynRcvdArrival, Typed
      <4>2. /\ w.ISS = t.ISS /\ w.SND_NXT = t.SND_NXT /\ w.RCV_WND = t.RCV_WND /\ w.SND_WND = p.win
            /\ w.SND_UNA = t.SND_UNA
        BY <1>0 DEF ControlBlocks
      <4>3. /\ u.ISS = t.ISS /\ u.SND_NXT = t.SND_NXT /\ u.RCV_WND = t.RCV_WND /\ u.SND_UNA = t.SND_NXT
            /\ u \in ControlBlocks
        BY <1>0 DEF ControlBlocks
      <4> HIDE DEF u
      <4>4. /\ v.ISS = u.ISS /\ v.SND_NXT = u.SND_NXT /\ v.RCV_WND = u.RCV_WND /\ v.SND_UNA = u.SND_UNA
            /\ v.SND_WND = p.win
        BY <4>3 DEF ControlBlocks
      <4> QED BY <4>1, <4>2, <4>3, <4>4
    <3>2. CASE SynSentArrival(e)
      <4> DEFINE u == [t EXCEPT !.RCV_NXT = p.seq + 1, !.SND_WND = IF p.ack THEN p.win ELSE @,
                                !.SND_UNA = IF p.ack THEN p.ack_seq ELSE @]
                 v == [u EXCEPT !.SND_UNA = u.SND_NXT]
      <4>1. \/ tcb'[e] = t
            \/ (p.ack => t.SND_UNA <= p.ack_seq /\ p.ack_seq <= t.SND_NXT) /\ (tcb'[e] = u \/ tcb'[e] = v)
        BY <3>2 DEF SynSentArrival, Typed
      <4>2. /\ u.ISS = t.ISS /\ u.SND_NXT = t.SND_NXT /\ u.RCV_WND = t.RCV_WND
            /\ u.SND_WND = t.SND_WND \/ u.SND_WND = p.win
            /\ u.SND_UNA = t.SND_UNA \/ (p.ack /\ u.SND_UNA = p.ack_seq)
        BY <1>0 DEF ControlBlocks
      <4>3. /\ v.ISS = u.ISS /\ v.SND_NXT = u.SND_NXT /\ v.RCV_WND = u.RCV_WND /\ v.SND_WND = u.SND_WND
            /\ v.SND_UNA = u.SND_NXT
        BY <1>0 DEF ControlBlocks
      <4> HIDE DEF u, v, p
      <4> QED BY <4>1, <4>2, <4>3
    <3> QED BY <1>7, <3>1, <3>2
  <2>4. t.SND_UNA \in Int /\ t.SND_NXT \in Int /\ t.ISS \in Int
    BY <1>0 DEF ControlBlocks
  <2>5. Accounted(e)'
    <3>1. tcb'[e].ISS <= tcb'[e].SND_UNA /\ tcb'[e].SND_UNA <= tcb'[e].SND_NXT
      BY <2>1, <2>2, <2>3, <2>4 DEF Measured, Accounted
    <3> QED BY <2>0, <2>2, <2>3, <3>1 DEF Measured, Accounted
  <2>6. Windowed(e)'
    BY <2>0, <2>1, <2>3 DEF Measured, Windowed
  <2> QED BY <2>5, <2>6 DEF Measured
<1> QED BY <1>5, <1>6, <1>7 DEF Handshakes

\* No other step makes or unmakes a connection.
LEMMA BegunStays ==
  ASSUME Typed, NEW e \in Endpoints, CloseIsFinal(e), ~Open(e) => thread[e].pc \in {"wait", "after"},
         Step(e), ~Handshakes(e)
  PROVE  Begun(e)' <=> Begun(e)
<1>1. CASE Open(e)
  BY <1>1, OpenStays DEF Open, Begun, Early
<1>2. CASE ~Open(e)
  BY <1>2, EarlyKeeps DEF Begun
<1> QED BY <1>1, <1>2

\* A step of the TCP thread in a loop over packets, and most of the others, measures nothing.
LEMMA ThreadMeasured ==
  ASSUME Typed, NEW e \in Endpoints, Measured(e), Begun(e)' <=> Begun(e),
         \/ StartArrival(e) \/ EndArrival(e) \/ RejectPacket(e) \/ FinishFIN(e) \/ LastAcked(e)
         \/ Cleanup(e) \/ AfterArrival(e) \/ EndSendAll(e) \/ SendFIN(e) \/ FinishClose(e)
         \/ NetworkThread(e) \/ Closing(e) \/ (\E f \in FlagSet : Ignore(e, f))
  PROVE  Measured(e)'
<1>0. thread \in [Endpoints -> Positions] /\ thread[e] \in Positions
  BY DEF Typed
<1>1. ASSUME UNCHANGED <<tcb, send, recv, sent, writer>>, thread'[e] = thread[e] \/ thread'[e].pc # "sendAll"
      PROVE  Measured(e)'
  BY <1>1, StillMeasured
<1>2. CASE StartArrival(e) \/ EndArrival(e) \/ RejectPacket(e) \/ LastAcked(e) \/ Cleanup(e)
           \/ AfterArrival(e)
  BY <1>0, <1>1, <1>2 DEF StartArrival, EndArrival, RejectPacket, LastAcked, HearsLastACK, Cleanup, AfterArrival,
                          Goto, Idle, tcpVars, requests
<1>3. CASE FinishFIN(e)
  <2>1. thread[e] \in InHandler
    BY <1>0, <1>3, PositionTypes DEF FinishFIN
  <2>2. thread'[e].pc = "arrival"
    BY <1>0, <1>3, <2>1 DEF FinishFIN, InHandler
  <2> QED BY <1>1, <1>3, <2>2 DEF FinishFIN, requests
<1>4. CASE EndSendAll(e) \/ SendFIN(e) \/ FinishClose(e)
  BY <1>0, <1>1, <1>4 DEF EndSendAll, SendFIN, FinishClose, Goto, Idle, tcpVars, requests
<1>5. CASE NetworkThread(e)
  BY <1>1, <1>5 DEF NetworkThread, Enqueue, RaiseNetRecv, tcpVars, requests
<1>6. CASE Closing(e)
  BY <1>1, <1>6 DEF Closing, CloseCall, CloseReturn, tcpVars
<1>7. ASSUME NEW f \in FlagSet, Ignore(e, f) PROVE Measured(e)'
  BY <1>0, <1>1, <1>7 DEF Ignore, Goto, tcpVars, requests
<1> QED BY <1>2, <1>3, <1>4, <1>5, <1>6, <1>7

\* The steps that set a field of the control block.
LEMMA FieldMeasured ==
  ASSUME Typed, NEW e \in Endpoints, Measured(e), Begun(e)' <=> Begun(e),
         AcceptPacket(e) \/ always_on_fb(e) \/ Receive(e)
  PROVE  Measured(e)'
<1> DEFINE t == tcb[e]
           u == tcb'[e]
           p == Head(pending[e])
<1>0. t \in ControlBlocks /\ thread[e] \in Positions /\ tcb \in [Endpoints -> ControlBlocks]
  BY DEF Typed
<1>1. Room(e) \in 0 .. (Word - 1) /\ Room(e) \in Int
  BY RoomFits DEF Measured
<1>2. /\ UNCHANGED <<send, recv, sent, writer>> /\ thread'[e].pc # "sendAll"
  <2>1. CASE AcceptPacket(e)
    <3>1. thread'[e].pc = Next_pc(thread[e].handler, p)
      BY <2>1 DEF AcceptPacket, Typed
    <3> QED BY <2>1, <3>1 DEF AcceptPacket, Next_pc, requests
  <2>2. CASE always_on_fb(e)
    <3>1. thread[e] \in InHandler
      BY <1>0, <2>2, PositionTypes DEF always_on_fb
    <3>2. thread'[e].pc = "setState"
      BY <2>2, <3>1 DEF always_on_fb, Typed, InHandler
    <3> QED BY <2>2, <3>2 DEF always_on_fb, requests
  <2>3. CASE Receive(e)
    BY <2>3, Taking DEF Receive, requests
  <2> QED BY <2>1, <2>2, <2>3
<1>3. ASSUME u.ISS = t.ISS, u.SND_NXT = t.SND_NXT, u.RCV_WND \in 0 .. (Word - 1),
             \/ u.SND_UNA = t.SND_UNA
             \/ Begun(e) /\ u.SND_UNA > t.SND_UNA /\ u.SND_UNA <= t.SND_NXT /\ u.SND_UNA \in Int,
             u.SND_WND \in 0 .. (Word - 1)
      PROVE  Measured(e)'
  <2>1. t.SND_UNA \in Int /\ t.SND_NXT \in Int /\ t.ISS \in Int
    BY <1>0 DEF ControlBlocks
  <2>2. Windowed(e)'
    BY <1>2, <1>3 DEF Measured, Windowed
  <2> QED BY <1>2, <1>3, <2>1, <2>2 DEF Measured, Accounted
<1>4. t.RCV_WND \in 0 .. (Word - 1) /\ t.SND_WND \in 0 .. (Word - 1)
  BY DEF Measured, Windowed
<1>5. CASE AcceptPacket(e)
  <2>1. p \in Packets
    BY <1>5, FetchType DEF AcceptPacket, MoreToProcess, Typed
  <2>2. p.win \in 0 .. (Word - 1) /\ p.ack_seq \in Int
    <3>1. p.win \in 0 .. (WinMod - 1) /\ p.ack_seq \in Int
      BY <2>1 DEF Packets
    <3> QED BY <3>1, MeasureTypes
  <2>3. u = t \/ (inside_window(t, p) /\ u = update_WND_and_UNA(t, p))
    BY <1>0, <1>5 DEF AcceptPacket
  <2>4. CASE u = t
    BY <1>3, <1>4, <2>4
  <2>5. CASE inside_window(t, p) /\ u = update_WND_and_UNA(t, p)
    <3>1. /\ u.ISS = t.ISS /\ u.SND_NXT = t.SND_NXT /\ u.RCV_WND = t.RCV_WND /\ u.SND_UNA = p.ack_seq
          /\ u.SND_WND = p.win
      <4> HIDE DEF p, u, t
      <4> QED BY <1>0, <2>5 DEF update_WND_and_UNA, ControlBlocks
    <3>2. p.ack_seq > t.SND_UNA /\ p.ack_seq <= t.SND_NXT
      <4>1. t.SND_UNA < p.ack_seq /\ p.ack_seq <= t.SND_NXT /\ t.SND_UNA \in Int
        BY <1>0, <2>5 DEF inside_window, ControlBlocks
      <4> QED BY <2>2, <4>1
    <3>3. Begun(e)
      <4>1. ~Begun(e) => t.SND_UNA = 0 /\ t.SND_NXT = 0
        BY DEF Measured, Accounted
      <4> QED BY <2>2, <3>2, <4>1
    <3> HIDE DEF p, u, t
    <3> QED BY <1>3, <1>4, <2>2, <3>1, <3>2, <3>3
  <2> QED BY <2>3, <2>4, <2>5
<1>6. CASE always_on_fb(e)
  <2>1. u = [t EXCEPT !.RCV_NXT = thread[e].packet.seq]
    BY <1>0, <1>6 DEF always_on_fb
  <2> HIDE DEF u
  <2> QED BY <1>0, <1>3, <1>4, <2>1 DEF ControlBlocks
<1>7. CASE Receive(e)
  <2>1. u = [t EXCEPT !.RCV_WND = Room(e)]
    BY <1>0, <1>7 DEF Receive
  <2> HIDE DEF u
  <2> QED BY <1>0, <1>1, <1>3, <1>4, <2>1 DEF ControlBlocks
<1> QED BY <1>5, <1>6, <1>7

\* What use_data writes fits the receive buffer. RCV_WND may wrap.
LEMMA UseMeasured ==
  ASSUME Typed, NEW e \in Endpoints, Measured(e), Begun(e)' <=> Begun(e), use_data(e)
  PROVE  Measured(e)'
<1> DEFINE t == tcb[e]
           x == thread[e]
           n == MIN(Room(e), Len(x.rest))
           l == Len(x.packet.data)
<1>0. /\ t \in ControlBlocks /\ tcb \in [Endpoints -> ControlBlocks] /\ thread \in [Endpoints -> Positions]
      /\ recv \in [Endpoints -> Seq(Int)] /\ x \in InHandler /\ x.packet \in Packets
      /\ x.rest \in Seq(Int) /\ Len(x.rest) \in Nat
  <2>1. x \in InHandler
    BY PositionTypes DEF use_data, Typed
  <2> QED BY <2>1 DEF Typed, InHandler
<1>1. l \in Nat
  BY <1>0 DEF Packets
<1>2. Room(e) \in Int /\ n \in Int /\ n <= Room(e) /\ n <= Len(x.rest)
  <2>1. Room(e) \in Int
    BY RoomFits DEF Measured
  <2>2. Len(x.rest) \in Int
    BY <1>0
  <2> HIDE DEF x
  <2> QED BY <2>1, <2>2, MinIsLeast DEF n
<1>3. UNCHANGED <<send, sent, writer>>
  BY DEF use_data, requests
<1>4. ASSUME tcb'[e] = t \/ tcb'[e] = Advance(t, l), thread'[e].pc # "sendAll", Len(recv'[e]) <= BufSize
      PROVE  Measured(e)'
  <2>1. /\ tcb'[e].ISS = t.ISS /\ tcb'[e].SND_NXT = t.SND_NXT /\ tcb'[e].SND_UNA = t.SND_UNA
        /\ tcb'[e].SND_WND = t.SND_WND
        /\ tcb'[e].RCV_WND = t.RCV_WND \/ tcb'[e].RCV_WND = (t.RCV_WND - l) % Word
    <3> HIDE DEF l
    <3>1. \/ tcb'[e] = t
          \/ tcb'[e] = [t EXCEPT !.RCV_NXT = t.RCV_NXT + l, !.RCV_WND = (t.RCV_WND - l) % Word]
      BY <1>4 DEF Advance
    <3> QED BY <1>0, <3>1 DEF ControlBlocks
  <2>2. (t.RCV_WND - l) % Word \in 0 .. (Word - 1)
    <3>1. Word \in Nat /\ WinMod \in Nat /\ BufSize \in Nat /\ BufSize < WinMod /\ WinMod <= Word
      BY MeasureTypes
    <3>2. t.RCV_WND \in Int
      BY <1>0 DEF ControlBlocks
    <3> HIDE DEF t, l
    <3>3. t.RCV_WND - l \in Int /\ Word \in Nat \ {0}
      BY <1>1, <3>1, <3>2
    <3> QED BY <3>3
  <2>3. Windowed(e)'
    BY <1>3, <1>4, <2>1, <2>2 DEF Measured, Windowed
  <2> QED BY <1>3, <2>1, <2>3 DEF Measured, Accounted
<1>5. ASSUME NEW q, Written(e, q) PROVE tcb'[e] = q /\ thread'[e].pc # "sendAll"
  BY <1>0, <1>5 DEF Written, InHandler
<1>6. Len(recv[e]) <= BufSize /\ Len(recv[e]) \in Nat /\ recv[e] \in Seq(Int) /\ BufSize \in Nat
  BY MeasureTypes DEF Measured, Windowed
<1>7. CASE Written(e, tcb[e]) /\ UNCHANGED recv
  BY <1>4, <1>5, <1>6, <1>7
<1>8. CASE /\ n > 0 /\ recv' = [recv EXCEPT ![e] = @ \o SubSeq(x.rest, 1, n)]
           /\ IF n < Len(x.rest)
                THEN /\ thread' = [thread EXCEPT ![e].rest = SubSeq(@, n + 1, Len(@))]
                     /\ UNCHANGED <<tcb, net>>
                ELSE Written(e, Advance(tcb[e], l))
  <2> HIDE DEF n
  <2>1. Len(recv'[e]) <= BufSize
    <3>1. SubSeq(x.rest, 1, n) \in Seq(Int) /\ Len(SubSeq(x.rest, 1, n)) = n
      BY <1>0, <1>2, <1>8, SubSeqProperties
    <3> DEFINE b == SubSeq(x.rest, 1, n)
    <3>2. recv'[e] = recv[e] \o b
      BY <1>0, <1>8
    <3> HIDE DEF b
    <3>3. Len(recv[e] \o b) = Len(recv[e]) + n
      BY <1>6, <3>1, ConcatProperties DEF b
    <3>4. n <= BufSize - Len(recv[e])
      BY <1>2 DEF Room
    <3> QED BY <1>2, <1>6, <3>2, <3>3, <3>4
  <2>2. CASE n < Len(x.rest)
    <3>1. thread'[e].pc # "sendAll"
      BY <1>0, <1>8, <2>2 DEF InHandler
    <3> QED BY <1>4, <1>8, <2>1, <2>2, <3>1
  <2>3. CASE ~(n < Len(x.rest))
    BY <1>4, <1>5, <1>8, <2>1, <2>3
  <2> QED BY <2>2, <2>3
<1> QED BY <1>7, <1>8 DEF use_data

\* send_all takes from the send buffer what it sends, and no more than the peer's window.
LEMMA SegmentMeasured ==
  ASSUME Typed, NEW e \in Endpoints, Measured(e), Begun(e)' <=> Begun(e),
         Send(e) \/ StartClose(e) \/ SendSegment(e)
  PROVE  Measured(e)'
<1> DEFINE t == tcb[e]
           k == Len(send[e])
<1>0. /\ t \in ControlBlocks /\ tcb \in [Endpoints -> ControlBlocks] /\ thread \in [Endpoints -> Positions]
      /\ send \in [Endpoints -> Seq(Int)] /\ send[e] \in Seq(Int) /\ k \in Nat /\ MSS \in Nat
  BY MeasureTypes DEF Typed
<1>1. ASSUME NEW a \in Int, NEW u \in ControlBlocks, NEW c \in Nat
      PROVE  ToSend(a, u, c) \in Int /\ ToSend(a, u, c) <= u.SND_WND
  <2>1. u.SND_WND \in Int
    BY DEF ControlBlocks
  <2>2. MIN(MSS, u.SND_WND) \in Int /\ MIN(MSS, u.SND_WND) <= u.SND_WND
    <3>1. MSS \in Int
      BY <1>0
    <3> QED BY <2>1, <3>1, MinIsLeast
  <2>3. MIN(MIN(MSS, u.SND_WND), c) \in Int /\ MIN(MIN(MSS, u.SND_WND), c) <= MIN(MSS, u.SND_WND)
    <3>1. c \in Int
      OBVIOUS
    <3> QED BY <2>2, <3>1, MinIsLeast
  <2>4. ToSend(a, u, c) \in Int /\ ToSend(a, u, c) <= MIN(MIN(MSS, u.SND_WND), c)
    BY <2>3, MinIsLeast DEF ToSend
  <2> QED BY <2>1, <2>2, <2>3, <2>4
<1>2. ASSUME NEW f, StartSendAll(e, f) PROVE Measured(e)'
  <2> DEFINE a == t.SND_UNA + t.SND_WND - t.SND_NXT
  <2>1. a \in Int
    BY <1>0 DEF ControlBlocks
  <2>2. thread'[e] = [pc |-> "sendAll", event |-> f, allowed |-> a, toSend |-> ToSend(a, t, k)]
    BY <1>0, <1>2 DEF StartSendAll
  <2>3. thread'[e].toSend <= t.SND_WND
    <3> HIDE DEF a, k, t
    <3> QED BY <1>0, <1>1, <2>1, <2>2
  <2>4. UNCHANGED <<tcb, send, recv, sent, writer>>
    BY <1>2 DEF StartSendAll, tcpVars, requests
  <2> QED BY <2>3, <2>4 DEF Measured, Accounted, Windowed
<1>3. CASE SendSegment(e)
  <2> DEFINE x == thread[e]
             n == MIN(x.toSend, k)
             u == [t EXCEPT !.SND_NXT = @ + n, !.SND_WND = @ - n]
             left == Removed(send[e], n)
  <2>1. x \in SendingAll /\ x.toSend \in Int /\ x.allowed \in Int /\ x.toSend > 0 /\ x.toSend <= t.SND_WND
    <3>1. x.pc = "sendAll" /\ x.toSend > 0
      BY <1>3 DEF SendSegment, SendAllGoesOn
    <3>2. x \in SendingAll
      BY <1>0, <3>1, PositionTypes
    <3> QED BY <3>1, <3>2 DEF SendingAll, Measured, Windowed
  <2>2. n \in Nat /\ n <= x.toSend /\ n <= k
    <3>1. n \in Int /\ n <= x.toSend /\ n <= k /\ n >= 0
      <4>1. k \in Int /\ k >= 0 /\ x.toSend >= 0
        BY <1>0, <2>1
      <4> HIDE DEF k, x
      <4> QED BY <2>1, <4>1, MinIsLeast DEF n
    <3> QED BY <3>1
  <2> HIDE DEF n
  <2>3. left \in Seq(Int) /\ Len(left) = k - n
    <3>1. n + 1 \in 1 .. (k + 1)
      BY <1>0, <2>2
    <3> QED BY <1>0, <2>2, <3>1, SubSeqProperties DEF Removed
  <2>4. tcb'[e] = u /\ send'[e] = left /\ thread'[e] = [x EXCEPT !.toSend = ToSend(x.allowed, u, Len(left))]
    BY <1>0, <1>3 DEF SendSegment, n
  <2>5. UNCHANGED <<recv, sent, writer>>
    BY <1>3 DEF SendSegment
  <2>6. /\ t.SND_NXT \in Int /\ t.SND_WND \in Int /\ t.ISS \in Int /\ t.SND_UNA \in Int
        /\ t.SND_WND \in 0 .. (Word - 1)
    BY <1>0 DEF ControlBlocks, Measured, Windowed
  <2>7. /\ u.ISS = t.ISS /\ u.SND_UNA = t.SND_UNA /\ u.SND_NXT = t.SND_NXT + n /\ u.SND_WND = t.SND_WND - n
        /\ u.RCV_WND = t.RCV_WND /\ u \in ControlBlocks
    <3> HIDE DEF t
    <3>1. t.SND_NXT + n \in Int /\ t.SND_WND - n \in Int
      BY <2>2, <2>6
    <3> QED BY <1>0, <3>1 DEF ControlBlocks
  <2> HIDE DEF u, left
  <2>8. thread'[e].toSend <= u.SND_WND
    <3>1. thread'[e].toSend = ToSend(x.allowed, u, Len(left))
      BY <2>1, <2>4 DEF SendingAll
    <3>2. Len(left) \in Nat
      BY <2>3
    <3> HIDE DEF x
    <3> QED BY <1>1, <2>1, <2>7, <3>1, <3>2
  <2>9. Begun(e)
    <3>1. ~Begun(e) => send[e] = <<>>
      BY DEF Measured, Accounted
    <3> QED BY <1>3, <3>1 DEF SendSegment, SendAllGoesOn
  <2>10. u.SND_NXT + Len(left) = t.SND_NXT + k /\ u.SND_UNA <= u.SND_NXT
    <3>1. t.SND_UNA <= t.SND_NXT
      BY <2>9 DEF Measured, Accounted
    <3> HIDE DEF k, t
    <3> QED BY <1>0, <2>2, <2>3, <2>6, <2>7, <3>1
  <2>11. Accounted(e)'
    BY <2>4, <2>5, <2>7, <2>9, <2>10 DEF Measured, Accounted
  <2>12. Windowed(e)'
    <3>1. Len(left) <= BufSize
      <4>1. k <= BufSize /\ BufSize \in Nat
        BY MeasureTypes DEF Measured, Windowed
      <4> HIDE DEF k
      <4> QED BY <1>0, <2>2, <2>3, <4>1
    <3>2. u.SND_WND \in 0 .. (Word - 1)
      <4>1. Word \in Nat
        BY MeasureTypes
      <4> HIDE DEF t, x
      <4> QED BY <2>1, <2>2, <2>6, <2>7, <4>1
    <3> QED BY <2>4, <2>5, <2>7, <2>8, <3>1, <3>2 DEF Measured, Windowed
  <2> QED BY <2>11, <2>12 DEF Measured
<1> QED BY <1>2, <1>3 DEF Send, StartClose

\* SEND and RECV keep to the room and to the bytes there are.
LEMMA RequestMeasured ==
  ASSUME Typed, NEW e \in Endpoints, CloseIsFinal(e), Measured(e), Begun(e)' <=> Begun(e),
         (\E n \in SendSizes : SendCall(e, n)) \/ Sending(e) \/ Receiving(e)
  PROVE  Measured(e)'
<1>0. /\ writer \in [Endpoints -> [pc : {"none", "writing", "notify"}, left : Int]]
      /\ send \in [Endpoints -> Seq(Int)] /\ recv \in [Endpoints -> Seq(Int)] /\ sent \in [Endpoints -> Int]
      /\ BufSize \in Nat /\ MaxBytes \in Nat /\ sent[e] \in Int /\ writer[e].left \in Int
      /\ Len(send[e]) \in Nat /\ Len(recv[e]) \in Nat
  BY MeasureTypes DEF Typed
<1>1. ASSUME NEW n \in SendSizes, SendCall(e, n) PROVE Measured(e)'
  <2>1. n \in Nat /\ n > 0 /\ sent[e] + n <= MaxBytes
    <3>1. n \in Nat \ {0}
      BY SizeAssumption
    <3> QED BY <1>1, <3>1 DEF SendCall
  <2>2. MIN(n, BufSize) \in Int /\ MIN(n, BufSize) <= n /\ MIN(n, BufSize) >= 0
    <3>1. n \in Int /\ BufSize \in Int /\ n >= 0 /\ BufSize >= 0
      BY <1>0, <2>1
    <3> QED BY <3>1, MinIsLeast
  <2>3. writer'[e] = [pc |-> "notify", left |-> 0] \/ writer'[e] = [pc |-> "writing", left |-> MIN(n, BufSize)]
    BY <1>0, <1>1 DEF SendCall
  <2>4. Begun(e)
    <3>1. tcp_state[e] \in SendStates
      BY <1>1 DEF SendCall
    <3>2. tcp_state[e] \notin {"LISTEN", "CLOSED"}
      BY <3>1, ChoiceAssumption
    <3> QED BY <3>2 DEF CloseIsFinal, Begun, Unconnected
  <2>5. UNCHANGED <<tcb, send, recv, sent, thread>>
    BY <1>1 DEF SendCall, tcpVars
  <2>6. writer'[e].pc = "writing" => writer'[e].left >= 0 /\ sent[e] + writer'[e].left <= MaxBytes
    BY <1>0, <2>1, <2>2, <2>3
  <2> QED BY <2>4, <2>5, <2>6 DEF Measured, Accounted, Windowed
<1>2. CASE SendPut(e)
  <2> DEFINE room == BufSize - Len(send[e])
             n == MIN(room, writer[e].left)
             new == [i \in 1 .. n |-> sent[e] + i]
  <2>1. n \in Int /\ n > 0 /\ n <= room /\ n <= writer[e].left /\ writer[e].pc = "writing"
    <3>1. room \in Int
      BY <1>0
    <3> QED BY <1>0, <1>2, <3>1, MinIsLeast DEF SendPut
  <2>2. Begun(e)
    BY <2>1 DEF Measured, Accounted
  <2>3. UNCHANGED <<tcb, recv, thread>>
    BY <1>2 DEF SendPut
  <2> HIDE DEF n
  <2>4. CASE writer' = [writer EXCEPT ![e] = [pc |-> "notify", left |-> 0]] /\ UNCHANGED <<send, sent>>
    BY <1>0, <2>2, <2>3, <2>4 DEF Measured, Accounted, Windowed
  <2>5. CASE /\ send' = [send EXCEPT ![e] = @ \o new] /\ sent' = [sent EXCEPT ![e] = @ + n]
             /\ writer' = [writer EXCEPT ![e] =
                  [pc |-> IF n = @.left THEN "notify" ELSE "writing", left |-> @.left - n]]
    <3>1. new \in Seq(Int) /\ Len(new) = n
      BY <1>0, <2>1
    <3> HIDE DEF new
    <3>2. send'[e] = send[e] \o new /\ sent'[e] = sent[e] + n /\ writer'[e].left = writer[e].left - n
      BY <1>0, <2>5
    <3>3. Len(send'[e]) = Len(send[e]) + n
      <4>1. send[e] \in Seq(Int)
        BY <1>0
      <4>2. Len(send[e] \o new) = Len(send[e]) + Len(new)
        BY <3>1, <4>1, ConcatProperties
      <4> QED BY <3>1, <3>2, <4>2
    <3>4. Len(send'[e]) <= BufSize
      BY <1>0, <2>1, <3>3
    <3>5. /\ writer[e].left >= 0 /\ sent[e] + writer[e].left <= MaxBytes /\ sent[e] >= 0
          /\ tcb[e].SND_NXT + Len(send[e]) = tcb[e].ISS + 1 + sent[e]
          /\ tcb[e].SND_NXT \in Int /\ tcb[e].ISS \in Int
      BY <2>1, <2>2, MeasureTypes DEF Measured, Accounted
    <3>6. /\ sent'[e] >= 0 /\ sent'[e] <= MaxBytes
          /\ writer'[e].left >= 0 /\ sent'[e] + writer'[e].left <= MaxBytes
          /\ tcb[e].SND_NXT + Len(send'[e]) = tcb[e].ISS + 1 + sent'[e]
      <4> DEFINE k == Len(send[e])
                 w == writer[e].left
                 b == sent[e]
                 s == tcb[e].SND_NXT
                 i == tcb[e].ISS
      <4>1. /\ k \in Nat /\ w \in Int /\ b \in Int /\ s \in Int /\ i \in Int
            /\ n \in Int /\ n > 0 /\ MaxBytes \in Int
        BY <1>0, <2>1, <3>5
      <4>2. sent'[e] = b + n /\ writer'[e].left = w - n /\ Len(send'[e]) = k + n
        BY <3>2, <3>3
      <4>3. /\ w >= 0 /\ b + w <= MaxBytes /\ b >= 0 /\ n <= w
            /\ s + k = i + 1 + b
        BY <2>1, <3>5
      <4> HIDE DEF k, w, b, s, i
      <4>4. /\ b + n >= 0 /\ b + n <= MaxBytes /\ w - n >= 0 /\ (b + n) + (w - n) <= MaxBytes
            /\ s + (k + n) = i + 1 + (b + n)
        BY <4>1, <4>3
      <4> QED BY <4>2, <4>4 DEF s, i
    <3>7. Accounted(e)'
      BY <2>2, <2>3, <3>6 DEF Measured, Accounted
    <3> QED BY <2>3, <3>4, <3>7 DEF Measured, Windowed
  <2> QED BY <1>2, <2>4, <2>5 DEF SendPut, n
<1>3. CASE SendReturn(e)
  <2>1. writer'[e].pc = "none" /\ UNCHANGED <<tcb, send, recv, sent, thread>>
    BY <1>0, <1>3 DEF SendReturn, NoRequest, tcpVars
  <2> QED BY <2>1, StillMeasured
<1>4. CASE (\E n \in RecvSizes : RecvCall(e, n)) \/ RecvReturn(e)
  <2>1. UNCHANGED <<tcb, send, recv, sent, writer, thread>>
    BY <1>4 DEF RecvCall, RecvReturn, tcpVars
  <2> QED BY <2>1, StillMeasured
<1>5. CASE RecvTake(e)
  <2> DEFINE n == MIN(reader[e].left, Len(recv[e]))
  <2>1. UNCHANGED <<tcb, send, sent, writer, thread>>
    BY <1>5 DEF RecvTake
  <2>2. n \in Nat /\ n <= Len(recv[e])
    <3>1. reader[e].left \in Nat
      BY DEF Typed
    <3>2. reader[e].left \in Int /\ reader[e].left >= 0 /\ Len(recv[e]) \in Int /\ Len(recv[e]) >= 0
      BY <1>0, <3>1
    <3>3. n \in Int /\ n <= Len(recv[e]) /\ n >= 0
      BY <3>2, MinIsLeast
    <3> QED BY <3>3
  <2>3. recv'[e] = recv[e] \/ recv'[e] = SubSeq(recv[e], n + 1, Len(recv[e]))
    BY <1>0, <1>5 DEF RecvTake
  <2> HIDE DEF n
  <2>4. Len(recv'[e]) <= Len(recv[e]) /\ Len(recv'[e]) \in Nat
    <3>1. n + 1 \in 1 .. (Len(recv[e]) + 1) /\ recv[e] \in Seq(Int)
      BY <1>0, <2>2
    <3>2. Len(SubSeq(recv[e], n + 1, Len(recv[e]))) = Len(recv[e]) - n
      BY <1>0, <2>2, <3>1, SubSeqProperties
    <3> QED BY <1>0, <2>2, <2>3, <3>2
  <2>5. Len(recv'[e]) <= BufSize
    BY <1>0, <2>4 DEF Measured, Windowed
  <2> QED BY <2>1, <2>5 DEF Measured, Accounted, Windowed
<1> QED BY <1>1, <1>2, <1>3, <1>4, <1>5 DEF Sending, Receiving

\* No step of one endpoint moves the numbers of the other.
LEMMA MeasureStep ==
  Inv /\ SeqInv /\ [Next]_vars /\ (\A e \in Endpoints : Measured(e)) => \A e \in Endpoints : Measured(e)'
<1> SUFFICES ASSUME Inv, SeqInv, [Next]_vars, \A e \in Endpoints : Measured(e), NEW d \in Endpoints
             PROVE  Measured(d)'
  OBVIOUS
<1>1. CASE \E e \in Endpoints : Step(e)
  <2>1. PICK e \in Endpoints : Step(e)
    BY <1>1
  <2>2. Typed /\ Typed' /\ CloseIsFinal(e) /\ Phase
    BY <2>1, TypedBy DEF Inv, SeqInv
  <2>3. CASE d # e
    <3>1. send'[d] = send[d] /\ recv'[d] = recv[d] /\ sent'[d] = sent[d] /\ writer'[d] = writer[d]
      BY <2>1, <2>2, <2>3, OtherBuffers
    <3>2. tcb'[d] = tcb[d] /\ thread'[d] = thread[d] /\ tcp_state'[d] = tcp_state[d] /\ flags'[d] = flags[d]
      BY <2>1, <2>2, <2>3, OtherBlock, OwnState DEF Mine
    <3> QED BY <3>1, <3>2, StillMeasured DEF Begun, Unconnected
  <2>4. CASE Handshakes(e)
    BY <2>2, <2>3, <2>4, HandshakeMeasured
  <2>5. CASE ~Handshakes(e)
    <3>1. Begun(e)' <=> Begun(e)
      BY <2>1, <2>2, <2>5, BegunStays DEF Phase
    <3>2. Measured(e)'
      BY <2>1, <2>2, <2>5, <3>1, ThreadMeasured, FieldMeasured, UseMeasured, SegmentMeasured, RequestMeasured
         DEF Step, TcpThread, Handshakes
    <3> QED BY <2>3, <3>2
  <2> QED BY <2>4, <2>5
<1>2. CASE UNCHANGED live
  <2>1. UNCHANGED <<tcp_state, tcb, send, recv, thread, flags, writer, sent>>
    BY <1>2 DEF live, tcpVars, requests
  <2> QED BY <2>1, StillMeasured DEF Begun, Unconnected
<1> QED BY <1>1, <1>2, StepOrStill

\* At the start there is nothing to measure.
LEMMA MeasureInit == Init => \A e \in Endpoints : Measured(e)
<1> SUFFICES ASSUME Init, NEW e \in Endpoints PROVE Measured(e)
  OBVIOUS
<1>1. /\ tcb[e].ISS = 0 /\ tcb[e].SND_UNA = 0 /\ tcb[e].SND_NXT = 0 /\ tcb[e].SND_WND = 0
      /\ tcb[e].RCV_WND = 0 /\ send[e] = <<>> /\ recv[e] = <<>> /\ sent[e] = 0
      /\ writer[e].pc = "none" /\ thread[e].pc = "wait"
  BY DEF Init, NoRequest, Idle
<1>2. ~Begun(e)
  BY TwoEnds DEF Init, Begun, Unconnected
<1>3. MaxBytes \in Nat /\ BufSize \in Nat /\ 0 \in 0 .. (Word - 1) /\ Len(<<>>) = 0
  BY SizeAssumption
<1> QED BY <1>1, <1>2, <1>3 DEF Measured, Accounted, Windowed

\* What the requests of CLOSE remember.
Closings == [Endpoints -> {"none", "ESTABLISHED", "CLOSE_WAIT", "returned"}]

LEMMA ClosingStep == [Next]_vars /\ closer \in Closings => closer' \in Closings
<1> SUFFICES ASSUME [Next]_vars, closer \in Closings PROVE closer' \in Closings
  OBVIOUS
<1>1. CASE \E e \in Endpoints : Step(e)
  <2>1. PICK e \in Endpoints : Step(e)
    BY <1>1
  <2>2. CASE Closing(e)
    BY <2>2 DEF Closing, CloseCall, CloseReturn, Closings
  <2>3. CASE ~Closing(e)
    <3>1. CASE Connect(e) \/ ListenArrival(e) \/ SynRcvdArrival(e) \/ SynSentArrival(e)
      BY <3>1 DEF Connect, ListenArrival, SynRcvdArrival, SynSentArrival, Arrival, requests
    <3>2. CASE \/ StartArrival(e) \/ EndArrival(e) \/ RejectPacket(e) \/ AcceptPacket(e) \/ use_data(e)
               \/ always_on_fb(e) \/ FinishFIN(e) \/ LastAcked(e) \/ Cleanup(e) \/ AfterArrival(e)
      BY <3>2 DEF StartArrival, EndArrival, RejectPacket, AcceptPacket, use_data, always_on_fb,
                  FinishFIN, LastAcked, HearsLastACK, Cleanup, AfterArrival, requests
    <3>3. CASE \/ Receive(e) \/ Send(e) \/ StartClose(e) \/ SendSegment(e) \/ EndSendAll(e)
               \/ SendFIN(e) \/ FinishClose(e) \/ \E f \in FlagSet : Ignore(e, f)
      BY <3>3 DEF Receive, Send, StartClose, StartSendAll, SendSegment, EndSendAll, SendFIN,
                  FinishClose, Ignore, requests
    <3>4. CASE NetworkThread(e)
      BY <3>4 DEF NetworkThread, Enqueue, RaiseNetRecv, requests
    <3>5. CASE (\E n \in SendSizes : SendCall(e, n)) \/ Sending(e) \/ Receiving(e)
      BY <3>5 DEF SendCall, Sending, SendPut, SendReturn, Receiving, RecvCall, RecvTake, RecvReturn
    <3> QED BY <2>1, <2>3, <3>1, <3>2, <3>3, <3>4, <3>5 DEF Step, TcpThread
  <2> QED BY <2>2, <2>3
<1>2. CASE UNCHANGED live
  BY <1>2 DEF live, requests
<1> QED BY <1>1, <1>2, StepOrStill

\* All of the above, together.
WholeInv ==
  /\ Inv /\ SeqInv /\ \A e \in Endpoints : Measured(e)
  /\ closer \in Closings /\ crashed \subseteq Endpoints

LEMMA CrashedStep == [Next]_vars /\ crashed \subseteq Endpoints => crashed' \subseteq Endpoints
BY DEF Next, Alive, Aborts, vars

LEMMA WholeInvariance == Spec => []WholeInv
<1>1. Init => WholeInv
  <2>1. Init => closer \in Closings /\ crashed \subseteq Endpoints
    BY DEF Init, Closings
  <2> QED BY <2>1, InvInit, SeqInit, MeasureInit DEF WholeInv
<1>2. WholeInv /\ [Next]_vars => WholeInv'
  BY InvStep, SeqStep, MeasureStep, ClosingStep, CrashedStep DEF WholeInv
<1> QED BY <1>1, <1>2, PTL DEF Spec

\* The fields of a socket entry keep to their types for all sizes and all initial sequence
\* numbers: no sequence number wraps, SND_WND never falls below zero whatever windows the
\* peer announces, and the buffers never hold more than their capacity.
THEOREM TypesHold == Spec => []TypeOK
<1>1. ASSUME WholeInv PROVE TypeOK
  <2>0. Typed /\ SeqInv /\ closer \in Closings /\ crashed \subseteq Endpoints /\ \A e \in Endpoints : Measured(e)
    BY <1>1 DEF WholeInv, Inv
  <2>1. ASSUME NEW e \in Endpoints
        PROVE  /\ tcb[e].SND_NXT \in 0 .. (Word - 1) /\ tcb[e].ISS \in 0 .. (Word - 1)
               /\ tcb[e].SND_UNA \in 0 .. (Word - 1)
    <3>0. /\ tcb[e].ISS \in Int /\ tcb[e].SND_UNA \in Int /\ tcb[e].SND_NXT \in Int
          /\ Len(send[e]) \in Nat /\ sent[e] \in Int /\ MaxBytes \in Nat /\ Word \in Nat
          /\ BufSize \in Nat /\ Accounted(e)
      BY <2>0, MeasureTypes DEF Measured
    <3>1. CASE Begun(e)
      <4>1. tcb[e].ISS \in Nat /\ tcb[e].ISS + 1 + MaxBytes + BufSize < Word
        BY <3>0, <3>1, SizeAssumption DEF Accounted
      <4>2. /\ tcb[e].ISS <= tcb[e].SND_UNA /\ tcb[e].SND_UNA <= tcb[e].SND_NXT
            /\ tcb[e].SND_NXT + Len(send[e]) = tcb[e].ISS + 1 + sent[e] /\ sent[e] <= MaxBytes
        BY <3>0, <3>1 DEF Accounted
      <4> DEFINE k == Len(send[e])
                 b == sent[e]
                 i == tcb[e].ISS
                 n == tcb[e].SND_NXT
                 u == tcb[e].SND_UNA
      <4>3. /\ k \in Nat /\ b \in Int /\ i \in Nat /\ n \in Int /\ u \in Int /\ i + 1 + MaxBytes + BufSize < Word
            /\ i <= u /\ u <= n /\ n + k = i + 1 + b /\ b <= MaxBytes
        BY <3>0, <4>1, <4>2
      <4> HIDE DEF k, b, i, n, u
      <4>4. n < Word /\ u < Word /\ i < Word /\ n >= 0 /\ u >= 0
        BY <3>0, <4>3
      <4>5. n \in 0 .. (Word - 1) /\ u \in 0 .. (Word - 1) /\ i \in 0 .. (Word - 1)
        BY <3>0, <4>3, <4>4
      <4> QED BY <4>5 DEF n, u, i
    <3>2. CASE ~Begun(e)
      <4>1. 0 \in 0 .. (Word - 1)
        BY SizeAssumption
      <4> QED BY <3>0, <3>2, <4>1 DEF Accounted
    <3> QED BY <3>1, <3>2
  <2>2. ASSUME NEW e \in Endpoints PROVE tcb[e] \in TCB
    <3>1. tcb[e].RCV_NXT \in Int /\ tcb[e].RCV_NXT >= 0 /\ tcb[e].RCV_NXT <= tcb[Peer(e)].SND_NXT
      BY <2>0, BlockTypes DEF SeqInv, Numbered, Budget
    <3>2. tcb[Peer(e)].SND_NXT \in 0 .. (Word - 1) /\ Word \in Nat
      BY <2>0, <2>1, PeerIsEndpoint, MeasureTypes
    <3>3. tcb[e].RCV_NXT \in 0 .. (Word - 1)
      BY <3>1, <3>2
    <3>4. tcb[e].RCV_WND \in 0 .. (Word - 1) /\ tcb[e].SND_WND \in 0 .. (Word - 1)
      BY <2>0 DEF Measured, Windowed
    <3>5. tcb[e] \in ControlBlocks
      BY <2>0 DEF Typed
    <3> QED BY <2>1, <3>3, <3>4, <3>5 DEF ControlBlocks, TCB
  <2>3. tcb \in [Endpoints -> TCB]
    BY <2>0, <2>2 DEF Typed
  <2>4. ASSUME NEW e \in Endpoints PROVE thread[e].pc \in ThreadPcs
    BY <2>0 DEF Typed, Positions, InHandler, Dispatched, SendingAll, Elsewhere, ThreadPcs
  <2>5. ASSUME NEW e \in Endpoints
        PROVE  /\ writer[e].pc \in {"none", "writing", "notify"}
               /\ reader[e].pc \in {"none", "reading", "notify", "zero"}
               /\ closer[e] \in {"none", "ESTABLISHED", "CLOSE_WAIT", "returned"}
               /\ Len(send[e]) <= BufSize /\ Len(recv[e]) <= BufSize
    BY <2>0 DEF Typed, Closings, Measured, Windowed
  <2> QED BY <2>0, <2>3, <2>4, <2>5 DEF Typed, TypeOK
<1> QED BY <1>1, WholeInvariance, PTL

=============================================================================
