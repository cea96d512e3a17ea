--------------------------- MODULE TcpStreamProofs ---------------------------
(***************************************************************************)
(* What one application sends the other receives: StreamIntact of Tcp, for *)
(* all sizes of buffers, segments and windows, and the rest of             *)
(* WakeUpsMatchPackets. Both presuppose that a debugger lets packets pass. *)
(*                                                                         *)
(* The payload of a queue is a fold over its packets: the first section    *)
(* says by induction on its length what a packet adds at either end. The   *)
(* second is about the handshake, where a wake-up finds a packet. Then the *)
(* invariant of the stream (FlowInv), its preservation by each step of the *)
(* receiving end, and by each of the sending end.                          *)
(***************************************************************************)
EXTENDS TcpProofs, WellFoundedInduction

-----------------------------------------------------------------------------
(* Induction over the payload of a queue *)

\* A set of numbers that is not empty has a least one.
LEMMA LeastNumber ==
  ASSUME NEW T, T \subseteq Nat, T # {}
  PROVE  \E x \in T : \A y \in T : x <= y
<1> DEFINE R == {ss \in Nat \X Nat : ss[1] < ss[2]}
<1>1. IsWellFoundedOn(R, Nat)
  BY NatLessThanWellFounded DEF OpToRel
<1> HIDE DEF R
<1>2. PICK x \in T : \A y \in T : <<y, x>> \notin R
  BY <1>1, WFMin
<1>3. ASSUME NEW y \in T PROVE x <= y
  <2>1. x \in Nat /\ y \in Nat /\ <<y, x>> \notin R
    BY <1>2
  <2>2. ~(y < x)
    BY <2>1 DEF R
  <2> QED BY <2>1, <2>2
<1> QED BY <1>2, <1>3

\* So a set of numbers with 0 and with the successor of each of its members has all of them.
LEMMA SetInduction ==
  ASSUME NEW G, 0 \in G, \A n \in Nat : n \in G => n + 1 \in G
  PROVE  Nat \subseteq G
<1> SUFFICES ASSUME Nat \ G # {} PROVE FALSE
  OBVIOUS
<1>1. PICK x \in Nat \ G : \A y \in Nat \ G : x <= y
  BY LeastNumber
<1>2. x # 0 /\ x \in Nat
  BY <1>1
<1>3. x - 1 \in Nat /\ ~(x <= x - 1) /\ (x - 1) + 1 = x
  BY <1>2
<1>4. x - 1 \in G
  BY <1>1, <1>3
<1> QED BY <1>1, <1>3, <1>4

\* The equation that FlattenSeq solves.
Flattens(s, g) == g = [i \in 1 .. Len(s) |-> IF i = 1 THEN s[i] ELSE g[i - 1] \o s[i]]

\* It has one solution.
LEMMA FlattensOnce ==
  ASSUME NEW s, Len(s) \in Nat, NEW f, NEW g, Flattens(s, f), Flattens(s, g), NEW k \in 1 .. Len(s)
  PROVE  f[k] = g[k]
<1> DEFINE G == {n \in Nat : n + 1 \in 1 .. Len(s) => f[n + 1] = g[n + 1]}
<1>1. \A i \in 1 .. Len(s) : f[i] = IF i = 1 THEN s[i] ELSE f[i - 1] \o s[i]
  BY DEF Flattens
<1>2. \A i \in 1 .. Len(s) : g[i] = IF i = 1 THEN s[i] ELSE g[i - 1] \o s[i]
  BY DEF Flattens
<1>3. 0 \in G
  <2>1. 1 \in 1 .. Len(s) => f[1] = g[1]
    BY <1>1, <1>2
  <2> QED BY <2>1
<1>4. ASSUME NEW n \in Nat, n \in G PROVE n + 1 \in G
  <2> SUFFICES ASSUME (n + 1) + 1 \in 1 .. Len(s) PROVE f[(n + 1) + 1] = g[(n + 1) + 1]
    OBVIOUS
  <2>1. (n + 1) + 1 # 1 /\ ((n + 1) + 1) - 1 = n + 1 /\ n + 1 \in 1 .. Len(s)
    OBVIOUS
  <2>2. f[n + 1] = g[n + 1]
    BY <1>4, <2>1
  <2> QED BY <1>1, <1>2, <2>1, <2>2
<1> HIDE DEF G
<1>5. Nat \subseteq G
  BY <1>3, <1>4, SetInduction
<1>6. k - 1 \in Nat /\ (k - 1) + 1 = k
  OBVIOUS
<1> QED BY <1>5, <1>6 DEF G

\* And its last value is what FlattenSeq computes.
LEMMA FlattenSeqIs ==
  ASSUME NEW s, Len(s) \in Nat \ {0}, NEW f, Flattens(s, f)
  PROVE  FlattenSeq(s) = f[Len(s)]
<1> DEFINE g == CHOOSE h : Flattens(s, h)
<1>1. Flattens(s, g)
  OBVIOUS
<1>2. FlattenSeq(s) = g[Len(s)]
  BY DEF FlattenSeq, Flattens
<1> HIDE DEF g
<1>3. Len(s) \in 1 .. Len(s)
  OBVIOUS
<1> QED BY <1>1, <1>2, <1>3, FlattensOnce

\* The payload of a queue has partial concatenations, as its length has partial sums.
PartialPayloads(q, f) ==
  /\ f \in [0 .. Len(q) -> Seq(Int)] /\ f[0] = <<>>
  /\ \A i \in 1 .. Len(q) : f[i] = f[i - 1] \o q[i].data

\* The last of them is the payload.
LEMMA PayloadIs ==
  ASSUME NEW q \in Seq(Packets), NEW f, PartialPayloads(q, f)
  PROVE  Payload(q) = f[Len(q)] /\ Payload(q) \in Seq(Int)
<1> DEFINE s == [i \in 1 .. Len(q) |-> q[i].data]
           h == [i \in 1 .. Len(q) |-> f[i]]
<1>0. Len(q) \in Nat /\ \A i \in 1 .. Len(q) : q[i] \in Packets
  OBVIOUS
<1>1. s \in Seq(Seq(Int)) /\ Len(s) = Len(q)
  <2>1. \A i \in 1 .. Len(q) : q[i].data \in Seq(Int)
    BY <1>0 DEF Packets
  <2> QED BY <1>0, <2>1
<1>2. f[Len(q)] \in Seq(Int)
  BY <1>0 DEF PartialPayloads
<1>3. CASE Len(q) = 0
  <2>1. s = <<>>
    BY <1>1, <1>3, EmptySeq
  <2>2. FlattenSeq(s) = s
    BY <1>1, <1>3 DEF FlattenSeq
  <2> QED BY <1>2, <1>3, <2>1, <2>2 DEF Payload, PartialPayloads
<1>4. CASE Len(q) # 0
  <2>1. Flattens(s, h)
    <3>1. ASSUME NEW i \in 1 .. Len(q) PROVE f[i] = IF i = 1 THEN s[i] ELSE h[i - 1] \o s[i]
      <4>1. f[i] = f[i - 1] \o q[i].data /\ s[i] = q[i].data /\ q[i].data \in Seq(Int)
        BY <1>0 DEF PartialPayloads, Packets
      <4>2. CASE i = 1
        <5>1. f[i - 1] = <<>>
          BY <4>2 DEF PartialPayloads
        <5> QED BY <4>1, <4>2, <5>1, ConcatEmptySeq
      <4>3. CASE i # 1
        <5>1. i - 1 \in 1 .. Len(q)
          BY <1>0, <4>3
        <5> QED BY <4>1, <4>3, <5>1
      <4> QED BY <4>2, <4>3
    <3> QED BY <1>1, <3>1 DEF Flattens
  <2>2. FlattenSeq(s) = h[Len(s)]
    BY <1>0, <1>1, <1>4, <2>1, FlattenSeqIs
  <2> QED BY <1>0, <1>1, <1>2, <1>4, <2>2 DEF Payload
<1> QED BY <1>3, <1>4

\* A packet adds its payload at the end.
LEMMA AppendPayloads ==
  ASSUME NEW q \in Seq(Packets), NEW p \in Packets, NEW f, PartialPayloads(q, f)
  PROVE  LET g == [i \in 0 .. Len(q) + 1 |-> IF i <= Len(q) THEN f[i] ELSE f[Len(q)] \o p.data]
         IN PartialPayloads(Append(q, p), g)
<1> DEFINE n == Len(q)
           g == [i \in 0 .. n + 1 |-> IF i <= n THEN f[i] ELSE f[n] \o p.data]
           r == Append(q, p)
<1>1. n \in Nat /\ p.data \in Seq(Int) /\ f \in [0 .. n -> Seq(Int)]
  BY DEF Packets, PartialPayloads
<1>2. Len(r) = n + 1 /\ r[n + 1] = p /\ \A i \in 1 .. n : r[i] = q[i]
  BY AppendProperties
<1> HIDE DEF r, n
<1>3. f[n] \in Seq(Int)
  BY <1>1
<1>4. f[n] \o p.data \in Seq(Int)
  BY <1>1, <1>3, ConcatProperties
<1>5. g \in [0 .. n + 1 -> Seq(Int)] /\ g[0] = <<>>
  BY <1>1, <1>4 DEF PartialPayloads, n
<1>6. ASSUME NEW i \in 1 .. n + 1 PROVE g[i] = g[i - 1] \o r[i].data
  <2>1. CASE i <= n
    <3>1. i \in 1 .. n /\ i - 1 \in 0 .. n /\ i - 1 <= n /\ i \in 0 .. n + 1 /\ i - 1 \in 0 .. n + 1
      BY <1>1, <2>1
    <3>2. f[i] = f[i - 1] \o q[i].data
      BY <3>1 DEF PartialPayloads, n
    <3> QED BY <1>2, <2>1, <3>1, <3>2
  <2>2. CASE ~(i <= n)
    <3>1. i = n + 1 /\ i - 1 = n /\ n \in 0 .. n + 1 /\ n + 1 \in 0 .. n + 1 /\ ~(n + 1 <= n) /\ n <= n
      BY <1>1, <2>2
    <3> QED BY <1>2, <3>1
  <2> QED BY <2>1, <2>2
<1>7. PartialPayloads(r, g)
  BY <1>2, <1>5, <1>6 DEF PartialPayloads
<1> QED BY <1>7 DEF n, r

\* Every queue has partial concatenations.
LEMMA PayloadsExist ==
  ASSUME NEW q \in Seq(Packets)
  PROVE  \E f : PartialPayloads(q, f)
<1> DEFINE G == {n \in Nat : \A r \in Seq(Packets) : Len(r) = n => \E f : PartialPayloads(r, f)}
<1>1. 0 \in G
  <2> SUFFICES ASSUME NEW r \in Seq(Packets), Len(r) = 0 PROVE \E f : PartialPayloads(r, f)
    OBVIOUS
  <2>1. <<>> \in Seq(Int)
    OBVIOUS
  <2> DEFINE h == [i \in 0 .. 0 |-> <<>>]
  <2>2. h \in [0 .. 0 -> Seq(Int)] /\ h[0] = <<>> /\ 1 .. 0 = {}
    BY <2>1
  <2>3. PartialPayloads(r, h)
    BY <2>2 DEF PartialPayloads
  <2> QED BY <2>3
<1>2. ASSUME NEW n \in Nat, n \in G PROVE n + 1 \in G
  <2> SUFFICES ASSUME NEW r \in Seq(Packets), Len(r) = n + 1 PROVE \E f : PartialPayloads(r, f)
    OBVIOUS
  <2>1. PICK t \in Seq(Packets), p \in Packets : r = Append(t, p)
    <3>1. r # <<>>
      BY EmptySeq
    <3> QED BY <3>1, SequenceEmptyOrAppend
  <2>2. Len(r) = Len(t) + 1 /\ Len(t) \in Nat
    BY <2>1, AppendProperties
  <2>3. Len(t) = n
    BY <2>2
  <2>4. PICK f : PartialPayloads(t, f)
    BY <1>2, <2>3
  <2> QED BY <2>1, <2>4, AppendPayloads
<1> HIDE DEF G
<1>3. Nat \subseteq G
  BY <1>1, <1>2, SetInduction
<1>4. Len(q) \in G
  BY <1>3
<1> QED BY <1>4 DEF G

\* The payload of packets is a sequence of bytes; that of none is empty.
LEMMA PayloadTypes ==
  /\ Payload(<<>>) = <<>>
  /\ \A q \in Seq(Packets) : Payload(q) \in Seq(Int)
<1> DEFINE s == [i \in 1 .. Len(<<>>) |-> <<>>[i].data]
<1>1. s \in Seq(Int) /\ Len(s) = 0
  <2>1. Len(<<>>) = 0 /\ 1 .. 0 = {}
    OBVIOUS
  <2>2. s \in [1 .. 0 -> Int]
    BY <2>1
  <2> QED BY <2>1, <2>2
<1>2. s = <<>>
  BY <1>1, EmptySeq
<1> HIDE DEF s
<1>3. FlattenSeq(s) = <<>>
  BY <1>1, <1>2 DEF FlattenSeq
<1>4. Payload(<<>>) = <<>>
  BY <1>3 DEF Payload, s
<1> QED BY <1>4, PayloadsExist, PayloadIs

\* Bytes in a row, however they are put together.
LEMMA BytesAssociate ==
  ASSUME NEW a \in Seq(Int), NEW b \in Seq(Int), NEW c \in Seq(Int)
  PROVE  (a \o b) \o c = a \o (b \o c)
OBVIOUS

\* The payload of a queue to which a packet is added, and of one from which the first packet
\* is taken.
LEMMA PayloadAppend ==
  ASSUME NEW q \in Seq(Packets), NEW p \in Packets
  PROVE  Payload(Append(q, p)) = Payload(q) \o p.data
<1>1. PICK f : PartialPayloads(q, f)
  BY PayloadsExist
<1> DEFINE g == [i \in 0 .. Len(q) + 1 |-> IF i <= Len(q) THEN f[i] ELSE f[Len(q)] \o p.data]
<1>2. PartialPayloads(Append(q, p), g)
  BY <1>1, AppendPayloads
<1>3. g[Len(q) + 1] = f[Len(q)] \o p.data /\ Len(q) \in Nat
  <2>1. Len(q) \in Nat
    OBVIOUS
  <2> QED BY <2>1
<1>4. Append(q, p) \in Seq(Packets) /\ Len(Append(q, p)) = Len(q) + 1
  BY AppendProperties
<1> HIDE DEF g
<1>5. Payload(Append(q, p)) = g[Len(q) + 1]
  BY <1>2, <1>4, PayloadIs
<1>6. Payload(q) = f[Len(q)]
  BY <1>1, PayloadIs
<1> QED BY <1>3, <1>5, <1>6

\* The payload of a queue begins with that of its first packet.
LEMMA PayloadHead ==
  ASSUME NEW q \in Seq(Packets), q # <<>>
  PROVE  Payload(q) = Head(q).data \o Payload(Tail(q))
<1> DEFINE G == {n \in Nat : \A r \in Seq(Packets) :
                               Len(r) = n + 1 => Payload(r) = Head(r).data \o Payload(Tail(r))}
<1>e. Payload(<<>>) = <<>> /\ \A r \in Seq(Packets) : Payload(r) \in Seq(Int)
  BY PayloadTypes
<1>1. 0 \in G
  <2> SUFFICES ASSUME NEW r \in Seq(Packets), Len(r) = 0 + 1
               PROVE  Payload(r) = Head(r).data \o Payload(Tail(r))
    OBVIOUS
  <2>1. PICK p \in Packets : r = Append(<<>>, p) /\ Head(r) = p /\ Tail(r) = <<>>
    <3> HIDE DEF G
    <3>0. Len(r) = 1
      OBVIOUS
    <3>1. r # <<>>
      <4>1. Len(r) # 0 /\ Len(<<>>) = 0
        BY <3>0
      <4> QED BY <4>1
    <3>2. PICK t \in Seq(Packets), p \in Packets : r = Append(t, p)
      BY <3>1, SequenceEmptyOrAppend
    <3>3. 1 = Len(t) + 1 /\ Len(t) \in Nat
      BY <3>0, <3>2, AppendProperties
    <3>4. t = <<>>
      <4>1. Len(t) = 0
        BY <3>3
      <4> QED BY <4>1, EmptySeq
    <3>5. Head(r) = p /\ Tail(r) = <<>>
      BY <3>2, <3>4, HeadTailAppend
    <3> QED BY <3>2, <3>4, <3>5
  <2>2. Payload(r) = Payload(<<>>) \o p.data /\ p.data \in Seq(Int)
    <3>1. <<>> \in Seq(Packets)
      OBVIOUS
    <3> QED BY <2>1, <3>1, PayloadAppend DEF Packets
  <2> QED BY <1>e, <2>1, <2>2, ConcatEmptySeq
<1>2. ASSUME NEW n \in Nat, n \in G PROVE n + 1 \in G
  <2> SUFFICES ASSUME NEW r \in Seq(Packets), Len(r) = (n + 1) + 1
               PROVE  Payload(r) = Head(r).data \o Payload(Tail(r))
    OBVIOUS
  <2>1. PICK t \in Seq(Packets), p \in Packets : r = Append(t, p)
    <3>1. r # <<>>
      BY EmptySeq
    <3> QED BY <3>1, SequenceEmptyOrAppend
  <2>2. Len(t) = n + 1 /\ t # <<>>
    <3>1. Len(r) = Len(t) + 1 /\ Len(t) \in Nat
      BY <2>1, AppendProperties
    <3>2. Len(t) = n + 1
      BY <3>1
    <3> QED BY <3>2, EmptySeq
  <2>3. Head(r) = Head(t) /\ Tail(r) = Append(Tail(t), p)
    BY <2>1, <2>2, HeadTailAppend
  <2>4. Head(t).data \in Seq(Int) /\ Tail(t) \in Seq(Packets) /\ p.data \in Seq(Int)
    <3>1. Head(t) \in Packets /\ Tail(t) \in Seq(Packets)
      BY <2>2, HeadTailProperties
    <3>2. \A x \in Packets : x.data \in Seq(Int)
      BY DEF Packets
    <3> QED BY <3>1, <3>2
  <2>5. Payload(r) = Payload(t) \o p.data /\ Payload(Tail(r)) = Payload(Tail(t)) \o p.data
    BY <2>1, <2>3, <2>4, PayloadAppend
  <2>6. Payload(t) = Head(t).data \o Payload(Tail(t))
    BY <1>2, <2>2
  <2>7. Payload(Tail(t)) \in Seq(Int)
    BY <1>e, <2>4
  <2>8. (Head(t).data \o Payload(Tail(t))) \o p.data = Head(t).data \o (Payload(Tail(t)) \o p.data)
    BY <2>4, <2>7, BytesAssociate
  <2> QED BY <2>3, <2>5, <2>6, <2>8
<1> HIDE DEF G
<1>3. Nat \subseteq G
  BY <1>1, <1>2, SetInduction
<1>4. Len(q) \in Nat \ {0}
  BY EmptySeq
<1>5. Len(q) - 1 \in G /\ (Len(q) - 1) + 1 = Len(q)
  BY <1>3, <1>4
<1> QED BY <1>5 DEF G

-----------------------------------------------------------------------------
(* Wake-ups during the handshake *)

\* No debugger holds back, drops or shuffles the packets for e.
LetsPass(e) == DebugResponses(e) \subseteq {"NONE"}

\* Nothing has been received before the connection is open, and the window is the whole buffer.
Fresh(e) ==
  /\ ~Open(e) => recv[e] = <<>>
  /\ ~Open(e) /\ tcp_state[e] \in {"SYN_SENT", "SYN_RCVD"} => tcb[e].RCV_WND = BufSize

\* Before the connection is open a wake-up finds a packet, and there are never two of them for
\* the one packet that an end may be sent before it is half open.
Awake(e) ==
  ~Open(e) =>
    /\ "net_recv" \in flags[e] \/ raising[e] => pending[e] # <<>>
    /\ tcp_state[e] # "SYN_RCVD" =>
         thread[e].pc = "wait" /\ ~(raising[e] /\ "net_recv" \in flags[e])

\* The packet that an end fetches next, now or when it has been queued.
First(e) == IF pending[e] # <<>> THEN Head(pending[e]) ELSE Head(net[e])

\* While the server is half open, its next packet is the client's acknowledgment of its SYN.
Completes(p) ==
  /\ ~p.syn /\ ~p.fin /\ p.ack /\ p.data = <<>>
  /\ p.seq = tcb[Server].RCV_NXT /\ p.ack_seq = tcb[Server].SND_NXT
Completing ==
  Open(Client) /\ tcp_state[Server] = "SYN_RCVD" =>
    /\ pending[Server] # <<>> \/ net[Server] # <<>>
    /\ Completes(First(Server))

WakeInv == (\A e \in Endpoints : Fresh(e) /\ Awake(e)) /\ Completing

\* A sequence number below 2^32 does not wrap.
LEMMA NoWrap ==
  ASSUME NEW n \in Nat, n < Word
  PROVE  n % Word = n
BY SizeAssumption

\* What an endpoint whose connection is not open does apart from the handshake.
LEMMA EarlySteps ==
  ASSUME Typed, NEW e \in Endpoints, CloseIsFinal(e), ~Open(e), thread[e].pc \in {"wait", "after"},
         Step(e), ~Handshakes(e)
  PROVE  \/ AfterArrival(e) \/ (\E f \in FlagSet : Ignore(e, f)) \/ NetworkThread(e)
         \/ (\E n \in SendSizes : SendCall(e, n)) \/ Sending(e) \/ Receiving(e) \/ Closing(e)
<1>1. tcp_state[e] \in Early \/ (tcp_state[e] = "CLOSED" /\ "app_connect" \in flags[e])
  BY DEF Open, Unconnected, CloseIsFinal
<1>2. ~(\/ StartArrival(e) \/ EndArrival(e) \/ FinishFIN(e) \/ LastAcked(e)
        \/ EndSendAll(e) \/ FinishClose(e))
  BY <1>1 DEF StartArrival, EndArrival, FinishFIN, LastAcked, HearsLastACK, InArrival, EndSendAll, FinishClose,
              ArrivalStates, ReceivingStates, Early
<1>3. ~(Receive(e) \/ Send(e) \/ StartClose(e))
  BY <1>1 DEF Receive, Send, StartClose, Early
<1>4. ~Cleanup(e)
  BY <1>1, Taking DEF Cleanup, Early
<1>5. ~Talks(e)
  BY EarlyKeeps
<1> QED BY <1>2, <1>3, <1>4, <1>5 DEF Step, TcpThread, Handshakes, Talks

\* Such a step leaves the queues alone, or takes one packet from the network.
LEMMA EarlyQueues ==
  ASSUME Typed, NEW e \in Endpoints, CloseIsFinal(e), ~Open(e), thread[e].pc \in {"wait", "after"},
         Step(e), ~Handshakes(e)
  PROVE  Kept(e) \/ \E r \in DebugResponses(e) : Enqueue(e, r)
<1>1. CASE AfterArrival(e) \/ (\E f \in FlagSet : Ignore(e, f)) \/ RaiseNetRecv(e)
  BY <1>1 DEF AfterArrival, Ignore, RaiseNetRecv, queues, Kept
<1>2. CASE (\E n \in SendSizes : SendCall(e, n)) \/ Sending(e) \/ Receiving(e) \/ Closing(e)
  <2>1. UNCHANGED queues
    BY <1>2 DEF SendCall, Sending, SendPut, SendReturn, Receiving, RecvCall, RecvTake, RecvReturn,
                Closing, CloseCall, CloseReturn
  <2> QED BY <2>1 DEF queues, Kept
<1> QED BY <1>1, <1>2, EarlySteps DEF NetworkThread

\* Before the connection is open there is at most one packet for an end that is not half open.
LEMMA OnePacket ==
  ASSUME Typed, Phase, NEW e \in Endpoints, CloseIsFinal(e), ~Open(e), tcp_state[e] # "SYN_RCVD"
  PROVE  /\ Len(net[e]) + Len(pending[e]) <= 1
         /\ Unconnected(e) => pending[e] = <<>> /\ net[e] = <<>>
<1> DEFINE i == Len(net[e])
           j == Len(pending[e])
           k == Len(withheld[e])
<1>1. i \in Nat /\ j \in Nat /\ k \in Nat
  BY DEF Typed
<1>2. Count(e) = i + j + k
  BY DEF Count
<1>3. (i = 0 => net[e] = <<>>) /\ (j = 0 => pending[e] = <<>>)
  BY DEF Typed
<1> HIDE DEF i, j, k
<1>4. CASE Unconnected(e)
  <2>1. tcp_state[e] = "CLOSED"
    BY <1>4 DEF Unconnected, CloseIsFinal
  <2>2. e = Client /\ Unasked
    BY <1>4, <2>1, StageOf
  <2>3. Count(e) = 0
    BY <2>2 DEF Unasked
  <2>4. i = 0 /\ j = 0
    BY <1>1, <1>2, <2>3
  <2> QED BY <1>3, <2>4 DEF i, j
<1>5. CASE ~Unconnected(e)
  <2>1. tcp_state[e] \in {"LISTEN", "SYN_SENT"}
    BY <1>5 DEF Open, Early
  <2>2. (e = Server /\ (Unasked \/ Asked)) \/ (e = Client /\ (Asked \/ Answered))
    BY <1>5, <2>1, StageOf
  <2>3. Count(e) \in Nat
    BY <1>1, <1>2
  <2>4. Count(e) = 0 \/ Count(e) <= 1
    BY <2>2 DEF Unasked, Asked, Answered
  <2>5. i + j <= 1
    BY <1>1, <1>2, <2>3, <2>4
  <2> QED BY <1>5, <2>5 DEF i, j
<1> QED BY <1>4, <1>5

\* A step before the connection is open, other than of the handshake, keeps wake-ups and packets
\* together: a wake-up is raised only for a packet that has been queued.
LEMMA EarlyAwake ==
  ASSUME Typed, Phase, NEW e \in Endpoints, CloseIsFinal(e), ~Open(e), thread[e].pc \in {"wait", "after"},
         Awake(e), Step(e), ~Handshakes(e)
  PROVE  Awake(e)'
<1>0. /\ thread \in [Endpoints -> Positions] /\ flags \in [Endpoints -> SUBSET FlagSet]
      /\ raising \in [Endpoints -> BOOLEAN] /\ pending \in [Endpoints -> Seq(Packets)]
      /\ net \in [Endpoints -> Seq(Packets)] /\ withheld \in [Endpoints -> Seq(Packets)]
  BY DEF Typed
<1>1. tcp_state'[e] = tcp_state[e]
  BY EarlyKeeps
<1>2. /\ "net_recv" \in flags[e] \/ raising[e] => pending[e] # <<>>
      /\ tcp_state[e] # "SYN_RCVD" =>
           thread[e].pc = "wait" /\ ~(raising[e] /\ "net_recv" \in flags[e])
  BY DEF Awake
<1>3. CASE AfterArrival(e)
  <2>1. /\ tcp_state[e] = "SYN_RCVD" /\ pending' = pending /\ raising' = raising
        /\ "net_recv" \in flags'[e] => pending[e] # <<>> \/ "net_recv" \in flags[e]
    BY <1>0, <1>2, <1>3 DEF AfterArrival, RaiseAgain, queues
  <2> QED BY <1>1, <1>2, <2>1 DEF Awake
<1>4. ASSUME NEW f \in FlagSet, Ignore(e, f) PROVE Awake(e)'
  <2>1. /\ f \in flags[e] /\ flags'[e] = flags[e] \ {f}
        /\ pending' = pending /\ raising' = raising
    BY <1>0, <1>4, Taking DEF Ignore, queues
  <2>2. f # "net_recv"
    <3>1. SUFFICES ASSUME f = "net_recv" PROVE FALSE
      OBVIOUS
    <3>2. pending[e] # <<>>
      BY <1>2, <2>1, <3>1
    <3>3. tcp_state[e] \in {"CLOSED", "TIME_WAIT"}
      BY <1>4, <3>1 DEF Ignore, Handled
    <3>4. Unconnected(e) /\ tcp_state[e] # "SYN_RCVD"
      BY <3>3 DEF Open, Early
    <3> QED BY <3>2, <3>4, OnePacket
  <2>3. thread'[e].pc = "wait"
    BY <1>0, <1>4, <2>2 DEF Ignore, Goto
  <2> QED BY <1>1, <1>2, <2>1, <2>3 DEF Awake
<1>5. CASE RaiseNetRecv(e)
  <2>1. /\ pending[e] # <<>> /\ pending' = pending /\ thread' = thread /\ ~raising'[e]
    BY <1>0, <1>2, <1>5 DEF RaiseNetRecv
  <2> QED BY <1>1, <1>2, <2>1 DEF Awake
<1>6. ASSUME NEW r, Enqueue(e, r) PROVE Awake(e)'
  <2>1. net[e] # <<>> /\ ~raising[e] /\ thread' = thread /\ flags' = flags
    BY <1>6 DEF Enqueue
  <2>2. raising'[e] = (r \notin {"DROP", "WITHHOLD"})
    BY <1>0, <1>6 DEF Enqueue
  <2>3. Queued(e) /\ (raising'[e] \/ pending[e] # <<>> => pending'[e] # <<>>)
    <3> DEFINE p == Head(net[e])
               drawn == IF r = "DRAW_WITHHELD" THEN SubSeq(withheld[e], 1, MIN(1, Len(withheld[e]))) ELSE <<>>
    <3>1. Queued(e)
      BY <1>6, EnqueueMoves
    <3>2. CASE r \in {"DROP", "WITHHOLD"}
      <4>1. pending'[e] = pending[e]
        BY <1>0, <1>6, <3>2 DEF Enqueue
      <4> QED BY <2>2, <3>1, <3>2, <4>1
    <3>3. CASE r \notin {"DROP", "WITHHOLD"}
      <4>1. pending'[e] = pending[e] \o drawn \o <<p>>
        BY <1>0, <1>6, <3>3 DEF Enqueue
      <4>2. pending[e] \in Seq(Packets) /\ p \in Packets
        BY <1>0, <2>1
      <4>3. drawn \in Seq(Packets)
        <5> DEFINE m == Len(withheld[e])
        <5>1. withheld[e] \in Seq(Packets) /\ m \in Nat /\ m \in Int
          BY <1>0
        <5>2. SubSeq(withheld[e], 1, 0) = <<>>
          BY <5>1
        <5>3. SubSeq(withheld[e], 1, 1) \in Seq(Packets) \/ m = 0
          BY <5>1
        <5> HIDE DEF m
        <5>4. (m # 0 /\ MIN(1, m) = 1) \/ (m = 0 /\ MIN(1, m) = 0)
          BY <5>1 DEF MIN
        <5>5. drawn = <<>> \/ drawn = SubSeq(withheld[e], 1, MIN(1, m))
          BY DEF m
        <5>6. <<>> \in Seq(Packets)
          OBVIOUS
        <5> HIDE DEF drawn
        <5>7. drawn = <<>> \/ (m # 0 /\ drawn = SubSeq(withheld[e], 1, 1))
          BY <5>2, <5>4, <5>5
        <5> QED BY <5>3, <5>6, <5>7
      <4> HIDE DEF p, drawn
      <4>4. Len(pending'[e]) > 0
        BY <4>1, <4>2, <4>3
      <4> QED BY <3>1, <4>4
    <3> QED BY <3>2, <3>3
  <2>4. CASE tcp_state[e] = "SYN_RCVD"
    BY <1>1, <1>2, <2>1, <2>3, <2>4 DEF Awake
  <2>5. CASE tcp_state[e] # "SYN_RCVD"
    <3>1. Len(net[e]) + Len(pending[e]) <= 1
      BY <2>5, OnePacket
    <3>2. pending[e] = <<>>
      <4> DEFINE i == Len(net[e])
                 j == Len(pending[e])
      <4>1. i \in Nat /\ i # 0 /\ j \in Nat /\ i + j <= 1 /\ (j = 0 => pending[e] = <<>>)
        BY <1>0, <2>1, <3>1
      <4> HIDE DEF i, j
      <4> QED BY <4>1
    <3>3. "net_recv" \notin flags'[e]
      BY <1>2, <2>1, <3>2
    <3> QED BY <1>1, <1>2, <2>1, <2>3, <2>5, <3>3 DEF Awake
  <2> QED BY <2>4, <2>5
<1>7. CASE (\E n \in SendSizes : SendCall(e, n)) \/ Sending(e) \/ Receiving(e) \/ Closing(e)
  <2>1. UNCHANGED <<thread, pending, raising>>
    BY <1>7 DEF SendCall, Sending, SendPut, SendReturn, Receiving, RecvCall, RecvTake, RecvReturn,
                Closing, CloseCall, CloseReturn, queues
  <2>2. "net_recv" \in flags'[e] <=> "net_recv" \in flags[e]
    BY <1>0, <1>7
      DEF SendCall, Sending, SendPut, SendReturn, NotifySend, Receiving, RecvCall, RecvTake,
          RecvReturn, Closing, CloseCall, CloseReturn
  <2> QED BY <1>1, <1>2, <2>1, <2>2 DEF Awake
<1> QED BY <1>3, <1>4, <1>5, <1>6, <1>7, EarlySteps DEF NetworkThread

\* No packets at all.
LEMMA NothingQueued ==
  ASSUME Typed, NEW d \in Endpoints, Count(d) = 0
  PROVE  net[d] = <<>> /\ pending[d] = <<>>
<1> DEFINE i == Len(net[d])
           j == Len(pending[d])
           k == Len(withheld[d])
<1>1. /\ i \in Nat /\ j \in Nat /\ k \in Nat
      /\ (i = 0 => net[d] = <<>>) /\ (j = 0 => pending[d] = <<>>)
  BY DEF Typed
<1>2. i + j + k = 0
  BY DEF Count
<1> HIDE DEF i, j, k
<1> QED BY <1>1, <1>2

\* CLOSED to SYN_SENT: the receive buffer is empty, and nobody knows the client yet.
LEMMA ConnectWake ==
  ASSUME Typed, Phase, NEW e \in Endpoints, CloseIsFinal(e), Fresh(e), Awake(e), Connect(e)
  PROVE  Fresh(e)' /\ Awake(e)'
<1>0. /\ thread \in [Endpoints -> Positions] /\ flags \in [Endpoints -> SUBSET FlagSet]
      /\ tcb \in [Endpoints -> ControlBlocks] /\ tcp_state \in [Endpoints -> States]
  BY DEF Typed
<1>1. /\ tcp_state[e] = "CLOSED" /\ "app_connect" \in flags[e] /\ thread[e].pc = "wait"
      /\ flags'[e] = flags[e] \ {"app_connect"} /\ tcp_state'[e] = "SYN_SENT"
      /\ UNCHANGED <<recv, pending, raising, thread>>
  BY <1>0, Taking DEF Connect, SetState
<1>2. ~Open(e) /\ Unconnected(e)
  BY <1>1 DEF Open, Unconnected
<1>3. pending[e] = <<>> /\ recv[e] = <<>>
  BY <1>1, <1>2, OnePacket DEF Fresh
<1>4. "net_recv" \notin flags'[e] /\ ~raising[e]
  BY <1>1, <1>2, <1>3 DEF Awake
<1>5. tcb'[e].RCV_WND = BufSize
  <2>1. Room(e) = BufSize
    BY <1>3, SizeAssumption DEF Room
  <2>2. PICK iss \in ISNs :
          tcb' = [tcb EXCEPT ![e] = [tcb[e] EXCEPT !.ISS = iss, !.SND_UNA = iss, !.SND_NXT = iss + 1,
                                                  !.RCV_WND = Room(e)]]
    BY DEF Connect
  <2>3. tcb[e] \in ControlBlocks
    BY <1>0
  <2>4. tcb'[e] = [tcb[e] EXCEPT !.ISS = iss, !.SND_UNA = iss, !.SND_NXT = iss + 1, !.RCV_WND = Room(e)]
    BY <1>0, <2>2
  <2> QED BY <2>1, <2>3, <2>4 DEF ControlBlocks
<1> QED BY <1>1, <1>3, <1>4, <1>5 DEF Fresh, Awake

\* LISTEN to SYN_RCVD, with the client's SYN. The wake-up for it has been taken.
LEMMA ListenWake ==
  ASSUME Typed, Phase, NEW e \in Endpoints, CloseIsFinal(e), Fresh(e), Awake(e), ListenArrival(e)
  PROVE  Fresh(e)' /\ Awake(e)' /\ ~Open(e) /\ ~Open(e)'
<1>0. /\ thread \in [Endpoints -> Positions] /\ flags \in [Endpoints -> SUBSET FlagSet]
      /\ tcb \in [Endpoints -> ControlBlocks] /\ tcp_state \in [Endpoints -> States]
  BY DEF Typed
<1>1. Arrival(e, "LISTEN")
  BY DEF ListenArrival
<1>2. /\ tcp_state[e] = "LISTEN" /\ pending[e] # <<>> /\ pending'[e] = Tail(pending[e])
      /\ flags'[e] = flags[e] \ {"net_recv"} /\ ~Unconnected(e)
  BY <1>1, Arrived
<1>3. recv' = recv /\ raising' = raising /\ "net_recv" \in flags[e]
  BY <1>1, Taking DEF Arrival
<1>4. ~Open(e) /\ recv[e] = <<>> /\ ~raising[e]
  BY <1>2, <1>3 DEF Open, Early, Fresh, Awake
<1> DEFINE p == Head(pending[e])
<1>5. p = SYN(tcb[Client])
  <2>1. e = Server /\ (Unasked \/ Asked)
    BY <1>2, StageOf
  <2>2. p \in Toward(e)
    BY <1>2, RangeMoves DEF Toward, Typed
  <2>3. Count(e) # 0
    BY <2>2, NothingOnItsWay
  <2> QED BY <2>1, <2>2, <2>3 DEF Unasked, Asked
<1>6. p.syn
  BY <1>5 DEF SYN, Packet
<1> HIDE DEF p
<1>7. PICK iss \in ISNs :
        /\ tcb' = [tcb EXCEPT ![e] = [tcb[e] EXCEPT !.RCV_NXT = p.seq + 1, !.ISS = iss, !.RCV_WND = Room(e),
                                        !.SND_WND = p.win, !.SND_NXT = iss + 1, !.SND_UNA = iss]]
        /\ SetState(e, "SYN_RCVD")
  BY <1>6 DEF ListenArrival, p
<1>8. tcp_state'[e] = "SYN_RCVD"
  BY <1>0, <1>7 DEF SetState
<1>9. tcb'[e].RCV_WND = BufSize
  <2>1. Room(e) = BufSize
    BY <1>4, SizeAssumption DEF Room
  <2>2. tcb[e] \in ControlBlocks
    BY <1>0
  <2>3. tcb'[e] = [tcb[e] EXCEPT !.RCV_NXT = p.seq + 1, !.ISS = iss, !.RCV_WND = Room(e),
                                 !.SND_WND = p.win, !.SND_NXT = iss + 1, !.SND_UNA = iss]
    BY <1>0, <1>7
  <2> QED BY <2>1, <2>2, <2>3 DEF ControlBlocks
<1> QED BY <1>2, <1>3, <1>4, <1>8, <1>9 DEF Fresh, Awake, Open, Early

\* SYN_SENT to ESTABLISHED, with the server's SYN+ACK: the client's acknowledgment of it is what
\* the server waits for.
LEMMA SynSentWake ==
  ASSUME Typed, Typed', SeqInv, NEW e \in Endpoints, Step(e), SynSentArrival(e)
  PROVE  Open(e)' /\ e = Client /\ Completing'
<1>0. Arrival(e, "SYN_SENT") /\ Phase
  BY DEF SynSentArrival, SeqInv
<1>1. /\ tcp_state[e] = "SYN_SENT" /\ pending[e] # <<>> /\ pending'[e] = Tail(pending[e])
      /\ ~Unconnected(e) /\ ~Unconnected(e)'
  BY <1>0, Arrived
<1> DEFINE p == Head(pending[e])
           d == Server
           t == [tcb[e] EXCEPT !.RCV_NXT = p.seq + 1,
                               !.SND_WND = IF p.ack THEN p.win ELSE @,
                               !.SND_UNA = IF p.ack THEN p.ack_seq ELSE @]
<1>2. e = Client /\ (Asked \/ Answered)
  BY <1>0, <1>1, StageOf
<1>3. p \in Toward(e) /\ Count(e) # 0 /\ p \in Packets
  <2>1. p \in Toward(e)
    BY <1>1, RangeMoves DEF Toward, Typed
  <2> QED BY <1>1, <2>1, NothingOnItsWay, FetchType DEF Typed
<1>4. Answered /\ p = SYN_ACK(tcb[d])
  BY <1>2, <1>3 DEF Asked, Answered
<1>5. /\ tcb[e].ISS \in Int /\ tcb[d].ISS \in Int /\ tcb[e] \in ControlBlocks
      /\ tcb[e].SND_UNA = tcb[e].ISS /\ tcb[e].SND_NXT = tcb[e].ISS + 1
      /\ tcb[d].SND_NXT = tcb[d].ISS + 1 /\ tcb[d].RCV_NXT = tcb[e].SND_NXT
  BY <1>2, <1>4, BlockTypes, TwoEnds DEF Answered, HasSaidSYN, Typed
<1>6. p.syn /\ p.ack /\ p.seq = tcb[d].ISS /\ p.ack_seq = tcb[e].SND_NXT
  BY <1>4, <1>5 DEF SYN_ACK, Packet
<1>7. p.seq \in Int /\ p.ack_seq \in Int /\ p.win \in Int
  BY <1>3 DEF Packets
<1> HIDE DEF p
<1>8. /\ t.SND_UNA = tcb[e].SND_NXT /\ t.ISS = tcb[e].ISS /\ t.SND_NXT = tcb[e].SND_NXT
      /\ t.RCV_NXT = tcb[d].SND_NXT /\ t.SND_UNA > t.ISS
  BY <1>5, <1>6, <1>7 DEF ControlBlocks
<1>9. /\ Transmit(e, ACK(t)) /\ SetState(e, "ESTABLISHED")
      /\ tcb' = [tcb EXCEPT ![e] = [t EXCEPT !.SND_UNA = t.SND_NXT]]
  <2>1. p.syn /\ (p.ack => tcb[e].SND_UNA <= p.ack_seq /\ p.ack_seq <= tcb[e].SND_NXT)
    BY <1>5, <1>6
  <2> HIDE DEF d
  <2> QED BY <1>8, <2>1 DEF SynSentArrival, p
<1>10. Open(e)'
  BY <1>1, <1>9 DEF Open, Early, SetState, Typed
<1>11. Completing'
  <2>1. d = Peer(e) /\ d \in Endpoints
    BY <1>2, TwoEnds
  <2>2. tcb'[d] = tcb[d] /\ pending'[d] = pending[d]
    BY <2>1, OtherEnd
  <2>3. pending[d] = <<>> /\ net[d] = <<>>
    BY <1>4, <2>1, NothingQueued DEF Answered
  <2>4. net'[d] = <<ACK(t)>>
    BY <1>9, <2>1, <2>3 DEF Transmit, Typed
  <2>5. First(d)' = ACK(t) /\ net'[d] # <<>>
    BY <2>2, <2>3, <2>4 DEF First
  <2>6. /\ ~ACK(t).syn /\ ~ACK(t).fin /\ ACK(t).ack /\ ACK(t).data = <<>>
        /\ ACK(t).seq = tcb'[d].RCV_NXT /\ ACK(t).ack_seq = tcb'[d].SND_NXT
    BY <1>5, <1>8, <2>2 DEF ACK, Packet
  <2> QED BY <2>5, <2>6 DEF Completing, Completes
<1> QED BY <1>2, <1>10, <1>11

\* SYN_RCVD to ESTABLISHED: the first packet the server fetches completes the handshake.
LEMMA SynRcvdWake ==
  ASSUME Typed, SeqInv, \A x \in Endpoints : Measured(x), WakeInv, NEW e \in Endpoints, SynRcvdArrival(e)
  PROVE  /\ e = Server /\ ~Open(e) /\ Open(e)' /\ Completes(Head(pending[e])) /\ net' = net
         /\ tcb'[e].RCV_NXT = tcb[e].RCV_NXT /\ tcb'[e].RCV_WND = tcb[e].RCV_WND
         /\ tcb'[e].SND_NXT = tcb[e].SND_NXT
<1>0. Arrival(e, "SYN_RCVD") /\ Phase
  BY DEF SynRcvdArrival, SeqInv
<1>1. /\ tcp_state[e] = "SYN_RCVD" /\ pending[e] # <<>> /\ ~Unconnected(e) /\ ~Unconnected(e)'
  BY <1>0, Arrived
<1>2. e = Server /\ (Answered \/ HalfOpen)
  BY <1>0, <1>1, StageOf
<1> DEFINE p == Head(pending[e])
           s == tcb[e]
<1>3. HalfOpen
  BY <1>1, <1>2, NothingQueued DEF Answered
<1>4. Completes(p)
  BY <1>1, <1>2, <1>3 DEF WakeInv, Completing, First, HalfOpen
<1>5. /\ ~p.syn /\ ~p.fin /\ p.ack /\ p.data = <<>> /\ p.seq = s.RCV_NXT /\ p.ack_seq = s.SND_NXT
      /\ s.SND_UNA = s.ISS /\ s.SND_NXT = s.ISS + 1 /\ s.RCV_NXT = tcb[Client].ISS + 1
  BY <1>2, <1>3, <1>4 DEF Completes, HalfOpen, HasSaidSYN
<1>6. s.RCV_WND = BufSize /\ ~Open(e)
  BY <1>1 DEF WakeInv, Fresh, Open, Early
<1>7. s \in ControlBlocks /\ s.ISS \in Int /\ s.RCV_NXT \in Nat /\ s.RCV_NXT + BufSize \in Nat
      /\ s.RCV_NXT + BufSize < Word /\ BufSize > 0
  <2>1. Begun(Client)
    BY <1>3 DEF HalfOpen, Open, Begun, Early
  <2>2. tcb[Client].ISS \in ISNs
    BY <2>1, TwoEnds DEF Measured, Accounted
  <2> DEFINE i == tcb[Client].ISS
  <2>3. i \in Nat /\ i + 1 + MaxBytes + BufSize < Word /\ MaxBytes \in Nat /\ BufSize \in Nat \ {0} /\ Word \in Nat
    BY <2>2, SizeAssumption
  <2>4. s \in ControlBlocks /\ s.RCV_NXT = i + 1
    BY <1>5 DEF Typed
  <2>5. s.ISS \in Int
    BY <2>4 DEF ControlBlocks
  <2> HIDE DEF i, s
  <2> QED BY <2>3, <2>4, <2>5
<1> HIDE DEF p
<1>8. acceptability_test(e, p)
  <2>1. Len(p.data) = 0
    BY <1>5
  <2>2. SEG_LEN(p) = 0
    BY <1>5, <2>1 DEF SEG_LEN
  <2>3. (s.RCV_NXT + s.RCV_WND) % Word = s.RCV_NXT + BufSize
    BY <1>6, <1>7, NoWrap
  <2> DEFINE n == s.RCV_NXT
             w == (s.RCV_NXT + s.RCV_WND) % Word
  <2>4. p.seq = n /\ n \in Nat /\ w = n + BufSize /\ BufSize \in Nat /\ BufSize > 0 /\ s.RCV_WND = BufSize
    BY <1>5, <1>6, <1>7, <2>3, SizeAssumption
  <2> HIDE DEF n, w
  <2>5. s.RCV_WND # 0 /\ n <= p.seq /\ p.seq < w
    BY <2>4
  <2> QED BY <2>2, <2>5 DEF acceptability_test, n, w
<1>9. p.ack /\ s.SND_UNA <= p.ack_seq /\ p.ack_seq <= s.SND_NXT
  BY <1>5, <1>7
<1>10. /\ tcb' = [tcb EXCEPT ![e].SND_UNA = s.SND_NXT, ![e].SND_WND = p.win]
       /\ SetState(e, "ESTABLISHED") /\ UNCHANGED net
  BY <1>8, <1>9 DEF SynRcvdArrival, p
<1>11. Open(e)'
  BY <1>1, <1>10 DEF SetState, Typed, Open, Early
<1>12. tcb'[e].RCV_NXT = s.RCV_NXT /\ tcb'[e].RCV_WND = s.RCV_WND /\ tcb'[e].SND_NXT = s.SND_NXT
  <2>1. tcb'[e] = [[s EXCEPT !.SND_UNA = s.SND_NXT] EXCEPT !.SND_WND = p.win]
    BY <1>10 DEF Typed
  <2> DEFINE u == [s EXCEPT !.SND_UNA = s.SND_NXT]
             v == [u EXCEPT !.SND_WND = p.win]
  <2>2. /\ u.SND_NXT = s.SND_NXT /\ u.RCV_NXT = s.RCV_NXT /\ u.RCV_WND = s.RCV_WND /\ u \in ControlBlocks
    BY <1>7 DEF ControlBlocks
  <2> HIDE DEF u
  <2>3. /\ v.SND_NXT = u.SND_NXT /\ v.RCV_NXT = u.RCV_NXT /\ v.RCV_WND = u.RCV_WND
    BY <2>2 DEF ControlBlocks
  <2> QED BY <2>1, <2>2, <2>3 DEF u
<1> QED BY <1>2, <1>4, <1>6, <1>10, <1>11, <1>12 DEF p

\* No step of an end that is not open receives anything or opens its window further.
LEMMA FreshStep ==
  ASSUME Typed, Typed', Inv, SeqInv, \A x \in Endpoints : Measured(x), WakeInv, NEW e \in Endpoints, Step(e)
  PROVE  Fresh(e)' /\ Awake(e)'
<1>0. CloseIsFinal(e) /\ Phase /\ Fresh(e) /\ Awake(e)
  BY DEF Inv, SeqInv, WakeInv
<1>1. CASE Open(e)
  BY <1>0, <1>1, OpenStays DEF Fresh, Awake
<1>2. CASE Handshakes(e)
  <2>1. CASE Connect(e)
    BY <1>0, <2>1, ConnectWake
  <2>2. CASE ListenArrival(e)
    BY <1>0, <2>2, ListenWake
  <2>3. CASE SynSentArrival(e)
    BY <2>3, SynSentWake DEF Fresh, Awake
  <2>4. CASE SynRcvdArrival(e)
    BY <2>4, SynRcvdWake DEF Fresh, Awake
  <2> QED BY <1>2, <2>1, <2>2, <2>3, <2>4 DEF Handshakes
<1>3. CASE ~Open(e) /\ ~Handshakes(e)
  <2>1. thread[e].pc \in {"wait", "after"}
    BY <1>0, <1>3 DEF Phase
  <2>2. /\ tcb'[e] = tcb[e] /\ tcp_state'[e] = tcp_state[e] /\ (Unconnected(e)' <=> Unconnected(e))
    BY <1>0, <1>3, <2>1, EarlyKeeps
  <2>3. recv'[e] = recv[e]
    <3>1. CASE AfterArrival(e) \/ (\E f \in FlagSet : Ignore(e, f)) \/ NetworkThread(e)
      BY <3>1 DEF AfterArrival, Ignore, NetworkThread, Enqueue, RaiseNetRecv, tcpVars
    <3>2. CASE (\E n \in SendSizes : SendCall(e, n)) \/ Sending(e) \/ Closing(e)
      BY <3>2 DEF SendCall, Sending, SendPut, SendReturn, Closing, CloseCall, CloseReturn, tcpVars
    <3>3. CASE Receiving(e)
      <4>1. recv[e] = <<>>
        BY <1>0, <1>3 DEF Fresh
      <4> QED BY <3>3, <4>1 DEF Receiving, RecvCall, RecvTake, RecvReturn, tcpVars
    <3> QED BY <1>0, <1>3, <2>1, <3>1, <3>2, <3>3, EarlySteps
  <2>4. Fresh(e)'
    BY <1>0, <2>2, <2>3 DEF Fresh, Open
  <2> QED BY <1>0, <1>3, <2>1, <2>4, EarlyAwake
<1> QED BY <1>1, <1>2, <1>3

\* What comes first in a queue that a packet joins.
LEMMA AppendFirst ==
  ASSUME NEW q \in Seq(Packets), NEW p \in Packets
  PROVE  Append(q, p) # <<>> /\ Head(Append(q, p)) = IF q # <<>> THEN Head(q) ELSE p
<1>1. Len(Append(q, p)) # 0 /\ Len(<<>>) = 0
  OBVIOUS
<1>2. CASE q = <<>>
  BY <1>1, <1>2
<1>3. CASE q # <<>>
  BY <1>1, <1>3
<1> QED BY <1>2, <1>3

\* The packet that completes the handshake stays in front.
LEMMA CompletingStep ==
  ASSUME Typed, Typed', Inv, SeqInv, \A x \in Endpoints : Measured(x), WakeInv, LetsPass(Server),
         NEW e \in Endpoints, Step(e)
  PROVE  Completing'
<1>0. CloseIsFinal(e) /\ Phase /\ Server \in Endpoints
  BY TwoEnds DEF Inv, SeqInv
<1>1. CASE e = Server
  <2>0. Client \in Endpoints /\ Client = Peer(e) /\ e # Client
    BY <1>1, TwoEnds
  <2>1. Open(Client)' <=> Open(Client)
    BY <2>0, OtherEnd
  <2>2. SUFFICES ASSUME Open(Client), tcp_state'[Server] = "SYN_RCVD"
                 PROVE  /\ pending'[Server] # <<>> \/ net'[Server] # <<>>
                        /\ Completes(First(Server))'
    BY <2>1 DEF Completing
  <2>3. ~Open(e) /\ tcp_state[e] = "SYN_RCVD"
    <3>1. ~Open(e)'
      BY <1>1, <2>2 DEF Open, Early
    <3>2. ~Open(e)
      BY <1>0, <3>1, OpenStays
    <3>3. (e = Client /\ HalfOpen) \/ HalfOpen
      BY <1>0, <1>1, <2>0, <2>2, <3>2, StageOf DEF BothOpen
    <3> QED BY <1>1, <3>2, <3>3 DEF HalfOpen
  <2>4. /\ pending[e] # <<>> \/ net[e] # <<>>
        /\ Completes(First(e))
    BY <1>1, <2>2, <2>3 DEF WakeInv, Completing
  <2>5. ~Handshakes(e)
    <3>1. ~Connect(e) /\ ~ListenArrival(e) /\ ~SynSentArrival(e)
      BY <2>3 DEF Connect, ListenArrival, SynSentArrival, Arrival
    <3>2. ~SynRcvdArrival(e)
      BY <1>1, <2>2, SynRcvdWake DEF Open, Early
    <3> QED BY <3>1, <3>2 DEF Handshakes
  <2>6. thread[e].pc \in {"wait", "after"} /\ tcb'[e] = tcb[e]
    BY <1>0, <2>3, <2>5, EarlyKeeps DEF Phase
  <2>7. CASE Kept(e)
    BY <1>1, <2>4, <2>6, <2>7 DEF Kept, First, Completes
  <2>8. ASSUME NEW r \in DebugResponses(e), Enqueue(e, r)
        PROVE  pending'[e] # <<>> /\ Head(pending'[e]) = First(e)
    <3>1. r = "NONE"
      BY <1>1, <2>8 DEF LetsPass
    <3>2. pending'[e] = Append(pending[e], Head(net[e])) /\ net[e] # <<>>
      BY <2>8, <3>1, EnqueueMoves DEF Queued
    <3>3. pending[e] \in Seq(Packets) /\ Head(net[e]) \in Packets
      BY <3>2 DEF Typed
    <3> QED BY <3>2, <3>3, AppendFirst DEF First
  <2>9. CASE \E r \in DebugResponses(e) : Enqueue(e, r)
    <3>1. pending'[e] # <<>> /\ Head(pending'[e]) = First(e)
      BY <2>8, <2>9
    <3>2. First(e)' = First(e)
      BY <3>1 DEF First
    <3> QED BY <1>1, <2>4, <2>6, <3>1, <3>2 DEF Completes
  <2> QED BY <1>0, <2>3, <2>5, <2>6, <2>7, <2>9, EarlyQueues
<1>2. CASE e = Client
  <2>0. Server = Peer(e) /\ e # Server
    BY <1>2, TwoEnds
  <2>1. /\ tcp_state'[Server] = tcp_state[Server] /\ tcb'[Server] = tcb[Server]
        /\ pending'[Server] = pending[Server]
    BY <1>0, <2>0, OtherEnd
  <2>2. CASE Open(e)
    <3>1. Speaks(e)
      <4>1. FINInHand(e)
        BY DEF SeqInv, Numbered, FINsAtHand
      <4> QED BY <1>0, <2>2, <4>1, OpenConverses DEF Converses
    <3>2. SUFFICES ASSUME tcp_state[Server] = "SYN_RCVD"
                   PROVE  /\ pending'[Server] # <<>> \/ net'[Server] # <<>>
                          /\ First(Server)' = First(Server)
      <4>1. ASSUME tcp_state[Server] = "SYN_RCVD" PROVE Completes(First(Server))
        BY <1>2, <2>2, <4>1 DEF WakeInv, Completing
      <4>2. ASSUME First(Server)' = First(Server), Completes(First(Server)) PROVE Completes(First(Server))'
        BY <2>1, <4>2 DEF Completes
      <4> QED BY <2>1, <4>1, <4>2 DEF Completing
    <3>3. pending[Server] # <<>> \/ net[Server] # <<>>
      BY <1>2, <2>2, <3>2 DEF WakeInv, Completing
    <3>4. CASE net'[Server] = net[Server]
      BY <2>1, <3>3, <3>4 DEF First
    <3>5. CASE \E p \in Packets : net'[Server] = Append(net[Server], p)
      <4>1. PICK p \in Packets : net'[Server] = Append(net[Server], p)
        BY <3>5
      <4>2. net[Server] \in Seq(Packets)
        BY <1>0 DEF Typed
      <4>3. net'[Server] # <<>> /\ (net[Server] # <<>> => Head(net'[Server]) = Head(net[Server]))
        BY <4>1, <4>2, AppendFirst
      <4> QED BY <2>1, <3>3, <4>3 DEF First
    <3> QED BY <2>0, <3>1, <3>4, <3>5 DEF Speaks
  <2>3. CASE ~Open(e)
    <3>1. CASE SynSentArrival(e)
      BY <3>1, SynSentWake
    <3>2. CASE ~SynSentArrival(e)
      <4>1. ~Open(e)'
        <5>1. CASE Handshakes(e)
          <6>1. ~ListenArrival(e) /\ ~SynRcvdArrival(e)
            <7>1. ASSUME NEW s \in {"LISTEN", "SYN_RCVD"}, Arrival(e, s) PROVE FALSE
              BY <1>0, <2>0, <7>1, Arrived, StageOf
            <7> QED BY <7>1 DEF ListenArrival, SynRcvdArrival
          <6>2. Connect(e)
            BY <3>2, <5>1, <6>1 DEF Handshakes
          <6>3. tcp_state'[e] = "SYN_SENT"
            BY <6>2 DEF Connect, SetState, Typed
          <6> QED BY <6>3 DEF Open, Early
        <5>2. CASE ~Handshakes(e)
          BY <1>0, <2>3, <5>2, EarlyKeeps DEF Phase, Open
        <5> QED BY <5>1, <5>2
      <4> QED BY <1>2, <4>1 DEF Completing
    <3> QED BY <3>1, <3>2
  <2> QED BY <2>2, <2>3
<1> QED BY <1>1, <1>2, TwoEnds

\* At the start there are neither packets nor wake-ups.
LEMMA WakeInit == Init => WakeInv
<1> SUFFICES ASSUME Init PROVE WakeInv
  OBVIOUS
<1>1. ASSUME NEW e \in Endpoints PROVE Fresh(e) /\ Awake(e)
  <2>1. /\ recv[e] = <<>> /\ tcp_state[e] \notin {"SYN_SENT", "SYN_RCVD"} /\ "net_recv" \notin flags[e]
        /\ ~raising[e] /\ thread[e].pc = "wait"
    BY DEF Init, Idle
  <2> QED BY <2>1 DEF Fresh, Awake
<1>2. tcp_state[Server] = "LISTEN"
  BY TwoEnds DEF Init
<1> QED BY <1>1, <1>2 DEF WakeInv, Completing

\* Every step preserves it, if the server's packets pass.
LEMMA WakeStep ==
  ASSUME WholeInv, WakeInv, LetsPass(Server), [Next]_vars
  PROVE  WakeInv'
<1>0. /\ Typed /\ Inv /\ SeqInv /\ \A x \in Endpoints : Measured(x)
  BY DEF WholeInv, Inv
<1>1. CASE \E e \in Endpoints : Step(e)
  <2>1. PICK e \in Endpoints : Step(e)
    BY <1>1
  <2>2. Typed'
    BY <1>0, <2>1, TypedBy
  <2>3. ASSUME NEW d \in Endpoints PROVE Fresh(d)' /\ Awake(d)'
    <3>1. CASE d = e
      BY <1>0, <2>1, <2>2, <3>1, FreshStep
    <3>2. CASE d # e
      <4>1. d = Peer(e)
        BY <3>2, PeerOfPeer
      <4>2. /\ tcp_state'[d] = tcp_state[d] /\ tcb'[d] = tcb[d] /\ thread'[d] = thread[d]
            /\ flags'[d] = flags[d] /\ pending'[d] = pending[d] /\ (Open(d)' <=> Open(d))
        BY <1>0, <2>1, <4>1, OtherEnd
      <4>3. raising'[d] = raising[d] /\ recv'[d] = recv[d]
        BY <1>0, <2>1, <3>2, OwnState, OtherBuffers DEF Mine
      <4> QED BY <4>2, <4>3 DEF WakeInv, Fresh, Awake
    <3> QED BY <3>1, <3>2
  <2> QED BY <1>0, <2>1, <2>2, <2>3, CompletingStep DEF WakeInv
<1>2. CASE UNCHANGED live
  <2>1. UNCHANGED <<tcp_state, tcb, recv, pending, flags, thread, net, raising>>
    BY <1>2 DEF live, tcpVars, queues
  <2> QED BY <2>1 DEF WakeInv, Fresh, Awake, Completing, Completes, First, Open, Unconnected
<1> QED BY <1>1, <1>2, StepOrStill

\* So it holds always.
LEMMA WakeInvariance ==
  ASSUME LetsPass(Server)
  PROVE  Spec => [](WholeInv /\ WakeInv)
<1>1. Init => WholeInv /\ WakeInv
  <2>1. Init => WholeInv
    <3>1. Init => closer \in Closings /\ crashed \subseteq Endpoints
      BY DEF Init, Closings
    <3> QED BY <3>1, InvInit, SeqInit, MeasureInit DEF WholeInv
  <2> QED BY <2>1, WakeInit
<1>2. WholeInv /\ WakeInv /\ [Next]_vars => (WholeInv /\ WakeInv)'
  BY InvStep, SeqStep, MeasureStep, ClosingStep, CrashedStep, WakeStep DEF WholeInv
<1> QED BY <1>1, <1>2, PTL DEF Spec

\* The handlers of LISTEN, SYN_SENT and SYN_RCVD, which fetch a packet without looking, find one
\* whenever net_recv is all that wakes them, and no TCP thread sleeps over a queued packet: for all
\* sizes and interleavings, and whatever a debugger does to the client's packets, provided that
\* it lets the server's pass. A packet that it drops or lets overtake during the handshake can
\* leave the server in SYN_RCVD with a wake-up and no packet.
THEOREM WakeUpsFindTheirPackets ==
  ASSUME LetsPass(Server)
  PROVE  Spec => []WakeUpsMatchPackets
<1>1. ASSUME WholeInv, WakeInv PROVE WakeUpsMatchPackets
  <2>1. Typed /\ \A e \in Endpoints : WokenUp(e) /\ CloseIsFinal(e) /\ Awake(e)
    BY <1>1 DEF WholeInv, Inv, WakeInv
  <2>2. ASSUME NEW e \in Endpoints, flags[e] = {"net_recv"},
               tcp_state[e] \in {"LISTEN", "SYN_SENT", "SYN_RCVD"}
        PROVE  pending[e] # <<>>
    BY <2>1, <2>2 DEF Awake, Open, Early
  <2>3. ASSUME NEW e \in Endpoints, thread[e].pc = "wait", pending[e] # <<>>
        PROVE  "net_recv" \in flags[e] \/ raising[e]
    BY <2>1, <2>3 DEF WokenUp, Asleep
  <2> QED BY <2>2, <2>3 DEF WakeUpsMatchPackets, FetchFindsPacket, NoStrandedPacket
<1>2. Spec => [](WholeInv /\ WakeInv)
  BY WakeInvariance
<1> QED BY <1>1, <1>2, PTL

-----------------------------------------------------------------------------
(* The stream of bytes: what is on its way follows on what has been received *)

\* Facts about sequences, in the form in which they are needed.
LEMMA NoElements ==
  ASSUME NEW q \in Seq(Packets)
  PROVE  q = <<>> <=> Len(q) = 0
OBVIOUS

\* Byte streams with the same bytes are equal.
LEMMA SameElements ==
  ASSUME NEW q \in Seq(Int), NEW r \in Seq(Int), Len(q) = Len(r),
         \A i \in 1 .. Len(q) : q[i] = r[i]
  PROVE  q = r
OBVIOUS

\* The bytes of the second of two byte streams.
LEMMA SecondPart ==
  ASSUME NEW q \in Seq(Int), NEW r \in Seq(Int), NEW i \in 1 .. Len(r)
  PROVE  (q \o r)[Len(q) + i] = r[i]
OBVIOUS

\* The packets of q follow one another, from sequence number n up to m.
Chain(q, n, m) ==
  /\ q = <<>> => n = m
  /\ q # <<>> => q[1].seq = n /\ q[Len(q)].seq + Len(q[Len(q)].data) = m
  /\ \A i \in 1 .. (Len(q) - 1) : q[i + 1].seq = q[i].seq + Len(q[i].data)

\* The packets that e has still to fetch, unless they are withheld.
Coming(e) == pending[e] \o net[e]

\* What the first packet of a chain says, and what is left without it.
LEMMA ChainTail ==
  ASSUME NEW q \in Seq(Packets), NEW n \in Int, NEW m \in Int, q # <<>>, Chain(q, n, m)
  PROVE  Head(q).seq = n /\ Chain(Tail(q), n + Len(Head(q).data), m)
<1> DEFINE l == Len(q)
           r == Tail(q)
<1>1. l \in Nat /\ l # 0
  <2>1. Len(q) \in Nat /\ Len(q) # 0
    OBVIOUS
  <2> QED BY <2>1
<1>2. /\ Head(q) = q[1] /\ r \in Seq(Packets) /\ Len(r) = l - 1
      /\ \A i \in 1 .. (l - 1) : r[i] = q[i + 1]
  OBVIOUS
<1>3. /\ q[1].seq = n /\ q[l].seq + Len(q[l].data) = m
      /\ \A i \in 1 .. (l - 1) : q[i + 1].seq = q[i].seq + Len(q[i].data)
  BY DEF Chain
<1>4. r = <<>> <=> l = 1
  <2>1. r = <<>> <=> Len(r) = 0
    BY <1>2, NoElements
  <2> QED BY <1>1, <1>2, <2>1
<1> HIDE DEF l, r
<1>5. r = <<>> => n + Len(Head(q).data) = m
  BY <1>2, <1>3, <1>4
<1>6. CASE r # <<>>
  <2>1. l - 1 \in 1 .. (l - 1) /\ 1 \in 1 .. (l - 1) /\ l - 1 + 1 = l
    BY <1>1, <1>4, <1>6
  <2>2. r[l - 1] = q[l] /\ r[1] = q[2]
    <3>1. r[l - 1] = q[l - 1 + 1] /\ r[1] = q[1 + 1]
      BY <1>2, <2>1
    <3> QED BY <2>1, <3>1
  <2>3. q[2].seq = n + Len(q[1].data)
    <3>1. q[1 + 1].seq = q[1].seq + Len(q[1].data)
      BY <1>3, <2>1
    <3> QED BY <1>3, <3>1
  <2>4. ASSUME NEW i \in 1 .. (Len(r) - 1) PROVE r[i + 1].seq = r[i].seq + Len(r[i].data)
    <3>1. i \in 1 .. (l - 1) /\ i + 1 \in 1 .. (l - 1) /\ i + 1 \in Int
      BY <1>1, <1>2, <2>4
    <3>2. r[i] = q[i + 1] /\ r[i + 1] = q[(i + 1) + 1]
      BY <1>2, <3>1
    <3>3. q[(i + 1) + 1].seq = q[i + 1].seq + Len(q[i + 1].data)
      BY <1>3, <3>1
    <3> QED BY <3>2, <3>3
  <2> QED BY <1>2, <1>3, <1>6, <2>2, <2>3, <2>4 DEF Chain, r
<1>7. CASE r = <<>>
  <2>1. ASSUME NEW i \in 1 .. (Len(r) - 1) PROVE FALSE
    BY <1>1, <1>2, <1>4, <1>7, <2>1
  <2> QED BY <1>2, <1>3, <1>5, <1>7, <2>1 DEF Chain, r
<1> QED BY <1>2, <1>3, <1>6, <1>7 DEF r

\* A packet that starts where a chain ends prolongs it.
LEMMA ChainAppend ==
  ASSUME NEW q \in Seq(Packets), NEW p \in Packets, NEW n \in Int, NEW m \in Int,
         Chain(q, n, m), p.seq = m
  PROVE  Chain(Append(q, p), n, m + Len(p.data))
<1> DEFINE l == Len(q)
           r == Append(q, p)
<1>1. /\ l \in Nat /\ r \in Seq(Packets) /\ Len(r) = l + 1 /\ r[l + 1] = p
      /\ \A i \in 1 .. l : r[i] = q[i]
      /\ (l = 0 <=> q = <<>>) /\ r # <<>>
  <2>1. Len(r) # 0 /\ Len(<<>>) = 0
    OBVIOUS
  <2>2. r # <<>>
    BY <2>1
  <2> QED BY <2>2
<1> HIDE DEF l, r
<1>2. r[Len(r)].seq + Len(r[Len(r)].data) = m + Len(p.data)
  BY <1>1
<1>3. r[1].seq = n
  <2>1. CASE l = 0
    BY <1>1, <2>1 DEF Chain
  <2>2. CASE l # 0
    <3>1. 1 \in 1 .. l /\ q # <<>>
      BY <1>1, <2>2
    <3> QED BY <1>1, <3>1 DEF Chain
  <2> QED BY <2>1, <2>2
<1>4. ASSUME NEW i \in 1 .. (Len(r) - 1) PROVE r[i + 1].seq = r[i].seq + Len(r[i].data)
  <2>1. i \in 1 .. l /\ r[i] = q[i]
    BY <1>1, <1>4
  <2>2. CASE i = l
    <3>1. q # <<>> /\ q[l].seq + Len(q[l].data) = m
      BY <1>1, <2>1, <2>2 DEF Chain, l
    <3> QED BY <1>1, <2>1, <2>2, <3>1
  <2>3. CASE i # l
    <3>1. i \in 1 .. (l - 1) /\ i + 1 \in 1 .. l
      BY <1>1, <2>1, <2>3
    <3>2. r[i + 1] = q[i + 1]
      BY <1>1, <3>1
    <3>3. q[i + 1].seq = q[i].seq + Len(q[i].data)
      BY <3>1 DEF Chain, l
    <3> QED BY <2>1, <3>2, <3>3
  <2> QED BY <2>2, <2>3
<1> QED BY <1>1, <1>2, <1>3, <1>4 DEF Chain, r

\* How the packets still to be fetched change: one is queued, one is fetched, one is sent.
LEMMA ComingMoves ==
  ASSUME NEW q \in Seq(Packets), NEW r \in Seq(Packets)
  PROVE  /\ q \o r \in Seq(Packets)
         /\ r # <<>> => Append(q, Head(r)) \o Tail(r) = q \o r
         /\ q # <<>> => q \o r # <<>> /\ Head(q \o r) = Head(q) /\ Tail(q) \o r = Tail(q \o r)
         /\ \A p \in Packets : q \o Append(r, p) = Append(q \o r, p)
<1>1. q \o r \in Seq(Packets)
  OBVIOUS
<1>2. ASSUME r # <<>> PROVE Append(q, Head(r)) \o Tail(r) = q \o r
  BY <1>2
<1>3. ASSUME q # <<>> PROVE q \o r # <<>> /\ Head(q \o r) = Head(q) /\ Tail(q) \o r = Tail(q \o r)
  <2>1. Len(q) # 0 /\ Len(q) \in Nat /\ Len(r) \in Nat
    BY <1>3
  <2>2. Len(q \o r) # 0 /\ Len(<<>>) = 0
    BY <2>1
  <2>3. q \o r # <<>>
    BY <2>2
  <2> QED BY <1>3, <2>1, <2>3
<1>4. ASSUME NEW p \in Packets PROVE q \o Append(r, p) = Append(q \o r, p)
  OBVIOUS
<1> QED BY <1>1, <1>2, <1>3, <1>4

\* The numbers after a up to b, which is what the bytes that have been sent look like.
Numbers(a, b) == [i \in 1 .. (b - a) |-> a + i]

\* The numbers above a up to b, and n more.
LEMMA NumbersGrow ==
  ASSUME NEW a \in Nat, NEW b \in Nat, NEW n \in Nat, a <= b
  PROVE  /\ Numbers(a, b) \in Seq(Int) /\ Len(Numbers(a, b)) = b - a
         /\ Numbers(a, b) \o [i \in 1 .. n |-> b + i] = Numbers(a, b + n)
<1>1. b - a \in Nat /\ b + n - a \in Nat
  OBVIOUS
<1>2. Numbers(a, b) \in Seq(Int) /\ Len(Numbers(a, b)) = b - a
  BY <1>1 DEF Numbers
<1> DEFINE u == Numbers(a, b)
           v == [i \in 1 .. n |-> b + i]
           w == Numbers(a, b + n)
<1>3. v \in Seq(Int) /\ Len(v) = n
  OBVIOUS
<1>4. w \in Seq(Int) /\ Len(w) = b + n - a
  BY <1>1 DEF Numbers
<1>5. \A i \in 1 .. (b - a) : u[i] = a + i
  BY DEF Numbers
<1>6. \A i \in 1 .. n : v[i] = b + i
  OBVIOUS
<1>7. \A i \in 1 .. (b + n - a) : w[i] = a + i
  BY DEF Numbers
<1> HIDE DEF u, v, w
<1>8. u \o v \in Seq(Int) /\ Len(u \o v) = b + n - a
  BY <1>1, <1>2, <1>3 DEF u
<1>9. ASSUME NEW i \in 1 .. (b + n - a) PROVE (u \o v)[i] = a + i
  <2>1. CASE i <= b - a
    BY <1>1, <1>2, <1>3, <1>5, <2>1 DEF u
  <2>2. CASE i > b - a
    <3>1. PICK j \in 1 .. n : i = (b - a) + j
      <4>1. i - (b - a) \in 1 .. n /\ i = (b - a) + (i - (b - a))
        BY <1>1, <2>2
      <4> QED BY <4>1
    <3>2. (u \o v)[(b - a) + j] = v[j]
      <4>1. u \in Seq(Int) /\ Len(u) = b - a
        BY <1>2 DEF u
      <4>2. j \in 1 .. Len(v)
        BY <1>3
      <4>3. (u \o v)[Len(u) + j] = v[j]
        BY <1>3, <4>1, <4>2, SecondPart
      <4> QED BY <4>1, <4>3
    <3>3. b + j = a + i
      BY <3>1
    <3> QED BY <1>6, <3>1, <3>2, <3>3
  <2>3. i <= b - a \/ i > b - a
    BY <1>1
  <2> QED BY <2>1, <2>2, <2>3
<1>10. u \o v = w
  <2>1. Len(u \o v) = Len(w) /\ \A i \in 1 .. Len(u \o v) : (u \o v)[i] = w[i]
    BY <1>4, <1>7, <1>8, <1>9
  <2> QED BY <1>4, <1>8, <2>1, SameElements
<1> QED BY <1>2, <1>10 DEF u, v, w

\* Taking the first n numbers off.
LEMMA NumbersShrink ==
  ASSUME NEW a \in Nat, NEW b \in Nat, NEW x \in Seq(Int), NEW y \in Seq(Int), a <= b,
         x \o y = Numbers(a, b)
  PROVE  a + Len(x) <= b /\ y = Numbers(a + Len(x), b)
<1> DEFINE n == Len(x)
           k == Len(y)
<1>1. n \in Nat /\ k \in Nat /\ Len(x \o y) = n + k
  OBVIOUS
<1>2. Len(x \o y) = b - a
  <2>1. 0 \in Nat
    OBVIOUS
  <2> QED BY <2>1, NumbersGrow
<1>3. a + n <= b /\ k = b - (a + n) /\ a + n \in Nat
  <2> HIDE DEF n, k
  <2> QED BY <1>1, <1>2
<1>4. ASSUME NEW i \in 1 .. k PROVE y[i] = a + n + i
  <2>1. n + i \in 1 .. (b - a)
    <3> HIDE DEF n, k
    <3> QED BY <1>1, <1>3
  <2>2. (x \o y)[n + i] = y[i]
    BY <1>1
  <2>3. (x \o y)[n + i] = a + (n + i)
    BY <2>1 DEF Numbers
  <2> HIDE DEF n, k
  <2> QED BY <1>1, <2>2, <2>3
<1>5. y = Numbers(a + n, b)
  <2> DEFINE z == Numbers(a + n, b)
  <2>1. z \in Seq(Int) /\ Len(z) = k
    <3>1. 0 \in Nat
      OBVIOUS
    <3> QED BY <1>3, <3>1, NumbersGrow
  <2>2. \A i \in 1 .. k : z[i] = a + n + i
    BY <1>3 DEF Numbers
  <2> HIDE DEF z
  <2>3. Len(y) = Len(z) /\ \A i \in 1 .. Len(y) : y[i] = z[i]
    BY <1>4, <2>1, <2>2
  <2>4. y = z
    BY <2>1, <2>3, SameElements
  <2> QED BY <2>4 DEF z
<1> QED BY <1>3, <1>5

\* The types of the ghosts.
GhostTypes == taken \in [Endpoints -> Nat] /\ overran \in [Endpoints -> BOOLEAN]

\* Which steps put bytes into a buffer or take them out.
LEMMA QuietBuffers ==
  ASSUME NEW e \in Endpoints, Step(e)
  PROVE  /\ ~SendSegment(e) /\ ~SendPut(e) => UNCHANGED <<send, sent>>
         /\ ~SendSegment(e) => UNCHANGED overran
         /\ ~use_data(e) /\ ~RecvTake(e) => UNCHANGED recv
         /\ ~RecvTake(e) => UNCHANGED taken
<1>1. CASE Handshakes(e)
  BY <1>1 DEF Handshakes, Connect, ListenArrival, SynRcvdArrival, SynSentArrival, Arrival, requests
<1>2. CASE \/ StartArrival(e) \/ EndArrival(e) \/ RejectPacket(e) \/ AcceptPacket(e) \/ LastAcked(e)
           \/ Cleanup(e) \/ AfterArrival(e)
  BY <1>2 DEF StartArrival, EndArrival, RejectPacket, AcceptPacket, LastAcked, HearsLastACK, Cleanup, AfterArrival,
              tcpVars, requests
<1>3. CASE use_data(e) \/ always_on_fb(e) \/ FinishFIN(e)
  BY <1>3 DEF use_data, always_on_fb, FinishFIN, requests
<1>4. CASE Receive(e) \/ Send(e) \/ StartClose(e) \/ EndSendAll(e) \/ FinishClose(e)
  BY <1>4 DEF Receive, Send, StartClose, StartSendAll, EndSendAll, FinishClose, tcpVars, requests
<1>5. CASE SendSegment(e) \/ SendFIN(e)
  BY <1>5 DEF SendSegment, SendFIN, requests
<1>6. CASE (\E f \in FlagSet : Ignore(e, f)) \/ NetworkThread(e)
  BY <1>6 DEF Ignore, NetworkThread, Enqueue, RaiseNetRecv, tcpVars, requests
<1>7. CASE (\E n \in SendSizes : SendCall(e, n)) \/ Sending(e)
  BY <1>7 DEF SendCall, Sending, SendPut, SendReturn, tcpVars
<1>8. CASE Receiving(e) \/ Closing(e)
  BY <1>8 DEF Receiving, RecvCall, RecvTake, RecvReturn, Closing, CloseCall, CloseReturn, tcpVars
<1> QED BY <1>1, <1>2, <1>3, <1>4, <1>5, <1>6, <1>7, <1>8 DEF Step, TcpThread, Handshakes

\* What a step does to the ghosts of the endpoint that takes it, and to those of the other.
LEMMA GhostStep ==
  ASSUME Typed, GhostTypes, NEW e \in Endpoints, Step(e)
  PROVE  /\ GhostTypes'
         /\ overran[e] => overran'[e]
         /\ \A d \in Endpoints : d # e => taken'[d] = taken[d] /\ overran'[d] = overran[d]
<1>1. CASE SendSegment(e)
  BY <1>1 DEF SendSegment, GhostTypes
<1>2. CASE RecvTake(e)
  <2>1. \A n : MIN(n, Len(recv[e])) = n \/ MIN(n, Len(recv[e])) = Len(recv[e])
    BY DEF MIN
  <2>2. reader[e].left \in Nat /\ Len(recv[e]) \in Nat
    BY DEF Typed
  <2> DEFINE n == MIN(reader[e].left, Len(recv[e]))
  <2>3. n \in Nat
    BY <2>1, <2>2
  <2>4. overran' = overran /\ (taken' = taken \/ taken' = [taken EXCEPT ![e] = @ + n])
    BY <1>2 DEF RecvTake
  <2> HIDE DEF n
  <2>5. taken[e] + n \in Nat
    BY <2>3 DEF GhostTypes
  <2> QED BY <2>4, <2>5 DEF GhostTypes
<1>3. CASE ~SendSegment(e) /\ ~RecvTake(e)
  BY <1>3, QuietBuffers DEF GhostTypes
<1> QED BY <1>1, <1>2, <1>3

-----------------------------------------------------------------------------
(* As long as the receive buffer has not been closed, its owner goes on receiving *)

Ears(e) ==
  /\ "recv" \notin shut[e] =>
       /\ Open(e) => tcp_state[e] \in ReceivingStates
       /\ thread[e].pc \in {"arrival", "useData"} => thread[e].handler \in ReceivingStates
       /\ thread[e].pc # "setState"
  /\ thread[e].pc = "closing" => tcp_state[e] \in Sendable

\* A step that leaves the state, the thread and the buffers' closing alone.
LEMMA StillEars ==
  ASSUME NEW e, Ears(e), tcp_state'[e] = tcp_state[e], shut'[e] = shut[e], Open(e)' <=> Open(e),
         \/ thread'[e] = thread[e]
         \/ thread'[e].pc \in {"wait", "after", "sendAll", "gotFIN"}
  PROVE  Ears(e)'
BY DEF Ears

\* The steps of an open endpoint.
LEMMA EarsOpen ==
  ASSUME Typed, NEW e \in Endpoints, CloseIsFinal(e), Open(e), Ears(e), Step(e)
  PROVE  Ears(e)'
<1>0. /\ thread \in [Endpoints -> Positions] /\ tcp_state \in [Endpoints -> States]
      /\ shut \in [Endpoints -> SUBSET {"send", "recv"}] /\ Open(e)' /\ ~Handshakes(e)
  BY OpenStays DEF Typed
<1>1. /\ "recv" \notin shut[e] => tcp_state[e] \in ReceivingStates
      /\ "recv" \notin shut[e] /\ thread[e].pc \in {"arrival", "useData"} => thread[e].handler \in ReceivingStates
      /\ "recv" \notin shut[e] => thread[e].pc # "setState"
  BY DEF Ears
<1>2. CASE StartArrival(e)
  BY <1>0, <1>1, <1>2, Taking DEF StartArrival, Ears, tcpVars
<1>3. CASE EndArrival(e) \/ RejectPacket(e) \/ AfterArrival(e) \/ Cleanup(e)
  BY <1>0, <1>1, <1>3 DEF EndArrival, RejectPacket, AfterArrival, Cleanup, Ears, tcpVars, Goto, Idle
<1>4. CASE AcceptPacket(e)
  <2> DEFINE p == Head(pending[e])
             h == thread[e].handler
  <2>1. /\ thread[e].pc = "arrival" /\ shut' = shut
        /\ thread' = [thread EXCEPT ![e] = [pc |-> Next_pc(h, p), handler |-> h, packet |-> p, rest |-> p.data]]
        /\ tcp_state' = tcp_state \/ SetState(e, AckedState(h, tcp_state[e]))
    BY <1>4 DEF AcceptPacket, InArrival
  <2> HIDE DEF p
  <2>2. thread'[e].handler = h /\ thread'[e].pc = Next_pc(h, p)
    BY <1>0, <2>1
  <2>3. Next_pc(h, p) \in {"arrival", "useData", "gotFIN"}
    BY DEF Next_pc
  <2>4. tcp_state'[e] \in {tcp_state[e], AckedState(h, tcp_state[e])}
    BY <1>0, <2>1 DEF SetState
  <2>5. h \in ReceivingStates /\ tcp_state[e] \in ReceivingStates => tcp_state'[e] \in ReceivingStates
    BY <2>4 DEF AckedState, ReceivingStates
  <2> QED BY <1>0, <1>1, <2>1, <2>2, <2>3, <2>5 DEF Ears
<1>5. CASE use_data(e)
  <2>1. thread[e].pc = "useData" /\ tcp_state' = tcp_state /\ shut' = shut
    BY <1>5 DEF use_data
  <2>2. thread[e] \in InHandler
    BY <1>0, <2>1, PositionTypes
  <2>3. /\ thread'[e].handler = thread[e].handler
        /\ thread'[e].pc \in {"arrival", "gotFIN", "useData"}
    BY <1>0, <1>5, <2>1, <2>2 DEF use_data, Written, InHandler
  <2> QED BY <1>0, <1>1, <2>1, <2>3 DEF Ears
<1>6. CASE always_on_fb(e)
  <2>1. thread[e].pc = "gotFIN" /\ "recv" \in shut'[e]
    BY <1>0, <1>6 DEF always_on_fb
  <2>2. thread[e] \in InHandler
    BY <1>0, <2>1, PositionTypes
  <2>3. thread'[e].pc = "setState"
    BY <1>0, <1>6, <2>2 DEF always_on_fb, InHandler
  <2> QED BY <2>1, <2>3 DEF Ears
<1>7. CASE FinishFIN(e)
  <2>1. thread[e].pc = "setState" /\ shut' = shut
    BY <1>7 DEF FinishFIN
  <2>2. thread[e] \in InHandler
    BY <1>0, <2>1, PositionTypes
  <2>3. thread'[e].pc = "arrival"
    BY <1>0, <1>7, <2>2 DEF FinishFIN, InHandler
  <2> QED BY <1>1, <2>1, <2>3 DEF Ears
<1>8. CASE LastAcked(e)
  <2>1. /\ thread[e].pc = "arrival" /\ thread[e].handler = "LAST_ACK" /\ shut' = shut
        /\ thread' = thread
    BY <1>0, <1>8 DEF LastAcked, HearsLastACK, InArrival, Goto
  <2>2. "recv" \in shut[e]
    BY <1>1, <2>1 DEF ReceivingStates
  <2> QED BY <2>1, <2>2 DEF Ears
<1>9. CASE Receive(e) \/ (\E f \in FlagSet : Ignore(e, f)) \/ NetworkThread(e)
  <2>1. /\ tcp_state' = tcp_state /\ shut' = shut
        /\ thread' = thread \/ thread'[e].pc \in {"wait", "after"}
    BY <1>0, <1>9 DEF Receive, Ignore, NetworkThread, Enqueue, RaiseNetRecv, tcpVars, queues, Goto
  <2> QED BY <1>0, <2>1, StillEars
<1>10. CASE Send(e) \/ StartClose(e)
  <2>1. /\ tcp_state' = tcp_state /\ shut' = shut /\ thread'[e].pc = "sendAll"
    BY <1>0, <1>10 DEF Send, StartClose, StartSendAll, tcpVars
  <2> QED BY <1>0, <2>1, StillEars
<1>11. CASE SendSegment(e) \/ EndSendAll(e)
  <2>1. tcp_state' = tcp_state /\ shut' = shut /\ thread'[e].pc \in {"wait", "sendAll"}
    <3>1. CASE SendSegment(e)
      BY <3>1, SendSegmentStays DEF SendSegment
    <3>2. CASE EndSendAll(e)
      BY <1>0, <3>2 DEF EndSendAll, tcpVars, Idle
    <3> QED BY <1>11, <3>1, <3>2
  <2> QED BY <1>0, <2>1, StillEars
<1>12. CASE SendFIN(e)
  <2>1. /\ tcp_state' = tcp_state /\ thread'[e].pc = "closing" /\ tcp_state[e] \in Sendable
        /\ shut[e] \subseteq shut'[e]
    BY <1>0, <1>12 DEF SendFIN, Goto, CloseIsFinal
  <2> QED BY <1>0, <1>1, <2>1 DEF Ears
<1>13. CASE FinishClose(e)
  <2>1. /\ thread[e].pc = "closing" /\ shut' = shut /\ thread'[e].pc = "wait"
        /\ tcp_state'[e] = IF tcp_state[e] = "ESTABLISHED" THEN "FIN_WAIT_1" ELSE "LAST_ACK"
    BY <1>0, <1>13 DEF FinishClose, SetState, Idle
  <2>2. tcp_state[e] \in Sendable
    BY <2>1 DEF Ears
  <2> QED BY <1>1, <2>1, <2>2 DEF Ears, Sendable, ReceivingStates
<1>14. CASE (\E n \in SendSizes : SendCall(e, n)) \/ Sending(e) \/ Receiving(e) \/ Closing(e)
  <2>1. UNCHANGED <<tcp_state, shut, thread>>
    BY <1>14 DEF SendCall, Sending, SendPut, SendReturn, Receiving, RecvCall, RecvTake, RecvReturn,
                 Closing, CloseCall, CloseReturn, tcpVars
  <2> QED BY <1>0, <2>1, StillEars
<1> QED BY <1>0, <1>2, <1>3, <1>4, <1>5, <1>6, <1>7, <1>8, <1>9, <1>10, <1>11, <1>12, <1>13, <1>14
        DEF Step, TcpThread, Handshakes

\* Every step.
LEMMA EarsStep ==
  ASSUME Typed, Typed', NEW e \in Endpoints, CloseIsFinal(e), Phase, Ears(e), Step(e)
  PROVE  Ears(e)'
<1>1. CASE Open(e)
  BY <1>1, EarsOpen
<1>2. CASE ~Open(e) /\ ~Handshakes(e)
  <2>1. thread[e].pc \in {"wait", "after"}
    BY <1>2 DEF Phase
  <2>2. /\ tcp_state'[e] = tcp_state[e] /\ shut'[e] = shut[e] /\ thread'[e].pc \in {"wait", "after"}
        /\ (Unconnected(e)' <=> Unconnected(e))
    BY <1>2, <2>1, EarlyKeeps
  <2> QED BY <2>2, StillEars DEF Open
<1>3. CASE Handshakes(e)
  <2>1. thread'[e].pc \in {"wait", "after"} /\ tcp_state'[e] \in Early \cup {"ESTABLISHED"}
    <3>1. CASE Connect(e)
      BY <3>1, Taking DEF Connect, SetState, Typed, Early
    <3>2. ASSUME NEW s \in Early, Arrival(e, s) PROVE thread'[e].pc = "after" /\ tcp_state[e] \in Early
      BY <3>2, Arrived
    <3>3. CASE ListenArrival(e) \/ SynRcvdArrival(e) \/ SynSentArrival(e)
      <4>1. tcp_state' = tcp_state \/ \E s \in {"SYN_RCVD", "ESTABLISHED"} : SetState(e, s)
        BY <3>3 DEF ListenArrival, SynRcvdArrival, SynSentArrival
      <4>2. thread'[e].pc = "after" /\ tcp_state[e] \in Early
        BY <3>2, <3>3 DEF ListenArrival, SynRcvdArrival, SynSentArrival, Early
      <4> QED BY <4>1, <4>2 DEF SetState, Early, Typed
    <3> QED BY <1>3, <3>1, <3>3 DEF Handshakes
  <2> QED BY <2>1 DEF Ears, Open, ReceivingStates, Early
<1> QED BY <1>1, <1>2, <1>3

-----------------------------------------------------------------------------
(* The bytes between two applications *)

\* An end that has heard the other's SYN.
HasHeard(e) == Open(e) \/ tcp_state[e] = "SYN_RCVD"

\* As StreamIntact has it: nothing can be said once the peer has sent more than there was room
\* for, or the receive buffer has been closed.
Intact(e) == ~overran[Peer(e)] /\ "recv" \notin shut[e]

\* The part of the payload in hand that is in the receive buffer already.
Put(e) == IF thread[e].pc = "useData" THEN Len(thread[e].packet.data) - Len(thread[e].rest) ELSE 0

\* The packets still to be fetched follow on what has been received, up to what has been sent.
InOrder(e) ==
  HasHeard(e) => Chain(Coming(e), tcb[e].RCV_NXT + HandLen(e), tcb[Peer(e)].SND_NXT)

\* They fit the window, and the window fits the buffer.
Fits(e) ==
  HasHeard(e) =>
    /\ tcb[Peer(e)].SND_NXT <= tcb[e].RCV_NXT + tcb[e].RCV_WND
    /\ tcb[e].RCV_WND <= Room(e) + Put(e)

Stream(e) == recv[e] \o InHand(e) \o Payload(pending[e]) \o Payload(net[e]) \o send[Peer(e)]
Whole(e) == taken[e] <= sent[Peer(e)] /\ Stream(e) = Numbers(taken[e], sent[Peer(e)])

StreamInv(e) == Intact(e) => InOrder(e) /\ Fits(e) /\ Whole(e)

\* A packet with a payload acknowledges.
DataHasACK(e) == \A p \in Toward(e) : p.data # <<>> => p.ack

FlowInv == GhostTypes /\ \A e \in Endpoints : Ears(e) /\ DataHasACK(e) /\ StreamInv(e)

\* The steps that leave the payload in hand as it is.
LEMMA HandSteady ==
  ASSUME Typed, NEW e \in Endpoints, Step(e), ~AcceptPacket(e), ~use_data(e)
  PROVE  InHand(e)' = InHand(e) /\ HandLen(e)' = HandLen(e) /\ Put(e)' = Put(e)
<1>0. thread \in [Endpoints -> Positions]
  BY DEF Typed
<1>1. SUFFICES \/ thread'[e] = thread[e]
               \/ thread[e].pc # "useData" /\ thread'[e].pc # "useData"
  BY DEF InHand, HandLen, Put
<1>2. CASE Connect(e)
  BY <1>2 DEF Connect
<1>3. CASE ListenArrival(e) \/ SynRcvdArrival(e) \/ SynSentArrival(e)
  BY <1>3, Arrived DEF ListenArrival, SynRcvdArrival, SynSentArrival
<1>4. CASE StartArrival(e) \/ (\E f \in FlagSet : Ignore(e, f)) \/ Cleanup(e)
  BY <1>0, <1>4, Taking DEF StartArrival, Ignore, Cleanup, Goto
<1>5. CASE EndArrival(e) \/ RejectPacket(e) \/ LastAcked(e) \/ AfterArrival(e)
  BY <1>0, <1>5 DEF EndArrival, RejectPacket, LastAcked, HearsLastACK, AfterArrival, InArrival, Goto, Idle
<1>6. CASE always_on_fb(e) \/ FinishFIN(e)
  <2>1. thread[e].pc \in {"gotFIN", "setState"}
    BY <1>6 DEF always_on_fb, FinishFIN
  <2>2. thread[e] \in InHandler
    BY <1>0, <2>1, PositionTypes
  <2>3. thread'[e].pc \in {"setState", "arrival"}
    BY <1>0, <1>6, <2>2 DEF always_on_fb, FinishFIN, InHandler
  <2> QED BY <2>1, <2>3
<1>7. CASE Receive(e) \/ NetworkThread(e)
  BY <1>7 DEF Receive, NetworkThread, Enqueue, RaiseNetRecv
<1>8. CASE Send(e) \/ StartClose(e)
  BY <1>0, <1>8, Taking DEF Send, StartClose, StartSendAll
<1>9. CASE SendSegment(e)
  BY <1>9, SendSegmentStays
<1>10. CASE EndSendAll(e) \/ SendFIN(e) \/ FinishClose(e)
  BY <1>0, <1>10 DEF EndSendAll, SendFIN, FinishClose, Goto, Idle
<1>11. CASE (\E n \in SendSizes : SendCall(e, n)) \/ Sending(e) \/ Receiving(e) \/ Closing(e)
  BY <1>11 DEF SendCall, Sending, SendPut, SendReturn, Receiving, RecvCall, RecvTake, RecvReturn,
               Closing, CloseCall, CloseReturn
<1> QED BY <1>2, <1>3, <1>4, <1>5, <1>6, <1>7, <1>8, <1>9, <1>10, <1>11 DEF Step, TcpThread

\* The steps that leave the receive window as it is.
LEMMA WindowSteady ==
  ASSUME Typed, NEW e \in Endpoints, Step(e), ~Handshakes(e), ~use_data(e), ~always_on_fb(e), ~Receive(e)
  PROVE  tcb'[e].RCV_NXT = tcb[e].RCV_NXT /\ tcb'[e].RCV_WND = tcb[e].RCV_WND
<1>0. tcb \in [Endpoints -> ControlBlocks] /\ tcb[e] \in ControlBlocks
  BY DEF Typed
<1>1. CASE tcb' = tcb
  BY <1>1
<1>2. CASE AcceptPacket(e)
  <2> DEFINE p == Head(pending[e])
  <2>1. tcb' = tcb \/ tcb' = [tcb EXCEPT ![e] = update_WND_and_UNA(@, p)]
    BY <1>2 DEF AcceptPacket
  <2> HIDE DEF p
  <2> QED BY <1>0, <2>1 DEF update_WND_and_UNA, ControlBlocks
<1>3. CASE SendSegment(e)
  <2> DEFINE n == MIN(thread[e].toSend, Len(send[e]))
  <2>1. tcb' = [tcb EXCEPT ![e] = [tcb[e] EXCEPT !.SND_NXT = @ + n, !.SND_WND = @ - n]]
    BY <1>3 DEF SendSegment
  <2> HIDE DEF n
  <2> QED BY <1>0, <2>1 DEF ControlBlocks
<1>4. CASE StartArrival(e) \/ EndArrival(e) \/ RejectPacket(e) \/ LastAcked(e) \/ Cleanup(e) \/ AfterArrival(e)
  BY <1>1, <1>4 DEF StartArrival, EndArrival, RejectPacket, LastAcked, HearsLastACK, Cleanup, AfterArrival, tcpVars
<1>5. CASE FinishFIN(e) \/ Send(e) \/ StartClose(e) \/ EndSendAll(e) \/ SendFIN(e) \/ FinishClose(e)
  BY <1>1, <1>5 DEF FinishFIN, Send, StartClose, StartSendAll, EndSendAll, SendFIN, FinishClose, tcpVars
<1>6. CASE (\E f \in FlagSet : Ignore(e, f)) \/ NetworkThread(e)
  BY <1>1, <1>6 DEF Ignore, NetworkThread, Enqueue, RaiseNetRecv, tcpVars
<1>7. CASE (\E n \in SendSizes : SendCall(e, n)) \/ Sending(e) \/ Receiving(e) \/ Closing(e)
  BY <1>1, <1>7 DEF SendCall, Sending, SendPut, SendReturn, Receiving, RecvCall, RecvTake, RecvReturn,
                    Closing, CloseCall, CloseReturn, tcpVars
<1> QED BY <1>2, <1>3, <1>4, <1>5, <1>6, <1>7 DEF Step, TcpThread, Handshakes

\* The steps that fetch nothing.
LEMMA QuietQueues ==
  ASSUME Typed, NEW e \in Endpoints, Step(e), ~Handshakes(e), ~RejectPacket(e), ~AcceptPacket(e),
         ~LastAcked(e)
  PROVE  Kept(e) \/ \E r \in DebugResponses(e) : Enqueue(e, r)
<1>0. Peer(e) \in Endpoints /\ Peer(e) # e
  BY PeerIsEndpoint, EndpointAssumption DEF Peer, Endpoints
<1>1. ASSUME NEW p, Transmit(e, p) PROVE net'[e] = net[e]
  BY <1>0, <1>1 DEF Transmit, Typed
<1>2. CASE UNCHANGED <<pending, withheld>> /\ (UNCHANGED net \/ \E p : Transmit(e, p))
  BY <1>1, <1>2 DEF Kept
<1>3. CASE use_data(e)
  <2>1. UNCHANGED <<pending, withheld>> /\ (UNCHANGED net \/ \E p : Transmit(e, p))
    BY <1>3 DEF use_data, Written
  <2> QED BY <1>2, <2>1
<1>4. CASE always_on_fb(e) \/ SendSegment(e) \/ SendFIN(e)
  <2>1. UNCHANGED <<pending, withheld>> /\ \E p : Transmit(e, p)
    BY <1>4 DEF always_on_fb, SendSegment, SendFIN
  <2> QED BY <1>2, <2>1
<1>5. CASE \/ StartArrival(e) \/ EndArrival(e) \/ FinishFIN(e) \/ Cleanup(e) \/ AfterArrival(e)
           \/ EndSendAll(e) \/ FinishClose(e)
  BY <1>2, <1>5 DEF StartArrival, EndArrival, FinishFIN, Cleanup, AfterArrival, EndSendAll,
                    FinishClose, queues
<1>6. CASE Receive(e) \/ Send(e) \/ StartClose(e) \/ RaiseNetRecv(e)
  BY <1>2, <1>6 DEF Receive, Send, StartClose, StartSendAll, RaiseNetRecv, queues
<1>7. ASSUME NEW f \in FlagSet, Ignore(e, f) PROVE Kept(e)
  BY <1>7 DEF Ignore, queues, Kept
<1>8. CASE (\E n \in SendSizes : SendCall(e, n)) \/ Sending(e) \/ Receiving(e) \/ Closing(e)
  <2>1. UNCHANGED queues
    BY <1>8 DEF SendCall, Sending, SendPut, SendReturn, Receiving, RecvCall, RecvTake, RecvReturn,
                Closing, CloseCall, CloseReturn
  <2> QED BY <1>2, <2>1 DEF queues
<1> QED BY <1>3, <1>4, <1>5, <1>6, <1>7, <1>8 DEF Step, TcpThread, NetworkThread, Handshakes

\* A buffer that has been closed stays closed.
LEMMA ShutGrows ==
  ASSUME Typed, NEW e \in Endpoints, CloseIsFinal(e), FINInHand(e), Phase, Step(e)
  PROVE  shut[e] \subseteq shut'[e]
<1>1. CASE Open(e)
  BY <1>1, OpenConverses DEF Converses
<1>2. CASE Handshakes(e)
  BY <1>2 DEF Handshakes, Connect, ListenArrival, SynRcvdArrival, SynSentArrival, Arrival
<1>3. CASE ~Open(e) /\ ~Handshakes(e)
  BY <1>3, EarlyKeeps DEF Phase
<1> QED BY <1>1, <1>2, <1>3

\* How a packet moves without any payload being received: into the queue, or out of it if it
\* has none.
Joined(e) ==
  /\ net[e] # <<>> /\ net'[e] = Tail(net[e])
  /\ pending'[e] = Append(pending[e], Head(net[e]))
Blank(e) == Fetched(e) /\ Head(pending[e]).data = <<>>
Passed(e) == Kept(e) \/ Joined(e) \/ Blank(e)

\* The parts of the stream are sequences of bytes.
LEMMA StreamTypes ==
  ASSUME Typed, NEW e \in Endpoints
  PROVE  /\ recv[e] \in Seq(Int) /\ InHand(e) \in Seq(Int) /\ send[Peer(e)] \in Seq(Int)
         /\ Payload(pending[e]) \in Seq(Int) /\ Payload(net[e]) \in Seq(Int)
         /\ pending[e] \in Seq(Packets) /\ net[e] \in Seq(Packets)
<1>1. InHand(e) \in Seq(Int)
  <2>1. CASE thread[e].pc = "useData"
    <3>1. thread[e] \in InHandler
      BY <2>1, PositionTypes DEF Typed
    <3> QED BY <2>1, <3>1 DEF InHand, InHandler
  <2>2. CASE thread[e].pc # "useData"
    BY <2>2 DEF InHand
  <2> QED BY <2>1, <2>2
<1> QED BY <1>1, PeerIsEndpoint, PayloadTypes DEF Typed

\* A queue that gives its first packet to the other, or drops one without payload, keeps the bytes.
LEMMA PassedBytes ==
  ASSUME Typed, NEW e \in Endpoints, Passed(e)
  PROVE  /\ Payload(pending'[e]) \in Seq(Int) /\ Payload(net'[e]) \in Seq(Int)
         /\ Payload(pending'[e]) \o Payload(net'[e]) = Payload(pending[e]) \o Payload(net[e])
<1>0. pending[e] \in Seq(Packets) /\ net[e] \in Seq(Packets)
  BY StreamTypes
<1>1. CASE Kept(e)
  BY <1>1, StreamTypes DEF Kept
<1>2. CASE Joined(e)
  <2> DEFINE p == Head(net[e])
             r == Tail(net[e])
             q == pending[e]
  <2>1. p \in Packets /\ r \in Seq(Packets) /\ q \in Seq(Packets) /\ net[e] # <<>>
    BY <1>0, <1>2 DEF Joined
  <2>2. /\ pending'[e] = Append(q, p) /\ net'[e] = r
    BY <1>2 DEF Joined
  <2>3. Payload(net[e]) = p.data \o Payload(r)
    BY <1>0, <2>1, PayloadHead
  <2> HIDE DEF p, r, q
  <2>4. Append(q, p) \in Seq(Packets)
    BY <2>1
  <2>5. /\ Payload(Append(q, p)) = Payload(q) \o p.data
        /\ Payload(q) \in Seq(Int) /\ Payload(r) \in Seq(Int) /\ Payload(Append(q, p)) \in Seq(Int)
        /\ p.data \in Seq(Int)
    BY <2>1, <2>4, PayloadAppend, PayloadTypes DEF Packets
  <2>6. (Payload(q) \o p.data) \o Payload(r) = Payload(q) \o (p.data \o Payload(r))
    BY <2>5, BytesAssociate
  <2> QED BY <2>2, <2>3, <2>5, <2>6 DEF q
<1>3. CASE Blank(e)
  <2>1. pending[e] # <<>> /\ pending'[e] = Tail(pending[e]) /\ net'[e] = net[e] /\ Head(pending[e]).data = <<>>
    BY <1>3 DEF Blank, Fetched
  <2>2. Tail(pending[e]) \in Seq(Packets)
    BY <1>0, <2>1
  <2>3. Payload(Tail(pending[e])) \in Seq(Int) /\ Payload(net[e]) \in Seq(Int)
    BY <1>0, <2>2, PayloadTypes
  <2>4. Payload(pending[e]) = <<>> \o Payload(Tail(pending[e]))
    BY <1>0, <2>1, PayloadHead
  <2>5. Payload(pending[e]) = Payload(Tail(pending[e]))
    BY <2>3, <2>4
  <2> QED BY <2>1, <2>3, <2>5
<1> QED BY <1>1, <1>2, <1>3 DEF Passed

\* Such a move keeps the stream.
LEMMA WholeStays ==
  ASSUME Typed, NEW e \in Endpoints, Passed(e), recv'[e] = recv[e], InHand(e)' = InHand(e),
         taken'[e] = taken[e], send'[Peer(e)] = send[Peer(e)], sent'[Peer(e)] = sent[Peer(e)], Whole(e)
  PROVE  Whole(e)'
<1> DEFINE x == recv[e] \o InHand(e)
           a == Payload(pending[e])
           b == Payload(net[e])
           c == Payload(pending'[e])
           d == Payload(net'[e])
           z == send[Peer(e)]
<1>1. x \in Seq(Int) /\ a \in Seq(Int) /\ b \in Seq(Int) /\ c \in Seq(Int) /\ d \in Seq(Int) /\ c \o d = a \o b
  <2>1. recv[e] \in Seq(Int) /\ InHand(e) \in Seq(Int) /\ a \in Seq(Int) /\ b \in Seq(Int)
    BY StreamTypes
  <2>2. x \in Seq(Int)
    BY <2>1
  <2> HIDE DEF x
  <2> QED BY <2>1, <2>2, PassedBytes
<1>2. Stream(e) = ((x \o a) \o b) \o z
  BY DEF Stream
<1>3. Stream(e)' = ((x \o c) \o d) \o z
  BY DEF Stream
<1> HIDE DEF x, a, b, c, d, z
<1>4. (x \o a) \o b = x \o (a \o b) /\ (x \o c) \o d = x \o (c \o d)
  BY <1>1, BytesAssociate
<1>5. Stream(e)' = Stream(e)
  BY <1>1, <1>2, <1>3, <1>4
<1> QED BY <1>5 DEF Whole

\* The order of the packets survives every such move, and one with a payload that takes its place
\* in hand.
LEMMA OrderStays ==
  ASSUME Typed, Typed', NEW e \in Endpoints, InOrder(e), HasHeard(e)' => HasHeard(e),
         tcb'[Peer(e)].SND_NXT = tcb[Peer(e)].SND_NXT,
         \/ /\ Kept(e) \/ Joined(e)
            /\ tcb'[e].RCV_NXT + HandLen(e)' = tcb[e].RCV_NXT + HandLen(e)
         \/ /\ Fetched(e)
            /\ tcb'[e].RCV_NXT + HandLen(e)' = tcb[e].RCV_NXT + HandLen(e) + Len(Head(pending[e]).data)
  PROVE  InOrder(e)'
<1> SUFFICES ASSUME HasHeard(e)'
             PROVE  Chain(Coming(e)', tcb'[e].RCV_NXT + HandLen(e)', tcb'[Peer(e)].SND_NXT)
  BY DEF InOrder
<1> DEFINE n == tcb[e].RCV_NXT + HandLen(e)
           m == tcb[Peer(e)].SND_NXT
           q == pending[e]
           r == net[e]
<1>1. n \in Int /\ m \in Int /\ q \in Seq(Packets) /\ r \in Seq(Packets)
  <2>1. Peer(e) \in Endpoints
    BY PeerIsEndpoint
  <2>2. tcb[e].RCV_NXT \in Int /\ HandLen(e) \in Nat
    BY BlockTypes, HandTypes
  <2>3. m \in Int
    BY <2>1, BlockTypes
  <2> QED BY <2>2, <2>3, StreamTypes
<1>2. Chain(q \o r, n, m)
  BY DEF InOrder, Coming
<1>3. CASE Kept(e) /\ tcb'[e].RCV_NXT + HandLen(e)' = n
  BY <1>2, <1>3 DEF Kept, Coming
<1>4. CASE Joined(e) /\ tcb'[e].RCV_NXT + HandLen(e)' = n
  <2>1. Coming(e)' = Append(q, Head(r)) \o Tail(r) /\ r # <<>>
    BY <1>4 DEF Joined, Coming
  <2>2. Coming(e)' = q \o r
    BY <1>1, <2>1, ComingMoves
  <2> QED BY <1>2, <1>4, <2>2
<1>5. CASE Fetched(e) /\ tcb'[e].RCV_NXT + HandLen(e)' = n + Len(Head(q).data)
  <2>1. Coming(e)' = Tail(q) \o r /\ q # <<>>
    BY <1>5 DEF Fetched, Coming
  <2>2. Coming(e)' = Tail(q \o r) /\ q \o r \in Seq(Packets) /\ q \o r # <<>> /\ Head(q \o r) = Head(q)
    BY <1>1, <2>1, ComingMoves
  <2> HIDE DEF q, r, n, m
  <2>3. Chain(Tail(q \o r), n + Len(Head(q \o r).data), m)
    BY <1>1, <1>2, <2>2, ChainTail
  <2>4. Chain(Coming(e)', n + Len(Head(q).data), m)
    BY <2>2, <2>3
  <2> QED BY <1>5, <2>4 DEF q, n, m
<1> QED BY <1>3, <1>4, <1>5

\* A byte stream and its first n bytes.
LEMMA SplitBytes ==
  ASSUME NEW s \in Seq(Int), NEW n \in 0 .. Len(s)
  PROVE  /\ SubSeq(s, 1, n) \in Seq(Int) /\ Len(SubSeq(s, 1, n)) = n
         /\ SubSeq(s, n + 1, Len(s)) \in Seq(Int) /\ Len(SubSeq(s, n + 1, Len(s))) = Len(s) - n
         /\ SubSeq(s, 1, n) \o SubSeq(s, n + 1, Len(s)) = s
<1> DEFINE l == Len(s)
<1>1. l \in Nat /\ n \in Nat /\ n <= l
  OBVIOUS
<1>2. \A i \in 1 .. l : s[i] \in Int
  OBVIOUS
<1>3. l = Len(s)
  OBVIOUS
<1> HIDE DEF l
<1>4. SubSeq(s, 1, n) \in Seq(Int) /\ Len(SubSeq(s, 1, n)) = n
  <2>1. \A i \in 1 .. n : s[i] \in Int
    BY <1>1, <1>2
  <2> QED BY <1>1, <2>1, SubSeqProperties
<1>5. SubSeq(s, n + 1, l) \in Seq(Int) /\ Len(SubSeq(s, n + 1, l)) = l - n
  <2>1. \A i \in (n + 1) .. l : s[i] \in Int
    BY <1>1, <1>2
  <2>2. /\ SubSeq(s, n + 1, l) \in Seq(Int)
        /\ Len(SubSeq(s, n + 1, l)) = IF n + 1 <= l THEN l - (n + 1) + 1 ELSE 0
    BY <1>1, <2>1, SubSeqProperties
  <2> QED BY <1>1, <2>2
<1>6. SubSeq(s, 1, n) \o SubSeq(s, n + 1, l) = SubSeq(s, 1, l)
  <2>1. 1 \in 1 .. (l + 1) /\ n \in (1 - 1) .. l /\ l \in n .. l
    BY <1>1
  <2> QED BY <1>3, <2>1, ConcatAdjacentSubSeq
<1>7. SubSeq(s, 1, l) = s
  BY <1>3, SubSeqFull
<1> QED BY <1>3, <1>4, <1>5, <1>6, <1>7

\* A blocking write puts the next bytes of the payload into the receive buffer; with the last of
\* them the receive window moves.
UsesPart(e, n) ==
  /\ n < Len(thread[e].rest) /\ tcb' = tcb
  /\ thread'[e].pc = "useData" /\ thread'[e].packet = thread[e].packet
  /\ thread'[e].rest = SubSeq(thread[e].rest, n + 1, Len(thread[e].rest))
UsesAll(e, n) ==
  /\ n = Len(thread[e].rest) /\ thread'[e].pc # "useData"
  /\ tcb'[e].RCV_NXT = tcb[e].RCV_NXT + HandLen(e)
  /\ tcb'[e].RCV_WND = (tcb[e].RCV_WND - HandLen(e)) % Word

\* What use_data does, as SplitBytes and MIN have it.
LEMMA UseMoves ==
  ASSUME Typed, NEW e \in Endpoints, Windowed(e), use_data(e), "recv" \notin shut[e]
  PROVE  /\ thread[e].pc = "useData" /\ thread[e].rest \in Seq(Int)
         /\ thread[e].packet \in Packets
         /\ \E n \in 0 .. Len(thread[e].rest) :
              /\ recv'[e] = recv[e] \o SubSeq(thread[e].rest, 1, n)
              /\ UsesPart(e, n) \/ UsesAll(e, n)
<1> DEFINE x == thread[e]
           n == MIN(Room(e), Len(x.rest))
           l == Len(x.packet.data)
<1>0. /\ tcb \in [Endpoints -> ControlBlocks] /\ thread \in [Endpoints -> Positions]
      /\ recv \in [Endpoints -> Seq(Int)] /\ tcb[e] \in ControlBlocks
  BY DEF Typed
<1>1. x.pc = "useData" /\ x \in InHandler /\ x.rest \in Seq(Int) /\ x.packet \in Packets
  <2>1. x.pc = "useData" /\ x \in Positions
    BY <1>0 DEF use_data
  <2>2. x \in InHandler
    BY <2>1, PositionTypes
  <2> QED BY <2>1, <2>2 DEF InHandler
<1>2. /\ n > 0 /\ recv' = [recv EXCEPT ![e] = @ \o SubSeq(x.rest, 1, n)]
      /\ IF n < Len(x.rest)
           THEN thread' = [thread EXCEPT ![e].rest = SubSeq(@, n + 1, Len(@))] /\ UNCHANGED <<tcb, net>>
           ELSE Written(e, Advance(tcb[e], l))
  BY DEF use_data
<1>3. n \in 0 .. Len(x.rest)
  <2>1. Room(e) \in Int
    BY RoomFits
  <2>2. Len(x.rest) \in Nat
    BY <1>1
  <2> DEFINE i == Len(x.rest)
             r == Room(e)
  <2>3. i \in Nat /\ r \in Int /\ n = MIN(r, i) /\ n > 0
    BY <1>2, <2>1, <2>2
  <2> HIDE DEF i, r, n
  <2>4. n \in 0 .. i
    BY <2>3, MinIsLeast
  <2> QED BY <2>4 DEF i
<1>4. HandLen(e) = l
  BY <1>1 DEF HandLen
<1> HIDE DEF n
<1>5. recv'[e] = recv[e] \o SubSeq(x.rest, 1, n)
  BY <1>0, <1>2
<1>6. CASE n < Len(x.rest)
  <2>1. thread' = [thread EXCEPT ![e].rest = SubSeq(@, n + 1, Len(@))] /\ tcb' = tcb
    BY <1>2, <1>6
  <2> DEFINE b == SubSeq(x.rest, n + 1, Len(x.rest))
  <2>2. thread' = [thread EXCEPT ![e] = [x EXCEPT !.rest = b]]
    BY <2>1
  <2>3. thread'[e] = [x EXCEPT !.rest = b]
    BY <1>0, <2>2
  <2> HIDE DEF b, x
  <2>4. thread'[e].pc = "useData" /\ thread'[e].packet = x.packet /\ thread'[e].rest = b
    BY <1>1, <2>3 DEF InHandler
  <2>5. UsesPart(e, n)
    BY <1>6, <2>1, <2>4 DEF UsesPart, x, b
  <2> QED BY <1>1, <1>3, <1>5, <2>5 DEF x
<1>7. CASE ~(n < Len(x.rest))
  <2>1. Written(e, Advance(tcb[e], l))
    BY <1>2, <1>7
  <2>2. n = Len(x.rest)
    <3>1. Len(x.rest) \in Nat
      BY <1>1
    <3> DEFINE i == Len(x.rest)
    <3>2. i \in Nat /\ n \in 0 .. i /\ ~(n < i)
      BY <1>3, <1>7, <3>1
    <3> HIDE DEF i
    <3>3. n = i
      BY <3>2
    <3> QED BY <3>3 DEF i
  <2>3. tcb'[e] = Advance(tcb[e], l)
    BY <1>0, <2>1 DEF Written
  <2>4. tcb'[e].RCV_NXT = tcb[e].RCV_NXT + l /\ tcb'[e].RCV_WND = (tcb[e].RCV_WND - l) % Word
    <3> DEFINE u == tcb[e].RCV_NXT + l
               v == (tcb[e].RCV_WND - l) % Word
    <3>1. tcb'[e] = [tcb[e] EXCEPT !.RCV_NXT = u, !.RCV_WND = v]
      BY <2>3 DEF Advance
    <3> HIDE DEF u, v
    <3>2. tcb'[e].RCV_NXT = u /\ tcb'[e].RCV_WND = v
      BY <1>0, <3>1 DEF ControlBlocks
    <3> QED BY <3>2 DEF u, v
  <2>5. thread'[e].pc # "useData"
    BY <1>0, <1>1, <2>1 DEF Written, InHandler
  <2>6. UsesAll(e, n)
    BY <1>4, <2>2, <2>4, <2>5 DEF UsesAll
  <2> QED BY <1>1, <1>3, <1>5, <2>6
<1> QED BY <1>6, <1>7

\* The stream through a blocking write.
LEMMA UseWhole ==
  ASSUME Typed, NEW e \in Endpoints, NEW n \in 0 .. Len(thread[e].rest),
         thread[e].pc = "useData", thread[e].rest \in Seq(Int),
         recv'[e] = recv[e] \o SubSeq(thread[e].rest, 1, n), UsesPart(e, n) \/ UsesAll(e, n),
         Kept(e), taken'[e] = taken[e], send'[Peer(e)] = send[Peer(e)], sent'[Peer(e)] = sent[Peer(e)],
         Whole(e)
  PROVE  Whole(e)'
<1> DEFINE s == thread[e].rest
           x == SubSeq(s, 1, n)
           y == SubSeq(s, n + 1, Len(s))
<1>1. /\ x \in Seq(Int) /\ Len(x) = n /\ y \in Seq(Int) /\ Len(y) = Len(s) - n
      /\ x \o y = s
  BY SplitBytes
<1>2. InHand(e) = s
  BY DEF InHand
<1>3. InHand(e)' = y
  <2>1. CASE UsesPart(e, n)
    BY <2>1 DEF UsesPart, InHand
  <2>2. CASE UsesAll(e, n)
    <3>1. n = Len(s) /\ InHand(e)' = <<>>
      BY <2>2 DEF UsesAll, InHand
    <3>2. Len(y) = 0
      <4>1. Len(s) \in Nat
        OBVIOUS
      <4> DEFINE i == Len(s)
                 j == Len(y)
      <4>2. i \in Nat /\ n = i /\ j = i - n
        BY <1>1, <3>1, <4>1
      <4> HIDE DEF i, j
      <4>3. j = 0
        BY <4>2
      <4> QED BY <4>3 DEF j
    <3> HIDE DEF y
    <3>3. y = <<>>
      BY <1>1, <3>2
    <3> QED BY <3>1, <3>3
  <2> QED BY <2>1, <2>2
<1>4. recv'[e] = recv[e] \o x
  OBVIOUS
<1>5. recv[e] \in Seq(Int)
  BY StreamTypes
<1> HIDE DEF s, x, y
<1>6. recv'[e] \o InHand(e)' = recv[e] \o InHand(e)
  <2>1. (recv[e] \o x) \o y = recv[e] \o (x \o y)
    BY <1>1, <1>5, BytesAssociate
  <2> QED BY <1>1, <1>2, <1>3, <1>4, <2>1
<1>7. Stream(e)' = Stream(e)
  BY <1>6 DEF Stream, Kept
<1> QED BY <1>7 DEF Whole

\* The window through a blocking write.
LEMMA UseFits ==
  ASSUME Typed, NEW e \in Endpoints, Windowed(e), NEW n \in 0 .. Len(thread[e].rest),
         thread[e].pc = "useData", thread[e].rest \in Seq(Int), thread[e].packet \in Packets,
         recv'[e] = recv[e] \o SubSeq(thread[e].rest, 1, n), UsesPart(e, n) \/ UsesAll(e, n),
         HasHeard(e), Fits(e), tcb'[Peer(e)].SND_NXT = tcb[Peer(e)].SND_NXT,
         tcb[e].RCV_NXT + HandLen(e) <= tcb[Peer(e)].SND_NXT
  PROVE  /\ tcb'[e].RCV_NXT + HandLen(e)' = tcb[e].RCV_NXT + HandLen(e)
         /\ Fits(e)'
<1> DEFINE i == Len(thread[e].rest)
           l == HandLen(e)
           w == tcb[e].RCV_WND
           r == tcb[e].RCV_NXT
           m == tcb[Peer(e)].SND_NXT
           k == Len(recv[e])
<1>1. /\ i \in Nat /\ n \in Nat /\ n <= i /\ l \in Nat /\ w \in Nat /\ w < Word /\ Word \in Nat /\ r \in Int
      /\ m \in Int /\ k \in Nat /\ BufSize \in Nat
  <2>1. l \in Nat
    BY HandTypes
  <2>2. Peer(e) \in Endpoints
    BY PeerIsEndpoint
  <2>3. m \in Int
    BY <2>2, BlockTypes
  <2>4. r \in Int /\ k \in Nat /\ BufSize \in Nat /\ Word \in Nat
    BY MeasureTypes
  <2>5. w \in Nat /\ w < Word
    BY <2>4 DEF Windowed
  <2> QED BY <2>1, <2>3, <2>4, <2>5
<1>2. m <= r + w /\ w <= (BufSize - k) + (l - i) /\ r + l <= m
  BY DEF Fits, Room, Put, HandLen
<1>3. Len(recv'[e]) = k + n
  <2> DEFINE b == SubSeq(thread[e].rest, 1, n)
  <2>1. b \in Seq(Int) /\ Len(b) = n
    BY SplitBytes
  <2>2. recv[e] \in Seq(Int) /\ recv'[e] = recv[e] \o b
    BY StreamTypes
  <2> HIDE DEF b
  <2> QED BY <2>1, <2>2, ConcatProperties
<1>4. Room(e)' = BufSize - (k + n)
  BY <1>3 DEF Room
<1>5. CASE UsesPart(e, n)
  <2>1. tcb' = tcb /\ HandLen(e)' = l
    BY <1>5 DEF UsesPart, HandLen
  <2>2. Put(e)' = l - (i - n)
    <3>1. Len(SubSeq(thread[e].rest, n + 1, Len(thread[e].rest))) = i - n
      BY SplitBytes
    <3> QED BY <1>5, <3>1 DEF UsesPart, Put, HandLen
  <2> HIDE DEF i, l, w, r, m, k
  <2>3. w <= (BufSize - (k + n)) + (l - (i - n))
    BY <1>1, <1>2
  <2> QED BY <1>2, <1>4, <2>1, <2>2, <2>3 DEF Fits, w, r, m, l
<1>6. CASE UsesAll(e, n)
  <2>1. /\ n = i /\ HandLen(e)' = 0 /\ Put(e)' = 0
        /\ tcb'[e].RCV_NXT = r + l /\ tcb'[e].RCV_WND = (w - l) % Word
    BY <1>6 DEF UsesAll, HandLen, Put
  <2>2. tcb'[Peer(e)].SND_NXT = m
    OBVIOUS
  <2> DEFINE rr == tcb'[e].RCV_NXT
             ww == tcb'[e].RCV_WND
             mm == tcb'[Peer(e)].SND_NXT
  <2>3. rr = r + l /\ ww = (w - l) % Word /\ mm = m
    BY <2>1, <2>2
  <2> HIDE DEF i, l, w, r, m, k, rr, ww, mm
  <2>4. w - l \in Nat /\ w - l < Word
    <3>1. l <= w
      BY <1>1, <1>2
    <3>2. w \in Nat /\ l \in Nat /\ w < Word /\ Word \in Nat
      BY <1>1
    <3> QED BY <3>1, <3>2
  <2>5. ww = w - l
    BY <2>3, <2>4, NoWrap
  <2>6. mm <= rr + ww /\ ww <= (BufSize - (k + n)) + 0 /\ rr + 0 = r + l
    BY <1>1, <1>2, <2>1, <2>3, <2>5
  <2> QED BY <1>4, <2>1, <2>6 DEF Fits, rr, ww, mm, r, l
<1> QED BY <1>5, <1>6

\* All that the stream of bytes depends on.
StreamBase == WholeInv /\ WakeInv /\ FlowInv

\* What the invariants say of one endpoint.
LEMMA Grounds ==
  ASSUME StreamBase, NEW e \in Endpoints
  PROVE  /\ Typed /\ CloseIsFinal(e) /\ Phase /\ FINInHand(e) /\ Windowed(e) /\ Accounted(e) /\ Budget(e)
         /\ Ears(e) /\ DataHasACK(e) /\ GhostTypes /\ StreamInv(e) /\ Fresh(e) /\ Awake(e)
         /\ ~Open(e) => thread[e].pc \in {"wait", "after"}
         /\ Peer(e) \in Endpoints /\ Peer(e) # e /\ Peer(Peer(e)) = e
<1>1. Peer(e) \in Endpoints /\ Peer(e) # e /\ Peer(Peer(e)) = e
  BY PeerIsEndpoint, EndpointAssumption DEF Peer, Endpoints
<1>2. FlowInv /\ WakeInv /\ Inv /\ SeqInv /\ \A x \in Endpoints : Measured(x)
  BY DEF StreamBase, WholeInv
<1>3. Numbered(e) /\ Measured(e) /\ Phase
  BY <1>2 DEF SeqInv
<1>4. FINInHand(e) /\ Budget(e) /\ Windowed(e) /\ Accounted(e)
  BY <1>3 DEF Numbered, FINsAtHand, Measured
<1>5. ~Open(e) => thread[e].pc \in {"wait", "after"}
  BY <1>3 DEF Phase
<1>6. Typed /\ CloseIsFinal(e)
  BY <1>2 DEF Inv
<1>7. Ears(e) /\ DataHasACK(e) /\ GhostTypes /\ StreamInv(e)
  BY <1>2 DEF FlowInv
<1> QED BY <1>1, <1>2, <1>3, <1>4, <1>5, <1>6, <1>7 DEF WakeInv

\* Apart from the handshakes no step changes whether an end has heard the other.
LEMMA HeardStays ==
  ASSUME Typed, NEW e \in Endpoints, CloseIsFinal(e), ~Open(e) => thread[e].pc \in {"wait", "after"}, Step(e),
         ~Handshakes(e)
  PROVE  HasHeard(e)' <=> HasHeard(e)
<1>1. CASE Open(e)
  BY <1>1, OpenStays DEF HasHeard
<1>2. CASE ~Open(e)
  <2>1. tcp_state'[e] = tcp_state[e] /\ (Unconnected(e)' <=> Unconnected(e))
    BY <1>2, EarlyKeeps
  <2> QED BY <2>1 DEF HasHeard, Open
<1> QED BY <1>1, <1>2

\* What the other end contributes to the stream stays as it is.
LEMMA OwnStep ==
  ASSUME StreamBase, NEW e \in Endpoints, Step(e), Intact(e)'
  PROVE  /\ "recv" \notin shut[e] /\ "recv" \notin shut'[e]
         /\ InOrder(e) /\ Fits(e) /\ Whole(e)
         /\ tcb'[Peer(e)] = tcb[Peer(e)] /\ send'[Peer(e)] = send[Peer(e)] /\ sent'[Peer(e)] = sent[Peer(e)]
<1>1. /\ Typed /\ CloseIsFinal(e) /\ Phase /\ FINInHand(e) /\ GhostTypes /\ StreamInv(e)
      /\ Peer(e) \in Endpoints /\ Peer(e) # e
  BY Grounds
<1>2. shut[e] \subseteq shut'[e]
  BY <1>1, ShutGrows
<1>3. overran'[Peer(e)] = overran[Peer(e)]
  BY <1>1, GhostStep
<1>4. Intact(e) /\ "recv" \notin shut[e] /\ "recv" \notin shut'[e]
  BY <1>2, <1>3 DEF Intact
<1>5. tcb'[Peer(e)] = tcb[Peer(e)] /\ send'[Peer(e)] = send[Peer(e)] /\ sent'[Peer(e)] = sent[Peer(e)]
  BY <1>1, OtherBlock, OtherBuffers
<1> QED BY <1>1, <1>4, <1>5 DEF StreamInv

\* The packet that is fetched is the next one, and all of it fits between what has been received
\* and what has been sent.
LEMMA NextPacket ==
  ASSUME Typed, NEW e \in Endpoints, Fetched(e), thread[e].pc # "useData", HasHeard(e), InOrder(e), Budget(e),
         "recv" \notin shut[e]
  PROVE  /\ Head(pending[e]) \in Packets /\ Head(pending[e]) \in Toward(e)
         /\ Len(Head(pending[e]).data) \in Nat
         /\ Head(pending[e]).seq = tcb[e].RCV_NXT
         /\ tcb[e].RCV_NXT + Len(Head(pending[e]).data) <= tcb[Peer(e)].SND_NXT
<1> DEFINE q == pending[e]
           r == net[e]
           n == tcb[e].RCV_NXT
           m == tcb[Peer(e)].SND_NXT
           l == Len(Head(q).data)
<1>1. n \in Int /\ m \in Int /\ q \in Seq(Packets) /\ r \in Seq(Packets) /\ HandLen(e) = 0 /\ q # <<>>
  <2>1. Peer(e) \in Endpoints
    BY PeerIsEndpoint
  <2> QED BY <2>1, BlockTypes, StreamTypes DEF HandLen, Fetched
<1>2. Head(q) \in Packets /\ Head(q) \in Toward(e)
  BY FetchEffect
<1>3. l \in Nat
  BY <1>2 DEF Packets
<1>4. n + 0 = n /\ m - n - 0 = m - n
  BY <1>1
<1>5. Chain(q \o r, n, m)
  BY <1>1, <1>4 DEF InOrder, Coming
<1>6. q \o r \in Seq(Packets) /\ q \o r # <<>> /\ Head(q \o r) = Head(q)
  BY <1>1, ComingMoves
<1>7. Head(q).seq = n
  <2> DEFINE c == q \o r
  <2>1. c \in Seq(Packets) /\ c # <<>> /\ Head(c) = Head(q) /\ Chain(c, n, m)
    BY <1>5, <1>6
  <2> HIDE DEF c, n, m
  <2>2. Head(c).seq = n
    BY <1>1, <2>1, ChainTail
  <2> QED BY <2>1, <2>2
<1>8. Load(e, m - n)
  BY <1>1, <1>4 DEF Budget
<1>9. CarryAtMost(net'[e], pending'[e], withheld'[e], (m - n) - l)
  <2>1. m - n \in Int
    BY <1>1
  <2> QED BY <1>8, <2>1, FetchEffect
<1> HIDE DEF n, m, l
<1>10. n + l <= m
  <2>1. (m - n) - l \in Int
    BY <1>1, <1>3
  <2> DEFINE k == (m - n) - l
  <2> HIDE DEF k
  <2>2. k \in Int /\ CarryAtMost(net'[e], pending'[e], withheld'[e], k)
    BY <1>9, <2>1 DEF k
  <2>3. k >= 0
    BY <2>2, CarryMore
  <2> QED BY <1>1, <1>3, <2>3 DEF k
<1> QED BY <1>2, <1>3, <1>7, <1>10 DEF n, m, l

\* What has been received and is on its way stays inside a sequence number's width.
LEMMA NoWindowWraps ==
  ASSUME StreamBase, NEW e \in Endpoints, HasHeard(e), Fits(e), thread[e].pc # "useData"
  PROVE  /\ tcb[e].RCV_NXT \in Nat /\ tcb[e].RCV_WND \in Nat
         /\ (tcb[e].RCV_NXT + tcb[e].RCV_WND) % Word = tcb[e].RCV_NXT + tcb[e].RCV_WND
<1> DEFINE d == Peer(e)
           n == tcb[e].RCV_NXT
           w == tcb[e].RCV_WND
           m == tcb[d].SND_NXT
           k == Len(recv[e])
<1>1. Typed /\ d \in Endpoints /\ Windowed(e) /\ Budget(e) /\ Accounted(d)
  BY Grounds
<1>2. /\ n \in Int /\ w \in Nat /\ m \in Int /\ k \in Nat /\ BufSize \in Nat /\ Word \in Nat
      /\ n >= 0 /\ n <= m /\ w <= (BufSize - k) + 0
  <2>1. n \in Int /\ k \in Nat /\ BufSize \in Nat /\ Word \in Nat
    BY <1>1, MeasureTypes
  <2>2. m \in Int
    BY <1>1, MeasureTypes
  <2>3. w \in Nat
    BY <1>1, <2>1 DEF Windowed
  <2>4. n >= 0 /\ n <= m
    BY <1>1 DEF Budget
  <2>5. w <= (BufSize - k) + 0
    BY DEF Fits, Room, Put
  <2> QED BY <2>1, <2>2, <2>3, <2>4, <2>5
<1>3. m + BufSize < Word
  <2>1. CASE Begun(d)
    <3> DEFINE i == tcb[d].ISS
               j == Len(send[d])
               s == sent[d]
    <3>1. i \in ISNs /\ m + j = i + 1 + s /\ s <= MaxBytes
      BY <1>1, <2>1 DEF Accounted
    <3>2. j \in Nat /\ s \in Int /\ MaxBytes \in Nat
      BY <1>1, MeasureTypes
    <3>3. i \in Nat /\ i + 1 + MaxBytes + BufSize < Word
      BY <3>1, SizeAssumption
    <3> HIDE DEF i, j, s, m
    <3> QED BY <1>2, <3>1, <3>2, <3>3
  <2>2. CASE ~Begun(d)
    <3>1. m = 0
      BY <1>1, <2>2 DEF Accounted
    <3> QED BY <3>1, SizeAssumption
  <2> QED BY <2>1, <2>2
<1> HIDE DEF n, w, m, k
<1>4. n + w \in Nat /\ n + w < Word /\ n \in Nat
  BY <1>2, <1>3
<1>5. (n + w) % Word = n + w
  BY <1>4, NoWrap
<1> QED BY <1>2, <1>4, <1>5 DEF n, w

\* A packet with a payload is acceptable.
LEMMA DataIsAccepted ==
  ASSUME StreamBase, NEW e \in Endpoints, HasHeard(e), InOrder(e), Fits(e), thread[e].pc # "useData",
         "recv" \notin shut[e], Fetched(e), Head(pending[e]).data # <<>>
  PROVE  acceptability_test(e, Head(pending[e]))
<1> DEFINE p == Head(pending[e])
           n == tcb[e].RCV_NXT
           w == tcb[e].RCV_WND
           m == tcb[Peer(e)].SND_NXT
           l == Len(p.data)
<1>1. Typed /\ Budget(e) /\ Peer(e) \in Endpoints
  BY Grounds
<1>2. p \in Packets /\ l \in Nat /\ p.seq = n /\ n + l <= m
  BY <1>1, NextPacket
<1>3. n \in Nat /\ w \in Nat /\ (n + w) % Word = n + w
  BY NoWindowWraps
<1>4. m \in Int
  BY <1>1, BlockTypes
<1>5. l # 0
  <2>1. p.data \in Seq(Int)
    BY <1>2 DEF Packets
  <2> HIDE DEF p
  <2> QED BY <2>1 DEF p
<1>6. m <= n + w
  BY DEF Fits
<1>7. SEG_LEN(p) # 0
  <2>1. SEG_LEN(p) = l + (IF p.syn THEN 1 ELSE 0) + (IF p.fin THEN 1 ELSE 0)
    BY DEF SEG_LEN
  <2> DEFINE i == IF p.syn THEN 1 ELSE 0
             j == IF p.fin THEN 1 ELSE 0
  <2>2. i \in Nat /\ j \in Nat
    OBVIOUS
  <2>3. SEG_LEN(p) = l + i + j
    BY <2>1
  <2> HIDE DEF i, j, l
  <2> QED BY <1>2, <1>5, <2>2, <2>3
<1>8. w > 0 /\ n <= n /\ n < n + w
  <2> HIDE DEF n, w, m, l
  <2> QED BY <1>2, <1>3, <1>4, <1>5, <1>6
<1> HIDE DEF p
<1>9. acceptability_test(e, p)
  BY <1>2, <1>3, <1>7, <1>8 DEF acceptability_test
<1> QED BY <1>9 DEF p

\* A step that receives no payload and leaves the window as it is.
LEMMA StreamSettles ==
  ASSUME StreamBase, Typed', NEW e \in Endpoints, Step(e), Intact(e)', Passed(e),
         recv'[e] = recv[e], taken'[e] = taken[e], InHand(e)' = InHand(e), HandLen(e)' = HandLen(e),
         Put(e)' = Put(e), HasHeard(e)' => HasHeard(e),
         tcb'[e].RCV_NXT = tcb[e].RCV_NXT, tcb'[e].RCV_WND = tcb[e].RCV_WND
  PROVE  InOrder(e)' /\ Fits(e)' /\ Whole(e)'
<1>1. /\ InOrder(e) /\ Fits(e) /\ Whole(e) /\ Typed
      /\ tcb'[Peer(e)] = tcb[Peer(e)] /\ send'[Peer(e)] = send[Peer(e)] /\ sent'[Peer(e)] = sent[Peer(e)]
  BY OwnStep, Grounds
<1>2. Whole(e)'
  BY <1>1, WholeStays
<1>3. Fits(e)'
  BY <1>1 DEF Fits, Room
<1>4. CASE Kept(e) \/ Joined(e)
  BY <1>1, <1>2, <1>3, <1>4, OrderStays
<1>5. CASE Blank(e)
  <2> DEFINE n == tcb[e].RCV_NXT + HandLen(e)
  <2>1. n \in Int
    <3>1. tcb[e].RCV_NXT \in Int /\ HandLen(e) \in Nat
      BY <1>1, BlockTypes, HandTypes
    <3> QED BY <3>1
  <2>2. tcb'[e].RCV_NXT + HandLen(e)' = n /\ Len(Head(pending[e]).data) = 0 /\ Fetched(e)
    BY <1>5 DEF Blank
  <2> HIDE DEF n
  <2>3. tcb'[e].RCV_NXT + HandLen(e)' = n + Len(Head(pending[e]).data)
    BY <2>1, <2>2
  <2> QED BY <1>1, <1>2, <1>3, <2>2, <2>3, OrderStays DEF n
<1> QED BY <1>4, <1>5 DEF Passed

\* The steps of the receiving end that fetch nothing, receive nothing and leave the window.
LEMMA QuietStream ==
  ASSUME StreamBase, Typed', NEW e \in Endpoints, LetsPass(e), Step(e), Intact(e)', ~Handshakes(e),
         ~RejectPacket(e), ~AcceptPacket(e), ~LastAcked(e), ~use_data(e), ~always_on_fb(e), ~Receive(e),
         ~RecvTake(e)
  PROVE  InOrder(e)' /\ Fits(e)' /\ Whole(e)'
<1>1. Typed /\ CloseIsFinal(e) /\ (~Open(e) => thread[e].pc \in {"wait", "after"})
  BY Grounds
<1>2. Passed(e)
  <2>1. ASSUME NEW r \in DebugResponses(e), Enqueue(e, r) PROVE Joined(e)
    <3>1. r = "NONE"
      BY DEF LetsPass
    <3>2. pending'[e] = Append(pending[e], Head(net[e])) /\ Queued(e)
      BY <1>1, <2>1, <3>1, EnqueueMoves
    <3> QED BY <3>2 DEF Joined, Queued
  <2> QED BY <1>1, <2>1, QuietQueues DEF Passed
<1>3. InHand(e)' = InHand(e) /\ HandLen(e)' = HandLen(e) /\ Put(e)' = Put(e)
  BY <1>1, HandSteady
<1>4. tcb'[e].RCV_NXT = tcb[e].RCV_NXT /\ tcb'[e].RCV_WND = tcb[e].RCV_WND
  BY <1>1, WindowSteady
<1>5. HasHeard(e)' => HasHeard(e)
  BY <1>1, HeardStays
<1>6. recv'[e] = recv[e] /\ taken'[e] = taken[e]
  BY QuietBuffers
<1> QED BY <1>2, <1>3, <1>4, <1>5, <1>6, StreamSettles

\* A packet is only rejected if it carries nothing.
LEMMA RejectStream ==
  ASSUME StreamBase, Typed', NEW e \in Endpoints, Step(e), Intact(e)', RejectPacket(e)
  PROVE  InOrder(e)' /\ Fits(e)' /\ Whole(e)'
<1>1. /\ Typed /\ CloseIsFinal(e) /\ (~Open(e) => thread[e].pc \in {"wait", "after"})
      /\ Peer(e) \in Endpoints /\ Peer(e) # e
  BY Grounds
<1>2. /\ thread[e].pc = "arrival" /\ pending[e] # <<>> /\ ~acceptability_test(e, Head(pending[e]))
      /\ tcb' = tcb /\ recv' = recv /\ thread'[e].pc = "after"
      /\ pending' = [pending EXCEPT ![e] = Tail(@)] /\ withheld' = withheld
      /\ Transmit(e, ACK(tcb[e])) /\ ~Handshakes(e) /\ taken' = taken
  <2>1. /\ thread[e].pc = "arrival" /\ pending[e] # <<>> /\ ~acceptability_test(e, Head(pending[e]))
        /\ tcb' = tcb /\ recv' = recv /\ thread'[e].pc = "after"
        /\ pending' = [pending EXCEPT ![e] = Tail(@)] /\ withheld' = withheld
        /\ Transmit(e, ACK(tcb[e])) /\ taken' = taken
    BY <1>1 DEF RejectPacket, InArrival, MoreToProcess, Goto, Fetch, tcpVars, requests, Typed
  <2>2. Open(e)
    BY <1>1, <2>1
  <2> QED BY <1>1, <2>1, <2>2, OpenStays
<1>3. Open(e) /\ HasHeard(e)
  BY <1>1, <1>2 DEF HasHeard
<1>4. Fetched(e)
  <2>1. net'[e] = net[e]
    BY <1>1, <1>2 DEF Transmit, Typed
  <2> QED BY <1>2, <2>1 DEF Fetched, Typed
<1>5. "recv" \notin shut[e] /\ InOrder(e) /\ Fits(e)
  BY OwnStep
<1>6. Blank(e)
  BY <1>2, <1>3, <1>4, <1>5, DataIsAccepted DEF Blank
<1>7. InHand(e)' = InHand(e) /\ HandLen(e)' = HandLen(e) /\ Put(e)' = Put(e)
  BY <1>2 DEF InHand, HandLen, Put
<1> QED BY <1>2, <1>3, <1>6, <1>7, StreamSettles DEF Passed

\* A packet that is accepted gives its payload into the thread's hand, if it has one.
LEMMA AcceptMoves ==
  ASSUME StreamBase, NEW e \in Endpoints, Step(e), "recv" \notin shut[e], AcceptPacket(e)
  PROVE  /\ Fetched(e) /\ Open(e) /\ thread[e].pc = "arrival" /\ recv' = recv /\ taken' = taken
         /\ tcb'[e].RCV_NXT = tcb[e].RCV_NXT /\ tcb'[e].RCV_WND = tcb[e].RCV_WND
         /\ thread'[e].packet = Head(pending[e]) /\ thread'[e].rest = Head(pending[e]).data
         /\ thread'[e].pc = "useData" <=> Head(pending[e]).data # <<>>
<1> DEFINE p == Head(pending[e])
           h == thread[e].handler
<1>1. /\ Typed /\ CloseIsFinal(e) /\ Phase /\ (~Open(e) => thread[e].pc \in {"wait", "after"})
      /\ Ears(e) /\ DataHasACK(e)
  BY Grounds
<1>2. /\ thread[e].pc = "arrival" /\ pending[e] # <<>> /\ recv' = recv /\ net' = net /\ withheld' = withheld
      /\ pending' = [pending EXCEPT ![e] = Tail(@)] /\ taken' = taken
      /\ thread' = [thread EXCEPT ![e] = [pc |-> Next_pc(h, p), handler |-> h, packet |-> p, rest |-> p.data]]
  BY DEF AcceptPacket, InArrival, MoreToProcess, Fetch, requests
<1>3. Open(e) /\ ~Handshakes(e)
  BY <1>1, <1>2, OpenStays
<1>4. Fetched(e)
  BY <1>1, <1>2 DEF Fetched, Typed
<1>5. tcb'[e].RCV_NXT = tcb[e].RCV_NXT /\ tcb'[e].RCV_WND = tcb[e].RCV_WND
  <2>1. ~use_data(e) /\ ~always_on_fb(e) /\ ~Receive(e)
    BY <1>2, Taking DEF use_data, always_on_fb, Receive
  <2> QED BY <1>1, <1>3, <2>1, WindowSteady
<1>6. p \in Toward(e) /\ p \in Packets
  BY <1>1, <1>4, FetchEffect
<1>7. p.data # <<>> => p.ack
  BY <1>1, <1>6 DEF DataHasACK
<1>8. ~p.syn
  BY <1>1, <1>3, <1>6, StageOf DEF Plain
<1>9. h \in ReceivingStates
  BY <1>1, <1>2 DEF Ears
<1> HIDE DEF p, h
<1>10. thread'[e].packet = p /\ thread'[e].rest = p.data /\ thread'[e].pc = Next_pc(h, p)
  BY <1>1, <1>2 DEF Typed
<1>11. Next_pc(h, p) = "useData" <=> p.data # <<>>
  BY <1>7, <1>8, <1>9 DEF Next_pc
<1> QED BY <1>2, <1>3, <1>4, <1>5, <1>10, <1>11 DEF p

\* A packet that is accepted goes from the queue into the thread's hands, with its bytes.
LEMMA AcceptStream ==
  ASSUME StreamBase, Typed', NEW e \in Endpoints, Step(e), Intact(e)', AcceptPacket(e)
  PROVE  InOrder(e)' /\ Fits(e)' /\ Whole(e)'
<1> DEFINE p == Head(pending[e])
<1>1. /\ Typed /\ CloseIsFinal(e) /\ Budget(e) /\ (~Open(e) => thread[e].pc \in {"wait", "after"})
  BY Grounds
<1>2. /\ "recv" \notin shut[e] /\ InOrder(e) /\ Fits(e) /\ Whole(e)
      /\ tcb'[Peer(e)] = tcb[Peer(e)] /\ send'[Peer(e)] = send[Peer(e)] /\ sent'[Peer(e)] = sent[Peer(e)]
  BY OwnStep
<1>3. /\ Fetched(e) /\ Open(e) /\ thread[e].pc = "arrival" /\ recv' = recv /\ taken' = taken
      /\ tcb'[e].RCV_NXT = tcb[e].RCV_NXT /\ tcb'[e].RCV_WND = tcb[e].RCV_WND
      /\ thread'[e].packet = p /\ thread'[e].rest = p.data
      /\ thread'[e].pc = "useData" <=> p.data # <<>>
  BY <1>2, AcceptMoves
<1>4. HasHeard(e) /\ InHand(e) = <<>> /\ HandLen(e) = 0 /\ Put(e) = 0
  BY <1>3 DEF HasHeard, InHand, HandLen, Put
<1>5. CASE p.data = <<>>
  <2>1. Blank(e)
    BY <1>3, <1>5 DEF Blank
  <2>2. InHand(e)' = <<>> /\ HandLen(e)' = 0 /\ Put(e)' = 0
    BY <1>3, <1>5 DEF InHand, HandLen, Put
  <2> QED BY <1>3, <1>4, <2>1, <2>2, StreamSettles DEF Passed
<1>6. CASE p.data # <<>>
  <2>1. p \in Packets
    BY <1>1, <1>3, FetchEffect
  <2> DEFINE l == Len(p.data)
  <2>2. l \in Nat /\ p.data \in Seq(Int)
    BY <2>1 DEF Packets
  <2>3. InHand(e)' = p.data /\ HandLen(e)' = l /\ Put(e)' = l - l
    BY <1>3, <1>6 DEF InHand, HandLen, Put
  <2>4. tcb[e].RCV_NXT \in Int
    BY <1>1, BlockTypes
  <2>5. InOrder(e)'
    <3> HIDE DEF p
    <3>1. tcb'[e].RCV_NXT + HandLen(e)' = tcb[e].RCV_NXT + HandLen(e) + Len(p.data)
      <4> DEFINE n == tcb[e].RCV_NXT
      <4> HIDE DEF l, n
      <4>1. n + l = n + 0 + l
        BY <2>2, <2>4 DEF n
      <4> QED BY <1>3, <1>4, <2>3, <4>1 DEF n, l
    <3> QED BY <1>1, <1>2, <1>3, <1>4, <3>1, OrderStays DEF p
  <2>6. Fits(e)'
    <3> HIDE DEF l
    <3>1. Put(e)' = 0
      BY <2>2, <2>3
    <3> QED BY <1>2, <1>3, <1>4, <3>1 DEF Fits, Room
  <2>7. Whole(e)'
    <3> DEFINE s == recv[e]
               t == Payload(Tail(pending[e]))
               a == Payload(pending[e])
    <3>1. s \in Seq(Int) /\ pending[e] \in Seq(Packets) /\ pending[e] # <<>>
      BY <1>1, <1>3, StreamTypes DEF Fetched
    <3>2. a = p.data \o t
      BY <3>1, PayloadHead
    <3>3. t \in Seq(Int)
      <4>1. Tail(pending[e]) \in Seq(Packets)
        BY <3>1
      <4> QED BY <4>1, PayloadTypes
    <3>4. Stream(e) = (((s \o <<>>) \o a) \o Payload(net[e])) \o send[Peer(e)]
      BY <1>4 DEF Stream
    <3>5. Stream(e)' = (((s \o p.data) \o t) \o Payload(net[e])) \o send[Peer(e)]
      BY <1>2, <1>3, <2>3 DEF Stream, Fetched
    <3> HIDE DEF s, t, a, p
    <3>6. s \o <<>> = s
      BY <3>1
    <3>7. (s \o p.data) \o t = s \o a
      BY <2>2, <3>1, <3>2, <3>3, BytesAssociate
    <3>8. Stream(e)' = Stream(e)
      BY <3>4, <3>5, <3>6, <3>7
    <3> QED BY <1>2, <1>3, <3>8 DEF Whole
  <2> QED BY <2>5, <2>6, <2>7
<1> QED BY <1>5, <1>6

\* The blocking write.
LEMMA UseStream ==
  ASSUME StreamBase, NEW e \in Endpoints, Step(e), Intact(e)', use_data(e)
  PROVE  InOrder(e)' /\ Fits(e)' /\ Whole(e)'
<1>1. /\ Typed /\ CloseIsFinal(e) /\ Budget(e) /\ Windowed(e) /\ (~Open(e) => thread[e].pc \in {"wait", "after"})
      /\ Peer(e) \in Endpoints /\ Peer(e) # e
  BY Grounds
<1>2. /\ "recv" \notin shut[e] /\ InOrder(e) /\ Fits(e) /\ Whole(e)
      /\ tcb'[Peer(e)] = tcb[Peer(e)] /\ send'[Peer(e)] = send[Peer(e)] /\ sent'[Peer(e)] = sent[Peer(e)]
  BY OwnStep
<1>3. /\ thread[e].pc = "useData" /\ thread[e].rest \in Seq(Int) /\ thread[e].packet \in Packets
      /\ \E n \in 0 .. Len(thread[e].rest) :
           /\ recv'[e] = recv[e] \o SubSeq(thread[e].rest, 1, n)
           /\ UsesPart(e, n) \/ UsesAll(e, n)
  BY <1>1, <1>2, UseMoves
<1>4. PICK n \in 0 .. Len(thread[e].rest) :
        /\ recv'[e] = recv[e] \o SubSeq(thread[e].rest, 1, n)
        /\ UsesPart(e, n) \/ UsesAll(e, n)
  BY <1>3
<1>5. Open(e) /\ HasHeard(e) /\ ~Handshakes(e)
  BY <1>1, <1>3, OpenStays DEF HasHeard
<1>6. Kept(e) /\ taken' = taken
  <2>1. net'[e] = net[e]
    BY <1>1 DEF use_data, Written, Transmit, Typed
  <2> QED BY <2>1 DEF use_data, Kept, requests
<1>7. tcb[e].RCV_NXT + HandLen(e) <= tcb[Peer(e)].SND_NXT
  <2> DEFINE k == tcb[Peer(e)].SND_NXT - tcb[e].RCV_NXT - HandLen(e)
  <2>1. tcb[e].RCV_NXT \in Int /\ tcb[Peer(e)].SND_NXT \in Int /\ HandLen(e) \in Nat
    BY <1>1, BlockTypes, HandTypes
  <2>2. k \in Int /\ Load(e, k)
    BY <1>1, <1>2, <2>1 DEF Budget
  <2> HIDE DEF k
  <2>3. k >= 0
    BY <2>2, CarryMore DEF Load
  <2> QED BY <2>1, <2>3 DEF k
<1>8. Whole(e)'
  BY <1>1, <1>2, <1>3, <1>4, <1>6, UseWhole
<1>9. Fits(e)' /\ tcb'[e].RCV_NXT + HandLen(e)' = tcb[e].RCV_NXT + HandLen(e)
  BY <1>1, <1>2, <1>3, <1>4, <1>5, <1>7, UseFits
<1>10. InOrder(e)'
  BY <1>2, <1>5, <1>6, <1>9 DEF InOrder, Coming, Kept
<1> QED BY <1>8, <1>9, <1>10

\* APPLICATION_RECEIVE opens the window as far as there is room.
LEMMA ReceiveStream ==
  ASSUME StreamBase, Typed', NEW e \in Endpoints, Step(e), Intact(e)', Receive(e)
  PROVE  InOrder(e)' /\ Fits(e)' /\ Whole(e)'
<1>1. Typed /\ Windowed(e) /\ Peer(e) \in Endpoints
  BY Grounds
<1>2. /\ InOrder(e) /\ Fits(e) /\ Whole(e)
      /\ tcb'[Peer(e)] = tcb[Peer(e)] /\ send'[Peer(e)] = send[Peer(e)] /\ sent'[Peer(e)] = sent[Peer(e)]
  BY OwnStep
<1>3. /\ thread[e].pc = "wait" /\ thread' = thread /\ recv' = recv /\ taken' = taken
      /\ pending' = pending /\ net' = net /\ withheld' = withheld
      /\ tcb'[e].RCV_NXT = tcb[e].RCV_NXT /\ tcb'[e].RCV_WND = Room(e)
  <2>1. tcb \in [Endpoints -> ControlBlocks]
    BY <1>1 DEF Typed
  <2>2. tcb' = [tcb EXCEPT ![e] = [tcb[e] EXCEPT !.RCV_WND = Room(e)]]
    BY DEF Receive
  <2>3. tcb'[e].RCV_NXT = tcb[e].RCV_NXT /\ tcb'[e].RCV_WND = Room(e)
    BY <2>1, <2>2 DEF ControlBlocks
  <2> QED BY <2>3, Taking DEF Receive, queues, requests
<1>4. Open(e)
  BY <1>1, Taking, FlagNames DEF Receive, Open, Early, Unconnected
<1>5. HasHeard(e)
  BY <1>4 DEF HasHeard
<1>6. Passed(e) /\ Kept(e)
  BY <1>3 DEF Passed, Kept
<1>7. InHand(e)' = InHand(e) /\ HandLen(e)' = HandLen(e) /\ HandLen(e) = 0 /\ Put(e)' = 0 /\ Put(e) = 0
  BY <1>3 DEF InHand, HandLen, Put
<1>8. Whole(e)'
  BY <1>1, <1>2, <1>3, <1>6, <1>7, WholeStays
<1>9. InOrder(e)'
  BY <1>1, <1>2, <1>3, <1>5, <1>6, <1>7, OrderStays
<1>10. Fits(e)'
  <2> DEFINE m == tcb[Peer(e)].SND_NXT
             r == tcb[e].RCV_NXT
             w == tcb[e].RCV_WND
             k == Room(e)
  <2>1. m \in Int /\ r \in Int /\ w \in Int /\ k \in Int
    BY <1>1, BlockTypes, RoomFits
  <2>2. m <= r + w /\ w <= k + 0
    BY <1>2, <1>5, <1>7 DEF Fits
  <2>3. Room(e)' = k
    BY <1>3 DEF Room
  <2>4. tcb'[Peer(e)].SND_NXT = m /\ tcb'[e].RCV_NXT = r /\ tcb'[e].RCV_WND = k
    BY <1>2, <1>3
  <2> HIDE DEF m, r, w, k
  <2>5. m <= r + k /\ k <= k + 0
    BY <2>1, <2>2
  <2> QED BY <1>7, <2>3, <2>4, <2>5 DEF Fits
<1> QED BY <1>8, <1>9, <1>10

\* RECV takes the first bytes of the receive buffer.
LEMMA TakeMoves ==
  ASSUME Typed, GhostTypes, NEW e \in Endpoints, RecvTake(e), "recv" \notin shut[e]
  PROVE  \E n \in 0 .. Len(recv[e]) :
           recv'[e] = SubSeq(recv[e], n + 1, Len(recv[e])) /\ taken'[e] = taken[e] + n
<1> DEFINE n == MIN(reader[e].left, Len(recv[e]))
<1>1. recv' = [recv EXCEPT ![e] = SubSeq(@, n + 1, Len(@))] /\ taken' = [taken EXCEPT ![e] = @ + n]
  BY DEF RecvTake
<1>2. n \in 0 .. Len(recv[e])
  <2>1. Len(recv[e]) \in Nat /\ reader[e].left \in Nat
    BY DEF Typed
  <2> DEFINE i == Len(recv[e])
             j == reader[e].left
  <2>2. i \in Nat /\ j \in Nat /\ n = MIN(j, i)
    BY <2>1
  <2> HIDE DEF i, j, n
  <2>3. n \in 0 .. i
    BY <2>2, MinIsLeast
  <2> QED BY <2>3 DEF i
<1> HIDE DEF n
<1>3. recv'[e] = SubSeq(recv[e], n + 1, Len(recv[e])) /\ taken'[e] = taken[e] + n
  BY <1>1 DEF Typed, GhostTypes
<1> QED BY <1>2, <1>3

\* RECV takes the first bytes of the stream, which is then one of those from taken on.
LEMMA TakeStream ==
  ASSUME StreamBase, Typed', NEW e \in Endpoints, Step(e), Intact(e)', RecvTake(e)
  PROVE  InOrder(e)' /\ Fits(e)' /\ Whole(e)'
<1>1. /\ Typed /\ GhostTypes /\ Windowed(e) /\ Peer(e) \in Endpoints /\ Accounted(Peer(e))
      /\ CloseIsFinal(e) /\ (~Open(e) => thread[e].pc \in {"wait", "after"})
  BY Grounds
<1>2. /\ "recv" \notin shut[e] /\ InOrder(e) /\ Fits(e) /\ Whole(e)
      /\ tcb'[Peer(e)] = tcb[Peer(e)] /\ send'[Peer(e)] = send[Peer(e)] /\ sent'[Peer(e)] = sent[Peer(e)]
  BY OwnStep
<1>3. PICK n \in 0 .. Len(recv[e]) :
        recv'[e] = SubSeq(recv[e], n + 1, Len(recv[e])) /\ taken'[e] = taken[e] + n
  BY <1>1, <1>2, TakeMoves
<1>4. tcb' = tcb /\ thread' = thread /\ Kept(e) /\ tcp_state' = tcp_state /\ flags' = flags
  BY DEF RecvTake, queues, Kept
<1> DEFINE x == SubSeq(recv[e], 1, n)
           y == SubSeq(recv[e], n + 1, Len(recv[e]))
           i == Len(recv[e])
<1>5. /\ recv[e] \in Seq(Int) /\ x \in Seq(Int) /\ Len(x) = n /\ y \in Seq(Int) /\ Len(y) = i - n
      /\ x \o y = recv[e] /\ i \in Nat /\ n \in 0 .. i
  <2>1. recv[e] \in Seq(Int)
    BY <1>1, StreamTypes
  <2>2. /\ x \in Seq(Int) /\ Len(x) = n /\ y \in Seq(Int) /\ Len(y) = i - n
        /\ x \o y = recv[e]
    BY <2>1, SplitBytes
  <2>3. i \in Nat /\ n \in 0 .. i
    BY <2>1
  <2> HIDE DEF x, y, i
  <2> QED BY <2>1, <2>2, <2>3
<1>6. recv'[e] = y /\ taken'[e] = taken[e] + n
  BY <1>3
<1>7. InHand(e)' = InHand(e) /\ HandLen(e)' = HandLen(e) /\ Put(e)' = Put(e)
  BY <1>4 DEF InHand, HandLen, Put
<1>8. HasHeard(e)' <=> HasHeard(e)
  BY <1>4 DEF HasHeard, Open, Unconnected
<1>9. InOrder(e)'
  BY <1>2, <1>4, <1>7, <1>8 DEF InOrder, Coming, Kept
<1>10. Fits(e)'
  <2> DEFINE w == tcb[e].RCV_WND
             k == Put(e)
             l == Len(y)
  <2>1. w \in Int /\ k \in Int /\ BufSize \in Nat /\ l \in Nat
    <3>1. k \in Int
      <4>1. thread[e].pc = "useData" =>
               Len(thread[e].packet.data) \in Nat /\ Len(thread[e].rest) \in Nat
        BY <1>1, HandTypes DEF AtFIN, InHandler, Packets
      <4> QED BY <4>1 DEF Put
    <3>2. l \in Nat
      <4> HIDE DEF y
      <4> QED BY <1>5
    <3>3. w \in Int
      BY <1>1, BlockTypes
    <3> HIDE DEF w, k, l
    <3> QED BY <3>1, <3>2, <3>3, SizeAssumption
  <2>2. Room(e)' = BufSize - l /\ Room(e) = BufSize - i
    BY <1>6 DEF Room
  <2>3. HasHeard(e) => tcb[Peer(e)].SND_NXT <= tcb[e].RCV_NXT + w /\ w <= (BufSize - i) + k
    BY <1>2, <2>2 DEF Fits
  <2>4. l = i - n
    BY <1>5
  <2> HIDE DEF w, k, l, i, y
  <2>5. w <= (BufSize - i) + k => w <= (BufSize - l) + k
    BY <1>5, <2>1, <2>4
  <2>6. HasHeard(e) => tcb[Peer(e)].SND_NXT <= tcb[e].RCV_NXT + w /\ w <= (BufSize - l) + k
    BY <2>3, <2>5
  <2> QED BY <1>2, <1>4, <1>7, <1>8, <2>2, <2>6 DEF Fits, w, k
<1>11. Whole(e)'
  <2> DEFINE h == InHand(e)
             a == Payload(pending[e])
             b == Payload(net[e])
             c == send[Peer(e)]
             z == (((y \o h) \o a) \o b) \o c
  <2>1. h \in Seq(Int) /\ a \in Seq(Int) /\ b \in Seq(Int) /\ c \in Seq(Int)
    BY <1>1, StreamTypes
  <2>2. Stream(e) = ((((x \o y) \o h) \o a) \o b) \o c
    BY <1>5 DEF Stream
  <2>3. Stream(e)' = z
    BY <1>2, <1>4, <1>6, <1>7 DEF Stream, Kept
  <2> DEFINE s == sent[Peer(e)]
             t == taken[e]
  <2>4. s \in Nat /\ t \in Nat /\ t <= s
    <3>1. s \in Nat
      <4>1. s \in Int /\ s >= 0
        BY <1>1, MeasureTypes DEF Accounted
      <4> QED BY <4>1
    <3> QED BY <1>1, <1>2, <3>1 DEF GhostTypes, Whole
  <2>5. Stream(e) = Numbers(t, s)
    BY <1>2 DEF Whole
  <2> HIDE DEF x, y, h, a, b, c, s, t, i
  <2>6. ((((x \o y) \o h) \o a) \o b) \o c = x \o z /\ z \in Seq(Int)
    <3> DEFINE u == y \o h
               v == u \o a
               w == v \o b
    <3>1. x \in Seq(Int) /\ y \in Seq(Int) /\ h \in Seq(Int)
      BY <1>5, <2>1
    <3>2. a \in Seq(Int)
      BY <2>1
    <3>3. b \in Seq(Int)
      BY <2>1
    <3>4. c \in Seq(Int)
      BY <2>1
    <3>5. x \in Seq(Int)
      BY <3>1
    <3>6. (x \o y) \o h = x \o u
      BY <3>1, BytesAssociate
    <3>7. u \in Seq(Int)
      BY <3>1
    <3> HIDE DEF u
    <3>8. (x \o u) \o a = x \o v
      BY <3>2, <3>5, <3>7, BytesAssociate
    <3>9. v \in Seq(Int)
      BY <3>2, <3>7
    <3> HIDE DEF v
    <3>10. (x \o v) \o b = x \o w
      BY <3>3, <3>5, <3>9, BytesAssociate
    <3>11. w \in Seq(Int)
      BY <3>3, <3>9
    <3> HIDE DEF w
    <3>12. (x \o w) \o c = x \o (w \o c)
      BY <3>4, <3>5, <3>11, BytesAssociate
    <3>13. w \o c \in Seq(Int)
      BY <3>4, <3>11
    <3>14. z = w \o c
      BY DEF u, v, w
    <3> HIDE DEF z
    <3> QED BY <3>6, <3>8, <3>10, <3>12, <3>13, <3>14
  <2>7. x \o z = Numbers(t, s)
    BY <2>2, <2>5, <2>6
  <2> HIDE DEF z
  <2>8. t + n <= s /\ z = Numbers(t + n, s)
    BY <1>5, <2>4, <2>6, <2>7, NumbersShrink
  <2>9. taken'[e] = t + n /\ sent'[Peer(e)] = s
    BY <1>2, <1>6 DEF t, s
  <2> QED BY <2>3, <2>8, <2>9 DEF Whole
<1> QED BY <1>9, <1>10, <1>11

\* The packets of the handshake carry no payload.
LEMMA HandshakeIsBlank ==
  ASSUME StreamBase, NEW e \in Endpoints, Step(e), Handshakes(e), ~Connect(e)
  PROVE  /\ Blank(e) /\ thread[e].pc = "wait" /\ thread'[e].pc = "after"
         /\ ListenArrival(e) => e = Server /\ Asked /\ Head(pending[e]) = SYN(tcb[Client])
         /\ SynSentArrival(e) => e = Client /\ Answered /\ Head(pending[e]) = SYN_ACK(tcb[Server])
<1>1. Typed /\ Phase /\ Peer(e) # e /\ Peer(e) \in Endpoints
  BY Grounds
<1>2. /\ ListenArrival(e) => Arrival(e, "LISTEN")
      /\ SynSentArrival(e) => Arrival(e, "SYN_SENT")
      /\ SynRcvdArrival(e) => Arrival(e, "SYN_RCVD")
      /\ \E s : Arrival(e, s)
  <2>1. /\ ListenArrival(e) => Arrival(e, "LISTEN")
        /\ SynSentArrival(e) => Arrival(e, "SYN_SENT")
        /\ SynRcvdArrival(e) => Arrival(e, "SYN_RCVD")
    BY DEF ListenArrival, SynSentArrival, SynRcvdArrival
  <2> QED BY <2>1 DEF Handshakes
<1> PICK s : Arrival(e, s)
  BY <1>2
<1>3. /\ tcp_state[e] = s /\ thread[e].pc = "wait" /\ thread'[e].pc = "after"
      /\ pending[e] # <<>> /\ pending'[e] = Tail(pending[e]) /\ withheld'[e] = withheld[e]
      /\ ~Unconnected(e)
      /\ ListenArrival(e) => tcp_state[e] = "LISTEN"
      /\ SynSentArrival(e) => tcp_state[e] = "SYN_SENT"
  BY <1>1, <1>2, Arrived
<1>4. net'[e] = net[e]
  BY <1>1 DEF Handshakes, ListenArrival, SynRcvdArrival, SynSentArrival, Transmit, Typed
<1>5. Fetched(e)
  BY <1>3, <1>4 DEF Fetched
<1> DEFINE p == Head(pending[e])
<1>6. p \in Toward(e) /\ Count(e) # 0
  BY <1>1, <1>5, FetchEffect
<1>7. ListenArrival(e) => e = Server /\ Asked /\ p = SYN(tcb[Client])
  <2> SUFFICES ASSUME ListenArrival(e) PROVE e = Server /\ Asked /\ p = SYN(tcb[Client])
    OBVIOUS
  <2>1. e = Server /\ (Unasked \/ Asked)
    BY <1>1, <1>3, StageOf
  <2> HIDE DEF p
  <2> QED BY <1>6, <2>1 DEF Unasked, Asked
<1>8. SynSentArrival(e) => e = Client /\ Answered /\ p = SYN_ACK(tcb[Server])
  <2> SUFFICES ASSUME SynSentArrival(e) PROVE e = Client /\ Answered /\ p = SYN_ACK(tcb[Server])
    OBVIOUS
  <2>1. e = Client /\ (Asked \/ Answered)
    BY <1>1, <1>3, StageOf
  <2> HIDE DEF p
  <2> QED BY <1>6, <2>1 DEF Asked, Answered
<1>9. p.data = <<>>
  <2>1. CASE ListenArrival(e)
    BY <1>7, <2>1 DEF SYN, Packet
  <2>2. CASE SynSentArrival(e)
    BY <1>8, <2>2 DEF SYN_ACK, Packet
  <2>3. CASE SynRcvdArrival(e)
    BY <1>1, <2>3, SynRcvdWake DEF StreamBase, WholeInv, Completes
  <2> QED BY <2>1, <2>2, <2>3 DEF Handshakes
<1> QED BY <1>3, <1>5, <1>7, <1>8, <1>9 DEF Blank

\* An end that has just heard the other: nothing is on its way, and its window is its buffer.
LEMMA JustHeard ==
  ASSUME StreamBase, Typed', NEW e \in Endpoints, Step(e), ListenArrival(e) \/ SynSentArrival(e), Blank(e)
  PROVE  /\ Coming(e)' = <<>> /\ tcb'[e].RCV_NXT = tcb[Peer(e)].SND_NXT
         /\ tcb'[e].RCV_WND = BufSize /\ recv[e] = <<>>
<1>0. /\ Typed /\ Phase /\ Fresh(e) /\ tcb[e] \in ControlBlocks /\ tcb \in [Endpoints -> ControlBlocks]
  BY Grounds DEF Typed
<1> DEFINE p == Head(pending[e])
           d == Peer(e)
<1>1. p \in Packets /\ Count(e) \in Nat \ {0} /\ Count(e)' = Count(e) - 1
  BY <1>0, FetchEffect DEF Blank
<1>2. Count(e) <= 1 => Coming(e)' = <<>>
  <2> SUFFICES ASSUME Count(e) <= 1 PROVE Coming(e)' = <<>>
    OBVIOUS
  <2> DEFINE i == Len(net'[e])
             j == Len(pending'[e])
             k == Len(withheld'[e])
  <2>1. i \in Nat /\ j \in Nat /\ k \in Nat /\ net'[e] \in Seq(Packets) /\ pending'[e] \in Seq(Packets)
    BY DEF Typed
  <2>2. Count(e)' = i + j + k
    BY DEF Count
  <2>3. Count(e)' = 0
    <3> DEFINE c == Count(e)
    <3> HIDE DEF c
    <3>1. c \in Nat \ {0} /\ c <= 1 /\ Count(e)' = c - 1
      BY <1>1 DEF c
    <3>2. c - 1 = 0
      BY <3>1
    <3> QED BY <3>1, <3>2
  <2> HIDE DEF i, j, k
  <2>4. i = 0 /\ j = 0
    BY <2>1, <2>2, <2>3
  <2>5. net'[e] = <<>> /\ pending'[e] = <<>>
    BY <2>1, <2>4, NoElements DEF i, j
  <2> QED BY <2>5 DEF Coming
<1>3. CASE ListenArrival(e)
  <2>1. e = Server /\ Asked /\ p = SYN(tcb[Client]) /\ d = Client
    BY <1>3, HandshakeIsBlank, TwoEnds, Arrived, <1>0 DEF Handshakes, ListenArrival, Connect
  <2>2. p.syn /\ p.seq = tcb[d].ISS /\ tcb[d].SND_NXT = tcb[d].ISS + 1
    BY <2>1 DEF Asked, HasSaidSYN, SYN, Packet
  <2>3. tcp_state[e] = "LISTEN"
    BY <2>1 DEF Asked
  <2>4. recv[e] = <<>>
    BY <1>0, <2>3 DEF Fresh, Open, Early
  <2>5. Room(e) = BufSize
    BY <2>4, SizeAssumption DEF Room
  <2> HIDE DEF p, d
  <2>6. PICK iss \in ISNs :
          tcb' = [tcb EXCEPT ![e] = [tcb[e] EXCEPT !.RCV_NXT = p.seq + 1, !.ISS = iss, !.RCV_WND = Room(e),
                                       !.SND_WND = p.win, !.SND_NXT = iss + 1, !.SND_UNA = iss]]
    BY <1>3, <2>2 DEF ListenArrival, p
  <2>7. tcb'[e].RCV_NXT = p.seq + 1 /\ tcb'[e].RCV_WND = BufSize
    <3>1. tcb'[e] = [tcb[e] EXCEPT !.RCV_NXT = p.seq + 1, !.ISS = iss, !.RCV_WND = Room(e),
                                       !.SND_WND = p.win, !.SND_NXT = iss + 1, !.SND_UNA = iss]
      BY <1>0, <2>6
    <3> QED BY <1>0, <2>5, <3>1 DEF ControlBlocks
  <2>8. Coming(e)' = <<>>
    BY <1>2, <2>1 DEF Asked
  <2> QED BY <2>2, <2>4, <2>7, <2>8 DEF d
<1>4. CASE SynSentArrival(e)
  <2>1. e = Client /\ Answered /\ p = SYN_ACK(tcb[Server]) /\ d = Server
    BY <1>4, HandshakeIsBlank, TwoEnds, Arrived, <1>0 DEF Handshakes, SynSentArrival, Connect
  <2>2. p.syn /\ p.seq = tcb[d].ISS /\ tcb[d].SND_NXT = tcb[d].ISS + 1
    BY <2>1 DEF Answered, HasSaidSYN, SYN_ACK, Packet
  <2>3. tcp_state[e] = "SYN_SENT"
    BY <2>1 DEF Answered
  <2>4. recv[e] = <<>> /\ tcb[e].RCV_WND = BufSize
    BY <1>0, <2>3 DEF Fresh, Open, Early
  <2>5. tcb'[e].RCV_NXT = p.seq + 1 /\ tcb'[e].RCV_WND = BufSize
    <3> DEFINE x == IF p.ack THEN p.win ELSE tcb[e].SND_WND
               y == IF p.ack THEN p.ack_seq ELSE tcb[e].SND_UNA
               t == [tcb[e] EXCEPT !.RCV_NXT = p.seq + 1, !.SND_WND = x, !.SND_UNA = y]
    <3>1. t.RCV_NXT = p.seq + 1 /\ t.RCV_WND = tcb[e].RCV_WND /\ t \in [DOMAIN tcb[e] -> {t[f] : f \in DOMAIN tcb[e]}]
      <4> HIDE DEF x, y, p
      <4> QED BY <1>0 DEF ControlBlocks
    <3>2. tcb'[e] = [t EXCEPT !.SND_UNA = t.SND_NXT]
      <4>1. Open(e)' /\ p.ack
        <5>1. Open(e)'
          BY <1>0, <1>4, SynSentWake DEF StreamBase, WholeInv
        <5> QED BY <2>1, <5>1 DEF SYN_ACK, Packet
      <4>2. tcp_state'[e] \notin {"SYN_SENT", "SYN_RCVD"}
        BY <4>1 DEF Open, Early
      <4>3. tcb' = [tcb EXCEPT ![e] = [t EXCEPT !.SND_UNA = t.SND_NXT]]
        BY <1>0, <1>4, <2>3, <4>2 DEF SynSentArrival, SetState, Typed
      <4> QED BY <1>0, <4>3
    <3> HIDE DEF t
    <3>3. tcb'[e].RCV_NXT = t.RCV_NXT /\ tcb'[e].RCV_WND = t.RCV_WND
      BY <3>1, <3>2
    <3> QED BY <2>4, <3>1, <3>3
  <2>6. Coming(e)' = <<>>
    BY <1>2, <2>1 DEF Answered
  <2> QED BY <2>2, <2>4, <2>5, <2>6
<1> QED BY <1>3, <1>4

\* A SYN opens the stream: nothing has been sent, and nothing is on its way behind it.
LEMMA HandshakeStream ==
  ASSUME StreamBase, Typed', NEW e \in Endpoints, Step(e), Intact(e)', Handshakes(e)
  PROVE  InOrder(e)' /\ Fits(e)' /\ Whole(e)'
<1>1. Typed /\ Phase /\ Peer(e) \in Endpoints /\ Peer(e) # e
  BY Grounds
<1>2. /\ InOrder(e) /\ Fits(e) /\ Whole(e)
      /\ tcb'[Peer(e)] = tcb[Peer(e)] /\ send'[Peer(e)] = send[Peer(e)] /\ sent'[Peer(e)] = sent[Peer(e)]
  BY OwnStep
<1>3. /\ thread[e].pc = "wait" /\ thread'[e].pc \in {"wait", "after"}
      /\ Passed(e)
  <2>1. CASE Connect(e)
    <3>1. thread[e].pc = "wait" /\ thread' = thread
      BY <2>1, Taking DEF Connect
    <3>2. Kept(e)
      BY <1>1, <2>1 DEF Connect, Transmit, Kept, Typed
    <3> QED BY <3>1, <3>2 DEF Passed
  <2>2. CASE ~Connect(e)
    BY <2>2, HandshakeIsBlank DEF Passed
  <2> QED BY <2>1, <2>2
<1>4. InHand(e)' = InHand(e) /\ HandLen(e)' = HandLen(e) /\ HandLen(e) = 0 /\ Put(e)' = 0 /\ Put(e)' = Put(e)
  BY <1>3 DEF InHand, HandLen, Put
<1>5. recv'[e] = recv[e] /\ taken'[e] = taken[e]
  BY <1>3, Taking, QuietBuffers DEF use_data, Handshakes, Connect, ListenArrival, SynRcvdArrival,
     SynSentArrival, Arrival, requests
<1>6. Whole(e)'
  BY <1>1, <1>2, <1>3, <1>4, <1>5, WholeStays
<1>7. CASE Connect(e)
  <2>1. ~HasHeard(e)'
    BY <1>1, <1>7 DEF Connect, SetState, HasHeard, Open, Early, Typed
  <2> QED BY <1>6, <2>1 DEF InOrder, Fits
<1>8. CASE ListenArrival(e) \/ SynSentArrival(e)
  <2>1. Blank(e)
    BY <1>1, <1>8, HandshakeIsBlank DEF Handshakes, Connect, ListenArrival, SynSentArrival, Arrival, Take,
       Flags
  <2>2. /\ Coming(e)' = <<>> /\ tcb'[e].RCV_NXT = tcb[Peer(e)].SND_NXT
        /\ tcb'[e].RCV_WND = BufSize /\ recv[e] = <<>>
    BY <1>8, <2>1, JustHeard
  <2>3. tcb[Peer(e)].SND_NXT \in Int
    BY <1>1, BlockTypes
  <2> DEFINE m == tcb[Peer(e)].SND_NXT
  <2>4. m \in Int /\ tcb'[Peer(e)].SND_NXT = m /\ tcb'[e].RCV_NXT = m
    BY <1>2, <2>2, <2>3
  <2> HIDE DEF m
  <2>5. InOrder(e)'
    <3>1. Chain(<<>>, m, m) /\ m + 0 = m
      BY <2>4 DEF Chain
    <3> QED BY <1>4, <2>2, <2>4, <3>1 DEF InOrder
  <2>6. Fits(e)'
    <3>1. Room(e)' = BufSize /\ BufSize \in Nat
      BY <1>5, <2>2, SizeAssumption DEF Room
    <3>2. m <= m + BufSize /\ BufSize <= BufSize + 0
      BY <2>4, <3>1
    <3> QED BY <1>4, <2>2, <2>4, <3>1, <3>2 DEF Fits
  <2> QED BY <1>6, <2>5, <2>6
<1>9. CASE SynRcvdArrival(e)
  <2>1. tcb'[e].RCV_NXT = tcb[e].RCV_NXT /\ tcb'[e].RCV_WND = tcb[e].RCV_WND
    BY <1>1, <1>9, SynRcvdWake DEF StreamBase, WholeInv
  <2>2. HasHeard(e)
    BY <1>1, <1>9, Arrived DEF SynRcvdArrival, HasHeard
  <2> QED BY <1>3, <1>4, <1>5, <2>1, <2>2, StreamSettles
<1> QED BY <1>7, <1>8, <1>9 DEF Handshakes

\* Every step of the receiving end.
LEMMA ReceiverStep ==
  ASSUME StreamBase, Typed', NEW e \in Endpoints, LetsPass(e), Step(e)
  PROVE  StreamInv(e)'
<1> SUFFICES ASSUME Intact(e)' PROVE InOrder(e)' /\ Fits(e)' /\ Whole(e)'
  BY DEF StreamInv
<1>1. "recv" \notin shut[e] /\ "recv" \notin shut'[e] /\ Ears(e) /\ Typed
  BY OwnStep, Grounds
<1>2. ~always_on_fb(e)
  BY <1>1 DEF always_on_fb, Typed
<1>3. ~LastAcked(e)
  BY <1>1 DEF LastAcked, HearsLastACK, InArrival, Ears, ReceivingStates
<1> QED BY <1>2, <1>3, QuietStream, RejectStream, AcceptStream, UseStream, ReceiveStream, TakeStream,
           HandshakeStream

-----------------------------------------------------------------------------
(* The sending end *)

\* What the receiving end contributes to the stream stays as it is while the other one moves.
LEMMA OtherStep ==
  ASSUME StreamBase, NEW e \in Endpoints, Step(e), NEW d \in Endpoints, d = Peer(e), Intact(d)'
  PROVE  /\ d # e /\ Peer(d) = e /\ Typed
         /\ InOrder(d) /\ Fits(d) /\ Whole(d)
         /\ recv'[d] = recv[d] /\ taken'[d] = taken[d] /\ tcb'[d] = tcb[d] /\ pending'[d] = pending[d]
         /\ InHand(d)' = InHand(d) /\ HandLen(d)' = HandLen(d) /\ Put(d)' = Put(d) /\ Room(d)' = Room(d)
         /\ (HasHeard(d)' <=> HasHeard(d)) /\ ~overran'[e]
<1>1. Typed /\ GhostTypes /\ StreamInv(d)
  BY Grounds
<1>2. /\ d # e /\ Peer(d) = e
      /\ tcp_state'[d] = tcp_state[d] /\ tcb'[d] = tcb[d] /\ shut'[d] = shut[d]
      /\ thread'[d] = thread[d] /\ pending'[d] = pending[d] /\ (Open(d)' <=> Open(d))
  BY <1>1, OtherEnd
<1>3. recv'[d] = recv[d]
  BY <1>1, <1>2, OtherBuffers
<1>4. taken'[d] = taken[d] /\ (overran[e] => overran'[e])
  BY <1>1, <1>2, GhostStep
<1>5. Intact(d) /\ ~overran'[e]
  BY <1>2, <1>4 DEF Intact
<1>6. InHand(d)' = InHand(d) /\ HandLen(d)' = HandLen(d) /\ Put(d)' = Put(d) /\ Room(d)' = Room(d)
  BY <1>2, <1>3 DEF InHand, HandLen, Put, Room
<1> QED BY <1>1, <1>2, <1>3, <1>4, <1>5, <1>6 DEF HasHeard, StreamInv

\* Only a segment takes sequence numbers, apart from the SYNs.
LEMMA NumberSteady ==
  ASSUME Typed, NEW e \in Endpoints, Step(e), ~Handshakes(e), ~SendSegment(e)
  PROVE  tcb'[e].SND_NXT = tcb[e].SND_NXT
<1>0. tcb \in [Endpoints -> ControlBlocks] /\ tcb[e] \in ControlBlocks
  BY DEF Typed
<1>1. CASE ~Talks(e)
  BY <1>1, CalmSteps DEF Calm
<1>2. CASE RejectPacket(e) \/ SendFIN(e)
  BY <1>2 DEF RejectPacket, SendFIN, tcpVars
<1>3. CASE AcceptPacket(e)
  <2> DEFINE p == Head(pending[e])
  <2>1. tcb' = tcb \/ tcb' = [tcb EXCEPT ![e] = update_WND_and_UNA(@, p)]
    BY <1>3 DEF AcceptPacket
  <2> HIDE DEF p
  <2> QED BY <1>0, <2>1 DEF update_WND_and_UNA, ControlBlocks
<1>4. CASE use_data(e)
  <2> DEFINE l == Len(thread[e].packet.data)
  <2>1. tcb' = tcb \/ tcb' = [tcb EXCEPT ![e] = tcb[e]] \/ tcb' = [tcb EXCEPT ![e] = Advance(tcb[e], l)]
    BY <1>4 DEF use_data, Written
  <2> HIDE DEF l
  <2> QED BY <1>0, <2>1 DEF Advance, ControlBlocks
<1>5. CASE always_on_fb(e)
  <2> DEFINE s == thread[e].packet.seq
  <2>1. tcb' = [tcb EXCEPT ![e] = [tcb[e] EXCEPT !.RCV_NXT = s]]
    BY <1>5 DEF always_on_fb
  <2> HIDE DEF s
  <2> QED BY <1>0, <2>1 DEF ControlBlocks
<1> QED BY <1>1, <1>2, <1>3, <1>4, <1>5 DEF Talks

\* A step that says nothing, or something without payload.
LEMMA SilentStream ==
  ASSUME StreamBase, NEW e \in Endpoints, Step(e), NEW d \in Endpoints, d = Peer(e), Intact(d)',
         net'[d] = net[d], HasHeard(d) => tcb'[e].SND_NXT = tcb[e].SND_NXT,
         send'[e] = send[e], sent'[e] = sent[e]
  PROVE  InOrder(d)' /\ Fits(d)' /\ Whole(d)'
<1>1. /\ Peer(d) = e /\ InOrder(d) /\ Fits(d) /\ Whole(d)
      /\ recv'[d] = recv[d] /\ taken'[d] = taken[d] /\ tcb'[d] = tcb[d] /\ pending'[d] = pending[d]
      /\ InHand(d)' = InHand(d) /\ HandLen(d)' = HandLen(d) /\ Put(d)' = Put(d) /\ Room(d)' = Room(d)
      /\ (HasHeard(d)' <=> HasHeard(d))
  BY OtherStep
<1>2. InOrder(d)'
  BY <1>1 DEF InOrder, Coming
<1>3. Fits(d)'
  BY <1>1 DEF Fits
<1>4. Whole(d)'
  BY <1>1 DEF Whole, Stream
<1> QED BY <1>2, <1>3, <1>4

\* A packet without bytes that the peer sends leaves the stream as it is.
LEMMA WordStream ==
  ASSUME StreamBase, NEW e \in Endpoints, Step(e), NEW d \in Endpoints, d = Peer(e), Intact(d)',
         NEW p \in Packets, net'[d] = Append(net[d], p), p.data = <<>>,
         HasHeard(d) => p.seq = tcb[e].SND_NXT /\ tcb'[e].SND_NXT = tcb[e].SND_NXT,
         send'[e] = send[e], sent'[e] = sent[e]
  PROVE  InOrder(d)' /\ Fits(d)' /\ Whole(d)'
<1>1. /\ Typed /\ Peer(d) = e /\ InOrder(d) /\ Fits(d) /\ Whole(d)
      /\ recv'[d] = recv[d] /\ taken'[d] = taken[d] /\ tcb'[d] = tcb[d] /\ pending'[d] = pending[d]
      /\ InHand(d)' = InHand(d) /\ HandLen(d)' = HandLen(d) /\ Put(d)' = Put(d) /\ Room(d)' = Room(d)
      /\ (HasHeard(d)' <=> HasHeard(d))
  BY OtherStep
<1>2. InOrder(d)'
  <2> SUFFICES ASSUME HasHeard(d)
               PROVE  Chain(Coming(d)', tcb[d].RCV_NXT + HandLen(d), tcb[e].SND_NXT)
    BY <1>1 DEF InOrder
  <2> DEFINE c == Coming(d)
             n == tcb[d].RCV_NXT + HandLen(d)
             m == tcb[e].SND_NXT
  <2>1. net[d] \in Seq(Packets) /\ pending[d] \in Seq(Packets)
    BY <1>1, StreamTypes
  <2>2. Coming(d)' = Append(c, p) /\ c \in Seq(Packets)
    <3>1. Coming(d)' = pending[d] \o Append(net[d], p)
      BY <1>1 DEF Coming
    <3> DEFINE q == pending[d]
               r == net[d]
    <3>2. q \in Seq(Packets) /\ r \in Seq(Packets) /\ c = q \o r
      BY <2>1 DEF Coming
    <3> HIDE DEF q, r, c
    <3>3. q \o Append(r, p) = Append(q \o r, p) /\ q \o r \in Seq(Packets)
      BY <3>2, ComingMoves
    <3> QED BY <3>1, <3>2, <3>3 DEF q, r
  <2>3. n \in Int /\ m \in Int
    <3>1. tcb[d].RCV_NXT \in Int /\ HandLen(d) \in Nat /\ tcb[e].SND_NXT \in Int
      BY <1>1, BlockTypes, HandTypes
    <3> QED BY <3>1
  <2>4. Chain(c, n, m) /\ p.seq = m
    BY <1>1 DEF InOrder
  <2> HIDE DEF c, n, m
  <2>5. Chain(Append(c, p), n, m + Len(p.data))
    BY <2>2, <2>3, <2>4, ChainAppend
  <2>6. m + Len(p.data) = m
    BY <2>3
  <2> QED BY <2>2, <2>5, <2>6 DEF n, m
<1>3. Fits(d)'
  BY <1>1 DEF Fits
<1>4. Whole(d)'
  <2>1. Payload(net'[d]) = Payload(net[d])
    <3>1. net[d] \in Seq(Packets) /\ Payload(net[d]) \in Seq(Int)
      BY <1>1, StreamTypes
    <3>2. Payload(net'[d]) = Payload(net[d]) \o <<>>
      BY <3>1, PayloadAppend
    <3> QED BY <3>1, <3>2
  <2> QED BY <1>1, <2>1 DEF Whole, Stream
<1> QED BY <1>2, <1>3, <1>4

\* The steps of the sending end that send no bytes and put none into the buffer.
LEMMA IdleStream ==
  ASSUME StreamBase, Typed', NEW e \in Endpoints, Step(e), NEW d \in Endpoints, d = Peer(e), Intact(d)',
         ~SendSegment(e), ~SendPut(e), ~Handshakes(e)
  PROVE  InOrder(d)' /\ Fits(d)' /\ Whole(d)'
<1>1. /\ Typed /\ CloseIsFinal(e) /\ FINInHand(e) /\ (~Open(e) => thread[e].pc \in {"wait", "after"})
  BY Grounds
<1>2. send'[e] = send[e] /\ sent'[e] = sent[e]
  BY QuietBuffers
<1>3. tcb'[e].SND_NXT = tcb[e].SND_NXT
  BY <1>1, NumberSteady
<1>4. CASE net'[d] = net[d]
  BY <1>2, <1>3, <1>4, SilentStream
<1>5. CASE net'[d] # net[d]
  <2>1. Open(e)
    BY <1>1, <1>5, EarlyKeeps
  <2>2. Speaks(e)
    BY <1>1, <2>1, OpenConverses DEF Converses
  <2>3. PICK p \in Packets :
          /\ net'[d] = Append(net[d], p) /\ p.seq = tcb[e].SND_NXT
          /\ tcb'[e].SND_NXT = tcb[e].SND_NXT + Len(p.data)
    BY <1>5, <2>2 DEF Speaks
  <2>4. p.data = <<>>
    <3> DEFINE m == tcb[e].SND_NXT
               l == Len(p.data)
    <3>1. m \in Int /\ l \in Nat /\ m = m + l /\ p.data \in Seq(Int)
      BY <1>1, <1>3, <2>3, BlockTypes DEF Packets
    <3>2. l = 0 => p.data = <<>>
      BY <3>1
    <3> HIDE DEF m, l
    <3>3. l = 0
      BY <3>1
    <3> QED BY <3>2, <3>3
  <2> QED BY <1>2, <1>3, <2>3, <2>4, WordStream
<1> QED BY <1>4, <1>5

\* The handshakes of the other end.
LEMMA GreetingStream ==
  ASSUME StreamBase, Typed', NEW e \in Endpoints, Step(e), NEW d \in Endpoints, d = Peer(e), Intact(d)',
         Handshakes(e)
  PROVE  InOrder(d)' /\ Fits(d)' /\ Whole(d)'
<1>1. /\ Typed /\ Phase /\ SeqInv /\ CloseIsFinal(e) /\ tcb[e] \in ControlBlocks /\ tcb'[e] \in ControlBlocks
      /\ tcb \in [Endpoints -> ControlBlocks] /\ net \in [Endpoints -> Seq(Packets)]
  <2>1. Typed /\ Phase /\ SeqInv /\ CloseIsFinal(e)
    BY Grounds DEF StreamBase, WholeInv
  <2>2. /\ tcb \in [Endpoints -> ControlBlocks] /\ tcb' \in [Endpoints -> ControlBlocks]
        /\ net \in [Endpoints -> Seq(Packets)]
    BY <2>1 DEF Typed
  <2> QED BY <2>1, <2>2
<1>2. send'[e] = send[e] /\ sent'[e] = sent[e]
  BY DEF Handshakes, Connect, ListenArrival, SynRcvdArrival, SynSentArrival, Arrival, requests
<1>3. CASE Connect(e)
  <2>1. e = Client /\ Unasked /\ d = Server
    <3>1. Unconnected(e) /\ tcp_state[e] = "CLOSED"
      BY <1>3, Taking DEF Connect, Unconnected
    <3> QED BY <1>1, <3>1, StageOf, TwoEnds
  <2>2. ~HasHeard(d)
    BY <2>1 DEF Unasked, HasHeard, Open, Early
  <2>3. PICK iss \in ISNs : Transmit(e, SYN([tcb[e] EXCEPT !.ISS = iss, !.SND_UNA = iss, !.SND_NXT = iss + 1,
                                                         !.RCV_WND = Room(e)]))
    BY <1>3 DEF Connect
  <2> DEFINE t == [tcb[e] EXCEPT !.ISS = iss, !.SND_UNA = iss, !.SND_NXT = iss + 1, !.RCV_WND = Room(e)]
  <2>4. net'[d] = Append(net[d], SYN(t))
    BY <1>1, <2>3 DEF Transmit
  <2>5. SYN(t).data = <<>>
    BY DEF SYN, Packet
  <2>6. SYN(t) \in Packets
    BY <1>1, <2>3, WhatIsSentIsAPacket
  <2> HIDE DEF t
  <2> QED BY <1>2, <2>2, <2>4, <2>5, <2>6, WordStream
<1>4. CASE ListenArrival(e)
  <2>1. ~Connect(e)
    BY <1>1, <1>4, Arrived DEF ListenArrival, Connect
  <2>2. e = Server /\ Asked /\ Head(pending[e]) = SYN(tcb[Client]) /\ d = Client
    BY <1>4, <2>1, HandshakeIsBlank, TwoEnds
  <2>3. ~HasHeard(d)
    BY <2>2 DEF Asked, HasHeard, Open, Early
  <2>4. Head(pending[e]).syn
    BY <2>2 DEF SYN, Packet
  <2>5. PICK t : Transmit(e, SYN_ACK(t))
    BY <1>4, <2>4 DEF ListenArrival
  <2>6. net'[d] = Append(net[d], SYN_ACK(t))
    BY <1>1, <2>5 DEF Transmit
  <2>7. SYN_ACK(t).data = <<>>
    BY DEF SYN_ACK, Packet
  <2>8. SYN_ACK(t) \in Packets
    BY <1>1, <2>5, WhatIsSentIsAPacket
  <2> QED BY <1>2, <2>3, <2>6, <2>7, <2>8, WordStream
<1>5. CASE SynSentArrival(e)
  <2> DEFINE p == Head(pending[e])
             t == [tcb[e] EXCEPT !.RCV_NXT = p.seq + 1,
                                 !.SND_WND = IF p.ack THEN p.win ELSE @,
                                 !.SND_UNA = IF p.ack THEN p.ack_seq ELSE @]
  <2>1. tcp_state'[e] \notin {"SYN_SENT", "SYN_RCVD"} /\ tcp_state[e] = "SYN_SENT"
    <3>1. Open(e)'
      BY <1>1, <1>5, SynSentWake
    <3> QED BY <1>1, <1>5, <3>1, Arrived DEF Open, Early, SynSentArrival
  <2>2. Transmit(e, ACK(t)) /\ tcb' = [tcb EXCEPT ![e] = [t EXCEPT !.SND_UNA = t.SND_NXT]]
    BY <1>1, <1>5, <2>1 DEF SynSentArrival, SetState, Typed
  <2>3. t.SND_NXT = tcb[e].SND_NXT /\ [t EXCEPT !.SND_UNA = t.SND_NXT].SND_NXT = tcb[e].SND_NXT
    <3> DEFINE x == p.seq + 1
               y == IF p.ack THEN p.win ELSE tcb[e].SND_WND
               z == IF p.ack THEN p.ack_seq ELSE tcb[e].SND_UNA
               u == [tcb[e] EXCEPT !.RCV_NXT = x, !.SND_WND = y, !.SND_UNA = z]
    <3>1. u.SND_NXT = tcb[e].SND_NXT /\ [u EXCEPT !.SND_UNA = u.SND_NXT].SND_NXT = tcb[e].SND_NXT
      <4> HIDE DEF x, y, z
      <4> QED BY <1>1 DEF ControlBlocks
    <3> QED BY <3>1
  <2>4. tcb'[e].SND_NXT = tcb[e].SND_NXT
    <3> DEFINE u == [t EXCEPT !.SND_UNA = t.SND_NXT]
    <3>1. tcb' = [tcb EXCEPT ![e] = u] /\ u.SND_NXT = tcb[e].SND_NXT
      BY <2>2, <2>3
    <3> HIDE DEF u
    <3> QED BY <1>1, <3>1
  <2> HIDE DEF t
  <2>5. net'[d] = Append(net[d], ACK(t))
    BY <1>1, <2>2 DEF Transmit
  <2>6. ACK(t).data = <<>> /\ ACK(t).seq = tcb[e].SND_NXT
    BY <2>3 DEF ACK, Packet
  <2>7. ACK(t) \in Packets
    BY <1>1, <2>2, WhatIsSentIsAPacket
  <2> QED BY <1>2, <2>4, <2>5, <2>6, <2>7, WordStream
<1>6. CASE SynRcvdArrival(e)
  <2>1. net' = net /\ tcb'[e].SND_NXT = tcb[e].SND_NXT
    BY <1>1, <1>6, SynRcvdWake DEF StreamBase, WholeInv
  <2> QED BY <1>2, <2>1, SilentStream
<1> QED BY <1>3, <1>4, <1>5, <1>6 DEF Handshakes

\* A segment takes the first bytes of the send buffer.
Segments(e, n) ==
  /\ send'[e] = SubSeq(send[e], n + 1, Len(send[e])) /\ sent'[e] = sent[e]
  /\ net'[Peer(e)] = Append(net[Peer(e)], Segment(tcb[e], SubSeq(send[e], 1, n)))
  /\ tcb'[e].SND_NXT = tcb[e].SND_NXT + n
  /\ ~overran'[e] => ~(tcb'[e].SND_NXT > tcb[Peer(e)].RCV_NXT + tcb[Peer(e)].RCV_WND)

\* What SendSegment does, for the n bytes it takes.
LEMMA SegmentMoves ==
  ASSUME Typed, GhostTypes, NEW e \in Endpoints, SendSegment(e)
  PROVE  \E n \in 0 .. Len(send[e]) : Segments(e, n)
<1> DEFINE n == MIN(thread[e].toSend, Len(send[e]))
           t == [tcb[e] EXCEPT !.SND_NXT = @ + n, !.SND_WND = @ - n]
<1>0. /\ Peer(e) \in Endpoints /\ tcb \in [Endpoints -> ControlBlocks] /\ send \in [Endpoints -> Seq(Int)]
      /\ net \in [Endpoints -> Seq(Packets)] /\ tcb[e] \in ControlBlocks
      /\ thread \in [Endpoints -> Positions] /\ overran \in [Endpoints -> BOOLEAN]
  BY PeerIsEndpoint DEF Typed, GhostTypes
<1>1. n \in 0 .. Len(send[e])
  <2>1. thread[e].toSend \in Int /\ thread[e].toSend > 0
    <3>1. thread[e] \in SendingAll
      BY <1>0, PositionTypes DEF SendSegment
    <3> QED BY <3>1 DEF SendSegment, SendAllGoesOn, SendingAll
  <2>2. Len(send[e]) \in Nat
    BY <1>0
  <2> DEFINE i == Len(send[e])
             j == thread[e].toSend
  <2>3. i \in Nat /\ j \in Int /\ j > 0 /\ n = MIN(j, i)
    BY <2>1, <2>2
  <2> HIDE DEF i, j, n
  <2>4. n \in 0 .. i
    BY <2>3, MinIsLeast
  <2> QED BY <2>4 DEF i
<1>2. /\ send' = [send EXCEPT ![e] = SubSeq(send[e], n + 1, Len(send[e]))] /\ sent' = sent
      /\ Transmit(e, Segment(tcb[e], SubSeq(send[e], 1, n))) /\ tcb' = [tcb EXCEPT ![e] = t]
      /\ overran' = [overran EXCEPT ![e] = @ \/ t.SND_NXT > tcb[Peer(e)].RCV_NXT + tcb[Peer(e)].RCV_WND]
  BY DEF SendSegment, Removed
<1> HIDE DEF n
<1>3. t.SND_NXT = tcb[e].SND_NXT + n
  <2> DEFINE u == tcb[e].SND_NXT + n
             v == tcb[e].SND_WND - n
             w == [tcb[e] EXCEPT !.SND_NXT = u, !.SND_WND = v]
  <2>1. w.SND_NXT = u
    <3> HIDE DEF u, v
    <3> QED BY <1>0 DEF ControlBlocks
  <2> QED BY <2>1
<1> HIDE DEF t
<1>4. tcb'[e] = t
  BY <1>0, <1>2
<1>5. net'[Peer(e)] = Append(net[Peer(e)], Segment(tcb[e], SubSeq(send[e], 1, n)))
  BY <1>0, <1>2 DEF Transmit
<1>6. send'[e] = SubSeq(send[e], n + 1, Len(send[e])) /\ sent'[e] = sent[e]
  BY <1>0, <1>2
<1>7. ~overran'[e] => ~(t.SND_NXT > tcb[Peer(e)].RCV_NXT + tcb[Peer(e)].RCV_WND)
  <2> DEFINE b == t.SND_NXT > tcb[Peer(e)].RCV_NXT + tcb[Peer(e)].RCV_WND
  <2>1. overran' = [overran EXCEPT ![e] = @ \/ b]
    BY <1>2
  <2> HIDE DEF b
  <2>2. overran'[e] <=> (overran[e] \/ b)
    BY <1>0, <2>1, Zenon
  <2> QED BY <2>2 DEF b
<1> QED BY <1>1, <1>3, <1>4, <1>5, <1>6, <1>7 DEF Segments

\* A segment takes its bytes from the send buffer to the end of the network's queue.
LEMMA SegmentStream ==
  ASSUME StreamBase, NEW e \in Endpoints, Step(e), NEW d \in Endpoints, d = Peer(e), Intact(d)',
         SendSegment(e)
  PROVE  InOrder(d)' /\ Fits(d)' /\ Whole(d)'
<1>1. /\ Typed /\ Peer(d) = e /\ InOrder(d) /\ Fits(d) /\ Whole(d) /\ ~overran'[e]
      /\ recv'[d] = recv[d] /\ taken'[d] = taken[d] /\ tcb'[d] = tcb[d] /\ pending'[d] = pending[d]
      /\ InHand(d)' = InHand(d) /\ HandLen(d)' = HandLen(d) /\ Put(d)' = Put(d) /\ Room(d)' = Room(d)
      /\ (HasHeard(d)' <=> HasHeard(d))
  BY OtherStep
<1>2. PICK n \in 0 .. Len(send[e]) : Segments(e, n)
  BY <1>1, SegmentMoves, Grounds
<1> DEFINE x == SubSeq(send[e], 1, n)
           y == SubSeq(send[e], n + 1, Len(send[e]))
           p == Segment(tcb[e], x)
           m == tcb[e].SND_NXT
<1>3. /\ x \in Seq(Int) /\ Len(x) = n /\ y \in Seq(Int) /\ x \o y = send[e] /\ n \in Int
  <2>1. send[e] \in Seq(Int)
    BY <1>1 DEF Typed
  <2>2. /\ x \in Seq(Int) /\ Len(x) = n /\ y \in Seq(Int) /\ x \o y = send[e]
    BY <2>1, SplitBytes
  <2>3. n \in Int
    BY <2>1
  <2> HIDE DEF x, y
  <2> QED BY <2>2, <2>3
<1>4. /\ net'[d] = Append(net[d], p) /\ tcb'[e].SND_NXT = m + n /\ send'[e] = y /\ sent'[e] = sent[e]
      /\ ~(m + n > tcb[d].RCV_NXT + tcb[d].RCV_WND)
  BY <1>1, <1>2 DEF Segments
<1> HIDE DEF x, y
<1>5. p.seq = m /\ p.data = x /\ p \in Packets
  <2>1. p.seq = m /\ p.data = x
    BY DEF Segment, Packet
  <2>2. tcb[e] \in ControlBlocks
    BY <1>1 DEF Typed
  <2> QED BY <1>3, <2>1, <2>2, PacketTypes
<1> HIDE DEF p
<1>6. InOrder(d)'
  <2> SUFFICES ASSUME HasHeard(d)
               PROVE  Chain(Coming(d)', tcb[d].RCV_NXT + HandLen(d), m + n)
    BY <1>1, <1>4 DEF InOrder
  <2> DEFINE c == Coming(d)
             k == tcb[d].RCV_NXT + HandLen(d)
             q == pending[d]
             r == net[d]
  <2>1. q \in Seq(Packets) /\ r \in Seq(Packets) /\ c = q \o r /\ Coming(d)' = q \o Append(r, p)
    BY <1>1, <1>4, StreamTypes DEF Coming
  <2>2. k \in Int /\ m \in Int
    <3>1. tcb[d].RCV_NXT \in Int /\ HandLen(d) \in Nat /\ tcb[e].SND_NXT \in Int
      BY <1>1, BlockTypes, HandTypes
    <3> QED BY <3>1
  <2>3. Chain(c, k, m)
    BY <1>1 DEF InOrder
  <2> HIDE DEF c, k, q, r, m
  <2>4. c \in Seq(Packets) /\ Coming(d)' = Append(c, p)
    BY <1>5, <2>1, ComingMoves
  <2>5. Chain(Append(c, p), k, m + Len(p.data))
    BY <1>5, <2>2, <2>3, <2>4, ChainAppend
  <2> QED BY <1>3, <1>5, <2>4, <2>5 DEF k
<1>7. Fits(d)'
  <2> DEFINE i == tcb[d].RCV_NXT
             w == tcb[d].RCV_WND
  <2>1. i \in Int /\ w \in Int /\ m \in Int
    BY <1>1, BlockTypes
  <2>2. ~(m + n > i + w)
    BY <1>4
  <2>3. tcb'[Peer(d)].SND_NXT = m + n /\ tcb'[d].RCV_NXT = i /\ tcb'[d].RCV_WND = w
    BY <1>1, <1>4
  <2> HIDE DEF i, w, m
  <2>4. m + n <= i + w
    BY <1>3, <2>1, <2>2
  <2> QED BY <1>1, <2>3, <2>4 DEF Fits, w
<1>8. Whole(d)'
  <2> DEFINE h == (recv[d] \o InHand(d)) \o Payload(pending[d])
             a == Payload(net[d])
  <2>1. h \in Seq(Int)
    <3> DEFINE u == recv[d] \o InHand(d)
    <3>1. u \in Seq(Int)
      BY <1>1, StreamTypes
    <3> HIDE DEF u
    <3>2. u \o Payload(pending[d]) \in Seq(Int)
      BY <1>1, <3>1, StreamTypes
    <3> QED BY <3>2 DEF u
  <2>2. a \in Seq(Int) /\ net[d] \in Seq(Packets)
    BY <1>1, StreamTypes
  <2>3. Payload(net'[d]) = a \o x
    BY <1>4, <1>5, <2>2, PayloadAppend
  <2>4. Stream(d) = (h \o a) \o (x \o y)
    BY <1>1, <1>3 DEF Stream
  <2>5. Stream(d)' = (h \o (a \o x)) \o y
    BY <1>1, <1>4, <2>3 DEF Stream
  <2> HIDE DEF h, a
  <2>6. a \in Seq(Int)
    BY <2>2
  <2>7. x \in Seq(Int) /\ y \in Seq(Int)
    BY <1>3
  <2>8. (h \o a) \o x = h \o (a \o x)
    BY <2>1, <2>6, <2>7, BytesAssociate
  <2> DEFINE g == h \o a
  <2>9. g \in Seq(Int)
    BY <2>1, <2>6
  <2> HIDE DEF g
  <2>10. (g \o x) \o y = g \o (x \o y)
    BY <2>7, <2>9, BytesAssociate
  <2>11. Stream(d)' = Stream(d)
    BY <2>4, <2>5, <2>8, <2>10 DEF g
  <2> QED BY <1>1, <1>4, <2>11 DEF Whole
<1> QED BY <1>6, <1>7, <1>8

\* SEND appends the next numbers to the stream.
LEMMA PutStream ==
  ASSUME StreamBase, NEW e \in Endpoints, Step(e), NEW d \in Endpoints, d = Peer(e), Intact(d)',
         SendPut(e)
  PROVE  InOrder(d)' /\ Fits(d)' /\ Whole(d)'
<1>1. /\ Typed /\ Peer(d) = e /\ Whole(d)
      /\ recv'[d] = recv[d] /\ taken'[d] = taken[d] /\ pending'[d] = pending[d]
      /\ InHand(d)' = InHand(d)
  BY OtherStep
<1>2. tcb' = tcb /\ net' = net
  BY DEF SendPut, queues
<1>3. CASE send'[e] = send[e] /\ sent'[e] = sent[e]
  BY <1>2, <1>3, SilentStream
<1> DEFINE n == MIN(BufSize - Len(send[e]), writer[e].left)
<1>4. CASE /\ n > 0 /\ send' = [send EXCEPT ![e] = @ \o [i \in 1 .. n |-> sent[e] + i]]
           /\ sent' = [sent EXCEPT ![e] = @ + n]
  <2> DEFINE s == sent[e]
             t == taken[d]
             z == send[e]
             x == [i \in 1 .. n |-> s + i]
  <2>1. z \in Seq(Int) /\ s \in Nat /\ t \in Nat /\ t <= s /\ n \in Nat
    <3>1. z \in Seq(Int) /\ s \in Int /\ writer[e].left \in Int /\ Len(send[e]) \in Nat /\ BufSize \in Nat
      BY <1>1, MeasureTypes
    <3>2. t \in Nat /\ s >= 0
      BY Grounds DEF GhostTypes, Accounted
    <3>3. n \in Nat
      <4> DEFINE i == BufSize - Len(send[e])
                 j == writer[e].left
      <4>1. i \in Int /\ j \in Int /\ n = MIN(i, j) /\ n > 0
        BY <1>4, <3>1
      <4> HIDE DEF i, j, n
      <4>2. n \in Int
        BY <4>1, MinIsLeast
      <4> QED BY <4>1, <4>2
    <3>4. t <= s
      BY <1>1 DEF Whole
    <3> HIDE DEF n
    <3> QED BY <3>1, <3>2, <3>3, <3>4
  <2> HIDE DEF n
  <2>2. send'[e] = z \o x /\ sent'[e] = s + n
    BY <1>1, <1>4 DEF Typed
  <2>3. x \in Seq(Int)
    <3>1. \A i \in 1 .. n : s + i \in Int
      BY <2>1
    <3> HIDE DEF s
    <3> QED BY <2>1, <3>1
  <2> DEFINE h == ((recv[d] \o InHand(d)) \o Payload(pending[d])) \o Payload(net[d])
  <2>4. h \in Seq(Int)
    <3> DEFINE u == recv[d] \o InHand(d)
               v == u \o Payload(pending[d])
    <3>1. u \in Seq(Int)
      BY <1>1, StreamTypes
    <3> HIDE DEF u
    <3>2. v \in Seq(Int)
      BY <1>1, <3>1, StreamTypes
    <3> HIDE DEF v
    <3>3. v \o Payload(net[d]) \in Seq(Int)
      BY <1>1, <3>2, StreamTypes
    <3> QED BY <3>3 DEF u, v
  <2>5. h \o z = Numbers(t, s)
    BY <1>1 DEF Whole, Stream
  <2>6. Stream(d)' = h \o (z \o x)
    BY <1>1, <1>2, <2>2 DEF Stream
  <2>7. Numbers(t, s) \o x = Numbers(t, s + n)
    BY <2>1, NumbersGrow
  <2> HIDE DEF h, z, x, s, t
  <2>8. z \in Seq(Int)
    BY <2>1
  <2>9. (h \o z) \o x = h \o (z \o x)
    BY <2>3, <2>4, <2>8, BytesAssociate
  <2>10. Stream(d)' = Numbers(t, s + n)
    BY <2>5, <2>6, <2>7, <2>9
  <2>11. Whole(d)'
    <3>1. t <= s + n
      BY <2>1
    <3> QED BY <1>1, <2>2, <2>10, <3>1 DEF Whole, t
  <2>12. InOrder(d)' /\ Fits(d)'
    <3>1. /\ InOrder(d) /\ Fits(d)
          /\ HandLen(d)' = HandLen(d) /\ Put(d)' = Put(d) /\ Room(d)' = Room(d)
          /\ (HasHeard(d)' <=> HasHeard(d))
      BY OtherStep
    <3> QED BY <1>1, <1>2, <3>1 DEF InOrder, Fits, Coming
  <2> QED BY <2>11, <2>12
<1>5. \/ send'[e] = send[e] /\ sent'[e] = sent[e]
      \/ /\ n > 0 /\ send' = [send EXCEPT ![e] = @ \o [i \in 1 .. n |-> sent[e] + i]]
         /\ sent' = [sent EXCEPT ![e] = @ + n]
  BY DEF SendPut
<1> QED BY <1>3, <1>4, <1>5

\* Every step of the sending end.
LEMMA SenderStep ==
  ASSUME StreamBase, Typed', NEW e \in Endpoints, Step(e), NEW d \in Endpoints, d = Peer(e)
  PROVE  StreamInv(d)'
<1> SUFFICES ASSUME Intact(d)' PROVE InOrder(d)' /\ Fits(d)' /\ Whole(d)'
  BY DEF StreamInv
<1> QED BY IdleStream, GreetingStream, SegmentStream, PutStream

\* Within send_all nothing is said but segments and the FIN.
LEMMA SayNothing ==
  ASSUME Typed, NEW e \in Endpoints, Step(e), thread[e].pc = "sendAll", ~SendSegment(e), ~SendFIN(e)
  PROVE  net'[Peer(e)] = net[Peer(e)]
<1>1. ~Handshakes(e)
  BY Taking DEF Handshakes, Connect, ListenArrival, SynRcvdArrival, SynSentArrival, Arrival
<1>2. ~Talks(e)
  BY DEF Talks, RejectPacket, AcceptPacket, use_data, always_on_fb, InArrival
<1> QED BY <1>1, <1>2, CalmSteps DEF Calm

\* What carries data acknowledges.
LEMMA DataHasACKStep ==
  ASSUME StreamBase, Typed', NEW e \in Endpoints, Step(e), NEW d \in Endpoints
  PROVE  DataHasACK(d)'
<1>1. Typed /\ DataHasACK(d) /\ Peer(e) # e /\ Peer(e) \in Endpoints
  BY Grounds
<1>2. CASE d = e
  <2>1. Toward(e)' \subseteq Toward(e)
    BY <1>1, OwnQueues, OwnEffects
  <2> QED BY <1>1, <1>2, <2>1 DEF DataHasACK
<1>3. CASE d # e
  <2>1. d = Peer(e) /\ pending'[d] = pending[d] /\ withheld'[d] = withheld[d]
    BY <1>1, <1>3, PeerOfPeer, OtherEnd
  <2>2. CASE net'[d] = net[d]
    BY <1>1, <2>1, <2>2 DEF DataHasACK, Toward
  <2>3. ASSUME NEW p \in Packets, net'[d] = Append(net[d], p), p.data # <<>> => p.ack
        PROVE  DataHasACK(d)'
    <3>1. Toward(d)' = Toward(d) \cup {p}
      BY <1>1, <2>1, <2>3, PacketJoins
    <3> QED BY <1>1, <2>3, <3>1 DEF DataHasACK
  <2>4. CASE SendSegment(e)
    <3>1. PICK n \in 0 .. Len(send[e]) : Segments(e, n)
      BY <1>1, <2>4, SegmentMoves, Grounds
    <3> DEFINE p == Segment(tcb[e], SubSeq(send[e], 1, n))
    <3>2. net'[d] = Append(net[d], p)
      BY <2>1, <3>1 DEF Segments
    <3>3. p.ack
      BY DEF Segment, Packet
    <3>4. p \in Packets
      BY <1>1, <2>4, <3>2, SplitBytes, PacketTypes DEF Typed
    <3> HIDE DEF p
    <3> QED BY <2>3, <3>2, <3>3, <3>4
  <2>5. CASE ~SendSegment(e) /\ net'[d] # net[d]
    <3>1. PICK p : Says(e, p)
      <4>1. ~(net[e] # <<>> /\ net' = [net EXCEPT ![e] = Tail(@)])
        BY <1>1, <1>3, <2>5 DEF Typed
      <4> QED BY <1>1, <2>5, <4>1, Utterances
    <3>2. net'[d] = Append(net[d], p) /\ p \in Packets
      BY <1>1, <2>1, <3>1 DEF Says, Transmit, Typed
    <3>3. p.data = <<>>
      <4>1. CASE SendFIN(e)
        <5>1. net'[d] = Append(net[d], FIN(e, tcb[e]))
          BY <1>1, <2>1, <4>1 DEF SendFIN, Transmit, Typed
        <5>2. p = FIN(e, tcb[e])
          <6>1. FIN(e, tcb[e]) \in Packets /\ net[d] \in Seq(Packets)
            BY <1>1, PacketTypes DEF Typed
          <6> DEFINE f == FIN(e, tcb[e])
                     q == net[d]
          <6>2. q \in Seq(Packets) /\ f \in Packets /\ p \in Packets /\ Append(q, p) = Append(q, f)
            BY <3>2, <5>1, <6>1
          <6> HIDE DEF f, q
          <6>3. Append(q, p)[Len(q) + 1] = p /\ Append(q, f)[Len(q) + 1] = f
            BY <6>2
          <6>4. p = f
            BY <6>2, <6>3
          <6> QED BY <6>4 DEF f
        <5> QED BY <5>2 DEF FIN, Packet
      <4>2. CASE ~SendFIN(e)
        <5>1. thread[e].pc # "sendAll"
          BY <1>1, <2>1, <2>5, <4>2, SayNothing
        <5> QED BY <3>1, <5>1 DEF Says
      <4> QED BY <4>1, <4>2
    <3> QED BY <2>3, <3>2, <3>3
  <2> QED BY <2>2, <2>4, <2>5
<1> QED BY <1>2, <1>3

\* At the start nothing has been sent, and neither end has heard of the other.
LEMMA FlowInit == Init => FlowInv
<1> SUFFICES ASSUME Init PROVE FlowInv
  OBVIOUS
<1>1. GhostTypes
  BY DEF Init, GhostTypes
<1>2. ASSUME NEW e \in Endpoints PROVE Ears(e) /\ DataHasACK(e) /\ StreamInv(e)
  <2>1. ~Open(e) /\ ~HasHeard(e)
    BY <1>2, TwoEnds DEF Init, Open, Unconnected, Early, HasHeard
  <2>2. Ears(e)
    <3>1. thread[e].pc = "wait"
      BY DEF Init, Idle
    <3> QED BY <2>1, <3>1 DEF Ears
  <2>3. DataHasACK(e)
    <3>1. net[e] = <<>> /\ pending[e] = <<>> /\ withheld[e] = <<>>
      BY DEF Init
    <3>2. Typed /\ Count(e) = 0
      BY <3>1, TypedInit DEF Count
    <3> QED BY <3>2, NothingOnItsWay DEF DataHasACK
  <2>4. Whole(e)
    <3>1. /\ recv[e] = <<>> /\ pending[e] = <<>> /\ net[e] = <<>> /\ thread[e].pc = "wait"
          /\ taken[e] = 0
      BY DEF Init, Idle
    <3>2. send[Peer(e)] = <<>> /\ sent[Peer(e)] = 0
      BY PeerIsEndpoint DEF Init
    <3>3. Stream(e) = <<>>
      <4>1. Payload(pending[e]) = <<>> /\ Payload(net[e]) = <<>> /\ InHand(e) = <<>>
        BY <3>1, PayloadTypes DEF InHand
      <4>2. <<>> \o <<>> \o <<>> \o <<>> \o <<>> = <<>>
        OBVIOUS
      <4> QED BY <3>1, <3>2, <4>1, <4>2 DEF Stream
    <3>4. Numbers(0, 0) = <<>>
      <4> DEFINE z == 0
      <4>1. z \in Nat /\ z <= z /\ z - z = 0
        OBVIOUS
      <4> HIDE DEF z
      <4>2. Numbers(z, z) \in Seq(Int) /\ Len(Numbers(z, z)) = z - z
        BY <4>1, NumbersGrow
      <4>3. Numbers(z, z) = <<>>
        BY <4>1, <4>2
      <4> QED BY <4>3 DEF z
    <3> QED BY <3>1, <3>2, <3>3, <3>4 DEF Whole
  <2> QED BY <2>1, <2>2, <2>3, <2>4 DEF StreamInv, InOrder, Fits
<1> QED BY <1>1, <1>2 DEF FlowInv

\* Every step preserves it, if the debugger lets all packets pass.
LEMMA FlowStep ==
  ASSUME StreamBase, \A e \in Endpoints : LetsPass(e), [Next]_vars
  PROVE  FlowInv'
<1>1. CASE \E e \in Endpoints : Step(e)
  <2>1. PICK e \in Endpoints : Step(e)
    BY <1>1
  <2>2. Typed /\ Phase /\ CloseIsFinal(e) /\ GhostTypes
    BY <2>1, Grounds
  <2>3. Typed'
    BY <2>1, <2>2, TypedBy
  <2>4. ASSUME NEW d \in Endpoints PROVE Ears(d)' /\ StreamInv(d)'
    <3>1. CASE d = e
      <4>1. Ears(e)'
        BY <2>1, <2>2, <2>3, EarsStep, Grounds
      <4> QED BY <2>1, <2>3, <3>1, <4>1, ReceiverStep
    <3>2. CASE d # e
      <4>1. d = Peer(e)
        BY <3>2, PeerOfPeer
      <4>2. /\ tcp_state'[d] = tcp_state[d] /\ shut'[d] = shut[d] /\ thread'[d] = thread[d]
            /\ (Open(d)' <=> Open(d))
        BY <2>1, <2>2, <4>1, OtherEnd
      <4>3. Ears(d)
        BY Grounds
      <4> QED BY <2>1, <2>3, <4>1, <4>2, <4>3, StillEars, SenderStep
    <3> QED BY <3>1, <3>2
  <2>5. \A d \in Endpoints : DataHasACK(d)'
    BY <2>1, <2>3, DataHasACKStep
  <2>6. GhostTypes'
    BY <2>1, <2>2, GhostStep
  <2> QED BY <2>4, <2>5, <2>6 DEF FlowInv
<1>2. CASE UNCHANGED live
  <2>1. /\ UNCHANGED <<tcp_state, tcb, send, recv, shut, pending, withheld, net, flags, thread>>
        /\ UNCHANGED <<sent, taken, overran>>
    BY <1>2 DEF live, tcpVars, queues, requests
  <2>2. FlowInv
    BY DEF StreamBase
  <2>3. GhostTypes'
    BY <2>1, <2>2 DEF FlowInv, GhostTypes
  <2>4. ASSUME NEW e \in Endpoints PROVE Ears(e)' /\ DataHasACK(e)' /\ StreamInv(e)'
    <3>0. Ears(e) /\ DataHasACK(e) /\ StreamInv(e)
      BY <2>2 DEF FlowInv
    <3>1. Ears(e)'
      BY <2>1, <3>0 DEF Ears, Open, Unconnected
    <3>2. DataHasACK(e)'
      BY <2>1, <3>0 DEF DataHasACK, Toward
    <3>3. StreamInv(e)'
      <4>1. (Intact(e)' <=> Intact(e)) /\ (HasHeard(e)' <=> HasHeard(e))
        BY <2>1 DEF Intact, HasHeard, Open, Unconnected
      <4>2. Whole(e)' <=> Whole(e)
        BY <2>1 DEF Whole, Stream, InHand
      <4>3. /\ Coming(e)' = Coming(e) /\ HandLen(e)' = HandLen(e) /\ Room(e)' = Room(e)
            /\ Put(e)' = Put(e) /\ tcb' = tcb
        BY <2>1 DEF Coming, HandLen, Room, Put
      <4>4. (InOrder(e)' <=> InOrder(e)) /\ (Fits(e)' <=> Fits(e))
        BY <4>1, <4>3 DEF InOrder, Fits
      <4> QED BY <3>0, <4>1, <4>2, <4>4 DEF StreamInv
    <3> QED BY <3>1, <3>2, <3>3
  <2> QED BY <2>3, <2>4 DEF FlowInv
<1> QED BY <1>1, <1>2, StepOrStill

\* The inductive invariant of the stream of bytes.
LEMMA FlowInvariance ==
  ASSUME \A e \in Endpoints : LetsPass(e)
  PROVE  Spec => []StreamBase
<1>0. LetsPass(Server)
  BY TwoEnds
<1>1. Spec => [](WholeInv /\ WakeInv)
  BY <1>0, WakeInvariance
<1>2. Init => FlowInv
  BY FlowInit
<1>3. WholeInv /\ WakeInv /\ FlowInv /\ [Next]_vars => FlowInv'
  BY FlowStep DEF StreamBase
<1>4. WholeInv /\ WakeInv /\ FlowInv <=> StreamBase
  BY DEF StreamBase
<1> QED BY <1>1, <1>2, <1>3, <1>4, PTL DEF Spec

\* What one application sends the other receives, whole and in order: the receive buffer, the
\* payload the TCP thread is writing, the queues, the network and the peer's send buffer hold
\* exactly the bytes sent and not yet received, for all sizes, sequence numbers and interleavings.
\* It presupposes a debugger that lets packets pass, because nothing is ever sent again, and says
\* nothing, as StreamIntact does, of a peer that has sent beyond the window or of a receive
\* buffer that has been closed.
THEOREM BytesArriveIntact ==
  ASSUME \A e \in Endpoints : LetsPass(e)
  PROVE  Spec => []StreamIntact
<1>1. ASSUME StreamBase PROVE StreamIntact
  <2> SUFFICES ASSUME NEW e \in Endpoints, ~overran[Peer(e)] /\ "recv" \notin shut[e]
               PROVE  Stream(e) = Numbers(taken[e], sent[Peer(e)])
    BY DEF StreamIntact, Stream, Numbers
  <2>1. StreamInv(e)
    BY <1>1, Grounds
  <2> QED BY <2>1 DEF StreamInv, Intact, Whole
<1>2. Spec => []StreamBase
  BY FlowInvariance
<1> QED BY <1>1, <1>2, PTL

==============================================================================
