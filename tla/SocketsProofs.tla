----------------------------- MODULE SocketsProofs -----------------------------
(***************************************************************************)
(* What TLAPS proves of chitcp's socket and port tables, for every number of *)
(* applications, sockets and ports, whoever binds, connects, accepts, closes *)
(* or disconnects: a request keeps the socket it works on, a TCP thread its  *)
(* entry, a taken port a live socket, and no lock is left behind.            *)
(***************************************************************************)
EXTENDS Sockets, SequenceTheorems, FiniteSetTheorems, TLAPS

----------------------------------------------------------------------------
(* The invariant. Its parts are about an entry e, its TCP thread th, and the *)
(* request r that its application is in.                                     *)

\* A request is where it is, about a socket, with what it has found so far.
Requests ==
  [at : {"idle"}]
  \cup [at : {"socket", "listen", "free", "close", "sweepFlag"}, sock : Sockets]
  \cup [at : {"sweep"}, sock : Sockets \cup {NoSocket}]
  \cup [at : {"bind"}, sock : Sockets, port : Ports, any : BOOLEAN]
  \cup [at : {"accept"}, listener : Sockets, sock : {NoSocket}]
  \cup [at : {"address", "start", "raise"}, listener : Sockets, sock : Sockets, peer : Peers]
  \cup [at : {"connect", "connectStart"}, sock : Sockets, port : Ports, peer : Peers]
  \cup [at : {"sleep", "woken"}, sock : Sockets,
        op : {"ACCEPT", "CONNECT", "CLOSE", "WAIT_FOR_STATE"}, wanted : SUBSET TcpStates]
  \cup [at : {"watch"}, sock : Sockets, wanted : SUBSET TcpStates]

Resting == [at : {"wait", "after"}] \cup [at : {"arrival"}, handler : TcpStates]
TcpThreads ==
  [at : {"none"}] \cup Resting
  \cup [at : {"set"}, states : Seq(TcpStates) \ {<<>>}, then : Resting]

Entries ==
  [available : BOOLEAN, creator : Clients \cup {Nobody},
   actpas : {"NONE", "UNINITIALIZED", "ACTIVE", "PASSIVE"}, tcp : TcpStates,
   bound : BOOLEAN, port : Ports, any : BOOLEAN, remote : Peers \cup {"ANY"},
   queue : BOOLEAN, packets : Nat, conns : Seq(Peers), flags : SUBSET Events]

Carried == {NoPacket} \cup [sock : Sockets, kind : {"ACTIVE", "PASSIVE"}, peer : Peers]

Typed ==
  /\ entry \in [Sockets -> Entries]
  /\ lock \in [Sockets -> Clients \cup {Nobody}]
  /\ port_table \in [Ports -> Sockets \cup {NoSocket}]
  /\ thread \in [Sockets -> TcpThreads]
  /\ req \in [Clients -> Requests]
  /\ carry \in Carried

\* The stages of a connection: being opened, open, being closed.
Early == {"CLOSED", "LISTEN", "SYN_SENT", "SYN_RCVD"}
Open == {"ESTABLISHED", "CLOSE_WAIT"}
Late == {"FIN_WAIT_1", "FIN_WAIT_2", "CLOSING", "TIME_WAIT", "LAST_ACK"}

Sweeping(r) == r.at \in {"sweep", "sweepFlag"}
Starting(r, i) == r.at \in {"start", "connectStart"} /\ r.sock = i
Waits(r, i, ops) == r.at \in {"sleep", "woken"} /\ r.sock = i /\ r.op \in ops

\* The request that opens socket i, respectively closes it, has not returned.
BeingOpened(r, i) ==
  \/ r.at \in {"start", "raise", "connectStart"} /\ r.sock = i
  \/ Waits(r, i, {"ACCEPT", "CONNECT"}) /\ r.wanted = {"ESTABLISHED"}
Closing(r, i) == Waits(r, i, {"CLOSE"}) /\ r.wanted \cap Open = {}

\* What a TCP thread is about to set fits the stage its socket is in.
SetFits(tcp, th) ==
  \/ /\ tcp \in Early /\ th.states \in {<<"SYN_SENT">>, <<"SYN_RCVD">>, <<"ESTABLISHED">>}
     /\ th.then.at # "arrival"
  \/ /\ tcp \in Open /\ th.states = <<"CLOSE_WAIT">>
     /\ th.then.at = "arrival" => th.then.handler \in Open
  \/ /\ tcp \in Open /\ th.states \in {<<"FIN_WAIT_1">>, <<"LAST_ACK">>}
     /\ th.then.at # "arrival"
  \/ /\ tcp \in Late
     /\ \A n \in DOMAIN th.states : th.states[n] \in {"FIN_WAIT_2", "CLOSING", "TIME_WAIT", "CLOSED"}
     /\ th.then.at = "arrival" => th.then.handler \in Late

\* A CLOSE has been asked for and not yet carried out.
CloseAsked(e) == "app_close" \in e.flags
Begun(th) == th.at = "set" /\ th.states \in {<<"FIN_WAIT_1">>, <<"LAST_ACK">>}

\* A socket whose application is there: its thread's handler is of the socket's stage; while
\* it is being opened, or its close is under way, the application's request has not returned.
\* So no request finds an active socket CLOSED, and none closes a socket a second time.
InStage(i, e, th, r) ==
  /\ e.tcp \in Early => BeingOpened(r, i)
  /\ CloseAsked(e) \/ Begun(th) => e.tcp \in Open /\ Closing(r, i)
  /\ ~(CloseAsked(e) /\ Begun(th))
  /\ th.at = "arrival" =>
       \E stage \in {Early, Open, Late} : th.handler \in stage /\ e.tcp \in stage
  /\ th.at = "set" => SetFits(e.tcp, th)

EntryOK(i, e, th, r) ==
  /\ e.available => e = Blank
  /\ e.creator = Nobody <=> e.actpas = "NONE"
  /\ e.actpas = "UNINITIALIZED" => e.tcp = "CLOSED"
  /\ e.actpas = "PASSIVE" => e.tcp = "LISTEN"
  /\ e.actpas = "ACTIVE" => e.bound
  /\ e.actpas # "ACTIVE" => e.flags = {} /\ th.at = "none" /\ e.remote = "ANY"
  /\ e.actpas = "ACTIVE" /\ th.at = "none" => Starting(r, i)
  \* Clean-up is raised by the sweep of an application that has gone, which has passed i.
  /\ "cleanup" \in e.flags => Sweeping(r) /\ r.sock > i
  /\ e.actpas = "ACTIVE" /\ ~Sweeping(r) => InStage(i, e, th, r)

\* The socket that a request works on, in a table.
Has(c, e, kind) == ~e.available /\ e.creator = c /\ e.actpas = kind
Allotted == [Blank EXCEPT !.available = FALSE]
Filling(r) == r.at \in {"socket", "address"}

RequestOK(c, r, table) ==
  /\ r.at \in {"bind", "connect"} => Has(c, table[r.sock], "UNINITIALIZED") /\ ~table[r.sock].bound
  /\ r.at \in {"listen", "free"} => Has(c, table[r.sock], "PASSIVE")
  /\ r.at \in {"accept", "address"} => Has(c, table[r.listener], "PASSIVE")
  /\ r.at \in {"start", "raise", "connectStart", "sweepFlag"} => Has(c, table[r.sock], "ACTIVE")
  /\ r.at = "close" => Has(c, table[r.sock], "ACTIVE") /\ table[r.sock].tcp \in Open
  /\ r.at \in {"sleep", "woken"} /\ r.op \in {"ACCEPT", "CONNECT"} =>
       Has(c, table[r.sock], "ACTIVE") /\ r.wanted = {"ESTABLISHED"}
  /\ Filling(r) => table[r.sock] = Allotted

\* No two requests were given the same free entry.
NoneShared ==
  \A c, d \in Clients : c # d /\ Filling(req[c]) /\ Filling(req[d]) => req[c].sock # req[d].sock

IInv ==
  /\ Typed
  /\ NoLockLeftBehind
  /\ PortsPointAtTheirSockets
  /\ \A i \in Sockets : EntryOK(i, entry[i], thread[i], req[entry[i].creator])
  /\ \A c \in Clients : RequestOK(c, req[c], entry)
  /\ NoneShared

----------------------------------------------------------------------------
(* Sets of numbers, look-ups, requests and threads *)

LEMMA SocketFacts ==
  /\ Sockets \subseteq Nat /\ NoSocket \notin Sockets /\ Nobody \notin Clients
  /\ 0 \in Sockets /\ 0 \in Ports /\ PortTableSize - 1 \in Ports /\ Ports \subseteq Nat
  /\ \A i \in Sockets : i + 1 \in Sockets \cup {NoSocket}
BY SocketsAssumption DEF Sockets, NoSocket, Ports

LEMMA LeastIsMember == ASSUME NEW S \in SUBSET Nat, S # {} PROVE Least(S) \in S
<1>1. PICK n \in S : \A m \in S : <<m, n>> \notin OpToRel(<, Nat)
  BY NatLessThanWellFounded, WFMin
<1>2. ASSUME NEW m \in S PROVE n <= m
  <2>1. m \in Nat /\ n \in Nat /\ ~(m < n)
    BY <1>1 DEF OpToRel
  <2> QED BY <2>1
<1> QED BY <1>2 DEF Least

\* allocate_socket takes a free entry.
LEMMA FreeFacts == ASSUME Free # {} PROVE Least(Free) \in Sockets /\ entry[Least(Free)].available
<1>1. Free \subseteq Nat
  BY SocketFacts DEF Free
<1> QED BY <1>1, LeastIsMember DEF Free

LEMMA EphemeralPort == find_ephemeral_port \in Ports
<1> DEFINE free == {p \in Ports : p >= EphemeralStart /\ port_table[p] = NoSocket}
<1>1. free \in SUBSET Nat
  BY SocketFacts
<1>2. CASE free = {}
  BY <1>2, SocketFacts DEF find_ephemeral_port
<1>3. CASE free # {}
  <2>1. Least(free) \in free
    BY <1>1, <1>3, LeastIsMember
  <2> QED BY <1>3, <2>1 DEF find_ephemeral_port
<1> QED BY <1>2, <1>3

\* A packet's look-up that ends with a socket ends with one that matches best.
LEMMA LookupSocket ==
  ASSUME NEW p, NEW r, NEW i, i = lookup_socket(p, r), i # NoSocket
  PROVE  /\ i \in Sockets /\ Matches(i, p, r)
         /\ \A j \in Sockets : Matches(j, p, r) => Wildcards(i) <= Wildcards(j)
<1> DEFINE found == {k \in Sockets : Matches(k, p, r)}
           best == {k \in found : \A j \in found : Wildcards(k) <= Wildcards(j)}
<1>1. CASE found = {}
  BY <1>1 DEF lookup_socket
<1>2. CASE found # {}
  <2>0. \A k \in found : Wildcards(k) \in 0 .. 2
    BY DEF Wildcards
  <2>1. best # {}
    <3>1. CASE \E k \in found : Wildcards(k) = 0
      BY <2>0, <3>1
    <3>2. CASE (\A k \in found : Wildcards(k) # 0) /\ \E k \in found : Wildcards(k) = 1
      BY <2>0, <3>2
    <3>3. CASE \A k \in found : Wildcards(k) # 0 /\ Wildcards(k) # 1
      <4>1. PICK k \in found : TRUE
        BY <1>2
      <4>2. \A j \in found : Wildcards(j) = 2
        BY <2>0, <3>3
      <4> QED BY <4>1, <4>2
    <3> QED BY <3>1, <3>2, <3>3
  <2>2. best \in SUBSET Nat
    BY SocketFacts
  <2>3. Least(best) \in best
    BY <2>1, <2>2, LeastIsMember
  <2>4. i \in best
    BY <1>2, <2>3 DEF lookup_socket
  <2> QED BY <2>4
<1> QED BY <1>1, <1>2

\* The most urgent event is one that is pending.
LEMMA PendingFacts ==
  ASSUME NEW i \in Sockets, NEW f, entry[i].flags \in SUBSET Events, Pending(i, f)
  PROVE  thread[i].at = "wait" /\ f \in entry[i].flags
<1> DEFINE S == {n \in 1 .. Len(Urgency) : Urgency[n] \in entry[i].flags}
<1>0. Len(Urgency) = 4 /\ Urgency[1] = "app_close" /\ Urgency[2] = "app_connect"
      /\ Urgency[3] = "net_recv" /\ Urgency[4] = "cleanup"
  BY DEF Urgency
<1>1. S \in SUBSET Nat
  BY <1>0
<1>2. PICK g \in entry[i].flags : g \in Events
  BY DEF Pending
<1>3. S # {}
  <2>1. \E n \in 1 .. 4 : Urgency[n] = g
    BY <1>0, <1>2 DEF Events
  <2> QED BY <1>0, <1>2, <2>1
<1>4. Least(S) \in S
  BY <1>1, <1>3, LeastIsMember
<1> QED BY <1>4 DEF Pending, MostUrgent

\* What a request is about, at each of its steps.
LEMMA RequestFields ==
  ASSUME NEW r \in Requests
  PROVE  /\ r.at \in {"idle", "socket", "bind", "listen", "accept", "address", "start", "raise",
                      "sleep", "woken", "connect", "connectStart", "free", "close", "watch",
                      "sweep", "sweepFlag"}
         /\ r.at \notin {"idle", "accept", "sweep"} => r.sock \in Sockets
         /\ r.at = "sweep" => r.sock \in Sockets \cup {NoSocket}
         /\ r.at \in {"accept", "address", "start", "raise"} => r.listener \in Sockets
         /\ r.at \in {"address", "start", "raise", "connect", "connectStart"} => r.peer \in Peers
         /\ r.at \in {"bind", "connect", "connectStart"} => r.port \in Ports
         /\ r.at = "bind" => r.any \in BOOLEAN
         /\ r.at \in {"sleep", "woken"} =>
              /\ r.op \in {"ACCEPT", "CONNECT", "CLOSE", "WAIT_FOR_STATE"}
              /\ r = [at |-> r.at, sock |-> r.sock, op |-> r.op, wanted |-> r.wanted]
         /\ r.at \in {"sleep", "woken", "watch"} => r.wanted \in SUBSET TcpStates
         /\ r.at \in {"address", "start"} =>
              r = [at |-> r.at, listener |-> r.listener, sock |-> r.sock, peer |-> r.peer]
         /\ r.at = "connect" => r = [at |-> r.at, sock |-> r.sock, port |-> r.port, peer |-> r.peer]
         /\ r.at = "sweep" => r = [at |-> r.at, sock |-> r.sock]
BY DEF Requests

LEMMA ThreadFields ==
  ASSUME NEW th \in TcpThreads
  PROVE  /\ th.at \in {"none", "wait", "after", "arrival", "set"}
         /\ th.at = "arrival" => th.handler \in TcpStates /\ th \in Resting
         /\ th.at = "set" => /\ th.states \in Seq(TcpStates) /\ th.states # <<>>
                             /\ th.then \in Resting
                             /\ th = [at |-> "set", states |-> th.states, then |-> th.then]
BY DEF TcpThreads, Resting

LEMMA RestingFields ==
  ASSUME NEW th \in Resting
  PROVE  th \in TcpThreads /\ th.at \in {"wait", "after", "arrival"}
BY DEF TcpThreads, Resting

----------------------------------------------------------------------------
(* What a step leaves as it was *)

\* A request that does nothing itself may be woken.
Roused(r) == [at |-> "woken", sock |-> r.sock, op |-> r.op, wanted |-> r.wanted]
Similar(r, s) == s = r \/ (r.at = "sleep" /\ s = Roused(r))

\* What request r had in hand about socket i, request s that follows it has in hand.
Follows(r, s, i) ==
  /\ Sweeping(r) => Sweeping(s) /\ s.sock >= r.sock
  /\ Starting(r, i) => Starting(s, i)
  /\ ~Sweeping(s) => (BeingOpened(r, i) => BeingOpened(s, i)) /\ (Closing(r, i) => Closing(s, i))

\* The change of entry i from e to f is nothing to the client c, whose request is r: the
\* entry is not its own, or it stays its own, or c is leaving and has done with it.
Keeps(c, r, i, e, f) ==
  \/ e.creator # c /\ ~(Filling(r) /\ r.sock = i)
  \/ /\ e.creator # Nobody
     /\ f.available = e.available /\ f.creator = e.creator /\ f.actpas = e.actpas
     /\ f.bound = e.bound
     /\ r.at = "close" /\ r.sock = i /\ e.tcp \in Open => f.tcp \in Open
  \/ Sweeping(r) /\ r.sock # i

LEMMA SimilarFacts ==
  ASSUME NEW r \in Requests, NEW s, Similar(r, s)
  PROVE  /\ s \in Requests
         /\ s.at = r.at \/ (r.at = "sleep" /\ s.at = "woken")
         /\ r.at # "idle" => s.sock = r.sock
         /\ r.at \in {"sleep", "woken"} => s.op = r.op /\ s.wanted = r.wanted
         /\ ~(r.at \in {"sleep", "woken"}) => s = r
<1>1. CASE s = r
  BY <1>1, RequestFields
<1>2. CASE r.at = "sleep" /\ s = Roused(r)
  <2>1. s \in Requests
    BY <1>2, RequestFields DEF Requests, Roused
  <2> QED BY <1>2, <2>1 DEF Roused
<1> QED BY <1>1, <1>2 DEF Similar

LEMMA SimilarFollows ==
  ASSUME NEW r \in Requests, NEW s, Similar(r, s), NEW i PROVE Follows(r, s, i)
<1>1. r.at \in {"sweep"} => r.sock \in Nat
  BY SocketFacts, RequestFields, SocketsAssumption DEF NoSocket
<1>2. r.at \in {"sweepFlag"} => r.sock \in Nat
  BY SocketFacts, RequestFields
<1> QED BY <1>1, <1>2, SimilarFacts DEF Follows, Sweeping, Starting, BeingOpened, Closing, Waits

\* cond_signal wakes one of those that sleep, and nobody else changes.
LEMMA SignalFacts ==
  ASSUME req \in [Clients -> Requests], NEW i, NEW r \in [Clients -> Requests],
         \A c \in Clients : req[c].at = "sleep" => r[c] = req[c],
         NEW s \in Signalled(i, r)
  PROVE  s \in [Clients -> Requests] /\ \A c \in Clients : Similar(r[c], s[c])
<1>1. CASE s = r
  BY <1>1 DEF Similar
<1>2. CASE s # r
  <2>1. PICK d \in Sleepers(i) : s = [r EXCEPT ![d].at = "woken"]
    BY <1>2 DEF Signalled
  <2>2. d \in Clients /\ r[d].at = "sleep" /\ r[d] \in Requests
    BY <2>1 DEF Sleepers
  <2>3. s = [r EXCEPT ![d] = Roused(r[d])]
    <3>1. r[d] = [at |-> r[d].at, sock |-> r[d].sock, op |-> r[d].op, wanted |-> r[d].wanted]
      BY <2>2, RequestFields
    <3>2. [r[d] EXCEPT !.at = "woken"] = Roused(r[d])
      BY <3>1 DEF Roused
    <3> QED BY <2>1, <2>2, <3>2
  <2>4. \A c \in Clients : Similar(r[c], s[c])
    <3>1. \A c \in Clients : s[c] = r[c] \/ (c = d /\ s[c] = Roused(r[c]))
      BY <2>2, <2>3
    <3> QED BY <2>2, <3>1 DEF Similar
  <2>5. \A c \in Clients : s[c] \in Requests
    BY <2>4, SimilarFacts
  <2> QED BY <2>3, <2>4, <2>5
<1> QED BY <1>1, <1>2

\* An entry whose request and thread go on as they were.
LEMMA EntryElsewhere ==
  ASSUME NEW i \in Sockets, NEW e, NEW th, NEW r \in Requests, NEW s \in Requests,
         EntryOK(i, e, th, r), Follows(r, s, i)
  PROVE  EntryOK(i, e, th, s)
<1>0. i \in Nat /\ (Sweeping(r) => r.sock \in Nat) /\ (Sweeping(s) => s.sock \in Nat)
  BY SocketFacts, RequestFields, SocketsAssumption DEF NoSocket, Sweeping
<1>1. "cleanup" \in e.flags => Sweeping(s) /\ s.sock > i
  BY <1>0 DEF EntryOK, Follows
<1>2. ASSUME e.actpas = "ACTIVE", ~Sweeping(s) PROVE InStage(i, e, th, s)
  <2>1. ~Sweeping(r) /\ InStage(i, e, th, r)
    BY <1>2 DEF EntryOK, Follows
  <2>2. (BeingOpened(r, i) => BeingOpened(s, i)) /\ (Closing(r, i) => Closing(s, i))
    BY <1>2 DEF Follows
  <2> QED BY <2>1, <2>2 DEF InStage
<1> QED BY <1>1, <1>2 DEF EntryOK, Follows

\* An entry that has no creator has no thread and no flags, whatever its request.
LEMMA EntryOfNobody ==
  ASSUME NEW i, NEW e, NEW th, NEW r, NEW s, EntryOK(i, e, th, r), e.creator = Nobody
  PROVE  EntryOK(i, e, th, s)
BY DEF EntryOK

\* A request whose entries are not changed, or change without harm to it.
LEMMA RequestElsewhere ==
  ASSUME NEW c \in Clients, NEW r \in Requests, NEW s, Similar(r, s),
         NEW t \in [Sockets -> Entries], NEW u, RequestOK(c, r, t),
         \A i \in Sockets : u[i] = t[i] \/ Keeps(c, r, i, t[i], u[i])
  PROVE  RequestOK(c, s, u)
<1> DEFINE Good(i) == u[i] = t[i] \/ Keeps(c, r, i, t[i], u[i])
<1>0. c # Nobody
  BY SocketFacts
<1>1. ASSUME NEW i \in Sockets, NEW kind, Has(c, t[i], kind), ~(Sweeping(r) /\ r.sock # i)
      PROVE  Has(c, u[i], kind) /\ u[i].bound = t[i].bound
             /\ (r.at = "close" /\ r.sock = i /\ t[i].tcp \in Open => u[i].tcp \in Open)
  BY <1>1 DEF Keeps, Has
<1>2. ASSUME Filling(r) PROVE u[r.sock] = Allotted
  <2>1. r.sock \in Sockets /\ t[r.sock] = Allotted
    BY <1>2, RequestFields DEF RequestOK, Filling
  <2>2. ~Sweeping(r) /\ t[r.sock].creator = Nobody
    BY <1>2, <2>1 DEF Filling, Sweeping, Allotted, Blank
  <2> QED BY <1>2, <2>1, <2>2 DEF Keeps
<1>3. RequestOK(c, r, u)
  <2>1. r.at \in {"bind", "connect"} => Has(c, u[r.sock], "UNINITIALIZED") /\ ~u[r.sock].bound
    BY <1>1, RequestFields DEF RequestOK, Sweeping
  <2>2. r.at \in {"listen", "free"} => Has(c, u[r.sock], "PASSIVE")
    BY <1>1, RequestFields DEF RequestOK, Sweeping
  <2>3. r.at \in {"accept", "address"} => Has(c, u[r.listener], "PASSIVE")
    BY <1>1, RequestFields DEF RequestOK, Sweeping
  <2>4. r.at \in {"start", "raise", "connectStart", "sweepFlag"} => Has(c, u[r.sock], "ACTIVE")
    BY <1>1, RequestFields DEF RequestOK, Sweeping
  <2>5. r.at = "close" => Has(c, u[r.sock], "ACTIVE") /\ u[r.sock].tcp \in Open
    BY <1>1, RequestFields DEF RequestOK, Sweeping
  <2>6. r.at \in {"sleep", "woken"} /\ r.op \in {"ACCEPT", "CONNECT"} =>
          Has(c, u[r.sock], "ACTIVE") /\ r.wanted = {"ESTABLISHED"}
    BY <1>1, RequestFields DEF RequestOK, Sweeping
  <2> QED BY <1>2, <2>1, <2>2, <2>3, <2>4, <2>5, <2>6 DEF RequestOK
<1>4. CASE s = r
  BY <1>3, <1>4
<1>5. CASE r.at = "sleep"
  <2>1. s.at \in {"sleep", "woken"} /\ s.sock = r.sock /\ s.op = r.op /\ s.wanted = r.wanted
    BY <1>5, SimilarFacts
  <2> QED BY <1>3, <1>5, <2>1 DEF RequestOK, Filling
<1> QED BY <1>4, <1>5 DEF Similar

\* A step of the clients in C that changes the entries in I at most: these clients and
\* entries are as they should be afterwards, and it leaves the others what they rely on.
StepOn(I, C) ==
  /\ \A j \in Sockets \ I : entry'[j] = entry[j] /\ thread'[j] = thread[j]
  /\ \A d \in Clients \ C : Similar(req[d], req'[d])
  /\ \A i \in I : EntryOK(i, entry'[i], thread'[i], req'[entry'[i].creator])
  /\ \A c \in C : /\ RequestOK(c, req'[c], entry')
                  /\ Filling(req'[c]) =>
                       \A d \in Clients \ {c} : Filling(req'[d]) => req'[d].sock # req'[c].sock
                  /\ \A j \in Sockets \ I : entry[j].creator = c => Follows(req[c], req'[c], j)
  /\ \A d \in Clients \ C, i \in I : Keeps(d, req[d], i, entry[i], entry'[i])

LEMMA StepKeepsInvariant ==
  ASSUME IInv, Typed', lock' = lock, PortsPointAtTheirSockets',
         NEW I \in SUBSET Sockets, NEW C \in SUBSET Clients, StepOn(I, C)
  PROVE  IInv'
<1> USE DEF StepOn
<1>1. NoLockLeftBehind'
  BY DEF IInv, NoLockLeftBehind
<1>2. ASSUME NEW j \in Sockets
      PROVE  EntryOK(j, entry[j], thread[j], req[entry[j].creator])' 
  <2>0. CASE j \in I
    BY <2>0
  <2>1. CASE j \notin I /\ entry[j].creator = Nobody
    <3>1. EntryOK(j, entry[j], thread[j], req[entry[j].creator])
      BY DEF IInv
    <3>2. entry'[j] = entry[j] /\ thread'[j] = thread[j]
      BY <2>1
    <3>3. EntryOK(j, entry[j], thread[j], req'[entry'[j].creator])
      BY <2>1, <3>1, EntryOfNobody
    <3> QED BY <3>2, <3>3
  <2>2. CASE j \notin I /\ entry[j].creator # Nobody
    <3> DEFINE o == entry[j].creator
    <3>1. o \in Clients /\ req[o] \in Requests /\ req'[o] \in Requests
      BY <2>2 DEF IInv, Typed, Entries
    <3>2. Follows(req[o], req'[o], j)
      BY <2>2, <3>1, SimilarFollows
    <3>3. EntryOK(j, entry[j], thread[j], req'[o])
      BY <3>1, <3>2, EntryElsewhere DEF IInv
    <3>4. entry'[j] = entry[j] /\ thread'[j] = thread[j]
      BY <2>2
    <3> QED BY <3>3, <3>4
  <2> QED BY <2>0, <2>1, <2>2
<1>3. ASSUME NEW c \in Clients PROVE RequestOK(c, req[c], entry)'
  <2>0. CASE c \in C
    BY <2>0
  <2>1. CASE c \notin C
    <3>1. Similar(req[c], req'[c]) /\ req[c] \in Requests /\ RequestOK(c, req[c], entry)
      BY <2>1 DEF IInv, Typed
    <3>2. \A i \in Sockets : entry'[i] = entry[i] \/ Keeps(c, req[c], i, entry[i], entry'[i])
      BY <2>1
    <3>3. entry \in [Sockets -> Entries]
      BY DEF IInv, Typed
    <3> HIDE DEF IInv, Typed, Similar, Keeps, RequestOK
    <3> QED BY <3>1, <3>2, <3>3, RequestElsewhere
  <2> QED BY <2>0, <2>1
<1>4. NoneShared'
  <2> SUFFICES ASSUME NEW c \in Clients, NEW d \in Clients, c # d, Filling(req'[c]), Filling(req'[d])
               PROVE  req'[c].sock # req'[d].sock
    BY DEF NoneShared
  <2>1. CASE c \in C \/ d \in C
    BY <2>1
  <2>2. CASE c \notin C /\ d \notin C
    <3>1. \A b \in {c, d} : /\ Similar(req[b], req'[b]) /\ req[b] \in Requests
      BY <2>2 DEF IInv, Typed
    <3>2. \A b \in {c, d} : req'[b] = req[b]
      BY <3>1, SimilarFacts DEF Filling
    <3> QED BY <3>2 DEF IInv, NoneShared
  <2> QED BY <2>1, <2>2
<1> QED BY <1>1, <1>2, <1>3, <1>4 DEF IInv

----------------------------------------------------------------------------
(* The port table *)

\* A step that takes no port and moves no bound socket.
LEMMA PortsKept ==
  ASSUME PortsPointAtTheirSockets, Typed, port_table' = port_table,
         \A j \in Sockets : ~entry[j].available /\ entry[j].bound =>
           ~entry'[j].available /\ entry'[j].bound /\ entry'[j].port = entry[j].port
  PROVE  PortsPointAtTheirSockets'
<1> SUFFICES ASSUME NEW p \in Ports, port_table[p] # NoSocket
             PROVE  LET e == entry'[port_table[p]] IN ~e.available /\ e.bound /\ e.port = p
  BY DEF PortsPointAtTheirSockets
<1>1. port_table[p] \in Sockets
  BY DEF Typed
<1>2. LET e == entry[port_table[p]] IN ~e.available /\ e.bound /\ e.port = p
  BY DEF PortsPointAtTheirSockets
<1> QED BY <1>1, <1>2

\* A step that takes port p for a socket that had none.
LEMMA PortsTaken ==
  ASSUME PortsPointAtTheirSockets, Typed, NEW i \in Sockets, NEW p \in Ports, ~entry[i].bound,
         port_table' = [port_table EXCEPT ![p] = i],
         \A j \in Sockets \ {i} : entry'[j] = entry[j],
         ~entry'[i].available, entry'[i].bound, entry'[i].port = p
  PROVE  PortsPointAtTheirSockets'
<1> SUFFICES ASSUME NEW q \in Ports, port_table'[q] # NoSocket
             PROVE  LET e == entry'[port_table'[q]] IN ~e.available /\ e.bound /\ e.port = q
  BY DEF PortsPointAtTheirSockets
<1>1. CASE q = p
  BY <1>1 DEF Typed
<1>2. CASE q # p
  <2>1. port_table'[q] = port_table[q] /\ port_table[q] \in Sockets
    BY <1>2 DEF Typed
  <2>2. LET e == entry[port_table[q]] IN ~e.available /\ e.bound /\ e.port = q
    BY <2>1 DEF PortsPointAtTheirSockets
  <2>3. port_table[q] # i
    BY <2>2
  <2> QED BY <2>1, <2>2, <2>3
<1> QED BY <1>1, <1>2

\* free_socket_entry gives the socket's port back, and no lock was held.
LEMMA FreeSocketEntry ==
  ASSUME PortsPointAtTheirSockets, Typed, NoLockLeftBehind, NEW i \in Sockets, free_socket_entry(i)
  PROVE  /\ entry' = [entry EXCEPT ![i] = Blank] /\ lock' = lock
         /\ port_table' \in [Ports -> Sockets \cup {NoSocket}]
         /\ PortsPointAtTheirSockets'
<1> DEFINE q == IF entry[i].bound THEN entry[i].port ELSE PortTableSize - 1
<1>1. q \in Ports
  BY SocketFacts DEF Typed, Entries
<1>2. port_table' = [port_table EXCEPT ![q] = NoSocket] /\ entry' = [entry EXCEPT ![i] = Blank]
  BY DEF free_socket_entry
<1>3. lock' = lock
  BY DEF free_socket_entry, NoLockLeftBehind, Typed
<1>4. port_table' \in [Ports -> Sockets \cup {NoSocket}]
  BY <1>2 DEF Typed
<1>5. PortsPointAtTheirSockets'
  <2> SUFFICES ASSUME NEW p \in Ports, port_table'[p] # NoSocket
               PROVE  LET e == entry'[port_table'[p]] IN ~e.available /\ e.bound /\ e.port = p
    BY DEF PortsPointAtTheirSockets
  <2>1. p # q /\ port_table'[p] = port_table[p] /\ port_table[p] \in Sockets
    BY <1>1, <1>2 DEF Typed
  <2>2. LET e == entry[port_table[p]] IN ~e.available /\ e.bound /\ e.port = p
    BY <2>1 DEF PortsPointAtTheirSockets
  <2>3. port_table[p] # i
    BY <2>1, <2>2
  <2>4. entry'[port_table[p]] = entry[port_table[p]]
    BY <1>2, <2>1, <2>3 DEF Typed
  <2> QED BY <2>1, <2>2, <2>4
<1> QED BY <1>2, <1>3, <1>4, <1>5

----------------------------------------------------------------------------
(* The kinds of steps *)

LEMMA Entry ==
  ASSUME IInv, NEW i \in Sockets
  PROVE  /\ entry[i] \in Entries /\ thread[i] \in TcpThreads
         /\ EntryOK(i, entry[i], thread[i], req[entry[i].creator])
         /\ entry[i].creator # Nobody =>
              entry[i].creator \in Clients /\ req[entry[i].creator] \in Requests
BY DEF IInv, Typed, Entries

LEMMA BlankFacts ==
  /\ Blank \in Entries /\ Allotted \in Entries /\ Blank.available /\ ~Allotted.available
  /\ \A e \in {Blank, Allotted} : /\ e.creator = Nobody /\ e.actpas = "NONE" /\ e.tcp = "CLOSED"
                               /\ ~e.bound /\ e.flags = {} /\ e.packets = 0 /\ e.conns = <<>>
                               /\ e.remote = "ANY"
<1>1. <<>> \in Seq(Peers)
  OBVIOUS
<1>2. Blank \in Entries
  BY <1>1, SocketFacts DEF Blank, Entries, TcpStates
<1>3. Allotted \in Entries
  BY <1>1, SocketFacts DEF Blank, Allotted, Entries, TcpStates
<1>4. Blank.available /\ ~Allotted.available
  BY DEF Blank, Allotted
<1>5. /\ Allotted.creator = Nobody /\ Allotted.actpas = "NONE" /\ Allotted.tcp = "CLOSED"
      /\ ~Allotted.bound /\ Allotted.flags = {} /\ Allotted.packets = 0 /\ Allotted.conns = <<>>
      /\ Allotted.remote = "ANY"
  BY DEF Blank, Allotted
<1>6. /\ Blank.creator = Nobody /\ Blank.actpas = "NONE" /\ Blank.tcp = "CLOSED"
      /\ ~Blank.bound /\ Blank.flags = {} /\ Blank.packets = 0 /\ Blank.conns = <<>>
      /\ Blank.remote = "ANY"
  BY DEF Blank
<1> QED BY <1>2, <1>3, <1>4, <1>5, <1>6

\* A request that works on entry i, its own or one it was given.
LEMMA OwnStep ==
  ASSUME IInv, NEW c \in Clients, NEW i \in Sockets, NEW f \in Entries, NEW r \in Requests,
         entry' = [entry EXCEPT ![i] = f], req' = [req EXCEPT ![c] = r],
         thread' \in [Sockets -> TcpThreads], \A j \in Sockets \ {i} : thread'[j] = thread[j],
         lock' = lock, carry' = carry, port_table' \in [Ports -> Sockets \cup {NoSocket}],
         PortsPointAtTheirSockets',
         \/ entry[i].creator = c
         \/ entry[i].creator = Nobody /\ \A d \in Clients \ {c} : Filling(req[d]) => req[d].sock # i,
         f.creator \in {c, Nobody}, EntryOK(i, f, thread'[i], r), RequestOK(c, r, entry'),
         Filling(r) => \A d \in Clients \ {c} : Filling(req[d]) => req[d].sock # r.sock,
         \A j \in Sockets \ {i} : Follows(req[c], r, j)
  PROVE  IInv'
<1>1. Typed'
  BY DEF IInv, Typed
<1>2. \A j \in Sockets \ {i} : entry'[j] = entry[j] /\ thread'[j] = thread[j]
  BY DEF IInv, Typed
<1>3. req'[c] = r /\ entry'[i] = f
  BY DEF IInv, Typed
<1>4. \A d \in Clients \ {c} : req'[d] = req[d] /\ Similar(req[d], req'[d])
  BY DEF IInv, Typed, Similar
<1>5. EntryOK(i, entry'[i], thread'[i], req'[entry'[i].creator])
  <2>1. CASE f.creator = c
    BY <1>3, <2>1
  <2>2. CASE f.creator = Nobody
    <3>1. EntryOK(i, f, thread'[i], req'[f.creator])
      BY <2>2, EntryOfNobody
    <3> QED BY <1>3, <3>1
  <2> QED BY <2>1, <2>2
<1>6. ASSUME NEW d \in Clients \ {c} PROVE Keeps(d, req[d], i, entry[i], entry'[i])
  <2>1. c # Nobody /\ d # Nobody /\ d # c
    BY SocketFacts
  <2>2. Filling(req[d]) /\ req[d].sock = i => entry[i].creator = Nobody
    BY BlankFacts DEF IInv, RequestOK
  <2> QED BY <2>1, <2>2 DEF Keeps
<1>7. Filling(req'[c]) => \A d \in Clients \ {c} : Filling(req'[d]) => req'[d].sock # req'[c].sock
  BY <1>3, <1>4
<1>8. RequestOK(c, req'[c], entry')
  BY <1>3
<1>9. \A j \in Sockets \ {i} : Follows(req[c], req'[c], j)
  BY <1>3
<1>10. StepOn({i}, {c})
  BY <1>2, <1>4, <1>5, <1>6, <1>7, <1>8, <1>9 DEF StepOn
<1> QED BY <1>1, <1>10, StepKeepsInvariant

\* In most cases the entry is the client's own and stays so, with its port.
LEMMA OwnEntryStep ==
  ASSUME IInv, NEW c \in Clients, NEW i \in Sockets, NEW f \in Entries, NEW r \in Requests,
         NEW th \in TcpThreads,
         entry' = [entry EXCEPT ![i] = f], req' = [req EXCEPT ![c] = r],
         thread' = [thread EXCEPT ![i] = th], UNCHANGED <<lock, port_table, carry>>,
         entry[i].creator = c, f.creator = c, f.available = entry[i].available,
         entry[i].bound => f.bound /\ f.port = entry[i].port,
         EntryOK(i, f, th, r), ~Filling(r),
         ASSUME NEW t, t[i] = f PROVE RequestOK(c, r, t),
         \A j \in Sockets \ {i} : Follows(req[c], r, j)
  PROVE  IInv'
<1>1. /\ \A j \in Sockets \ {i} : entry'[j] = entry[j] /\ thread'[j] = thread[j]
      /\ entry'[i] = f /\ thread'[i] = th /\ thread' \in [Sockets -> TcpThreads]
      /\ port_table' \in [Ports -> Sockets \cup {NoSocket}]
  BY DEF IInv, Typed
<1>2. PortsPointAtTheirSockets'
  <2>1. Typed /\ PortsPointAtTheirSockets
    BY DEF IInv
  <2> QED BY <1>1, <2>1, PortsKept
<1>3. RequestOK(c, r, entry') /\ EntryOK(i, f, thread'[i], r)
  BY <1>1
<1> HIDE DEF IInv, Typed, EntryOK, RequestOK, Follows, Filling
<1> QED BY <1>1, <1>2, <1>3, OwnStep

LEMMA SameThread ==
  ASSUME IInv, NEW i \in Sockets PROVE thread = [thread EXCEPT ![i] = thread[i]]
BY DEF IInv, Typed

\* A request that changes no entry.
LEMMA LookingStep ==
  ASSUME IInv, NEW c \in Clients, NEW r \in Requests,
         UNCHANGED <<entry, thread, lock, port_table, carry>>, req' = [req EXCEPT ![c] = r],
         RequestOK(c, r, entry), ~Filling(r),
         \A j \in Sockets : entry[j].creator = c => Follows(req[c], r, j)
  PROVE  IInv'
<1>1. Typed'
  BY DEF IInv, Typed
<1>2. req'[c] = r
  BY DEF IInv, Typed
<1>3. \A d \in Clients \ {c} : Similar(req[d], req'[d])
  BY DEF IInv, Typed, Similar
<1>4. PortsPointAtTheirSockets'
  BY DEF IInv, PortsPointAtTheirSockets
<1>5. StepOn({}, {c})
  BY <1>2, <1>3 DEF StepOn
<1> QED BY <1>1, <1>4, <1>5, StepKeepsInvariant

\* A TCP thread at work on its entry, or a packet joining the entry's queue; the clients
\* may be woken.
LEMMA OneThreadStep ==
  ASSUME IInv, NEW i \in Sockets, NEW f \in Entries, NEW th \in TcpThreads,
         entry' = [entry EXCEPT ![i] = f], thread' = [thread EXCEPT ![i] = th],
         req' \in [Clients -> Requests], \A d \in Clients : Similar(req[d], req'[d]),
         lock' = lock, port_table' = port_table, carry' \in Carried,
         entry[i].actpas # "NONE",
         f.available = entry[i].available, f.creator = entry[i].creator,
         f.actpas = entry[i].actpas, f.bound = entry[i].bound, f.port = entry[i].port,
         EntryOK(i, f, th, req[f.creator]),
         ASSUME entry[i].tcp \in Open, req[f.creator].at = "close", req[f.creator].sock = i
         PROVE  f.tcp \in Open
  PROVE  IInv'
<1>1. Typed'
  BY DEF IInv, Typed
<1>2. \A j \in Sockets \ {i} : entry'[j] = entry[j] /\ thread'[j] = thread[j]
  BY DEF IInv, Typed
<1>3. entry'[i] = f /\ thread'[i] = th
  BY DEF IInv, Typed
<1>4. f.creator # Nobody /\ f.creator \in Clients
  BY Entry DEF EntryOK
<1>5. PortsPointAtTheirSockets'
  <2>1. Typed /\ PortsPointAtTheirSockets
    BY DEF IInv
  <2> QED BY <1>2, <1>3, <2>1, PortsKept
<1>6. EntryOK(i, entry'[i], thread'[i], req'[entry'[i].creator])
  <2>1. req[f.creator] \in Requests /\ req'[f.creator] \in Requests
    BY <1>4 DEF IInv, Typed
  <2>2. Follows(req[f.creator], req'[f.creator], i)
    BY <1>4, <2>1, SimilarFollows
  <2>3. EntryOK(i, f, th, req'[f.creator])
    BY <2>1, <2>2, EntryElsewhere
  <2> QED BY <1>3, <2>3
<1>7. ASSUME NEW d \in Clients PROVE Keeps(d, req[d], i, entry[i], entry'[i])
  <2>1. CASE d = f.creator
    BY <1>3, <1>4, <2>1 DEF Keeps
  <2>2. CASE d # f.creator
    <3>1. Filling(req[d]) => req[d].sock # i
      BY <1>4, BlankFacts DEF IInv, RequestOK
    <3> QED BY <2>2, <3>1 DEF Keeps
  <2> QED BY <2>1, <2>2
<1>8. StepOn({i}, {})
  BY <1>2, <1>6, <1>7 DEF StepOn
<1> QED BY <1>1, <1>5, <1>8, StepKeepsInvariant

----------------------------------------------------------------------------
(* The requests *)

InHand == {"start", "raise", "connectStart", "sleep", "woken", "sweep", "sweepFlag"}

\* A request that has nothing in hand may go anywhere.
LEMMA NothingInHand ==
  ASSUME NEW r, r.at \notin InHand, NEW s, NEW j PROVE Follows(r, s, j)
BY DEF InHand, Follows, Sweeping, Starting, BeingOpened, Closing, Waits

\* A request is about one socket only, as long as its application is there.
LEMMA OtherSockets ==
  ASSUME NEW r, ~Sweeping(r), NEW s, NEW j, r.sock # j PROVE Follows(r, s, j)
BY DEF Follows, Sweeping, Starting, BeingOpened, Closing, Waits

LEMMA Stepping ==
  ASSUME IInv, NEW c \in Clients
  PROVE  req[c] \in Requests /\ RequestOK(c, req[c], entry) /\ c # Nobody
BY SocketFacts DEF IInv, Typed

\* A client in {"idle"} that finds a socket of its own.
LEMMA MineFacts ==
  ASSUME IInv, NEW c \in Clients, NEW i \in Mine(c)
  PROVE  /\ i \in Sockets /\ ~entry[i].available /\ entry[i].creator = c
         /\ EntryOK(i, entry[i], thread[i], req[c]) /\ entry[i].actpas # "NONE"
         /\ req[c].at = "idle" /\ entry[i].actpas = "ACTIVE" => entry[i].tcp \notin Early
<1>1. i \in Sockets /\ ~entry[i].available /\ entry[i].creator = c
  BY DEF Mine
<1>2. EntryOK(i, entry[i], thread[i], req[c]) /\ c # Nobody
  BY <1>1, Entry, Stepping
<1>3. entry[i].actpas # "NONE"
  BY <1>1, <1>2 DEF EntryOK
<1>4. ASSUME req[c].at = "idle", entry[i].actpas = "ACTIVE" PROVE entry[i].tcp \notin Early
  <2>1. ~Sweeping(req[c]) /\ ~BeingOpened(req[c], i)
    BY <1>4 DEF Sweeping, BeingOpened, Waits
  <2> QED BY <1>2, <1>4, <2>1 DEF EntryOK, InStage
<1> QED BY <1>1, <1>2, <1>3, <1>4

LEMMA SocketStep == ASSUME IInv, NEW c \in Clients, Socket(c) PROVE IInv'
<1> DEFINE i == Least(Free)
           r == [at |-> "socket", sock |-> i]
<1>1. i \in Sockets /\ entry[i].available
  BY FreeFacts DEF Socket
<1>2. entry[i] = Blank /\ thread[i] \in TcpThreads /\ EntryOK(i, Blank, thread[i], req[Nobody])
  <2>1. thread[i] \in TcpThreads /\ EntryOK(i, entry[i], thread[i], req[entry[i].creator])
    BY <1>1, Entry
  <2>2. entry[i] = Blank
    BY <1>1, <2>1 DEF EntryOK
  <2> HIDE DEF i
  <2> QED BY <2>1, <2>2, BlankFacts
<1>3. entry' = [entry EXCEPT ![i] = Allotted] /\ req' = [req EXCEPT ![c] = r]
  BY <1>1, <1>2 DEF Socket, Goto, Allotted
<1>4. UNCHANGED <<lock, port_table, thread, carry>>
  BY DEF Socket
<1>5. r \in Requests
  BY <1>1 DEF Requests
<1>6. EntryOK(i, Allotted, thread[i], r)
  BY <1>2, BlankFacts DEF EntryOK, Blank
<1>7. entry'[i] = Allotted
  BY <1>1, <1>3 DEF IInv, Typed
<1>8. RequestOK(c, r, entry')
  BY <1>7 DEF RequestOK, Filling
<1>9. \A d \in Clients \ {c} : Filling(req[d]) => req[d].sock # i
  BY <1>1, BlankFacts DEF IInv, RequestOK
<1>10. \A j \in Sockets \ {i} : Follows(req[c], r, j)
  BY NothingInHand DEF Socket, InHand
<1>11. PortsPointAtTheirSockets'
  <2>1. \A j \in Sockets : ~entry[j].available =>  entry'[j] = entry[j]
    BY <1>1, <1>3 DEF IInv, Typed
  <2> QED BY <1>4, <2>1, PortsKept DEF IInv
<1>12. thread' \in [Sockets -> TcpThreads] /\ port_table' \in [Ports -> Sockets \cup {NoSocket}]
       /\ \A j \in Sockets \ {i} : thread'[j] = thread[j]
  BY <1>4 DEF IInv, Typed
<1>13. entry[i].creator = Nobody /\ Allotted.creator = Nobody
  BY <1>2, BlankFacts DEF Blank
<1> HIDE DEF i, r
<1> QED BY <1>1, <1>3, <1>4, <1>5, <1>6, <1>8, <1>9, <1>10, <1>11, <1>12, <1>13, OwnStep, BlankFacts DEF r

\* A request fills in the free entry that it was given.
LEMMA FillStep ==
  ASSUME IInv, NEW c \in Clients, Filling(req[c]), NEW f \in Entries, NEW r \in Requests,
         entry' = [entry EXCEPT ![req[c].sock] = f], req' = [req EXCEPT ![c] = r],
         UNCHANGED <<lock, port_table, thread, carry>>, f.creator = c, ~Filling(r),
         ASSUME NEW th, th.at = "none" PROVE EntryOK(req[c].sock, f, th, r),
         ASSUME NEW t, t[req[c].sock] = f PROVE RequestOK(c, r, t)
  PROVE  IInv'
<1> DEFINE i == req[c].sock
<1>1. i \in Sockets /\ entry[i] = Allotted /\ entry[i].creator = Nobody /\ ~entry[i].bound
  BY Stepping, RequestFields, BlankFacts DEF Filling, RequestOK
<1>2. thread[i].at = "none"
  BY <1>1, Entry, BlankFacts DEF EntryOK
<1>3. EntryOK(i, f, thread'[i], r)
  BY <1>2
<1>4. /\ \A j \in Sockets \ {i} : entry'[j] = entry[j] /\ thread'[j] = thread[j]
      /\ entry'[i] = f /\ thread' \in [Sockets -> TcpThreads]
      /\ port_table' \in [Ports -> Sockets \cup {NoSocket}]
  BY <1>1 DEF IInv, Typed
<1>5. RequestOK(c, r, entry')
  BY <1>4
<1>6. PortsPointAtTheirSockets'
  <2>1. \A j \in Sockets : entry[j].bound => entry'[j] = entry[j]
    BY <1>1, <1>4
  <2> QED BY <2>1, PortsKept DEF IInv
<1>7. \A d \in Clients \ {c} : Filling(req[d]) => req[d].sock # i
  BY DEF IInv, NoneShared
<1>8. \A j \in Sockets \ {i} : Follows(req[c], r, j)
  BY NothingInHand DEF Filling, InHand
<1> HIDE DEF IInv, EntryOK, RequestOK, Follows, Filling
<1> QED BY <1>1, <1>3, <1>4, <1>5, <1>6, <1>7, <1>8, OwnStep

LEMMA SocketReturnStep == ASSUME IInv, NEW c \in Clients, SocketReturn(c) PROVE IInv'
<1> DEFINE i == req[c].sock
           f == Initialized(i, c)
<1>1. Filling(req[c]) /\ i \in Sockets /\ entry[i] = Allotted
  BY Stepping, RequestFields DEF SocketReturn, Filling, RequestOK
<1>2. f \in Entries /\ f.creator = c /\ f.actpas = "UNINITIALIZED" /\ f.tcp = "CLOSED"
      /\ f.flags = {} /\ ~f.available /\ f.remote = "ANY"
  BY <1>1, BlankFacts DEF Initialized, Entries, TcpStates
<1>3. Idle \in Requests /\ ~Filling(Idle) /\ Idle.at = "idle"
  BY DEF Idle, Requests, Filling
<1>4. ASSUME NEW th, th.at = "none" PROVE EntryOK(i, f, th, Idle)
  BY <1>2, <1>4, Stepping DEF EntryOK
<1>5. ASSUME NEW t PROVE RequestOK(c, Idle, t)
  BY <1>3 DEF RequestOK, Filling
<1>6. entry' = [entry EXCEPT ![i] = f] /\ req' = [req EXCEPT ![c] = Idle]
      /\ UNCHANGED <<lock, port_table, thread, carry>>
  BY DEF SocketReturn, Goto
<1> HIDE DEF f
<1> QED BY <1>1, <1>2, <1>3, <1>4, <1>5, <1>6, FillStep

\* A socket that is to be bound or connected has only been created.
LEMMA UnboundIsUninitialized ==
  ASSUME IInv, NEW c \in Clients, NEW i \in Mine(c), entry[i].tcp = "CLOSED", ~entry[i].bound
  PROVE  Has(c, entry[i], "UNINITIALIZED")
<1>1. entry[i].actpas \in {"NONE", "UNINITIALIZED", "ACTIVE", "PASSIVE"}
  BY MineFacts, Entry DEF Entries
<1> QED BY <1>1, MineFacts DEF EntryOK, Has

LEMMA BindStep ==
  ASSUME IInv, NEW c \in Clients, NEW i \in Sockets, NEW p \in Ports, NEW any \in AnyLocal,
         Bind(c, i, p, any)
  PROVE  IInv'
<1> DEFINE r == [at |-> "bind", sock |-> i, port |-> p, any |-> any]
<1>1. r \in Requests /\ ~Filling(r)
  BY SocketsAssumption DEF Requests, Filling
<1>2. RequestOK(c, r, entry)
  BY UnboundIsUninitialized DEF Bind, RequestOK, Filling
<1>3. \A j \in Sockets : Follows(req[c], r, j)
  BY NothingInHand DEF Bind, InHand
<1>4. UNCHANGED <<entry, thread, lock, port_table, carry>> /\ req' = [req EXCEPT ![c] = r]
  BY DEF Bind, Goto
<1> HIDE DEF r
<1> QED BY <1>1, <1>2, <1>3, <1>4, LookingStep

LEMMA ConnectStep ==
  ASSUME IInv, NEW c \in Clients, NEW i \in Sockets, NEW p \in Peers, Connect(c, i, p)
  PROVE  IInv'
<1> DEFINE r == [at |-> "connect", sock |-> i, port |-> find_ephemeral_port, peer |-> p]
<1>1. r \in Requests /\ ~Filling(r)
  BY EphemeralPort DEF Requests, Filling
<1>2. RequestOK(c, r, entry)
  BY UnboundIsUninitialized DEF Connect, RequestOK, Filling
<1>3. \A j \in Sockets : Follows(req[c], r, j)
  BY NothingInHand DEF Connect, InHand
<1>4. UNCHANGED <<entry, thread, lock, port_table, carry>> /\ req' = [req EXCEPT ![c] = r]
  BY DEF Connect, Goto
<1> HIDE DEF r
<1> QED BY <1>1, <1>2, <1>3, <1>4, LookingStep

LEMMA IdleFacts ==
  Idle \in Requests /\ ~Filling(Idle) /\ Idle.at = "idle" /\ \A c, t : RequestOK(c, Idle, t)
<1>1. Idle \in Requests /\ Idle.at = "idle"
  BY DEF Idle, Requests
<1> QED BY <1>1 DEF Filling, RequestOK

LEMMA BindSetStep == ASSUME IInv, NEW c \in Clients, BindSet(c) PROVE IInv'
<1> DEFINE r == req[c]
           i == r.sock
           f == [entry[i] EXCEPT !.bound = TRUE, !.port = r.port, !.any = r.any]
<1>1. /\ r.at = "bind" /\ i \in Sockets /\ r.port \in Ports /\ r.any \in BOOLEAN
      /\ Has(c, entry[i], "UNINITIALIZED") /\ ~entry[i].bound
  BY Stepping, RequestFields DEF BindSet, RequestOK
<1>2. entry[i] \in Entries /\ thread[i] \in TcpThreads /\ EntryOK(i, entry[i], thread[i], r)
  BY <1>1, Entry DEF Has
<1>3. /\ f \in Entries /\ f.creator = c /\ f.available = entry[i].available /\ f.bound
      /\ f.port = r.port /\ f.actpas = entry[i].actpas /\ f.tcp = entry[i].tcp
      /\ f.flags = entry[i].flags
  BY <1>1, <1>2 DEF Entries, Has
<1>4. EntryOK(i, f, thread[i], Idle)
  BY <1>1, <1>2, <1>3 DEF EntryOK, Has
<1>5. entry' = [entry EXCEPT ![i] = f] /\ req' = [req EXCEPT ![c] = Idle]
      /\ port_table' = [port_table EXCEPT ![r.port] = i] /\ UNCHANGED <<lock, thread, carry>>
  BY <1>2 DEF BindSet, Goto, Entries
<1>6. /\ \A j \in Sockets \ {i} : entry'[j] = entry[j] /\ thread'[j] = thread[j]
      /\ entry'[i] = f /\ thread' \in [Sockets -> TcpThreads]
      /\ port_table' \in [Ports -> Sockets \cup {NoSocket}]
  BY <1>1, <1>5 DEF IInv, Typed
<1>7. PortsPointAtTheirSockets'
  BY <1>1, <1>3, <1>5, <1>6, PortsTaken DEF IInv, Has
<1>8. \A j \in Sockets \ {i} : Follows(r, Idle, j)
  BY <1>1, NothingInHand DEF InHand
<1>9. entry[i].creator = c /\ EntryOK(i, f, thread'[i], Idle)
  BY <1>1, <1>4, <1>5 DEF Has
<1> HIDE DEF IInv, EntryOK, Follows, f
<1> QED BY <1>1, <1>3, <1>5, <1>6, <1>7, <1>8, <1>9, OwnStep, IdleFacts

LEMMA ListenStep == ASSUME IInv, NEW c \in Clients, NEW i \in Sockets, Listen(c, i) PROVE IInv'
<1> DEFINE f == [entry[i] EXCEPT !.actpas = "PASSIVE", !.tcp = "LISTEN"]
           r == [at |-> "listen", sock |-> i]
<1>1. req[c].at = "idle" /\ i \in Mine(c) /\ entry[i].tcp = "CLOSED"
  BY DEF Listen
<1>2. /\ entry[i].creator = c /\ ~entry[i].available /\ EntryOK(i, entry[i], thread[i], req[c])
      /\ entry[i] \in Entries /\ thread[i] \in TcpThreads /\ c # Nobody
  BY <1>1, MineFacts, Entry, Stepping
<1>3. entry[i].actpas # "ACTIVE"
  BY <1>1, MineFacts DEF Early
<1>4. /\ f \in Entries /\ f.creator = c /\ f.available = entry[i].available
      /\ f.bound = entry[i].bound /\ f.port = entry[i].port /\ f.actpas = "PASSIVE"
      /\ f.tcp = "LISTEN" /\ f.flags = entry[i].flags
  BY <1>2 DEF Entries, TcpStates
<1>5. r \in Requests /\ ~Filling(r)
  BY DEF Requests, Filling
<1>6. EntryOK(i, f, thread[i], r)
  BY <1>2, <1>3, <1>4 DEF EntryOK
<1>7. ASSUME NEW t, t[i] = f PROVE RequestOK(c, r, t)
  BY <1>2, <1>4, <1>7 DEF RequestOK, Has, Filling
<1>8. /\ entry' = [entry EXCEPT ![i] = f] /\ req' = [req EXCEPT ![c] = r]
      /\ UNCHANGED <<lock, port_table, thread, carry>>
  BY <1>2 DEF Listen, Goto, Entries
<1>9. thread' = [thread EXCEPT ![i] = thread[i]]
  BY <1>8, SameThread
<1>10. \A j \in Sockets \ {i} : Follows(req[c], r, j)
  BY <1>1, NothingInHand DEF InHand
<1> HIDE DEF IInv, EntryOK, RequestOK, Follows, f, r
<1> QED BY <1>2, <1>4, <1>5, <1>6, <1>7, <1>8, <1>9, <1>10, OwnEntryStep

LEMMA ListenInitStep == ASSUME IInv, NEW c \in Clients, ListenInit(c) PROVE IInv'
<1> DEFINE i == req[c].sock
           f == [entry[i] EXCEPT !.queue = TRUE]
<1>1. req[c].at = "listen" /\ i \in Sockets /\ Has(c, entry[i], "PASSIVE")
  BY Stepping, RequestFields DEF ListenInit, RequestOK
<1>2. entry[i] \in Entries /\ thread[i] \in TcpThreads /\ EntryOK(i, entry[i], thread[i], req[c])
  BY <1>1, Entry DEF Has
<1>3. /\ f \in Entries /\ f.creator = c /\ f.available = FALSE /\ f.bound = entry[i].bound
      /\ f.port = entry[i].port /\ f.actpas = "PASSIVE" /\ f.tcp = entry[i].tcp
      /\ f.flags = entry[i].flags
  BY <1>1, <1>2 DEF Entries, Has
<1>4. EntryOK(i, f, thread[i], Idle)
  BY <1>1, <1>2, <1>3 DEF EntryOK, Has
<1>5. /\ entry' = [entry EXCEPT ![i] = f] /\ req' = [req EXCEPT ![c] = Idle]
      /\ UNCHANGED <<lock, port_table, thread, carry>>
  BY <1>2 DEF ListenInit, Goto, Entries
<1>6. thread' = [thread EXCEPT ![i] = thread[i]]
  BY <1>1, <1>5, SameThread
<1>7. \A j \in Sockets \ {i} : Follows(req[c], Idle, j)
  BY <1>1, NothingInHand DEF InHand
<1>8. entry[i].creator = c /\ entry[i].available = FALSE
  BY <1>1, <1>2 DEF Has, Entries
<1> HIDE DEF IInv, EntryOK, RequestOK, Follows, f
<1> QED BY <1>1, <1>2, <1>3, <1>4, <1>5, <1>6, <1>7, <1>8, IdleFacts, OwnEntryStep

LEMMA AcceptCallStep == ASSUME IInv, NEW c \in Clients, NEW i \in Sockets, Accept(c, i) PROVE IInv'
<1> DEFINE r == [at |-> "accept", listener |-> i, sock |-> NoSocket]
<1>1. r \in Requests /\ ~Filling(r)
  BY DEF Requests, Filling
<1>2. RequestOK(c, r, entry)
  BY MineFacts DEF Accept, RequestOK, Has, Filling
<1>3. \A j \in Sockets : Follows(req[c], r, j)
  BY NothingInHand DEF Accept, InHand
<1>4. UNCHANGED <<entry, thread, lock, port_table, carry>> /\ req' = [req EXCEPT ![c] = r]
  BY DEF Accept, Goto
<1> HIDE DEF r
<1> QED BY <1>1, <1>2, <1>3, <1>4, LookingStep

\* The one step that changes two entries: the listener's, and the free one.
LEMMA AcceptAllocateStep == ASSUME IInv, NEW c \in Clients, AcceptAllocate(c) PROVE IInv'
<1> DEFINE l == req[c].listener
           n == Least(Free)
           f == [entry[l] EXCEPT !.conns = Tail(@)]
           r == [at |-> "address", listener |-> l, sock |-> n, peer |-> Head(entry[l].conns)]
<1>1. req[c].at = "accept" /\ l \in Sockets /\ Has(c, entry[l], "PASSIVE")
  BY Stepping, RequestFields DEF AcceptAllocate, RequestOK
<1>2. /\ entry[l] \in Entries /\ thread[l] \in TcpThreads /\ EntryOK(l, entry[l], thread[l], req[c])
      /\ entry[l].creator = c /\ entry[l].available = FALSE /\ entry[l].actpas = "PASSIVE"
  BY <1>1, Entry DEF Has, Entries
<1>3. entry[l].conns \in Seq(Peers) /\ entry[l].conns # <<>>
  BY <1>2 DEF AcceptAllocate, Entries
<1>4. /\ f \in Entries /\ f.creator = c /\ f.available = FALSE /\ f.bound = entry[l].bound
      /\ f.port = entry[l].port /\ f.actpas = "PASSIVE" /\ f.tcp = entry[l].tcp
      /\ f.flags = entry[l].flags
  <2>1. Tail(entry[l].conns) \in Seq(Peers)
    BY <1>3
  <2> QED BY <1>2, <2>1 DEF Entries
<1>5. \A s : EntryOK(l, f, thread[l], s)
  BY <1>2, <1>4, Stepping DEF EntryOK
<1>6. \A s, j : Follows(req[c], s, j)
  BY <1>1, NothingInHand DEF InHand
<1>7. UNCHANGED <<lock, port_table, thread, carry>>
  BY DEF AcceptAllocate
<1>8. CASE Free = {}
  <2>1. entry' = [entry EXCEPT ![l] = f] /\ req' = [req EXCEPT ![c] = Idle]
    BY <1>2, <1>8 DEF AcceptAllocate, Goto, Entries
  <2>2. thread' = [thread EXCEPT ![l] = thread[l]]
    BY <1>7, <1>1, SameThread
  <2> HIDE DEF IInv, EntryOK, RequestOK, Follows, f, r
  <2> QED BY <1>1, <1>2, <1>4, <1>5, <1>6, <1>7, <2>1, <2>2, IdleFacts, OwnEntryStep
<1>9. CASE Free # {}
  <2>1. n \in Sockets /\ entry[n].available
    BY <1>9, FreeFacts
  <2>2. n # l /\ entry[n] = Blank /\ EntryOK(n, entry[n], thread[n], req[entry[n].creator])
    BY <1>2, <2>1, Entry DEF EntryOK
  <2>3. entry' = [entry EXCEPT ![l] = f, ![n] = Allotted] /\ req' = [req EXCEPT ![c] = r]
    <3>1. entry' = [entry EXCEPT ![l].conns = Tail(@), ![n].available = FALSE]
      BY <1>9 DEF AcceptAllocate
    <3>2. entry \in [Sockets -> Entries]
      BY DEF IInv, Typed
    <3>3. entry' = [entry EXCEPT ![l] = f, ![n] = [entry[n] EXCEPT !.available = FALSE]]
      BY <1>1, <2>1, <2>2, <3>1, <3>2
    <3> QED BY <1>9, <2>2, <3>3 DEF AcceptAllocate, Goto, Allotted
  <2>4. /\ entry'[l] = f /\ entry'[n] = Allotted /\ thread' = thread
        /\ \A j \in Sockets \ {l, n} : entry'[j] = entry[j]
        /\ req'[c] = r /\ \A d \in Clients \ {c} : req'[d] = req[d]
    BY <1>1, <1>7, <2>1, <2>2, <2>3 DEF IInv, Typed
  <2>5. r \in Requests
    BY <1>1, <1>3, <2>1 DEF Requests
  <2>6. Typed'
    <3>1. entry' \in [Sockets -> Entries] /\ req' \in [Clients -> Requests]
      BY <1>4, <2>3, <2>5, BlankFacts DEF IInv, Typed
    <3> QED BY <1>7, <3>1 DEF IInv, Typed
  <2>7. PortsPointAtTheirSockets'
    <3>1. \A j \in Sockets : ~entry[j].available /\ entry[j].bound =>
            ~entry'[j].available /\ entry'[j].bound /\ entry'[j].port = entry[j].port
      BY <1>4, <2>1, <2>4
    <3> QED BY <1>7, <3>1, PortsKept DEF IInv
  <2>8. \A k \in {l, n} : EntryOK(k, entry'[k], thread'[k], req'[entry'[k].creator])
    <3>1. \A s : EntryOK(n, Allotted, thread[n], s)
      BY <2>2, BlankFacts DEF EntryOK
    <3> QED BY <1>5, <2>4, <3>1
  <2>9. RequestOK(c, r, entry')
    BY <1>4, <2>4 DEF RequestOK, Has, Filling
  <2>10. \A d \in Clients \ {c} : Filling(req[d]) => req[d].sock \notin {l, n}
    BY <1>2, <2>1, BlankFacts DEF IInv, RequestOK
  <2>11. \A d \in Clients \ {c}, k \in {l, n} : Keeps(d, req[d], k, entry[k], entry'[k])
    BY <1>2, <2>2, <2>10, BlankFacts, SocketFacts DEF Keeps
  <2>12. r.sock = n
    OBVIOUS
  <2>13. StepOn({l, n}, {c})
    <3> HIDE DEF IInv, Typed, EntryOK, RequestOK, Follows, Keeps, f, r
    <3>1. \A d \in Clients \ {c} : Similar(req[d], req'[d])
      BY <2>4 DEF Similar
    <3>2. \A d \in Clients \ {c} : Filling(req'[d]) => req'[d].sock # req'[c].sock
      BY <2>4, <2>10, <2>12
    <3> HIDE DEF l, n
    <3> QED BY <1>6, <2>4, <2>8, <2>9, <2>11, <3>1, <3>2 DEF StepOn
  <2> QED BY <1>1, <1>7, <2>1, <2>6, <2>7, <2>13, StepKeepsInvariant
<1> QED BY <1>8, <1>9

LEMMA AcceptAddressStep == ASSUME IInv, NEW c \in Clients, AcceptAddress(c) PROVE IInv'
<1> DEFINE i == req[c].sock
           l == req[c].listener
           f == [Initialized(i, c) EXCEPT !.actpas = "ACTIVE", !.bound = TRUE,
                   !.port = entry[l].port, !.remote = req[c].peer, !.queue = TRUE]
           r == [at |-> "start", listener |-> l, sock |-> i, peer |-> req[c].peer]
<1>1. /\ req[c].at = "address" /\ Filling(req[c]) /\ i \in Sockets /\ l \in Sockets
      /\ req[c].peer \in Peers /\ entry[i] = Allotted
      /\ req[c] = [at |-> "address", listener |-> l, sock |-> i, peer |-> req[c].peer]
  BY Stepping, RequestFields DEF AcceptAddress, Filling, RequestOK
<1>2. r \in Requests /\ ~Filling(r) /\ r = [req[c] EXCEPT !.at = "start"]
  BY <1>1 DEF Requests, Filling
<1>3. entry[l].port \in Ports
  BY <1>1 DEF IInv, Typed, Entries
<1>4. /\ Initialized(i, c) \in Entries /\ ~Initialized(i, c).available
      /\ Initialized(i, c).creator = c /\ Initialized(i, c).tcp = "CLOSED"
      /\ Initialized(i, c).flags = {}
  BY <1>1, BlankFacts DEF Initialized, Entries, TcpStates
<1>5. /\ f \in Entries /\ f.creator = c /\ f.actpas = "ACTIVE" /\ f.tcp = "CLOSED" /\ f.bound
      /\ f.flags = {} /\ ~f.available
  BY <1>1, <1>3, <1>4 DEF Entries
<1>6. ASSUME NEW th, th.at = "none" PROVE EntryOK(i, f, th, r)
  <2>1. Starting(r, i) /\ BeingOpened(r, i)
    BY DEF Starting, BeingOpened
  <2> HIDE DEF f, r
  <2>2. InStage(i, f, th, r)
    BY <1>5, <1>6, <2>1 DEF InStage, CloseAsked, Begun
  <2> QED BY <1>5, <1>6, <2>1, <2>2, Stepping DEF EntryOK
<1>7. ASSUME NEW t, t[i] = f PROVE RequestOK(c, r, t)
  BY <1>5, <1>7 DEF RequestOK, Has, Filling
<1>8. /\ entry' = [entry EXCEPT ![i] = f] /\ req' = [req EXCEPT ![c] = r]
      /\ UNCHANGED <<lock, port_table, thread, carry>>
  BY <1>2 DEF AcceptAddress
<1> HIDE DEF f, r
<1> QED BY <1>1, <1>2, <1>5, <1>6, <1>7, <1>8, FillStep

\* The socket that is being opened: no close is under way on it.
LEMMA OpeningFacts ==
  ASSUME IInv, NEW c \in Clients, req[c].at \in {"start", "raise", "connectStart"}
  PROVE  LET i == req[c].sock
             e == entry[i]
         IN /\ i \in Sockets /\ e \in Entries /\ thread[i] \in TcpThreads
            /\ e.creator = c /\ e.available = FALSE /\ e.actpas = "ACTIVE"
            /\ EntryOK(i, e, thread[i], req[c]) /\ InStage(i, e, thread[i], req[c])
            /\ "app_close" \notin e.flags /\ "cleanup" \notin e.flags /\ ~Begun(thread[i])
<1> DEFINE i == req[c].sock
           e == entry[i]
<1>1. i \in Sockets /\ Has(c, e, "ACTIVE")
  BY Stepping, RequestFields DEF RequestOK
<1>2. /\ e \in Entries /\ thread[i] \in TcpThreads /\ EntryOK(i, e, thread[i], req[c])
      /\ e.creator = c /\ e.available = FALSE /\ e.actpas = "ACTIVE"
  BY <1>1, Entry DEF Has, Entries
<1>3. ~Sweeping(req[c]) /\ ~Closing(req[c], i)
  BY DEF Sweeping, Closing, Waits
<1>4. InStage(i, e, thread[i], req[c]) /\ "cleanup" \notin e.flags
  BY <1>2, <1>3 DEF EntryOK
<1>5. "app_close" \notin e.flags /\ ~Begun(thread[i])
  BY <1>3, <1>4 DEF InStage, CloseAsked
<1> QED BY <1>1, <1>2, <1>4, <1>5

LEMMA AcceptStartStep == ASSUME IInv, NEW c \in Clients, AcceptStart(c) PROVE IInv'
<1> DEFINE i == req[c].sock
           e == entry[i]
           f == [e EXCEPT !.tcp = "LISTEN", !.packets = @ + 1]
           r == [at |-> "raise", listener |-> req[c].listener, sock |-> i, peer |-> req[c].peer]
<1>1. /\ req[c].at = "start" /\ req[c].listener \in Sockets /\ req[c].peer \in Peers
      /\ req[c] = [at |-> "start", listener |-> req[c].listener, sock |-> i, peer |-> req[c].peer]
  BY Stepping, RequestFields DEF AcceptStart
<1>2. /\ i \in Sockets /\ e \in Entries /\ e.creator = c /\ e.available = FALSE
      /\ e.actpas = "ACTIVE" /\ EntryOK(i, e, thread[i], req[c])
      /\ "app_close" \notin e.flags /\ "cleanup" \notin e.flags
  BY <1>1, OpeningFacts
<1>3. r \in Requests /\ ~Filling(r) /\ r = [req[c] EXCEPT !.at = "raise"]
  BY <1>1, <1>2 DEF Requests, Filling
<1>4. /\ f \in Entries /\ f.creator = c /\ f.available = FALSE /\ f.actpas = "ACTIVE"
      /\ f.bound = e.bound /\ f.port = e.port /\ f.tcp = "LISTEN" /\ f.flags = e.flags
  <2>1. e.packets \in Nat /\ e.packets + 1 \in Nat
    BY <1>2 DEF Entries
  <2>2. f = [e EXCEPT !.tcp = "LISTEN", !.packets = e.packets + 1]
    OBVIOUS
  <2> QED BY <1>2, <2>1, <2>2 DEF Entries, TcpStates
<1>5. Waiting \in TcpThreads /\ Waiting.at = "wait"
  BY DEF Waiting, TcpThreads, Resting
<1>6. EntryOK(i, f, Waiting, r)
  <2>1. BeingOpened(r, i)
    BY DEF BeingOpened
  <2> HIDE DEF f, r
  <2>2. InStage(i, f, Waiting, r)
    BY <1>2, <1>4, <1>5, <2>1 DEF InStage, CloseAsked, Begun
  <2> QED BY <1>2, <1>4, <1>5, <2>2 DEF EntryOK
<1>7. ASSUME NEW t, t[i] = f PROVE RequestOK(c, r, t)
  BY <1>4, <1>7 DEF RequestOK, Has, Filling
<1>8. /\ entry' = [entry EXCEPT ![i] = f] /\ req' = [req EXCEPT ![c] = r]
      /\ thread' = [thread EXCEPT ![i] = Waiting] /\ UNCHANGED <<lock, port_table, carry>>
  <2>1. e.packets \in Nat /\ entry \in [Sockets -> Entries]
    BY <1>2 DEF Entries, IInv, Typed
  <2>2. entry' = [entry EXCEPT ![i] = [entry[i] EXCEPT !.tcp = "LISTEN", !.packets = entry[i].packets + 1]]
    BY <1>2, <2>1 DEF AcceptStart
  <2> QED BY <1>3, <2>2 DEF AcceptStart
<1>9. \A j \in Sockets \ {i} : Follows(req[c], r, j)
  BY <1>1, OtherSockets DEF Sweeping
<1> HIDE DEF IInv, EntryOK, RequestOK, Follows, f, r
<1> QED BY <1>2, <1>3, <1>4, <1>5, <1>6, <1>7, <1>8, <1>9, OwnEntryStep

\* What a request that waits on socket i becomes, the socket's state being tcp.
Awaiting(tcp, i, op, wanted) ==
  IF tcp \in wanted THEN Idle ELSE [at |-> "sleep", sock |-> i, op |-> op, wanted |-> wanted]

LEMMA AnswerFacts ==
  ASSUME NEW tcp, NEW i \in Sockets, NEW op \in {"ACCEPT", "CONNECT", "CLOSE", "WAIT_FOR_STATE"},
         NEW wanted \in SUBSET TcpStates
  PROVE  LET r == Awaiting(tcp, i, op, wanted)
         IN /\ r \in Requests /\ ~Filling(r) /\ ~Sweeping(r)
            /\ tcp \in wanted => r = Idle
            /\ tcp \notin wanted => /\ r.at = "sleep" /\ r.sock = i /\ r.op = op
                                    /\ r.wanted = wanted
<1>1. CASE tcp \in wanted
  BY <1>1, IdleFacts DEF Awaiting, Sweeping
<1>2. CASE tcp \notin wanted
  BY <1>2 DEF Awaiting, Sweeping, Filling, Requests
<1> QED BY <1>1, <1>2

\* ACCEPT and CONNECT raise an event and wait for the connection.
LEMMA OpeningWaits ==
  ASSUME IInv, NEW c \in Clients, req[c].at \in {"start", "raise", "connectStart"},
         NEW op \in {"ACCEPT", "CONNECT"}, NEW flag \in {"app_connect", "net_recv"},
         NEW th \in TcpThreads, th.at # "none", th = thread[req[c].sock] \/ th.at = "wait",
         entry' = [entry EXCEPT ![req[c].sock].flags = @ \cup {flag}],
         thread' = [thread EXCEPT ![req[c].sock] = th],
         Await(c, req[c].sock, op, {"ESTABLISHED"}), UNCHANGED <<lock, port_table, carry>>
  PROVE  IInv'
<1> DEFINE i == req[c].sock
           e == entry[i]
           f == [e EXCEPT !.flags = @ \cup {flag}]
           r == Awaiting(e.tcp, i, op, {"ESTABLISHED"})
<1>1. /\ i \in Sockets /\ e \in Entries /\ e.creator = c /\ e.available = FALSE
      /\ e.actpas = "ACTIVE" /\ EntryOK(i, e, thread[i], req[c])
      /\ InStage(i, e, thread[i], req[c]) /\ ~Begun(thread[i])
      /\ "app_close" \notin e.flags /\ "cleanup" \notin e.flags
  BY OpeningFacts
<1>2. /\ f \in Entries /\ f.creator = c /\ f.available = FALSE /\ f.actpas = "ACTIVE"
      /\ f.bound = e.bound /\ f.port = e.port /\ f.tcp = e.tcp /\ f.flags = e.flags \cup {flag}
  BY <1>1 DEF Entries, Events
<1>3. /\ r \in Requests /\ ~Filling(r) /\ ~Sweeping(r)
      /\ e.tcp = "ESTABLISHED" => r = Idle
      /\ e.tcp # "ESTABLISHED" => /\ r.at = "sleep" /\ r.sock = i /\ r.op = op
                                  /\ r.wanted = {"ESTABLISHED"}
  <2>1. {"ESTABLISHED"} \in SUBSET TcpStates
    BY DEF TcpStates
  <2>2. op \in {"ACCEPT", "CONNECT", "CLOSE", "WAIT_FOR_STATE"}
    OBVIOUS
  <2>3. CASE e.tcp = "ESTABLISHED"
    <3>1. r = Idle
      BY <2>3 DEF Awaiting
    <3> HIDE DEF r
    <3> QED BY <2>3, <3>1, IdleFacts DEF Sweeping
  <2>4. CASE e.tcp # "ESTABLISHED"
    <3>1. r = [at |-> "sleep", sock |-> i, op |-> op, wanted |-> {"ESTABLISHED"}]
      BY <2>4 DEF Awaiting
    <3> HIDE DEF r
    <3> QED BY <1>1, <2>1, <2>2, <2>4, <3>1 DEF Requests, Filling, Sweeping
  <2> QED BY <2>3, <2>4
<1> HIDE DEF f, r
<1>4. EntryOK(i, f, th, r)
  <2>1. f.tcp \in Early => BeingOpened(r, i)
    BY <1>2, <1>3 DEF Early, BeingOpened, Waits
  <2>2. InStage(i, f, th, r)
    <3>1. "app_close" \notin f.flags /\ ~Begun(th)
      BY <1>1, <1>2 DEF Begun
    <3>2. CASE th = thread[i]
      BY <1>1, <1>2, <2>1, <3>1, <3>2 DEF InStage, CloseAsked
    <3>3. CASE th.at = "wait"
      BY <2>1, <3>1, <3>3 DEF InStage, CloseAsked
    <3> QED BY <3>2, <3>3
  <2> QED BY <1>1, <1>2, <2>2 DEF EntryOK
<1>5. ASSUME NEW t, t[i] = f PROVE RequestOK(c, r, t)
  <2>1. CASE e.tcp = "ESTABLISHED"
    BY <1>3, <2>1, IdleFacts
  <2>2. CASE e.tcp # "ESTABLISHED"
    BY <1>2, <1>3, <1>5, <2>2 DEF RequestOK, Has, Filling
  <2> QED BY <2>1, <2>2
<1>6. /\ entry' = [entry EXCEPT ![i] = f] /\ req' = [req EXCEPT ![c] = r]
      /\ thread' = [thread EXCEPT ![i] = th]
  BY <1>1 DEF Await, Goto, Awaiting, Entries, f, r
<1>7. \A j \in Sockets \ {i} : Follows(req[c], r, j)
  BY OtherSockets DEF Sweeping
<1> HIDE DEF IInv, EntryOK, RequestOK, Follows
<1> QED BY <1>1, <1>2, <1>3, <1>4, <1>5, <1>6, <1>7, OwnEntryStep

LEMMA AcceptRaiseStep == ASSUME IInv, NEW c \in Clients, AcceptRaise(c) PROVE IInv'
<1> DEFINE i == req[c].sock
<1>1. /\ req[c].at = "raise" /\ i \in Sockets /\ thread[i] \in TcpThreads
      /\ entry[i].actpas = "ACTIVE" /\ EntryOK(i, entry[i], thread[i], req[c])
  BY OpeningFacts DEF AcceptRaise
<1>2. thread[i].at # "none"
  BY <1>1 DEF EntryOK, Starting
<1>3. thread' = [thread EXCEPT ![i] = thread[i]]
  BY <1>1, SameThread DEF AcceptRaise
<1> QED BY <1>1, <1>2, <1>3, OpeningWaits DEF AcceptRaise

LEMMA ConnectStartStep == ASSUME IInv, NEW c \in Clients, ConnectStart(c) PROVE IInv'
<1>1. Waiting \in TcpThreads /\ Waiting.at = "wait"
  BY DEF Waiting, TcpThreads, Resting
<1> QED BY <1>1, OpeningWaits DEF ConnectStart

\* A request that was woken answers, or goes back to sleep as it was.
LEMMA WokenStep == ASSUME IInv, NEW c \in Clients, Woken(c) PROVE IInv'
<1> DEFINE i == req[c].sock
           e == entry[i]
           r == Awaiting(e.tcp, i, req[c].op, req[c].wanted)
<1>1. /\ req[c].at = "woken" /\ i \in Sockets /\ req[c].wanted \in SUBSET TcpStates
      /\ req[c].op \in {"ACCEPT", "CONNECT", "CLOSE", "WAIT_FOR_STATE"}
      /\ RequestOK(c, req[c], entry) /\ ~Sweeping(req[c]) /\ ~Starting(req[c], i)
  BY Stepping, RequestFields DEF Woken, Sweeping, Starting
<1>2. /\ e \in Entries /\ thread[i] \in TcpThreads
      /\ EntryOK(i, e, thread[i], req[e.creator])
  BY <1>1, Entry
<1>3. /\ r \in Requests /\ ~Filling(r) /\ ~Sweeping(r)
      /\ e.tcp \in req[c].wanted => r = Idle
      /\ e.tcp \notin req[c].wanted => /\ r.at = "sleep" /\ r.sock = i /\ r.op = req[c].op
                                       /\ r.wanted = req[c].wanted
  <2> DEFINE op == req[c].op
             wanted == req[c].wanted
             tcp == e.tcp
  <2>1. op \in {"ACCEPT", "CONNECT", "CLOSE", "WAIT_FOR_STATE"} /\ wanted \in SUBSET TcpStates
    BY <1>1
  <2> HIDE DEF op, wanted, tcp
  <2>2. LET s == Awaiting(tcp, i, op, wanted)
        IN /\ s \in Requests /\ ~Filling(s) /\ ~Sweeping(s)
           /\ tcp \in wanted => s = Idle
           /\ tcp \notin wanted => /\ s.at = "sleep" /\ s.sock = i /\ s.op = op
                                   /\ s.wanted = wanted
    BY <1>1, <2>1, AnswerFacts
  <2> QED BY <2>2 DEF op, wanted, tcp
<1>4. UNCHANGED <<entry, lock, port_table, thread, carry>> /\ req' = [req EXCEPT ![c] = r]
  BY DEF Woken, Await, Goto, Awaiting
<1> HIDE DEF r
<1>5. RequestOK(c, r, entry)
  <2>1. CASE e.tcp \in req[c].wanted
    BY <1>3, <2>1, IdleFacts
  <2>2. CASE e.tcp \notin req[c].wanted
    BY <1>1, <1>3, <2>2 DEF RequestOK, Filling
  <2> QED BY <2>1, <2>2
<1>6. \A j \in Sockets \ {i} : Follows(req[c], r, j)
  BY <1>1, OtherSockets
<1>7. ASSUME e.creator = c PROVE Follows(req[c], r, i) \/ EntryOK(i, e, thread[i], r)
  <2>1. EntryOK(i, e, thread[i], req[c])
    BY <1>2, <1>7
  <2>2. CASE e.tcp \notin req[c].wanted
    BY <1>1, <1>3, <2>2 DEF Follows, BeingOpened, Closing, Waits
  <2>3. CASE e.tcp \in req[c].wanted
    <3>1. "cleanup" \notin e.flags /\ (e.actpas = "ACTIVE" => thread[i].at # "none")
      BY <1>1, <2>1 DEF EntryOK
    <3>2. ASSUME e.actpas = "ACTIVE" PROVE InStage(i, e, thread[i], r)
      <4>1. InStage(i, e, thread[i], req[c])
        BY <1>1, <2>1, <3>2 DEF EntryOK
      <4>2. e.tcp \notin Early
        BY <1>1, <2>3, <4>1 DEF InStage, BeingOpened, Waits, Early
      <4>3. ~(CloseAsked(e) \/ Begun(thread[i]))
        BY <2>3, <4>1 DEF InStage, Closing
      <4> QED BY <4>1, <4>2, <4>3 DEF InStage
    <3> QED BY <2>1, <3>1, <3>2 DEF EntryOK
  <2> QED BY <2>2, <2>3
<1>8. CASE e.creator # c
  <2>1. \A j \in Sockets : entry[j].creator = c => Follows(req[c], r, j)
    BY <1>6, <1>8
  <2> QED BY <1>3, <1>4, <1>5, <2>1, LookingStep
<1>9. CASE e.creator = c
  <2>1. EntryOK(i, e, thread[i], r)
    BY <1>1, <1>2, <1>3, <1>7, <1>9, Stepping, EntryElsewhere
  <2>2. entry' = [entry EXCEPT ![i] = e] /\ thread' = [thread EXCEPT ![i] = thread[i]]
    BY <1>4 DEF IInv, Typed
  <2>3. ASSUME NEW t, t[i] = e PROVE RequestOK(c, r, t)
    <3>1. CASE e.tcp \in req[c].wanted
      BY <1>3, <3>1, IdleFacts
    <3>2. CASE e.tcp \notin req[c].wanted
      BY <1>3, <1>5, <2>3, <3>2 DEF RequestOK, Filling
    <3> QED BY <3>1, <3>2
  <2> HIDE DEF IInv, EntryOK, RequestOK, Follows
  <2> QED BY <1>1, <1>2, <1>3, <1>4, <1>6, <1>9, <2>1, <2>2, <2>3, OwnEntryStep
<1> QED BY <1>8, <1>9

LEMMA WaitForStateStep ==
  ASSUME IInv, NEW c \in Clients, NEW i \in Sockets, NEW s \in Awaited, WaitForState(c, i, s)
  PROVE  IInv'
<1> DEFINE r == [at |-> "watch", sock |-> i, wanted |-> {s}]
<1>1. r \in Requests /\ ~Filling(r) /\ RequestOK(c, r, entry)
  BY SocketsAssumption DEF Requests, Filling, RequestOK
<1>2. \A j \in Sockets : Follows(req[c], r, j)
  BY NothingInHand DEF WaitForState, InHand
<1>3. UNCHANGED <<entry, thread, lock, port_table, carry>> /\ req' = [req EXCEPT ![c] = r]
  BY DEF WaitForState, Goto
<1> HIDE DEF r
<1> QED BY <1>1, <1>2, <1>3, LookingStep

LEMMA WaitLockStep == ASSUME IInv, NEW c \in Clients, WaitLock(c) PROVE IInv'
<1> DEFINE i == req[c].sock
           tcp == entry[i].tcp
           wanted == req[c].wanted
           op == "WAIT_FOR_STATE"
           r == Awaiting(tcp, i, op, wanted)
<1>1. /\ req[c].at = "watch" /\ i \in Sockets /\ wanted \in SUBSET TcpStates
      /\ op \in {"ACCEPT", "CONNECT", "CLOSE", "WAIT_FOR_STATE"}
  BY Stepping, RequestFields DEF WaitLock
<1>2. UNCHANGED <<entry, thread, lock, port_table, carry>> /\ req' = [req EXCEPT ![c] = r]
  BY DEF WaitLock, Await, Goto, Awaiting
<1>3. /\ r \in Requests /\ ~Filling(r)
      /\ r = Idle \/ (r.at = "sleep" /\ r.op = op)
  <2> HIDE DEF tcp, wanted, op, i
  <2>1. LET s == Awaiting(tcp, i, op, wanted)
        IN /\ s \in Requests /\ ~Filling(s) /\ ~Sweeping(s)
           /\ tcp \in wanted => s = Idle
           /\ tcp \notin wanted => /\ s.at = "sleep" /\ s.sock = i /\ s.op = op
                                   /\ s.wanted = wanted
    BY <1>1, AnswerFacts
  <2> QED BY <2>1
<1>4. RequestOK(c, r, entry)
  <2> HIDE DEF r
  <2> QED BY <1>3, IdleFacts DEF RequestOK, Filling
<1>5. \A j \in Sockets : Follows(req[c], r, j)
  BY <1>1, NothingInHand DEF InHand
<1> HIDE DEF r
<1> QED BY <1>2, <1>3, <1>4, <1>5, LookingStep

LEMMA ConnectAddressStep == ASSUME IInv, NEW c \in Clients, ConnectAddress(c) PROVE IInv'
<1> DEFINE i == req[c].sock
           e == entry[i]
           f == [e EXCEPT !.actpas = "ACTIVE", !.bound = TRUE, !.any = TRUE,
                          !.port = req[c].port, !.remote = req[c].peer, !.queue = TRUE]
           r == [at |-> "connectStart", sock |-> i, port |-> req[c].port, peer |-> req[c].peer]
<1>1. /\ req[c].at = "connect" /\ i \in Sockets /\ req[c].port \in Ports /\ req[c].peer \in Peers
      /\ Has(c, e, "UNINITIALIZED") /\ ~e.bound
      /\ req[c] = [at |-> "connect", sock |-> i, port |-> req[c].port, peer |-> req[c].peer]
  BY Stepping, RequestFields DEF ConnectAddress, RequestOK
<1>2. /\ e \in Entries /\ thread[i] \in TcpThreads /\ EntryOK(i, e, thread[i], req[c])
      /\ e.creator = c /\ e.available = FALSE /\ e.actpas = "UNINITIALIZED" /\ c # Nobody
  BY <1>1, Entry, Stepping DEF Has, Entries
<1>3. e.tcp = "CLOSED" /\ e.flags = {} /\ thread[i].at = "none"
  BY <1>2 DEF EntryOK
<1>4. r \in Requests /\ ~Filling(r) /\ r = [req[c] EXCEPT !.at = "connectStart"]
  BY <1>1 DEF Requests, Filling
<1>5. /\ f \in Entries /\ f.creator = c /\ f.available = FALSE /\ f.actpas = "ACTIVE" /\ f.bound
      /\ f.port = req[c].port /\ f.tcp = "CLOSED" /\ f.flags = {}
  BY <1>1, <1>2, <1>3 DEF Entries
<1>6. EntryOK(i, f, thread[i], r)
  <2>1. Starting(r, i) /\ BeingOpened(r, i)
    BY DEF Starting, BeingOpened
  <2> HIDE DEF f, r
  <2>2. InStage(i, f, thread[i], r)
    BY <1>3, <1>5, <2>1 DEF InStage, CloseAsked, Begun
  <2> QED BY <1>2, <1>3, <1>5, <2>1, <2>2 DEF EntryOK
<1>7. /\ entry' = [entry EXCEPT ![i] = f] /\ req' = [req EXCEPT ![c] = r]
      /\ port_table' = [port_table EXCEPT ![req[c].port] = i] /\ UNCHANGED <<lock, thread, carry>>
  <2>1. entry \in [Sockets -> Entries]
    BY DEF IInv, Typed
  <2>2. entry' = [entry EXCEPT ![i] = f]
    BY <1>1, <2>1 DEF ConnectAddress, Entries
  <2> QED BY <1>4, <2>2 DEF ConnectAddress
<1>8. /\ \A j \in Sockets \ {i} : entry'[j] = entry[j] /\ thread'[j] = thread[j]
      /\ entry'[i] = f /\ thread' \in [Sockets -> TcpThreads]
      /\ port_table' \in [Ports -> Sockets \cup {NoSocket}]
  BY <1>1, <1>7 DEF IInv, Typed
<1>9. RequestOK(c, r, entry')
  <2>1. entry'[i] = f
    BY <1>8
  <2> HIDE DEF f
  <2> QED BY <1>5, <2>1 DEF RequestOK, Has, Filling
<1>10. PortsPointAtTheirSockets'
  <2> HIDE DEF f, r
  <2>1. ~entry'[i].available /\ entry'[i].bound /\ entry'[i].port = req[c].port
    BY <1>5, <1>8
  <2>2. /\ i \in Sockets /\ req[c].port \in Ports /\ ~entry[i].bound
        /\ port_table' = [port_table EXCEPT ![req[c].port] = i]
        /\ \A j \in Sockets \ {i} : entry'[j] = entry[j]
    BY <1>1, <1>7, <1>8
  <2>3. PortsPointAtTheirSockets /\ Typed
    BY DEF IInv
  <2> HIDE DEF i, e
  <2> QED BY <1>1, <2>1, <2>2, <2>3, PortsTaken
<1>11. \A j \in Sockets \ {i} : Follows(req[c], r, j)
  BY <1>1, NothingInHand DEF InHand
<1>12. EntryOK(i, f, thread'[i], r)
  BY <1>6, <1>7
<1> HIDE DEF IInv, EntryOK, RequestOK, Follows, f, r
<1> QED BY <1>1, <1>2, <1>4, <1>5, <1>7, <1>8, <1>9, <1>10, <1>11, <1>12, OwnStep

LEMMA CloseStep == ASSUME IInv, NEW c \in Clients, NEW i \in Sockets, Close(c, i) PROVE IInv'
<1>1. /\ req[c].at = "idle" /\ i \in Mine(c)
      /\ UNCHANGED <<entry, thread, lock, port_table, carry>>
  BY DEF Close
<1>2. /\ ~entry[i].available /\ entry[i].creator = c /\ entry[i].actpas # "NONE"
      /\ EntryOK(i, entry[i], thread[i], req[c])
      /\ entry[i].actpas \in {"NONE", "UNINITIALIZED", "ACTIVE", "PASSIVE"}
  BY <1>1, MineFacts, Entry DEF Entries
<1>3. \A r, j : Follows(req[c], r, j)
  BY <1>1, NothingInHand DEF InHand
<1>4. CASE entry[i].actpas = "PASSIVE" /\ req' = [req EXCEPT ![c] = [at |-> "free", sock |-> i]]
  <2> DEFINE r == [at |-> "free", sock |-> i]
  <2>1. r \in Requests /\ ~Filling(r) /\ RequestOK(c, r, entry)
    BY <1>2, <1>4 DEF Requests, Filling, RequestOK, Has
  <2> QED BY <1>1, <1>3, <1>4, <2>1, LookingStep
<1>5. CASE /\ entry[i].tcp \in {"ESTABLISHED", "CLOSE_WAIT"}
           /\ req' = [req EXCEPT ![c] = [at |-> "close", sock |-> i]]
  <2> DEFINE r == [at |-> "close", sock |-> i]
  <2>1. entry[i].actpas = "ACTIVE"
    BY <1>2, <1>5 DEF EntryOK
  <2>2. r \in Requests /\ ~Filling(r) /\ RequestOK(c, r, entry)
    BY <1>2, <1>5, <2>1 DEF Requests, Filling, RequestOK, Has, Open
  <2> QED BY <1>1, <1>3, <1>5, <2>2, LookingStep
<1> QED BY <1>4, <1>5 DEF Close, Goto

\* A passive socket is freed by its application.
LEMMA FreeStep ==
  ASSUME IInv, NEW c \in Clients, NEW i \in Sockets, Has(c, entry[i], "PASSIVE"),
         free_socket_entry(i), NEW r \in Requests, req' = [req EXCEPT ![c] = r],
         UNCHANGED <<thread, carry>>, ~Filling(r), \A t : RequestOK(c, r, t),
         \A j \in Sockets \ {i} : Follows(req[c], r, j)
  PROVE  IInv'
<1>1. /\ entry' = [entry EXCEPT ![i] = Blank] /\ lock' = lock
      /\ port_table' \in [Ports -> Sockets \cup {NoSocket}] /\ PortsPointAtTheirSockets'
  BY FreeSocketEntry DEF IInv
<1>2. entry[i].creator = c /\ thread[i].at = "none"
  BY Entry DEF Has, EntryOK
<1>3. EntryOK(i, Blank, thread'[i], r) /\ Blank \in Entries /\ Blank.creator = Nobody
  BY <1>2, BlankFacts DEF EntryOK
<1>4. thread' \in [Sockets -> TcpThreads] /\ \A j \in Sockets \ {i} : thread'[j] = thread[j]
  BY DEF IInv, Typed
<1> HIDE DEF IInv, EntryOK, RequestOK, Follows
<1> QED BY <1>1, <1>2, <1>3, <1>4, OwnStep

LEMMA CloseFreeStep == ASSUME IInv, NEW c \in Clients, CloseFree(c) PROVE IInv'
<1> DEFINE i == req[c].sock
<1>1. req[c].at = "free" /\ i \in Sockets /\ Has(c, entry[i], "PASSIVE")
  BY Stepping, RequestFields DEF CloseFree, RequestOK
<1>2. \A j : Follows(req[c], Idle, j)
  BY <1>1, NothingInHand DEF InHand
<1>3. free_socket_entry(i) /\ req' = [req EXCEPT ![c] = Idle] /\ UNCHANGED <<thread, carry>>
  BY DEF CloseFree, Goto
<1> QED BY <1>1, <1>2, <1>3, IdleFacts, FreeStep

\* A CLOSE finds its socket open still, so that it does wait, and keeps no lock.
LEMMA CloseRaiseStep == ASSUME IInv, NEW c \in Clients, CloseRaise(c) PROVE IInv'
<1> DEFINE i == req[c].sock
           e == entry[i]
           f == [e EXCEPT !.flags = @ \cup {"app_close"}]
           tcp == e.tcp
           wanted == ClosedStates(e.tcp)
           op == "CLOSE"
           r == Awaiting(tcp, i, op, wanted)
<1>1. req[c].at = "close" /\ i \in Sockets /\ Has(c, e, "ACTIVE") /\ e.tcp \in Open
  BY Stepping, RequestFields DEF CloseRaise, RequestOK
<1>2. /\ e \in Entries /\ thread[i] \in TcpThreads /\ EntryOK(i, e, thread[i], req[c])
      /\ e.creator = c /\ e.available = FALSE /\ e.actpas = "ACTIVE"
  BY <1>1, Entry DEF Has, Entries
<1>3. ~Sweeping(req[c]) /\ ~Starting(req[c], i) /\ ~Closing(req[c], i)
  BY <1>1 DEF Sweeping, Starting, Closing, Waits
<1>4. InStage(i, e, thread[i], req[c]) /\ "cleanup" \notin e.flags /\ thread[i].at # "none"
  BY <1>2, <1>3 DEF EntryOK
<1>5. ~Begun(thread[i])
  BY <1>3, <1>4 DEF InStage
<1>6. wanted \in SUBSET TcpStates /\ wanted \cap Open = {} /\ tcp \notin wanted
  BY <1>1 DEF ClosedStates, TcpStates, Open
<1>7. r \in Requests /\ ~Filling(r) /\ r.at = "sleep" /\ r.sock = i /\ r.op = op
      /\ r.wanted = wanted
  <2>1. op \in {"ACCEPT", "CONNECT", "CLOSE", "WAIT_FOR_STATE"} /\ i \in Sockets
    BY <1>1
  <2> HIDE DEF tcp, wanted, op, i
  <2>2. r = [at |-> "sleep", sock |-> i, op |-> op, wanted |-> wanted]
    BY <1>6 DEF Awaiting
  <2> HIDE DEF r
  <2> QED BY <1>6, <2>1, <2>2 DEF Requests, Filling
<1>8. /\ f \in Entries /\ f.creator = c /\ f.available = FALSE /\ f.actpas = "ACTIVE"
      /\ f.bound = e.bound /\ f.port = e.port /\ f.tcp = e.tcp
      /\ f.flags = e.flags \cup {"app_close"}
  BY <1>2 DEF Entries, Events
<1>9. /\ entry' = [entry EXCEPT ![i] = f] /\ req' = [req EXCEPT ![c] = r]
      /\ UNCHANGED <<lock, port_table, thread, carry>>
  <2>1. entry[i].tcp \in {"ESTABLISHED", "CLOSE_WAIT"}
    BY <1>1 DEF Open
  <2>2. entry' = [entry EXCEPT ![i] = f]
    BY <1>2 DEF CloseRaise, Entries
  <2> QED BY <2>1, <2>2 DEF CloseRaise, Await, Goto, Awaiting
<1> HIDE DEF r, f
<1>10. EntryOK(i, f, thread[i], r)
  <2>1. Closing(r, i) /\ f.tcp \notin Early
    BY <1>1, <1>6, <1>7, <1>8 DEF Closing, Waits, Open, Early
  <2>2. InStage(i, f, thread[i], r)
    BY <1>1, <1>4, <1>5, <1>8, <2>1 DEF InStage, CloseAsked
  <2>3. "cleanup" \notin f.flags
    BY <1>4, <1>8
  <2> QED BY <1>2, <1>4, <1>8, <2>2, <2>3 DEF EntryOK
<1>11. ASSUME NEW t, t[i] = f PROVE RequestOK(c, r, t)
  BY <1>7 DEF RequestOK, Filling
<1>12. thread' = [thread EXCEPT ![i] = thread[i]]
  BY <1>1, <1>9, SameThread
<1>13. \A j \in Sockets \ {i} : Follows(req[c], r, j)
  BY <1>3, OtherSockets
<1> HIDE DEF IInv, EntryOK, RequestOK, Follows, i, e
<1> QED BY <1>1, <1>2, <1>7, <1>8, <1>9, <1>10, <1>11, <1>12, <1>13, OwnEntryStep DEF i, e

LEMMA DisconnectStep == ASSUME IInv, NEW c \in Clients, Disconnect(c) PROVE IInv'
<1> DEFINE r == [at |-> "sweep", sock |-> 0]
<1>1. r \in Requests /\ ~Filling(r) /\ RequestOK(c, r, entry)
  BY SocketFacts DEF Requests, Filling, RequestOK
<1>2. \A j \in Sockets : Follows(req[c], r, j)
  BY NothingInHand DEF Disconnect, InHand
<1>3. UNCHANGED <<entry, thread, lock, port_table, carry>> /\ req' = [req EXCEPT ![c] = r]
  BY DEF Disconnect, Goto
<1> HIDE DEF r
<1> QED BY <1>1, <1>2, <1>3, LookingStep

\* The sweep goes on to the next entry.
LEMMA NextEntryFacts ==
  ASSUME NEW c \in Clients, req[c] \in Requests, Sweeping(req[c]), req[c].sock \in Sockets
  PROVE  LET r == NextEntry(c)
         IN /\ r \in Requests /\ ~Filling(r) /\ Sweeping(r) /\ r.sock = req[c].sock + 1
            /\ \A t : RequestOK(c, r, t)
            /\ \A j \in Sockets : Follows(req[c], r, j)
<1> DEFINE r == NextEntry(c)
<1>1. r = [at |-> "sweep", sock |-> req[c].sock + 1]
  BY DEF NextEntry
<1>2. r \in Requests /\ ~Filling(r) /\ Sweeping(r) /\ r.sock = req[c].sock + 1
  <2>1. req[c].sock + 1 \in Sockets \cup {NoSocket}
    BY SocketFacts
  <2> QED BY <1>1, <2>1 DEF Requests, Filling, Sweeping
<1>3. \A t : RequestOK(c, r, t)
  BY <1>1 DEF RequestOK, Filling
<1>4. req[c].sock \in Nat
  BY SocketFacts
<1>5. \A j \in Sockets : Follows(req[c], r, j)
  BY <1>1, <1>2, <1>4 DEF Follows, Starting, Sweeping
<1> QED BY <1>2, <1>3, <1>5

\* Clean-up is raised on an entry that the sweep then leaves behind.
LEMMA SweepFlagStep == ASSUME IInv, NEW c \in Clients, SweepFlag(c) PROVE IInv'
<1> DEFINE i == req[c].sock
           e == entry[i]
           f == [e EXCEPT !.flags = @ \cup {"cleanup"}]
           r == NextEntry(c)
<1>1. req[c].at = "sweepFlag" /\ i \in Sockets /\ Has(c, e, "ACTIVE") /\ req[c] \in Requests
  BY Stepping, RequestFields DEF SweepFlag, RequestOK
<1>2. /\ e \in Entries /\ thread[i] \in TcpThreads /\ EntryOK(i, e, thread[i], req[c])
      /\ e.creator = c /\ e.available = FALSE /\ e.actpas = "ACTIVE"
  BY <1>1, Entry DEF Has, Entries
<1>3. /\ f \in Entries /\ f.creator = c /\ f.available = FALSE /\ f.actpas = "ACTIVE"
      /\ f.bound = e.bound /\ f.port = e.port /\ f.tcp = e.tcp
  BY <1>2 DEF Entries, Events
<1>4. /\ r \in Requests /\ ~Filling(r) /\ Sweeping(r) /\ r.sock = i + 1
      /\ \A t : RequestOK(c, r, t)
      /\ \A j \in Sockets : Follows(req[c], r, j)
  BY <1>1, NextEntryFacts DEF Sweeping
<1>5. /\ entry' = [entry EXCEPT ![i] = f] /\ req' = [req EXCEPT ![c] = r]
      /\ UNCHANGED <<lock, port_table, thread, carry>>
  <2>1. entry' = [entry EXCEPT ![i] = f]
    BY <1>2 DEF SweepFlag, Entries
  <2> QED BY <2>1 DEF SweepFlag, Goto
<1> HIDE DEF f, r
<1>6. EntryOK(i, f, thread[i], r)
  <2>1. r.sock > i
    BY <1>1, <1>4, SocketFacts
  <2>2. thread[i].at # "none"
    BY <1>1, <1>2 DEF EntryOK, Starting
  <2> QED BY <1>2, <1>3, <1>4, <2>1, <2>2 DEF EntryOK
<1>7. ASSUME NEW t, t[i] = f PROVE RequestOK(c, r, t)
  BY <1>4
<1>8. thread' = [thread EXCEPT ![i] = thread[i]]
  BY <1>1, <1>5, SameThread
<1> HIDE DEF IInv, EntryOK, RequestOK, Follows
<1> QED BY <1>1, <1>2, <1>3, <1>4, <1>5, <1>6, <1>7, <1>8, OwnEntryStep

\* An active socket is closed by the sweep; whoever waits for its state may be woken.
LEMMA SweepCloses ==
  ASSUME IInv, NEW c \in Clients, req[c].at = "sweep", NEW i \in Sockets, i = req[c].sock,
         i \in Mine(c), entry[i].actpas = "ACTIVE",
         update_tcp_state(i, "CLOSED", [req EXCEPT ![c].at = "sweepFlag"]),
         UNCHANGED <<lock, port_table, thread, carry>>
  PROVE  IInv'
<1> DEFINE e == entry[i]
           f == [e EXCEPT !.tcp = "CLOSED"]
           r == [at |-> "sweepFlag", sock |-> i]
           q == [req EXCEPT ![c] = r]
<1>1. /\ e \in Entries /\ thread[i] \in TcpThreads /\ EntryOK(i, e, thread[i], req[c])
      /\ e.creator = c /\ e.available = FALSE /\ e.actpas = "ACTIVE" /\ req[c] \in Requests
      /\ c # Nobody
  BY MineFacts, Entry, Stepping DEF Entries
<1>2. /\ f \in Entries /\ f.creator = c /\ f.available = FALSE /\ f.actpas = "ACTIVE"
      /\ f.bound = e.bound /\ f.port = e.port /\ f.flags = e.flags
  BY <1>1 DEF Entries, TcpStates
<1>3. r \in Requests /\ r = [req[c] EXCEPT !.at = "sweepFlag"]
  <2>1. req[c] = [at |-> "sweep", sock |-> i]
    BY <1>1, RequestFields
  <2> QED BY <2>1 DEF Requests
<1>4. q \in [Clients -> Requests] /\ q = [req EXCEPT ![c].at = "sweepFlag"] /\ q[c] = r
  BY <1>3 DEF IInv, Typed
<1>5. entry' = [entry EXCEPT ![i] = f] /\ req' \in Signalled(i, q)
  BY <1>1, <1>4 DEF update_tcp_state, Entries
<1>6. req' \in [Clients -> Requests] /\ \A d \in Clients : Similar(q[d], req'[d])
  <2>1. \A d \in Clients : req[d].at = "sleep" => q[d] = req[d]
    BY DEF IInv, Typed
  <2>2. req \in [Clients -> Requests]
    BY DEF IInv, Typed
  <2> HIDE DEF q
  <2> QED BY <1>4, <1>5, <2>1, <2>2, SignalFacts
<1>7. req'[c] = r /\ \A d \in Clients \ {c} : Similar(req[d], req'[d])
  <2>1. \A d \in Clients \ {c} : q[d] = req[d]
    BY DEF IInv, Typed
  <2> HIDE DEF q
  <2>2. Similar(r, req'[c]) /\ r.at = "sweepFlag"
    BY <1>4, <1>6
  <2> HIDE DEF r
  <2> QED BY <1>6, <2>1, <2>2 DEF Similar
<1>8. /\ \A j \in Sockets \ {i} : entry'[j] = entry[j] /\ thread'[j] = thread[j]
      /\ entry'[i] = f /\ thread'[i] = thread[i]
  BY <1>5 DEF IInv, Typed
<1>9. Typed'
  <2>1. entry' \in [Sockets -> Entries]
    BY <1>2, <1>5 DEF IInv, Typed
  <2> QED BY <1>6, <2>1 DEF IInv, Typed
<1>10. PortsPointAtTheirSockets'
  <2>1. \A j \in Sockets : ~entry[j].available /\ entry[j].bound =>
          ~entry'[j].available /\ entry'[j].bound /\ entry'[j].port = entry[j].port
    <3>1. entry'[i].available = FALSE /\ entry'[i].bound = entry[i].bound /\ entry'[i].port = entry[i].port
      BY <1>2, <1>8
    <3>2. \A j \in Sockets \ {i} : entry'[j] = entry[j]
      BY <1>8
    <3> QED BY <3>1, <3>2
  <2> QED BY <2>1, PortsKept DEF IInv
<1>11. EntryOK(i, entry'[i], thread'[i], req'[entry'[i].creator])
  <2> HIDE DEF f, r
  <2>1. Sweeping(r) /\ r.sock = i
    BY DEF Sweeping, r
  <2>2. "cleanup" \notin e.flags
    BY <1>1, SocketFacts DEF EntryOK
  <2>3. thread[i].at # "none"
    BY <1>1 DEF EntryOK, Starting
  <2>4. EntryOK(i, f, thread[i], r)
    BY <1>1, <1>2, <2>1, <2>2, <2>3 DEF EntryOK
  <2> QED BY <1>2, <1>7, <1>8, <2>4
<1>12. RequestOK(c, req'[c], entry') /\ ~Filling(req'[c])
  <2>1. r.at = "sweepFlag" /\ r.sock = i
    OBVIOUS
  <2> HIDE DEF f, r
  <2> QED BY <1>2, <1>7, <1>8, <2>1 DEF RequestOK, Has, Filling
<1>13. \A j \in Sockets \ {i} : Follows(req[c], req'[c], j)
  <2>1. Sweeping(r) /\ r.sock >= req[c].sock /\ ~\E j : Starting(req[c], j)
    BY SocketFacts DEF Sweeping, Starting
  <2> HIDE DEF r
  <2> QED BY <1>7, <2>1 DEF Follows
<1>14. \A d \in Clients \ {c} : Keeps(d, req[d], i, entry[i], entry'[i])
  <2>1. \A d \in Clients \ {c} : ~(Filling(req[d]) /\ req[d].sock = i)
    BY <1>1, BlankFacts DEF IInv, RequestOK
  <2> QED BY <1>1, <2>1 DEF Keeps
<1>15. StepOn({i}, {c})
  <2> HIDE DEF IInv, Typed, EntryOK, RequestOK, Follows, Keeps, Filling, Similar, r, q, f
  <2> QED BY <1>7, <1>8, <1>11, <1>12, <1>13, <1>14 DEF StepOn
<1> QED BY <1>9, <1>10, <1>15, StepKeepsInvariant

LEMMA SweepStep == ASSUME IInv, NEW c \in Clients, Sweep(c) PROVE IInv'
<1> DEFINE i == req[c].sock
           r == NextEntry(c)
<1>1. req[c].at = "sweep" /\ i \in Sockets /\ req[c] \in Requests /\ UNCHANGED <<thread, carry>>
  BY Stepping, RequestFields DEF Sweep
<1>2. /\ r \in Requests /\ ~Filling(r) /\ \A t : RequestOK(c, r, t)
      /\ \A j \in Sockets : Follows(req[c], r, j)
  BY <1>1, NextEntryFacts DEF Sweeping
<1>3. CASE Goto(c, r) /\ UNCHANGED <<entry, lock, port_table>>
  <2> HIDE DEF r
  <2> QED BY <1>1, <1>2, <1>3, LookingStep DEF Goto
<1>4. CASE i \in Mine(c) /\ entry[i].actpas = "PASSIVE" /\ free_socket_entry(i) /\ Goto(c, r)
  <2>1. Has(c, entry[i], "PASSIVE")
    BY <1>4 DEF Mine, Has
  <2> HIDE DEF r, IInv
  <2> QED BY <1>1, <1>2, <1>4, <2>1, FreeStep DEF Goto
<1>5. CASE /\ i \in Mine(c) /\ entry[i].actpas = "ACTIVE"
           /\ update_tcp_state(i, "CLOSED", [req EXCEPT ![c].at = "sweepFlag"])
           /\ UNCHANGED <<lock, port_table>>
  BY <1>1, <1>5, SweepCloses
<1> QED BY <1>3, <1>4, <1>5 DEF Sweep, Release

----------------------------------------------------------------------------
(* The TCP threads *)

\* An entry with a thread is active, and the thread may go on with its request as it is.
LEMMA ThreadFacts ==
  ASSUME IInv, NEW i \in Sockets, thread[i].at # "none"
  PROVE  LET e == entry[i]
             o == req[e.creator]
         IN /\ e \in Entries /\ thread[i] \in TcpThreads /\ EntryOK(i, e, thread[i], o)
            /\ e.actpas = "ACTIVE" /\ e.creator \in Clients /\ o \in Requests
            /\ ~e.available /\ e.bound
            /\ "cleanup" \in e.flags => Sweeping(o)
            /\ ~Sweeping(o) => InStage(i, e, thread[i], o)
<1> DEFINE e == entry[i]
           o == req[e.creator]
<1>1. e \in Entries /\ thread[i] \in TcpThreads /\ EntryOK(i, e, thread[i], o)
  BY Entry
<1>2. e.actpas = "ACTIVE" /\ e.bound
  BY <1>1 DEF EntryOK
<1>3. ~e.available
  BY <1>1, <1>2, BlankFacts DEF EntryOK
<1>4. e.creator # Nobody
  BY <1>1, <1>2 DEF EntryOK
<1>5. e.creator \in Clients /\ o \in Requests
  BY <1>4, Entry
<1>6. ("cleanup" \in e.flags => Sweeping(o)) /\ (~Sweeping(o) => InStage(i, e, thread[i], o))
  BY <1>1, <1>2 DEF EntryOK
<1> QED BY <1>1, <1>2, <1>3, <1>5, <1>6

\* The thread of an active entry moves, and the entry's flags or state with it.
LEMMA TcpMoves ==
  ASSUME IInv, NEW i \in Sockets, thread[i].at # "none", NEW f \in Entries, NEW th \in TcpThreads,
         th.at # "none",
         f.available = entry[i].available, f.creator = entry[i].creator,
         f.actpas = entry[i].actpas, f.bound = entry[i].bound,
         "cleanup" \in f.flags => "cleanup" \in entry[i].flags,
         ~Sweeping(req[f.creator]) => InStage(i, f, th, req[f.creator])
  PROVE  EntryOK(i, f, th, req[f.creator])
<1>1. /\ EntryOK(i, entry[i], thread[i], req[f.creator]) /\ entry[i].actpas = "ACTIVE"
      /\ ~entry[i].available
  BY ThreadFacts
<1> QED BY <1>1 DEF EntryOK

\* A thread that leaves the requests and the port table alone.
LEMMA QuietThread ==
  ASSUME IInv, NEW i \in Sockets, thread[i].at # "none", NEW f \in Entries, NEW th \in TcpThreads,
         th.at # "none", entry' = [entry EXCEPT ![i] = f], thread' = [thread EXCEPT ![i] = th],
         UNCHANGED <<lock, port_table, req, carry>>,
         f.available = entry[i].available, f.creator = entry[i].creator,
         f.actpas = entry[i].actpas, f.bound = entry[i].bound, f.port = entry[i].port,
         f.tcp = entry[i].tcp,
         "cleanup" \in f.flags => "cleanup" \in entry[i].flags,
         ~Sweeping(req[f.creator]) => InStage(i, f, th, req[f.creator])
  PROVE  IInv'
<1>1. EntryOK(i, f, th, req[f.creator]) /\ entry[i].actpas # "NONE"
  BY TcpMoves, ThreadFacts
<1>2. /\ req' \in [Clients -> Requests] /\ carry' \in Carried
      /\ \A d \in Clients : Similar(req[d], req'[d])
  BY DEF IInv, Typed, Similar
<1> HIDE DEF IInv, EntryOK, InStage
<1> QED BY <1>1, <1>2, OneThreadStep

LEMMA WaitingFacts ==
  /\ Waiting \in TcpThreads /\ Waiting \in Resting /\ Waiting.at = "wait"
  /\ [at |-> "after"] \in TcpThreads /\ [at |-> "after"] \in Resting
BY DEF Waiting, TcpThreads, Resting

LEMMA OneState ==
  \A s \in {"SYN_SENT", "SYN_RCVD", "ESTABLISHED", "CLOSE_WAIT"} :
    <<s>> \in Seq(TcpStates) /\ <<s>> \notin {<<"FIN_WAIT_1">>, <<"LAST_ACK">>}
<1>1. \A s \in TcpStates : <<s>> \in Seq(TcpStates)
  OBVIOUS
<1> QED BY <1>1 DEF TcpStates

\* What an application's event causes.
LEMMA CausesFacts ==
  ASSUME NEW f, NEW s, Causes(f, s) # <<>>
  PROVE  /\ \/ f = "app_connect" /\ s \in Early /\ Causes(f, s) = <<"SYN_SENT">>
            \/ f = "app_close" /\ s \in Open /\ Causes(f, s) \in {<<"FIN_WAIT_1">>, <<"LAST_ACK">>}
         /\ Causes(f, s) \in Seq(TcpStates)
<1>1. <<"SYN_SENT">> \in Seq(TcpStates) /\ <<"FIN_WAIT_1">> \in Seq(TcpStates)
      /\ <<"LAST_ACK">> \in Seq(TcpStates)
  BY DEF TcpStates
<1>2. CASE f = "app_connect" /\ s = "CLOSED"
  BY <1>1, <1>2 DEF Causes, Early
<1>3. CASE f = "app_close" /\ s = "ESTABLISHED"
  BY <1>1, <1>3 DEF Causes, Open
<1>4. CASE f = "app_close" /\ s = "CLOSE_WAIT"
  BY <1>1, <1>4 DEF Causes, Open
<1> QED BY <1>2, <1>3, <1>4 DEF Causes

LEMMA DispatchStep ==
  ASSUME IInv, NEW i \in Sockets, NEW g \in Events, Dispatch(i, g) PROVE IInv'
<1> DEFINE e == entry[i]
           o == req[e.creator]
           s == e.tcp
           f == [e EXCEPT !.flags = @ \ {g}]
           th == IF g # "net_recv"
                   THEN IF Causes(g, s) = <<>> THEN Waiting
                        ELSE [at |-> "set", states |-> Causes(g, s), then |-> Waiting]
                 ELSE IF s \in Deaf THEN [at |-> "after"]
                 ELSE [at |-> "arrival", handler |-> s]
<1>1. e \in Entries /\ e.flags \in SUBSET Events
  BY Entry DEF Entries
<1>2. thread[i].at = "wait" /\ g \in e.flags /\ g # "cleanup"
  BY <1>1, PendingFacts DEF Dispatch
<1>3. /\ EntryOK(i, e, thread[i], o) /\ e.actpas = "ACTIVE"
      /\ ~Sweeping(o) => InStage(i, e, thread[i], o)
  BY <1>2, ThreadFacts
<1>4. /\ f \in Entries /\ f.creator = e.creator /\ f.available = e.available
      /\ f.actpas = e.actpas /\ f.bound = e.bound /\ f.port = e.port /\ f.tcp = s
      /\ f.flags = e.flags \ {g}
  BY <1>1 DEF Entries
<1>5. s \in TcpStates
  BY <1>1 DEF Entries
<1>6. entry' = [entry EXCEPT ![i] = f] /\ thread' = [thread EXCEPT ![i] = th]
      /\ UNCHANGED <<lock, port_table, req, carry>>
  <2>1. entry' = [entry EXCEPT ![i] = f]
    BY <1>1 DEF Dispatch, Entries
  <2> QED BY <2>1 DEF Dispatch
<1>7. CASE g # "net_recv" /\ Causes(g, s) # <<>>
  <2> DEFINE t == [at |-> "set", states |-> Causes(g, s), then |-> Waiting]
  <2>1. /\ \/ g = "app_connect" /\ s \in Early /\ Causes(g, s) = <<"SYN_SENT">>
           \/ g = "app_close" /\ s \in Open /\ Causes(g, s) \in {<<"FIN_WAIT_1">>, <<"LAST_ACK">>}
        /\ Causes(g, s) \in Seq(TcpStates)
    BY <1>7, CausesFacts
  <2>2. t \in TcpThreads /\ th = t
    BY <1>7, <2>1, WaitingFacts DEF TcpThreads
  <2>3. t.at = "set" /\ t.states = Causes(g, s) /\ t.then = Waiting
    OBVIOUS
  <2> HIDE DEF f, th, t
  <2>4. ~Sweeping(o) => InStage(i, f, t, o)
    <3> SUFFICES ASSUME ~Sweeping(o) PROVE InStage(i, f, t, o)
      OBVIOUS
    <3>1. InStage(i, e, thread[i], o)
      BY <1>3
    <3>2. SetFits(s, t)
      BY <2>1, <2>3, WaitingFacts DEF SetFits
    <3>3. CASE g = "app_connect" /\ s \in Early /\ Causes(g, s) = <<"SYN_SENT">>
      <4>1. ~Begun(t)
        BY <2>3, <3>3, OneState DEF Begun
      <4> QED BY <1>4, <2>3, <3>1, <3>2, <4>1 DEF InStage, CloseAsked
    <3>4. CASE g = "app_close" /\ s \in Open
      <4>1. CloseAsked(e)
        BY <1>2, <3>4 DEF CloseAsked
      <4>2. ~CloseAsked(f)
        BY <1>4, <3>4 DEF CloseAsked
      <4> QED BY <1>4, <2>3, <3>1, <3>2, <4>1, <4>2 DEF InStage
    <3> QED BY <2>1, <3>3, <3>4
  <2> HIDE DEF IInv, InStage, e, o
  <2> QED BY <1>2, <1>4, <1>6, <2>2, <2>3, <2>4, QuietThread DEF e, o
<1>8. CASE th = Waiting \/ th = [at |-> "after"]
  <2>1. th \in TcpThreads /\ th.at \in {"wait", "after"}
    BY <1>8, WaitingFacts
  <2> HIDE DEF f, th
  <2>2. ~Sweeping(o) => InStage(i, f, th, o)
    BY <1>3, <1>4, <2>1 DEF InStage, CloseAsked, Begun
  <2> HIDE DEF IInv, InStage, e, o
  <2> QED BY <1>2, <1>4, <1>6, <2>1, <2>2, QuietThread DEF e, o
<1>9. CASE th = [at |-> "arrival", handler |-> s]
  <2>1. th \in TcpThreads /\ th.at = "arrival" /\ th.handler = s
    BY <1>5, <1>9 DEF TcpThreads, Resting
  <2> HIDE DEF f, th
  <2>2. \E stage \in {Early, Open, Late} : s \in stage
    BY <1>5 DEF TcpStates, Early, Open, Late
  <2>3. ~Sweeping(o) => InStage(i, f, th, o)
    BY <1>3, <1>4, <2>1, <2>2 DEF InStage, CloseAsked, Begun
  <2> HIDE DEF IInv, InStage, e, o
  <2> QED BY <1>2, <1>4, <1>6, <2>1, <2>3, QuietThread DEF e, o
<1> QED BY <1>7, <1>8, <1>9

\* What a packet may lead to in the handler of state h, which goes on as rest.
LEMMA ArrivesFacts ==
  ASSUME NEW h \in TcpStates, NEW states \in Arrives(h), states # <<>>, NEW rest \in Resting,
         rest.at = "after" \/ (rest.at = "arrival" /\ rest.handler = h),
         h \in OnePacket => rest.at = "after",
         NEW tcp, \E stage \in {Early, Open, Late} : h \in stage /\ tcp \in stage
  PROVE  LET th == [at |-> "set", states |-> states, then |-> rest]
         IN th \in TcpThreads /\ SetFits(tcp, th) /\ ~Begun(th)
<1> DEFINE th == [at |-> "set", states |-> states, then |-> rest]
<1>1. states \in Seq(TcpStates) => th \in TcpThreads
  BY DEF TcpThreads
<1>2. CASE h \in {"LISTEN", "SYN_SENT", "SYN_RCVD"}
  <2>1. states \in {<<"SYN_RCVD">>, <<"ESTABLISHED">>} /\ tcp \in Early /\ rest.at = "after"
    BY <1>2 DEF Arrives, OnePacket, Early, Open, Late
  <2>2. states \in Seq(TcpStates)
    BY <2>1, OneState
  <2> QED BY <1>1, <2>1, <2>2, OneState DEF SetFits, Begun
<1>3. CASE h = "ESTABLISHED"
  <2>1. states = <<"CLOSE_WAIT">> /\ tcp \in Open /\ h \in Open
    BY <1>3 DEF Arrives, Early, Open, Late
  <2>2. states \in Seq(TcpStates)
    <3>1. <<"CLOSE_WAIT">> \in Seq(TcpStates)
      BY OneState
    <3> QED BY <2>1, <3>1
  <2> QED BY <1>1, <2>1, <2>2, OneState DEF SetFits, Begun
<1>4. CASE h \in {"FIN_WAIT_1", "FIN_WAIT_2", "CLOSING", "LAST_ACK"}
  <2>1. /\ states \in {<<"FIN_WAIT_2">>, <<"CLOSING">>, <<"FIN_WAIT_2", "CLOSING">>,
                       <<"TIME_WAIT">>, <<"CLOSED">>}
        /\ tcp \in Late /\ h \in Late
    BY <1>4 DEF Arrives, Early, Open, Late
  <2>2. states \in Seq(TcpStates)
    <3>1. /\ <<"FIN_WAIT_2">> \in Seq(TcpStates) /\ <<"CLOSING">> \in Seq(TcpStates)
          /\ <<"TIME_WAIT">> \in Seq(TcpStates) /\ <<"CLOSED">> \in Seq(TcpStates)
      BY DEF TcpStates
    <3>2. <<"FIN_WAIT_2", "CLOSING">> \in Seq(TcpStates)
      BY DEF TcpStates
    <3> QED BY <2>1, <3>1, <3>2
  <2>3. \A n \in DOMAIN states : states[n] \in {"FIN_WAIT_2", "CLOSING", "TIME_WAIT", "CLOSED"}
    BY <2>1
  <2>4. states \notin {<<"FIN_WAIT_1">>, <<"LAST_ACK">>}
    BY <2>1
  <2> QED BY <1>1, <2>1, <2>2, <2>3, <2>4 DEF SetFits, Begun
<1>5. CASE h \in {"CLOSED", "CLOSE_WAIT", "TIME_WAIT"}
  BY <1>5 DEF Arrives
<1> QED BY <1>2, <1>3, <1>4, <1>5 DEF TcpStates

LEMMA TakePacketStep == ASSUME IInv, NEW i \in Sockets, TakePacket(i) PROVE IInv'
<1> DEFINE e == entry[i]
           o == req[e.creator]
           f == [e EXCEPT !.packets = @ - 1]
           h == thread[i].handler
           rest == IF h \in OnePacket THEN [at |-> "after"] ELSE thread[i]
<1>1. /\ thread[i].at = "arrival" /\ e \in Entries /\ h \in TcpStates /\ thread[i] \in Resting
      /\ thread[i] \in TcpThreads
      /\ ~Sweeping(o) => InStage(i, e, thread[i], o)
  BY ThreadFacts, ThreadFields DEF TakePacket
<1>2. /\ f \in Entries /\ f.creator = e.creator /\ f.available = e.available
      /\ f.actpas = e.actpas /\ f.bound = e.bound /\ f.port = e.port /\ f.tcp = e.tcp
      /\ f.flags = e.flags
  <2>1. e.packets \in Nat /\ e.packets - 1 \in Nat
    BY <1>1 DEF TakePacket, Entries
  <2>2. f = [e EXCEPT !.packets = e.packets - 1]
    OBVIOUS
  <2> QED BY <1>1, <2>1, <2>2 DEF Entries
<1>3. entry' = [entry EXCEPT ![i] = f] /\ UNCHANGED <<lock, port_table, req, carry>>
  <2>1. e.packets \in Nat /\ entry \in [Sockets -> Entries]
    BY <1>1 DEF Entries, IInv, Typed
  <2>2. entry' = [entry EXCEPT ![i] = [entry[i] EXCEPT !.packets = entry[i].packets - 1]]
    BY <2>1 DEF TakePacket
  <2> QED BY <2>2 DEF TakePacket
<1>4. /\ rest \in Resting /\ rest \in TcpThreads
      /\ rest.at = "after" \/ (rest.at = "arrival" /\ rest.handler = h)
      /\ h \in OnePacket => rest.at = "after"
      /\ rest = thread[i] \/ rest.at = "after"
  BY <1>1, WaitingFacts
<1>5. PICK states \in Arrives(h) : thread' = [thread EXCEPT ![i] =
        IF states = <<>> THEN rest ELSE [at |-> "set", states |-> states, then |-> rest]]
  BY DEF TakePacket
<1> HIDE DEF f, rest
<1>6. CASE states = <<>>
  <2>1. ~Sweeping(o) => InStage(i, f, rest, o)
    BY <1>1, <1>2, <1>4 DEF InStage, CloseAsked, Begun
  <2>2. thread' = [thread EXCEPT ![i] = rest] /\ rest.at # "none"
    BY <1>4, <1>5, <1>6
  <2> HIDE DEF IInv, InStage, e, o
  <2> QED BY <1>1, <1>2, <1>3, <1>4, <2>1, <2>2, QuietThread DEF e, o
<1>7. CASE states # <<>>
  <2> DEFINE th == [at |-> "set", states |-> states, then |-> rest]
  <2>1. th.at = "set" /\ thread' = [thread EXCEPT ![i] = th]
    BY <1>5, <1>7
  <2>2. \E stage \in {Early, Open, Late} : h \in stage
    BY <1>1 DEF TcpStates, Early, Open, Late
  <2> HIDE DEF h
  <2>3. ASSUME NEW tcp, \E stage \in {Early, Open, Late} : h \in stage /\ tcp \in stage
        PROVE  th \in TcpThreads /\ SetFits(tcp, th) /\ ~Begun(th)
    BY <1>1, <1>4, <1>7, <2>3, ArrivesFacts
  <2>4. th \in TcpThreads
    BY <2>2, <2>3
  <2> HIDE DEF th
  <2>5. ASSUME ~Sweeping(o) PROVE InStage(i, f, th, o)
    <3>1. InStage(i, e, thread[i], o)
      BY <1>1, <2>5
    <3>2. \E stage \in {Early, Open, Late} : h \in stage /\ e.tcp \in stage
      BY <1>1, <3>1 DEF InStage, h
    <3>3. SetFits(e.tcp, th) /\ ~Begun(th)
      BY <2>3, <3>2
    <3> QED BY <1>2, <2>1, <3>1, <3>3 DEF InStage, CloseAsked
  <2> HIDE DEF IInv, InStage, e, o
  <2> QED BY <1>1, <1>2, <1>3, <2>1, <2>4, <2>5, QuietThread DEF e, o
<1> QED BY <1>6, <1>7

LEMMA EndArrivalStep == ASSUME IInv, NEW i \in Sockets, EndArrival(i) PROVE IInv'
<1> DEFINE e == entry[i]
           o == req[e.creator]
           th == [at |-> "after"]
<1>1. /\ thread[i].at = "arrival" /\ e \in Entries
      /\ ~Sweeping(o) => InStage(i, e, thread[i], o)
  BY ThreadFacts DEF EndArrival
<1>2. ~Sweeping(o) => InStage(i, e, th, o)
  BY <1>1 DEF InStage, Begun
<1>3. /\ entry' = [entry EXCEPT ![i] = e] /\ thread' = [thread EXCEPT ![i] = th]
      /\ UNCHANGED <<lock, port_table, req, carry>>
  BY DEF EndArrival, IInv, Typed
<1>4. th \in TcpThreads /\ th.at = "after"
  BY WaitingFacts
<1> HIDE DEF IInv, InStage, th
<1> QED BY <1>1, <1>2, <1>3, <1>4, QuietThread

LEMMA AfterArrivalStep == ASSUME IInv, NEW i \in Sockets, AfterArrival(i) PROVE IInv'
<1> DEFINE e == entry[i]
           o == req[e.creator]
           f == [e EXCEPT !.flags = IF e.packets = 0 THEN @ ELSE @ \cup {"net_recv"}]
<1>1. /\ thread[i].at = "after" /\ e \in Entries
      /\ ~Sweeping(o) => InStage(i, e, thread[i], o)
  BY ThreadFacts DEF AfterArrival
<1>2. /\ f \in Entries /\ f.creator = e.creator /\ f.available = e.available
      /\ f.actpas = e.actpas /\ f.bound = e.bound /\ f.port = e.port /\ f.tcp = e.tcp
      /\ f.flags \in {e.flags, e.flags \cup {"net_recv"}}
  BY <1>1 DEF Entries, Events
<1>3. /\ entry' = [entry EXCEPT ![i] = f] /\ thread' = [thread EXCEPT ![i] = Waiting]
      /\ UNCHANGED <<lock, port_table, req, carry>>
  <2>1. entry' = [entry EXCEPT ![i] = f]
    BY <1>1 DEF AfterArrival, Entries
  <2> QED BY <2>1 DEF AfterArrival
<1> HIDE DEF f
<1>4. ~Sweeping(o) => InStage(i, f, Waiting, o)
  BY <1>1, <1>2, WaitingFacts DEF InStage, CloseAsked, Begun
<1> HIDE DEF IInv, InStage, e, o
<1> QED BY <1>1, <1>2, <1>3, <1>4, WaitingFacts, QuietThread DEF e, o

\* The states that are left to set, when one has been set.
LEMMA NextStates ==
  ASSUME NEW states \in Seq(TcpStates), states # <<>>
  PROVE  /\ Head(states) \in TcpStates /\ 1 \in DOMAIN states /\ Head(states) = states[1]
         /\ Len(states) # 1 => /\ Tail(states) \in Seq(TcpStates) /\ Tail(states) # <<>>
                               /\ \A n \in DOMAIN Tail(states) :
                                    n + 1 \in DOMAIN states /\ Tail(states)[n] = states[n + 1]
<1>1. Head(states) \in TcpStates /\ 1 \in DOMAIN states /\ Head(states) = states[1]
  OBVIOUS
<1>2. /\ Len(states) \in Nat \ {0} /\ DOMAIN states = 1 .. Len(states)
      /\ Tail(states) \in Seq(TcpStates) /\ Len(Tail(states)) = Len(states) - 1
      /\ \A n \in 1 .. Len(Tail(states)) : Tail(states)[n] = states[n + 1]
  BY EmptySeq, LenProperties, HeadTailProperties
<1>3. DOMAIN Tail(states) = 1 .. Len(Tail(states))
  BY <1>2, LenProperties
<1>4. ASSUME Len(states) # 1 PROVE Tail(states) # <<>>
  <2>1. Len(Tail(states)) # 0 /\ Len(<<>>) = 0
    BY <1>2, <1>4
  <2> QED BY <2>1
<1>5. \A n \in DOMAIN Tail(states) : n + 1 \in DOMAIN states /\ Tail(states)[n] = states[n + 1]
  BY <1>2, <1>3
<1> QED BY <1>1, <1>2, <1>4, <1>5

\* What is left of a thread that has set a state.
Rest(th) == IF Len(th.states) = 1 THEN th.then
            ELSE [at |-> "set", states |-> Tail(th.states), then |-> th.then]

LEMMA RestFacts ==
  ASSUME NEW th \in TcpThreads, th.at = "set"
  PROVE  Rest(th) \in TcpThreads /\ Rest(th).at # "none"
<1>1. /\ th.states \in Seq(TcpStates) /\ th.states # <<>> /\ th.then \in Resting
      /\ th = [at |-> "set", states |-> th.states, then |-> th.then]
  BY ThreadFields
<1>2. CASE Len(th.states) = 1
  BY <1>1, <1>2, RestingFields DEF Rest
<1>3. CASE Len(th.states) # 1
  <2>1. Tail(th.states) \in Seq(TcpStates) \ {<<>>}
    BY <1>1, <1>3, NextStates
  <2>2. Rest(th) = [at |-> "set", states |-> Tail(th.states), then |-> th.then]
    BY <1>3 DEF Rest
  <2> QED BY <1>1, <2>1, <2>2 DEF TcpThreads
<1> QED BY <1>2, <1>3

\* The state is set, and the handler goes on to the next one or to its end.
LEMMA SetKeepsStage ==
  ASSUME NEW i, NEW e \in Entries, NEW th \in TcpThreads, th.at = "set", NEW o,
         InStage(i, e, th, o), NEW s, s = Head(th.states), s # "CLOSED",
         NEW f \in Entries, f.tcp = s, f.flags = e.flags,
         NEW next, next = Rest(th)
  PROVE  /\ InStage(i, f, next, o)
         /\ e.tcp \in Open /\ o.at = "close" => s \in Open
<1>1. /\ th.states \in Seq(TcpStates) /\ th.states # <<>> /\ th.then \in Resting
      /\ th.then \in TcpThreads
  BY ThreadFields, RestingFields
<1>2. s \in TcpStates /\ s = th.states[1] /\ 1 \in DOMAIN th.states
  BY <1>1, NextStates
<1>3. /\ Len(th.states) = 1 => next = th.then
      /\ Len(th.states) # 1 => next = [at |-> "set", states |-> Tail(th.states), then |-> th.then]
  BY DEF Rest
<1>4. ASSUME th.states \in {<<"SYN_SENT">>, <<"SYN_RCVD">>, <<"ESTABLISHED">>, <<"CLOSE_WAIT">>,
                            <<"FIN_WAIT_1">>, <<"LAST_ACK">>}
      PROVE  next = th.then /\ <<s>> = th.states /\ ~Begun(next)
  <2>1. Len(th.states) = 1 /\ <<s>> = th.states
    BY <1>2, <1>4
  <2> QED BY <1>1, <1>3, <2>1, RestingFields DEF Begun
<1>5. CASE /\ e.tcp \in Early /\ th.states \in {<<"SYN_SENT">>, <<"SYN_RCVD">>, <<"ESTABLISHED">>}
           /\ th.then.at # "arrival"
  <2>1. next = th.then /\ ~Begun(next) /\ next.at \in {"wait", "after"}
    BY <1>1, <1>4, <1>5, RestingFields
  <2>2. s \in {"SYN_SENT", "SYN_RCVD", "ESTABLISHED"}
    BY <1>2, <1>5
  <2>3. BeingOpened(o, i) /\ ~CloseAsked(e) /\ ~CloseAsked(f) /\ e.tcp \notin Open
    BY <1>5 DEF InStage, Early, Open, CloseAsked
  <2> QED BY <2>1, <2>3 DEF InStage
<1>6. CASE /\ e.tcp \in Open /\ th.states = <<"CLOSE_WAIT">>
           /\ th.then.at = "arrival" => th.then.handler \in Open
  <2>1. next = th.then /\ ~Begun(next) /\ next.at \in {"wait", "after", "arrival"}
    BY <1>1, <1>4, <1>6, RestingFields
  <2>2. s = "CLOSE_WAIT" /\ f.tcp \in Open /\ f.tcp \notin Early
    BY <1>2, <1>6 DEF Open, Early
  <2>3. CloseAsked(f) => Closing(o, i)
    BY DEF InStage, CloseAsked
  <2> QED BY <1>6, <2>1, <2>2, <2>3 DEF InStage
<1>7. CASE /\ e.tcp \in Open /\ th.states \in {<<"FIN_WAIT_1">>, <<"LAST_ACK">>}
           /\ th.then.at # "arrival"
  <2>1. next = th.then /\ ~Begun(next) /\ next.at \in {"wait", "after"}
    BY <1>1, <1>4, <1>7, RestingFields
  <2>2. s \in {"FIN_WAIT_1", "LAST_ACK"} /\ f.tcp \notin Early
    BY <1>2, <1>7 DEF Early
  <2>3. Begun(th) /\ ~CloseAsked(f) /\ Closing(o, i)
    BY <1>7 DEF Begun, InStage, CloseAsked
  <2>4. o.at # "close"
    BY <2>3 DEF Closing, Waits
  <2> QED BY <2>1, <2>2, <2>3, <2>4 DEF InStage
<1>8. CASE /\ e.tcp \in Late
           /\ \A n \in DOMAIN th.states :
                th.states[n] \in {"FIN_WAIT_2", "CLOSING", "TIME_WAIT", "CLOSED"}
           /\ th.then.at = "arrival" => th.then.handler \in Late
  <2>1. e.tcp \notin Open /\ ~CloseAsked(e) /\ ~CloseAsked(f)
    BY <1>8 DEF InStage, Late, Open, CloseAsked
  <2>2. s \in Late /\ s \notin Early
    BY <1>2, <1>8 DEF Late, Early
  <2>3. CASE Len(th.states) = 1
    <3>1. next = th.then /\ next.at \in {"wait", "after", "arrival"}
      BY <1>1, <1>3, <2>3, RestingFields
    <3>2. ~Begun(next)
      BY <3>1 DEF Begun
    <3> QED BY <1>8, <2>1, <2>2, <3>1, <3>2 DEF InStage
  <2>4. CASE Len(th.states) # 1
    <3>1. next.at = "set" /\ next.states = Tail(th.states) /\ next.then = th.then
      <4>1. next = [at |-> "set", states |-> Tail(th.states), then |-> th.then]
        BY <1>3, <2>4
      <4> QED BY <4>1
    <3>2. \A n \in DOMAIN next.states :
            next.states[n] \in {"FIN_WAIT_2", "CLOSING", "TIME_WAIT", "CLOSED"}
      BY <1>1, <1>8, <2>4, <3>1, NextStates
    <3>3. SetFits(s, next)
      BY <1>8, <2>2, <3>1, <3>2 DEF SetFits
    <3>4. ~Begun(next)
      <4>1. next.states \in Seq(TcpStates) /\ next.states # <<>>
        BY <1>1, <2>4, <3>1, NextStates
      <4>2. 1 \in DOMAIN next.states
        BY <4>1, NextStates
      <4>3. next.states[1] \notin {"FIN_WAIT_1", "LAST_ACK"}
        BY <3>2, <4>2
      <4>4. <<"FIN_WAIT_1">>[1] = "FIN_WAIT_1" /\ <<"LAST_ACK">>[1] = "LAST_ACK"
        OBVIOUS
      <4>5. next.states # <<"FIN_WAIT_1">> /\ next.states # <<"LAST_ACK">>
        BY <4>3, <4>4
      <4> QED BY <4>5 DEF Begun
    <3> QED BY <2>1, <2>2, <3>1, <3>3, <3>4 DEF InStage
  <2> QED BY <2>1, <2>3, <2>4
<1> QED BY <1>5, <1>6, <1>7, <1>8 DEF InStage, SetFits

LEMMA SetStep == ASSUME IInv, NEW i \in Sockets, Set(i) PROVE IInv'
<1> DEFINE e == entry[i]
           o == req[e.creator]
           s == Head(thread[i].states)
           f == [e EXCEPT !.tcp = s]
           next == Rest(thread[i])
<1>1. /\ thread[i].at = "set" /\ e \in Entries /\ thread[i] \in TcpThreads /\ s # "CLOSED"
      /\ e.actpas = "ACTIVE" /\ EntryOK(i, e, thread[i], o)
      /\ ~Sweeping(o) => InStage(i, e, thread[i], o)
  BY ThreadFacts DEF Set
<1>2. thread[i].states \in Seq(TcpStates) /\ thread[i].states # <<>>
  BY <1>1, ThreadFields
<1>3. s \in TcpStates
  BY <1>2, NextStates
<1>4. next \in TcpThreads /\ next.at # "none"
  BY <1>1, RestFacts
<1>5. /\ f \in Entries /\ f.creator = e.creator /\ f.available = e.available
      /\ f.actpas = e.actpas /\ f.bound = e.bound /\ f.port = e.port /\ f.tcp = s
      /\ f.flags = e.flags
  BY <1>1, <1>3 DEF Entries
<1>6. /\ entry' = [entry EXCEPT ![i] = f] /\ thread' = [thread EXCEPT ![i] = next]
      /\ UNCHANGED <<lock, port_table, carry>> /\ req' \in Signalled(i, req)
  <2>1. entry' = [entry EXCEPT ![i] = f]
    BY <1>1 DEF Set, update_tcp_state, Entries
  <2>3. thread' = [thread EXCEPT ![i] = next]
    BY DEF Set, Rest
  <2>4. UNCHANGED <<lock, port_table, carry>> /\ req' \in Signalled(i, req)
    BY DEF Set, update_tcp_state
  <2> QED BY <2>1, <2>3, <2>4
<1>7. req' \in [Clients -> Requests] /\ \A d \in Clients : Similar(req[d], req'[d])
  BY <1>6, SignalFacts DEF IInv, Typed
<1>8. ASSUME ~Sweeping(o) PROVE InStage(i, f, next, o) /\ (e.tcp \in Open /\ o.at = "close" => s \in Open)
  <2>1. InStage(i, e, thread[i], o)
    BY <1>1, <1>8
  <2> DEFINE th == thread[i]
  <2>2. /\ th \in TcpThreads /\ th.at = "set" /\ s = Head(th.states)
        /\ next = Rest(th)
        /\ InStage(i, e, th, o)
    BY <1>1, <2>1
  <2> HIDE DEF InStage, th, s, f, next, o, e
  <2> QED BY <1>1, <1>5, <2>2, SetKeepsStage
<1> HIDE DEF f, next
<1>9. EntryOK(i, f, next, req[f.creator])
  BY <1>1, <1>4, <1>5, <1>8, TcpMoves
<1>10. ASSUME e.tcp \in Open, req[f.creator].at = "close" PROVE f.tcp \in Open
  BY <1>5, <1>8, <1>10 DEF Sweeping
<1>11. carry' \in Carried
  BY <1>6 DEF IInv, Typed
<1> HIDE DEF IInv, EntryOK, InStage, Similar, s
<1> QED BY <1>1, <1>4, <1>5, <1>6, <1>7, <1>9, <1>10, <1>11, OneThreadStep


\* The daemon aborts; the tables are as they were.
LEMMA NothingChanges ==
  ASSUME IInv, UNCHANGED <<entry, lock, port_table, thread, req>>, carry' \in Carried PROVE IInv'
BY DEF IInv, Typed, NoLockLeftBehind, PortsPointAtTheirSockets, NoneShared

LEMMA CleanupStep == ASSUME IInv, NEW i \in Sockets, Cleanup(i) PROVE IInv'
<1>1. carry' \in Carried
  BY DEF Cleanup, IInv, Typed
<1>2. CASE entry[i].tcp # "CLOSED"
  BY <1>1, <1>2, NothingChanges DEF Cleanup
<1>3. CASE entry[i].tcp = "CLOSED"
  <2> DEFINE o == entry[i].creator
  <2>1. /\ entry[i] \in Entries /\ entry[i].flags \in SUBSET Events
        /\ EntryOK(i, entry[i], thread[i], req[o])
    BY Entry DEF Entries
  <2>2. thread[i].at = "wait" /\ "cleanup" \in entry[i].flags
    BY <2>1, PendingFacts DEF Cleanup
  <2>3. entry[i].actpas = "ACTIVE" /\ o # Nobody /\ Sweeping(req[o]) /\ req[o].sock > i
    BY <2>1, <2>2 DEF EntryOK
  <2>4. /\ entry' = [entry EXCEPT ![i] = Blank] /\ lock' = lock
        /\ port_table' \in [Ports -> Sockets \cup {NoSocket}]
        /\ PortsPointAtTheirSockets'
    BY <1>3, FreeSocketEntry DEF Cleanup, IInv
  <2>5. thread' = [thread EXCEPT ![i] = NoThread] /\ req' = req
    BY <1>3 DEF Cleanup
  <2>6. NoThread \in TcpThreads /\ NoThread.at = "none"
    BY DEF NoThread, TcpThreads
  <2>7. Typed'
    BY <1>1, <2>4, <2>5, <2>6, BlankFacts DEF IInv, Typed
  <2>8. /\ entry'[i] = Blank /\ thread'[i] = NoThread
        /\ \A j \in Sockets \ {i} : entry'[j] = entry[j] /\ thread'[j] = thread[j]
    BY <2>4, <2>5 DEF IInv, Typed
  <2>9. EntryOK(i, entry'[i], thread'[i], req'[entry'[i].creator])
    BY <2>6, <2>8, BlankFacts DEF EntryOK
  <2>10. ASSUME NEW d \in Clients PROVE Keeps(d, req[d], i, entry[i], entry'[i])
    <3>1. i \in Nat
      BY SocketFacts
    <3>2. CASE d = o
      BY <2>3, <3>1, <3>2 DEF Keeps
    <3>3. CASE d # o
      <4>1. Filling(req[d]) => req[d].sock # i
        BY <2>3, BlankFacts DEF IInv, RequestOK
      <4> QED BY <3>3, <4>1 DEF Keeps
    <3> QED BY <3>2, <3>3
  <2>11. \A d \in Clients : Similar(req[d], req'[d])
    BY <2>5 DEF Similar
  <2>12. StepOn({i}, {})
    BY <2>8, <2>9, <2>10, <2>11 DEF StepOn
  <2> QED BY <2>4, <2>7, <2>12, StepKeepsInvariant
<1> QED BY <1>2, <1>3

----------------------------------------------------------------------------
(* Packets *)

LEMMA ReceivePacketStep ==
  ASSUME IInv, NEW p \in Ports, NEW r \in Peers, ReceivePacket(p, r) PROVE IInv'
<1> DEFINE i == lookup_socket(p, r)
<1>1. i \in Sockets
  BY LookupSocket DEF ReceivePacket
<1>2. carry' = [sock |-> i, kind |-> entry[i].actpas, peer |-> r]
  BY DEF ReceivePacket
<1>3. entry[i].actpas \in {"ACTIVE", "PASSIVE"}
  BY DEF ReceivePacket
<1> HIDE DEF i
<1>4. carry' \in Carried
  BY <1>1, <1>2, <1>3 DEF Carried
<1>5. UNCHANGED <<entry, lock, port_table, thread, req>>
  BY DEF ReceivePacket
<1> QED BY <1>4, <1>5, NothingChanges

LEMMA DeliverStep == ASSUME IInv, Deliver PROVE IInv'
<1> DEFINE i == carry.sock
           e == entry[i]
           o == req[e.creator]
<1>1. i \in Sockets /\ carry.kind \in {"ACTIVE", "PASSIVE"} /\ carry.peer \in Peers
  BY DEF Deliver, IInv, Typed, Carried
<1>2. carry' \in Carried /\ UNCHANGED <<lock, port_table, thread, req>>
  BY DEF Deliver, Carried
<1>3. CASE e.actpas # carry.kind \/ ~e.queue
  BY <1>2, <1>3, NothingChanges DEF Deliver
<1>4. CASE e.actpas = carry.kind /\ e.queue
  <2>1. e \in Entries /\ thread[i] \in TcpThreads /\ EntryOK(i, e, thread[i], o)
    BY <1>1, Entry
  <2>2. \A d \in Clients : Similar(req[d], req'[d])
    BY <1>2 DEF Similar
  <2>3. req' \in [Clients -> Requests]
    BY <1>2 DEF IInv, Typed
  <2>4. thread' = [thread EXCEPT ![i] = thread[i]]
    BY <1>1, <1>2, SameThread
  <2>5. CASE carry.kind = "PASSIVE"
    <3> DEFINE f == [e EXCEPT !.conns = Append(e.conns, carry.peer)]
    <3>1. Append(e.conns, carry.peer) \in Seq(Peers)
      <4>1. e.conns \in Seq(Peers)
        BY <2>1 DEF Entries
      <4> QED BY <1>1, <4>1, AppendProperties
    <3>2. /\ f \in Entries /\ f.creator = e.creator /\ f.available = e.available
          /\ f.actpas = e.actpas /\ f.bound = e.bound /\ f.port = e.port /\ f.tcp = e.tcp
          /\ f.flags = e.flags /\ f.remote = e.remote
      BY <2>1, <3>1 DEF Entries
    <3>3. entry' = [entry EXCEPT ![i] = f]
      BY <1>4, <2>5 DEF Deliver
    <3>4. EntryOK(i, f, thread[i], o)
      <4>1. ~f.available
        BY <1>4, <2>1, <2>5, <3>2, BlankFacts DEF EntryOK
      <4>2. e.actpas = "PASSIVE"
        BY <1>4, <2>5
      <4> HIDE DEF f, e, o
      <4> QED BY <2>1, <3>2, <4>1, <4>2 DEF EntryOK
    <3>5. e.actpas # "NONE"
      BY <1>4, <2>5
    <3> HIDE DEF f, e, i, IInv, EntryOK
    <3> QED BY <1>1, <1>2, <2>1, <2>2, <2>3, <2>4, <3>2, <3>3, <3>4, <3>5, OneThreadStep DEF e
  <2>6. CASE carry.kind = "ACTIVE"
    <3> DEFINE f == [e EXCEPT !.packets = e.packets + 1, !.flags = e.flags \cup {"net_recv"}]
    <3>2. /\ f \in Entries /\ f.creator = e.creator /\ f.available = e.available
          /\ f.actpas = e.actpas /\ f.bound = e.bound /\ f.port = e.port /\ f.tcp = e.tcp
          /\ f.flags = e.flags \cup {"net_recv"}
      <4>1. e.packets + 1 \in Nat /\ e.flags \cup {"net_recv"} \in SUBSET Events
        BY <2>1 DEF Entries, Events
      <4> QED BY <2>1, <4>1 DEF Entries
    <3>3. entry' = [entry EXCEPT ![i] = f]
      <4>1. entry \in [Sockets -> Entries]
        BY DEF IInv, Typed
      <4>2. entry' = [entry EXCEPT ![i].packets = @ + 1, ![i].flags = @ \cup {"net_recv"}]
        BY <1>4, <2>6 DEF Deliver
      <4> QED BY <1>1, <4>1, <4>2 DEF Entries
    <3>4. EntryOK(i, f, thread[i], o)
      <4>1. ~f.available
        BY <1>4, <2>1, <2>6, <3>2, BlankFacts DEF EntryOK
      <4>2. e.actpas = "ACTIVE"
        BY <1>4, <2>6
      <4> HIDE DEF f, e, o
      <4>3. InStage(i, e, thread[i], o) => InStage(i, f, thread[i], o)
        BY <3>2 DEF InStage, CloseAsked
      <4> QED BY <2>1, <3>2, <4>1, <4>2, <4>3 DEF EntryOK
    <3>5. e.actpas # "NONE"
      BY <1>4, <2>6
    <3> HIDE DEF f, e, i, IInv, EntryOK
    <3> QED BY <1>1, <1>2, <2>1, <2>2, <2>3, <2>4, <3>2, <3>3, <3>4, <3>5, OneThreadStep DEF e
  <2> QED BY <1>1, <2>5, <2>6
<1> QED BY <1>3, <1>4

----------------------------------------------------------------------------
(* The steps together *)

\* A request takes one step, whichever it is.
LEMMA RequestStep == ASSUME IInv, NEW c \in Clients, Request(c) PROVE IInv'
<1> USE SocketsAssumption
<1>1. CASE Socket(c) \/ SocketReturn(c) \/ BindSet(c) \/ ListenInit(c)
  BY <1>1, SocketStep, SocketReturnStep, BindSetStep, ListenInitStep
<1>2. ASSUME NEW i \in Sockets,
             \/ \E p \in Ports, any \in AnyLocal : Bind(c, i, p, any)
             \/ Listen(c, i) \/ Accept(c, i) \/ Close(c, i)
             \/ \E r \in Peers : Connect(c, i, r)
             \/ \E s \in Awaited : WaitForState(c, i, s)
      PROVE  IInv'
  <2>1. CASE \E p \in Ports, any \in AnyLocal : Bind(c, i, p, any)
    <3>1. PICK p \in Ports, any \in AnyLocal : Bind(c, i, p, any)
      BY <2>1
    <3>2. any \in BOOLEAN
      OBVIOUS
    <3> QED BY <3>1, <3>2, BindStep
  <2>2. CASE Listen(c, i) \/ Accept(c, i) \/ Close(c, i)
    BY <2>2, ListenStep, AcceptCallStep, CloseStep
  <2>3. CASE \E r \in Peers : Connect(c, i, r)
    BY <2>3, ConnectStep
  <2>4. CASE \E s \in Awaited : WaitForState(c, i, s)
    <3>1. PICK s \in Awaited : WaitForState(c, i, s)
      BY <2>4
    <3>2. s \in TcpStates
      OBVIOUS
    <3> QED BY <3>1, <3>2, WaitForStateStep
  <2> QED BY <1>2, <2>1, <2>2, <2>3, <2>4
<1>3. CASE AcceptAllocate(c) \/ AcceptAddress(c) \/ AcceptStart(c) \/ AcceptRaise(c)
  BY <1>3, AcceptAllocateStep, AcceptAddressStep, AcceptStartStep, AcceptRaiseStep
<1>4. CASE ConnectAddress(c) \/ ConnectStart(c) \/ CloseFree(c) \/ CloseRaise(c)
  BY <1>4, ConnectAddressStep, ConnectStartStep, CloseFreeStep, CloseRaiseStep
<1>5. CASE WaitLock(c) \/ Woken(c) \/ Disconnect(c) \/ Sweep(c) \/ SweepFlag(c)
  BY <1>5, WaitLockStep, WokenStep, DisconnectStep, SweepStep, SweepFlagStep
<1> QED BY <1>1, <1>2, <1>3, <1>4, <1>5 DEF Request

\* A TCP thread takes one step.
LEMMA TcpThreadStep == ASSUME IInv, NEW i \in Sockets, TcpThread(i) PROVE IInv'
<1>1. CASE \E f \in Events : Dispatch(i, f)
  BY <1>1, DispatchStep
<1>2. CASE TakePacket(i) \/ EndArrival(i) \/ Set(i) \/ AfterArrival(i) \/ Cleanup(i)
  BY <1>2, TakePacketStep, EndArrivalStep, SetStep, AfterArrivalStep, CleanupStep
<1>3. CASE LastAcked(i)
  <2>1. carry' \in Carried
    BY <1>3 DEF LastAcked, IInv, Typed
  <2> QED BY <1>3, <2>1, NothingChanges DEF LastAcked
<1> QED BY <1>1, <1>2, <1>3 DEF TcpThread

LEMMA SocketsStart == SocketsInit => IInv
<1> SUFFICES ASSUME SocketsInit PROVE IInv
  OBVIOUS
<1>1. Idle \in Requests /\ NoThread \in TcpThreads /\ NoPacket \in Carried
  BY DEF Idle, NoThread, NoPacket, Requests, TcpThreads, Carried
<1>2. Typed
  BY <1>1, BlankFacts DEF Typed, SocketsInit
<1>3. NoLockLeftBehind /\ PortsPointAtTheirSockets
  BY DEF SocketsInit, NoLockLeftBehind, PortsPointAtTheirSockets
<1>4. \A i \in Sockets : EntryOK(i, entry[i], thread[i], req[entry[i].creator])
  BY BlankFacts DEF SocketsInit, EntryOK, NoThread
<1>5. \A c \in Clients : req[c].at = "idle"
  BY DEF SocketsInit, Idle
<1>6. (\A c \in Clients : RequestOK(c, req[c], entry)) /\ NoneShared
  BY <1>5 DEF RequestOK, NoneShared, Filling
<1> QED BY <1>2, <1>3, <1>4, <1>6 DEF IInv

\* Whatever the applications ask for and whoever they are, the tables keep the invariant
\* above: chisocket_table and port_table agree with the requests in progress and with the
\* TCP threads.
THEOREM SocketsInvariance == SocketsSpec => []IInv
<1>1. SocketsInit => IInv
  BY SocketsStart
<1>2. IInv /\ [SocketsNext]_socketVars => IInv'
  <2> SUFFICES ASSUME IInv, [SocketsNext]_socketVars PROVE IInv'
    OBVIOUS
  <2>1. CASE \E c \in Clients : Request(c)
    BY <2>1, RequestStep
  <2>2. CASE \E i \in Sockets : TcpThread(i)
    BY <2>2, TcpThreadStep
  <2>3. CASE \E p \in Ports, r \in Peers : ReceivePacket(p, r)
    BY <2>3, ReceivePacketStep
  <2>4. CASE Deliver
    BY <2>4, DeliverStep
  <2>5. CASE UNCHANGED socketVars
    <3>1. carry' \in Carried
      BY <2>5 DEF socketVars, IInv, Typed
    <3> QED BY <2>5, <3>1, NothingChanges DEF socketVars
  <2> QED BY <2>1, <2>2, <2>3, <2>4, <2>5 DEF SocketsNext
<1> QED BY <1>1, <1>2, PTL DEF SocketsSpec

----------------------------------------------------------------------------
(* What the runs check, for every instance *)

\* The entries of the socket table, the port table and what the threads of requests and of
\* sockets have in hand keep their types (serverinfo.h, handlers.c, tcp_thread.c).
THEOREM SocketsTypes == SocketsSpec => []SocketsTypeOK
<1> DEFINE Flag == aborted \in BOOLEAN
<1>1. SocketsInit => Flag
  BY DEF SocketsInit
<1>2. IInv /\ Flag /\ [SocketsNext]_socketVars => Flag'
  <2> SUFFICES ASSUME Flag, [SocketsNext]_socketVars PROVE Flag'
    OBVIOUS
  <2>1. ASSUME NEW c \in Clients, Request(c) PROVE UNCHANGED aborted
    BY <2>1 DEF Request, Socket, SocketReturn, BindSet, ListenInit, Bind, Listen, Accept, Close, Connect,
       WaitForState, AcceptAllocate, AcceptAddress, AcceptStart, AcceptRaise, ConnectAddress,
       ConnectStart, CloseFree, CloseRaise, WaitLock, Woken, Disconnect, Sweep, SweepFlag
  <2>2. ASSUME NEW i \in Sockets, TcpThread(i) PROVE aborted' \in BOOLEAN
    BY <2>2 DEF TcpThread, Dispatch, TakePacket, EndArrival, Set, LastAcked, AfterArrival, Cleanup
  <2>3. ASSUME NEW p \in Ports, NEW r \in Peers, ReceivePacket(p, r) PROVE UNCHANGED aborted
    BY <2>3 DEF ReceivePacket
  <2>4. CASE Deliver
    BY <2>4 DEF Deliver
  <2>5. CASE UNCHANGED socketVars
    BY <2>5 DEF socketVars
  <2> QED BY <2>1, <2>2, <2>3, <2>4, <2>5 DEF SocketsNext
<1>3. IInv /\ Flag => SocketsTypeOK
  <2> SUFFICES ASSUME IInv, Flag PROVE SocketsTypeOK
    OBVIOUS
  <2>1. \A i \in Sockets : thread[i] \in TcpThreads
    BY DEF IInv, Typed
  <2>2. \A c \in Clients : req[c] \in Requests
    BY DEF IInv, Typed
  <2>3. \A i \in Sockets : thread[i].at \in {"none", "wait", "set", "arrival", "after"}
    BY <2>1 DEF TcpThreads, Resting
  <2>4. \A c \in Clients : req[c].at \in {"idle", "socket", "bind", "listen", "accept", "address",
          "start", "raise", "sleep", "woken", "connect", "connectStart", "free", "close", "watch",
          "sweep", "sweepFlag"}
    BY <2>2 DEF Requests
  <2> QED BY <2>3, <2>4 DEF IInv, Typed, Entries, SocketsTypeOK
<1> HIDE DEF Flag
<1> QED BY <1>1, <1>2, <1>3, SocketsInvariance, PTL DEF SocketsSpec

\* A request's socket stays its own until the request returns: no other handler thread is
\* given the entry by allocate_socket, and none frees it.
THEOREM SlotsStayOwned == SocketsSpec => []SlotsAreNotStolen
<1>1. IInv => SlotsAreNotStolen
  <2> SUFFICES ASSUME IInv, NEW c \in Clients
               PROVE  SlotsAreNotStolen!(c)
    BY DEF SlotsAreNotStolen
  <2>1. req[c] \in Requests /\ RequestOK(c, req[c], entry)
    BY Stepping
  <2>2. req[c].at \in {"bind", "listen", "start", "raise", "connect", "connectStart", "free", "close"}
          => req[c].sock \in Mine(c)
    BY <2>1, RequestFields DEF RequestOK, Has, Mine
  <2>3. req[c].at \in {"sleep", "woken"} /\ req[c].op \in {"ACCEPT", "CONNECT"}
          => req[c].sock \in Mine(c) /\ entry[req[c].sock].actpas = "ACTIVE"
    BY <2>1, RequestFields DEF RequestOK, Has, Mine
  <2>4. req[c].at \in {"socket", "address"} =>
          /\ entry[req[c].sock] = [Blank EXCEPT !.available = FALSE]
          /\ \A d \in Clients \ {c} : req[d].at \in {"socket", "address"} => req[d].sock # req[c].sock
    BY <2>1 DEF RequestOK, Filling, Allotted, IInv, NoneShared
  <2> QED BY <2>2, <2>3, <2>4
<1> QED BY <1>1, SocketsInvariance, PTL

\* No TCP thread runs on an entry that was freed or given away, and no active socket is
\* without its thread once ACCEPT or CONNECT has started it.
THEOREM ThreadsKeepTheirSockets == SocketsSpec => []ThreadServesItsSocket
<1>1. IInv => ThreadServesItsSocket
  <2> SUFFICES ASSUME IInv, NEW i \in Sockets
               PROVE  /\ thread[i].at # "none" => ~entry[i].available /\ entry[i].actpas = "ACTIVE"
                      /\ entry[i].actpas = "ACTIVE" /\ thread[i].at = "none" =>
                           \E c \in Clients : req[c].at \in {"start", "connectStart"} /\ req[c].sock = i
    BY DEF ThreadServesItsSocket
  <2>1. /\ EntryOK(i, entry[i], thread[i], req[entry[i].creator])
        /\ entry[i].creator # Nobody => entry[i].creator \in Clients
    BY Entry
  <2>2. thread[i].at # "none" => ~entry[i].available /\ entry[i].actpas = "ACTIVE"
    BY <2>1, BlankFacts DEF EntryOK
  <2>3. ASSUME entry[i].actpas = "ACTIVE", thread[i].at = "none"
        PROVE  \E c \in Clients : req[c].at \in {"start", "connectStart"} /\ req[c].sock = i
    <3>1. entry[i].creator \in Clients /\ Starting(req[entry[i].creator], i)
      BY <2>1, <2>3 DEF EntryOK
    <3> QED BY <3>1 DEF Starting
  <2> QED BY <2>2, <2>3
<1> QED BY <1>1, SocketsInvariance, PTL

\* A port is taken by a live socket that is bound to it, so BIND and find_ephemeral_port
\* pass over no port whose socket is gone.
THEOREM PortsHaveSockets == SocketsSpec => []PortsPointAtTheirSockets
<1>1. IInv => PortsPointAtTheirSockets
  BY DEF IInv
<1> QED BY <1>1, SocketsInvariance, PTL

\* CLOSE finds the state that it saw without the lock, so it never takes the return that
\* keeps lock_tcp_state locked.
THEOREM LocksAreGivenBack == SocketsSpec => []NoLockLeftBehind
<1>1. IInv => NoLockLeftBehind
  BY DEF IInv
<1> QED BY <1>1, SocketsInvariance, PTL

\* A packet goes to the listening socket of its port only when no accepted connection with
\* its sender exists there: a listening socket knows no remote address, so the look-up
\* prefers every socket that was accepted from the packet's sender.
THEOREM StrangersKnock == SocketsSpec => ListenersGetStrangersOnly
<1> DEFINE Stranger ==
             carry = NoPacket /\ carry' # NoPacket /\ carry'.kind = "PASSIVE" =>
               ~\E i \in Sockets : /\ entry[i].actpas = "ACTIVE" /\ ~entry[i].any
                                   /\ entry[i].remote = carry'.peer
                                   /\ entry[i].port = entry[carry'.sock].port
<1>1. ASSUME IInv, NEW p \in Ports, NEW r \in Peers, ReceivePacket(p, r) PROVE Stranger
  <2>1. PICK k : k = lookup_socket(p, r)
    OBVIOUS
  <2>2. k # NoSocket /\ carry' = [sock |-> k, kind |-> entry[k].actpas, peer |-> r]
    BY <1>1, <2>1 DEF ReceivePacket
  <2>3. /\ k \in Sockets /\ Matches(k, p, r)
        /\ \A j \in Sockets : Matches(j, p, r) => Wildcards(k) <= Wildcards(j)
    BY <2>1, <2>2, LookupSocket
  <2>4. ASSUME entry[k].actpas = "PASSIVE", NEW i \in Sockets,
               entry[i].actpas = "ACTIVE", ~entry[i].any,
               entry[i].remote = r, entry[i].port = entry[k].port
        PROVE  FALSE
    <3>1. Wildcards(i) = 0
      BY <2>4, SocketsAssumption DEF Wildcards
    <3>2. Matches(i, p, r)
      BY <1>1, <2>3, <2>4, Entry, BlankFacts DEF Matches, EntryOK
    <3>3. Wildcards(k) \in {1, 2}
      BY <1>1, <2>3, <2>4, Entry DEF EntryOK, Wildcards
    <3> QED BY <2>3, <3>1, <3>2, <3>3
  <2>5. carry'.sock = k /\ carry'.kind = entry[k].actpas /\ carry'.peer = r
    BY <2>2
  <2> QED BY <2>4, <2>5
<1>2. ASSUME NEW c \in Clients, Request(c) PROVE carry' = carry
  BY <1>2 DEF Request, Socket, SocketReturn, BindSet, ListenInit, Bind, Listen, Accept, Close,
     Connect, WaitForState, AcceptAllocate, AcceptAddress, AcceptStart, AcceptRaise,
     ConnectAddress, ConnectStart, CloseFree, CloseRaise, WaitLock, Woken, Disconnect, Sweep,
     SweepFlag
<1>3. ASSUME NEW i \in Sockets, TcpThread(i) PROVE carry' = carry
  BY <1>3 DEF TcpThread, Dispatch, TakePacket, EndArrival, Set, LastAcked, AfterArrival, Cleanup
<1>4. IInv /\ [SocketsNext]_socketVars => [Stranger]_socketVars
  BY <1>1, <1>2, <1>3 DEF SocketsNext, Deliver
<1> QED BY <1>4, SocketsInvariance, PTL DEF SocketsSpec, ListenersGetStrangersOnly
=============================================================================
