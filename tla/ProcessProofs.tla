----------------------------- MODULE ProcessProofs -----------------------------
(***************************************************************************)
(* What TLAPS proves of the processes around the sockets, for every number *)
(* of applications, threads, daemons, connections and debuggers: the calls *)
(* of the library get the answers to their own requests (ClientLibrary),   *)
(* the daemon stops in order (Server), and the two ends of debugging agree *)
(* (DebugMonitor): a monitor that one thread destroys is not in the hands   *)
(* of another, and in the table only where ACCEPT has copied it too late,  *)
(* and a debugger waits only for threads that will answer, none of which   *)
(* outlives it.                                                            *)
(***************************************************************************)
EXTENDS MCChitcpd, SocketsProofs, SequenceTheorems, FunctionTheorems, FiniteSetTheorems,
        WellFoundedInduction, TLAPS

----------------------------------------------------------------------------
(* The library: the invariant *)

LibRequests == LibThreads \X Nat \X (Codes \cup {BUFFERS})
Body(r) == [part |-> "body", req |-> r]
Messages == {Size} \cup [part : {"body"}, req : LibRequests]
OnTheWay == {"get_socket", "send", "size", "body", "unpack"}
LibCalls ==
  {Out} \cup [at : OnTheWay, req : LibRequests, include_buffers : BOOLEAN,
              resp : LibRequests \cup {None}]
Connections ==
  [at : {"none", "open", "ended", "closed"}, up : Seq(LibRequests), down : Seq(Messages)]

LibTyped ==
  /\ daemon_socket \in [LibThreads -> Fds \cup {NoFd}]
  /\ fd \in [Fds -> Conns \cup {NoConn}]
  /\ conn \in [Conns -> Connections]
  /\ call \in [LibThreads -> LibCalls]
  /\ made \in [LibThreads -> Nat]
  /\ stale \subseteq LibThreads

Using(t) == daemon_socket[t] # NoFd
Connected == {t \in LibThreads : Using(t)}
Opened == {c \in Conns : conn[c].at # "none"}

\* Of a call, cl, on a connection, k, there is exactly what it has still to wait for.
InConn(cl, k) ==
  /\ cl.at \in {"out", "get_socket", "send"} => k.up = <<>> /\ k.down = <<>>
  /\ cl.at = "size" =>
       \/ k.at = "open" /\ k.up = <<cl.req>> /\ k.down = <<>>
       \/ k.up = <<>> /\ k.down = <<Size, Body(cl.req)>>
       \/ k.at = "ended" /\ k.up = <<>> /\ k.down = <<>>
  /\ cl.at = "body" => k.up = <<>> /\ k.down = <<Body(cl.req)>>
  /\ cl.at = "unpack" => k.up = <<>> /\ k.down = <<>> /\ cl.resp = cl.req

\* A descriptor is one thread's own until the library has closed it.
OwnDescriptors ==
  /\ \A t \in LibThreads : call[t].at \in OnTheWay \ {"get_socket"} => Using(t)
  /\ \A t \in stale : Using(t)
  /\ \A t \in LibThreads : Using(t) /\ ~Reused(t) => Conn(t) # NoConn
  /\ \A t, u \in LibThreads :
       t # u /\ Using(t) /\ daemon_socket[t] = daemon_socket[u] => Reused(t)

\* The kernel: a descriptor that is open has a connection of its own, and was given to a thread.
KernelTable ==
  /\ \A n, m \in Fds : fd[n] = fd[m] /\ fd[n] # NoConn => n = m
  /\ \A n \in Fds : fd[n] # NoConn =>
       conn[fd[n]].at \in {"open", "ended"} /\ \E t \in LibThreads : daemon_socket[t] = n
  /\ \A c \in Conns : conn[c].at = "none" => conn[c].up = <<>> /\ conn[c].down = <<>>
  /\ Cardinality(Opened) <= Cardinality(Connected)

\* A thread that no signal has interrupted and whose descriptor was never closed.
Undisturbed(t) == Using(t) /\ ~Reused(t) /\ t \notin interrupted

LibInv ==
  /\ LibTyped /\ OwnDescriptors /\ KernelTable
  /\ \A t \in LibThreads : Undisturbed(t) => InConn(call[t], conn[Conn(t)])

----------------------------------------------------------------------------
(* The library: types, descriptors and connections *)

LEMMA CallFields ==
  ASSUME NEW cl \in LibCalls
  PROVE  /\ cl.at \in OnTheWay \cup {"out"}
         /\ cl.at = "out" => cl = Out
         /\ cl.at # "out" =>
              /\ cl.req \in LibRequests /\ cl.include_buffers \in BOOLEAN
              /\ cl.resp \in LibRequests \cup {None}
              /\ cl = [at |-> cl.at, req |-> cl.req, include_buffers |-> cl.include_buffers,
                       resp |-> cl.resp]
BY DEF LibCalls, Out, OnTheWay

\* A call that has only gone on to another place.
LEMMA CallMoves ==
  ASSUME NEW cl \in LibCalls, cl.at # "out", NEW where \in OnTheWay,
         NEW next, next = [cl EXCEPT !.at = where]
  PROVE  next \in LibCalls /\ next.at = where /\ next.req = cl.req /\ next.resp = cl.resp
<1>1. next = [at |-> where, req |-> cl.req, include_buffers |-> cl.include_buffers,
              resp |-> cl.resp]
  BY CallFields
<1> QED BY <1>1, CallFields DEF LibCalls

LEMMA ConnFacts ==
  /\ Fds \subseteq Nat \ {0} /\ Conns \subseteq Nat \ {0} /\ NoFd \notin Fds /\ NoConn \notin Conns
  /\ IsFiniteSet(Fds) /\ IsFiniteSet(Conns)
  /\ Cardinality(LibThreads) \in Nat /\ Cardinality(Fds) = Cardinality(LibThreads)
  /\ Cardinality(Conns) >= Cardinality(LibThreads)
<1> DEFINE N == Cardinality(LibThreads)
<1>1. N \in Nat /\ MaxStarts \in Nat \ {0}
  BY ClientAssumption, FS_CardinalityType
<1>2. N * MaxStarts \in Nat /\ N * MaxStarts >= N
  <2> HIDE DEF N
  <2>1. N * MaxStarts = N * (MaxStarts - 1) + N /\ N * (MaxStarts - 1) \in Nat
    BY <1>1
  <2> QED BY <1>1, <2>1
<1>3. /\ IsFiniteSet(1 .. N) /\ Cardinality(1 .. N) = N
      /\ IsFiniteSet(1 .. N * MaxStarts) /\ Cardinality(1 .. N * MaxStarts) = N * MaxStarts
  <2> HIDE DEF N
  <2>1. ASSUME NEW k \in Nat PROVE IsFiniteSet(1 .. k) /\ Cardinality(1 .. k) = k
    <3>1. k >= 1 => k - 1 + 1 = k
      OBVIOUS
    <3> QED BY <3>1, FS_Interval
  <2> QED BY <1>1, <1>2, <2>1
<1> QED BY <1>1, <1>2, <1>3 DEF Fds, Conns, NoFd, NoConn

\* A set of descriptors or connections has a least member.
LEMMA LowestOf ==
  ASSUME NEW S \in SUBSET Nat, S # {}
  PROVE  \E n \in S : \A k \in S : n <= k
<1>1. PICK n \in S : \A m \in S : <<m, n>> \notin OpToRel(<, Nat)
  BY NatLessThanWellFounded, WFMin
<1>2. ASSUME NEW m \in S PROVE n <= m
  <2>1. m \in Nat /\ n \in Nat /\ ~(m < n)
    BY <1>1 DEF OpToRel
  <2> QED BY <2>1
<1> QED BY <1>2

\* A thread without a connection finds a descriptor and a connection that are free.
LEMMA Vacancies ==
  ASSUME LibInv, NEW t \in LibThreads, ~Using(t)
  PROVE  /\ FreeFd \in Fds /\ fd[FreeFd] = NoConn
         /\ FreeConn \in Conns /\ conn[FreeConn].at = "none"
<1> DEFINE Taken == {n \in Fds : fd[n] # NoConn}
<1>1. IsFiniteSet(LibThreads) /\ Connected \subseteq LibThreads \ {t}
  BY ClientAssumption DEF Connected
<1>2. Cardinality(LibThreads \ {t}) = Cardinality(LibThreads) - 1 /\ IsFiniteSet(LibThreads \ {t})
  BY <1>1, FS_RemoveElement
<1>3. /\ IsFiniteSet(Connected) /\ Cardinality(Connected) \in Nat
      /\ Cardinality(Connected) < Cardinality(LibThreads)
  <2>1. IsFiniteSet(Connected) /\ Cardinality(Connected) <= Cardinality(LibThreads \ {t})
    BY <1>1, <1>2, FS_Subset
  <2>2. Cardinality(Connected) \in Nat
    BY <2>1, FS_CardinalityType
  <2> QED BY <1>2, <2>1, <2>2, ConnFacts
<1>4. \E n \in Fds : fd[n] = NoConn
  <2> SUFFICES ASSUME Taken = Fds PROVE FALSE
    OBVIOUS
  <2> DEFINE f == [u \in Connected |-> daemon_socket[u]]
  <2>1. f \in Surjection(Connected, Fds)
    <3>1. f \in [Connected -> Fds]
      BY DEF LibInv, LibTyped, Connected, Using
    <3>2. \A n \in Fds : \E u \in Connected : f[u] = n
      BY ConnFacts DEF LibInv, KernelTable, Connected, Using
    <3> HIDE DEF f
    <3> QED BY <3>1, <3>2, Fun_IsSurj
  <2>2. Cardinality(Fds) <= Cardinality(Connected)
    <3> HIDE DEF f
    <3> QED BY <1>3, <2>1, FS_Surjection
  <2> QED BY <1>3, <2>2, ConnFacts
<1>5. \E c \in Conns : conn[c].at = "none"
  <2> SUFFICES ASSUME Opened = Conns PROVE FALSE
    BY DEF Opened
  <2>1. Cardinality(Conns) <= Cardinality(Connected)
    BY DEF LibInv, KernelTable
  <2>2. Cardinality(Conns) \in Nat
    BY ConnFacts, FS_CardinalityType
  <2> QED BY <1>3, <2>1, <2>2, ConnFacts
<1>6. FreeFd \in Fds /\ fd[FreeFd] = NoConn
  <2> DEFINE S == {n \in Fds : fd[n] = NoConn}
  <2>1. S \in SUBSET Nat /\ S # {}
    BY <1>4, ConnFacts
  <2>2. \E n \in S : \A k \in S : n <= k
    <3> HIDE DEF S
    <3> QED BY <2>1, LowestOf
  <2>3. \E n \in Fds : fd[n] = NoConn /\ \A k \in Fds : fd[k] = NoConn => n <= k
    BY <2>2
  <2> QED BY <2>3 DEF FreeFd
<1>7. FreeConn \in Conns /\ conn[FreeConn].at = "none"
  <2> DEFINE S == {c \in Conns : conn[c].at = "none"}
  <2>1. S \in SUBSET Nat /\ S # {}
    BY <1>5, ConnFacts
  <2>2. \E n \in S : \A k \in S : n <= k
    <3> HIDE DEF S
    <3> QED BY <2>1, LowestOf
  <2>3. \E c \in Conns : conn[c].at = "none" /\ \A k \in Conns : conn[k].at = "none" => c <= k
    BY <2>2
  <2> QED BY <2>3 DEF FreeConn
<1> QED BY <1>6, <1>7

\* Whose connection it is.
LEMMA OneOwner ==
  ASSUME LibInv, NEW t \in LibThreads, NEW u \in LibThreads, Undisturbed(t),
         Using(u), Conn(u) = Conn(t)
  PROVE  u = t
<1>1. daemon_socket[t] \in Fds /\ daemon_socket[u] \in Fds
  BY DEF LibInv, LibTyped, Using, Undisturbed
<1>2. Conn(t) # NoConn
  BY DEF LibInv, OwnDescriptors, Undisturbed
<1>3. daemon_socket[u] = daemon_socket[t]
  BY <1>1, <1>2 DEF LibInv, KernelTable, Conn
<1> QED BY <1>3 DEF LibInv, OwnDescriptors, Undisturbed

LEMMA ConnOf ==
  ASSUME LibInv, NEW t \in LibThreads, Using(t), Conn(t) # NoConn
  PROVE  /\ Conn(t) \in Conns /\ conn[Conn(t)] \in Connections
         /\ conn[Conn(t)].at \in {"open", "ended"} /\ daemon_socket[t] \in Fds
BY DEF LibInv, LibTyped, KernelTable, Using, Conn

\* A step of one thread that opens and closes nothing: whatever it does to its connection,
\* no thread is affected that has one of its own.
LEMMA CallStep ==
  ASSUME LibInv, NEW t \in LibThreads, NEW cl \in LibCalls, NEW k \in Connections,
         UNCHANGED <<daemon_socket, fd, stale>>, interrupted \subseteq interrupted',
         made' \in [LibThreads -> Nat],
         call' = [call EXCEPT ![t] = cl],
         \/ conn' = conn /\ (Undisturbed(t) => k = conn[Conn(t)])
         \/ /\ Using(t) /\ Conn(t) # NoConn /\ k.at = conn[Conn(t)].at
            /\ conn' = [conn EXCEPT ![Conn(t)] = k],
         cl.at \in OnTheWay \ {"get_socket"} => Using(t),
         Undisturbed(t) /\ t \notin interrupted' => InConn(cl, k)
  PROVE  LibInv'
<1>1. LibTyped'
  BY ConnOf DEF LibInv, LibTyped
<1>2. \A u \in LibThreads : (Using(u)' <=> Using(u)) /\ (Reused(u)' <=> Reused(u)) /\ Conn(u)' = Conn(u)
  BY DEF Using, Reused, Conn
<1>3. OwnDescriptors'
  <2>1. \A u \in LibThreads : u # t => call'[u] = call[u]
    BY DEF LibInv, LibTyped
  <2>2. call'[t] = cl
    BY DEF LibInv, LibTyped
  <2>3. \A u \in LibThreads : call'[u].at \in OnTheWay \ {"get_socket"} => Using(u)'
    BY <1>2, <2>1, <2>2 DEF LibInv, OwnDescriptors
  <2> QED BY <1>2, <2>3 DEF LibInv, LibTyped, OwnDescriptors
<1>4. /\ \A c \in Conns : conn'[c].at = conn[c].at
      /\ \A c \in Conns : conn'[c] # conn[c] => Using(t) /\ Conn(t) # NoConn /\ c = Conn(t)
  BY ConnOf DEF LibInv, LibTyped
<1>5. KernelTable'
  <2>1. Opened' = Opened /\ Connected' = Connected
    BY <1>2, <1>4 DEF Opened, Connected
  <2>2. \A n \in Fds : fd[n] # NoConn => fd[n] \in Conns
    BY DEF LibInv, LibTyped
  <2>3. \A c \in Conns : conn'[c].at = "none" => conn'[c] = conn[c]
    BY <1>4, ConnOf
  <2> QED BY <1>2, <1>4, <2>1, <2>2, <2>3 DEF LibInv, KernelTable
<1>6. ASSUME NEW u \in LibThreads, Undisturbed(u)' PROVE InConn(call[u], conn[Conn(u)])'
  <2>1. Undisturbed(u) /\ u \notin interrupted' /\ InConn(call[u], conn[Conn(u)])
    BY <1>2, <1>6 DEF LibInv, Undisturbed
  <2>2. Conn(u) # NoConn /\ Conn(u) \in Conns
    BY <2>1, ConnOf DEF LibInv, OwnDescriptors, Undisturbed
  <2>3. CASE u = t
    <3>0. conn'[Conn(u)] = k
      <4>1. CASE conn' = conn /\ (Undisturbed(t) => k = conn[Conn(t)])
        BY <2>1, <2>3, <4>1
      <4>2. CASE conn' = [conn EXCEPT ![Conn(t)] = k]
        BY <2>2, <2>3, <4>2 DEF LibInv, LibTyped
      <4> QED BY <4>1, <4>2
    <3>1. call'[u] = cl /\ conn'[Conn(u)] = k
      BY <2>3, <3>0 DEF LibInv, LibTyped
    <3> QED BY <1>2, <2>1, <2>3, <3>1
  <2>4. CASE u # t
    <3>1. conn'[Conn(u)] = conn[Conn(u)]
      BY <1>4, <2>1, <2>2, <2>4, OneOwner
    <3>2. call'[u] = call[u]
      BY <2>4 DEF LibInv, LibTyped
    <3> QED BY <1>2, <2>1, <3>1, <3>2
  <2> QED BY <2>3, <2>4
<1> QED BY <1>1, <1>3, <1>5, <1>6 DEF LibInv

\* close(sockfd): whoever else uses the descriptor is disturbed.
LEMMA CloseFdStep ==
  ASSUME LibInv, NEW t \in LibThreads, Using(t), Conn(t) # NoConn, CloseFd(t), Return(t),
         UNCHANGED <<daemon_socket, interrupted, made>>
  PROVE  LibInv'
<1> DEFINE c == Conn(t)
           k == [at |-> "closed", up |-> <<>>, down |-> <<>>]
<1>1. c \in Conns /\ conn[c] \in Connections /\ conn[c].at \in {"open", "ended"}
      /\ daemon_socket[t] \in Fds /\ fd[daemon_socket[t]] = c
  BY ConnOf DEF Conn
<1>2. /\ conn' = [conn EXCEPT ![c] = k] /\ fd' = [fd EXCEPT ![daemon_socket[t]] = NoConn]
      /\ stale' = stale \cup {t} /\ call' = [call EXCEPT ![t] = Out]
  BY DEF CloseFd, Return
<1>3. k \in Connections /\ Out \in LibCalls /\ Out.at = "out"
  BY DEF Connections, LibCalls, Out
<1>4. LibTyped'
  BY <1>1, <1>2, <1>3 DEF LibInv, LibTyped
<1>5. \A u \in LibThreads : /\ Using(u)' <=> Using(u)
                            /\ Reused(u)' <=> Reused(u) \/ daemon_socket[u] = daemon_socket[t]
  BY <1>2 DEF Using, Reused
<1>6. \A n \in Fds : fd'[n] = IF n = daemon_socket[t] THEN NoConn ELSE fd[n]
  BY <1>2 DEF LibInv, LibTyped
<1>7. OwnDescriptors'
  <2>1. \A u \in LibThreads : call'[u] = IF u = t THEN Out ELSE call[u]
    BY <1>2 DEF LibInv, LibTyped
  <2>2. \A u \in LibThreads : Using(u) => daemon_socket[u] \in Fds
    BY DEF LibInv, LibTyped, Using
  <2>3. \A u \in LibThreads : Using(u)' /\ ~Reused(u)' => Conn(u)' # NoConn
    BY <1>5, <1>6, <2>2 DEF LibInv, OwnDescriptors, Conn
  <2>4. \A u \in LibThreads : call'[u].at \in OnTheWay \ {"get_socket"} => Using(u)'
    BY <1>3, <1>5, <2>1 DEF LibInv, OwnDescriptors, OnTheWay
  <2>5. \A u \in stale' : Using(u)'
    BY <1>2, <1>5 DEF LibInv, OwnDescriptors, LibTyped
  <2> QED BY <1>5, <2>3, <2>4, <2>5 DEF LibInv, OwnDescriptors
<1>8. KernelTable'
  <2>1. \A d \in Conns : conn'[d] = IF d = c THEN k ELSE conn[d]
    BY <1>2 DEF LibInv, LibTyped
  <2>2. Opened' = Opened /\ Connected' = Connected
    BY <1>1, <1>5, <2>1 DEF Opened, Connected
  <2>3. \A n \in Fds : fd'[n] # NoConn => fd'[n] = fd[n] /\ fd[n] \in Conns /\ fd[n] # c
    BY <1>1, <1>6 DEF LibInv, LibTyped, KernelTable
  <2>4. \A d \in Conns : conn'[d].at = "none" => conn'[d].up = <<>> /\ conn'[d].down = <<>>
    BY <2>1 DEF LibInv, KernelTable
  <2>5. \A n, m \in Fds : fd'[n] = fd'[m] /\ fd'[n] # NoConn => n = m
    BY <2>3 DEF LibInv, KernelTable
  <2>6. \A n \in Fds : fd'[n] # NoConn =>
          conn'[fd'[n]].at \in {"open", "ended"} /\ \E u \in LibThreads : daemon_socket'[u] = n
    BY <2>1, <2>3 DEF LibInv, KernelTable
  <2> QED BY <2>2, <2>4, <2>5, <2>6 DEF LibInv, KernelTable
<1>9. ASSUME NEW u \in LibThreads, Undisturbed(u)' PROVE InConn(call[u], conn[Conn(u)])'
  <2>1. Undisturbed(u) /\ u # t /\ daemon_socket[u] # daemon_socket[t]
    BY <1>5, <1>9 DEF Undisturbed
  <2>2. Conn(u) # c /\ Conn(u) # NoConn /\ daemon_socket[u] \in Fds /\ Conn(u) \in Conns
    BY <2>1, OneOwner, ConnOf DEF LibInv, OwnDescriptors, Undisturbed
  <2>3. Conn(u)' = Conn(u) /\ call'[u] = call[u] /\ conn'[Conn(u)] = conn[Conn(u)]
    BY <1>2, <1>6, <2>1, <2>2 DEF Conn, LibInv, LibTyped
  <2> QED BY <2>1, <2>3 DEF LibInv
<1> QED BY <1>4, <1>7, <1>8, <1>9 DEF LibInv

\* connect(): a free descriptor, a free connection, and both of them this thread's.
LEMMA NewConnection ==
  ASSUME LibInv, NEW t \in LibThreads, ~Using(t), call[t].at = "get_socket",
         daemon_socket' = Stored(t), fd' = [fd EXCEPT ![FreeFd] = FreeConn],
         conn' = [conn EXCEPT ![FreeConn] = [at |-> "open", up |-> <<>>, down |-> <<>>]],
         GoesTo(t, "send"),
         UNCHANGED <<interrupted, stale, made>>
  PROVE  LibInv'
<1> DEFINE n == FreeFd
           c == FreeConn
           k == [at |-> "open", up |-> <<>>, down |-> <<>>]
<1>1. n \in Fds /\ fd[n] = NoConn /\ c \in Conns /\ conn[c].at = "none"
  BY Vacancies
<1> HIDE DEF n, c
<1>3. /\ conn' = [conn EXCEPT ![c] = k] /\ fd' = [fd EXCEPT ![n] = c]
      /\ daemon_socket' = [daemon_socket EXCEPT ![t] = n]
  BY DEF Stored, n, c
<1> DEFINE cl == [call[t] EXCEPT !.at = "send"]
<1>4. cl \in LibCalls /\ cl.at = "send" /\ call' = [call EXCEPT ![t] = cl]
  <2>1. call[t] \in LibCalls
    BY DEF LibInv, LibTyped
  <2>2. cl \in LibCalls /\ cl.at = "send"
    BY <2>1, CallMoves DEF OnTheWay
  <2>3. call' = [call EXCEPT ![t] = cl]
    BY Zenon DEF GoesTo
  <2> QED BY <2>2, <2>3
<1> HIDE DEF cl
<1>5. k \in Connections
  BY DEF Connections
<1>6. LibTyped'
  <2>0. daemon_socket' \in [LibThreads -> Fds \cup {NoFd}]
    BY <1>1, <1>3 DEF LibInv, LibTyped
  <2>1. fd' \in [Fds -> Conns \cup {NoConn}]
    BY <1>1, <1>3 DEF LibInv, LibTyped
  <2>2. conn' \in [Conns -> Connections]
    BY <1>1, <1>3, <1>5 DEF LibInv, LibTyped
  <2>3. call' \in [LibThreads -> LibCalls]
    BY <1>4 DEF LibInv, LibTyped
  <2>4. made' \in [LibThreads -> Nat] /\ stale' \subseteq LibThreads
    BY DEF LibInv, LibTyped
  <2> QED BY <2>0, <2>1, <2>2, <2>3, <2>4 DEF LibTyped
<1>7. n # NoFd /\ c # NoConn
  BY <1>1, ConnFacts
<1>8. /\ \A u \in LibThreads : daemon_socket'[u] = IF u = t THEN n ELSE daemon_socket[u]
      /\ \A m \in Fds : fd'[m] = IF m = n THEN c ELSE fd[m]
      /\ \A d \in Conns : conn'[d] = IF d = c THEN k ELSE conn[d]
      /\ \A u \in LibThreads : call'[u] = IF u = t THEN cl ELSE call[u]
  BY <1>1, <1>3, <1>4 DEF LibInv, LibTyped
<1>9. /\ t \notin stale /\ stale' = stale /\ stale \subseteq LibThreads
      /\ \A u \in stale : Using(u)
  BY DEF LibInv, OwnDescriptors, LibTyped
<1>10. \A u \in LibThreads \ {t} : (Using(u)' <=> Using(u)) /\ (Reused(u)' <=> Reused(u))
  BY <1>8, <1>9 DEF Using, Reused
<1>11. Using(t)'
  BY <1>7, <1>8 DEF Using
<1>12. \A u \in LibThreads \ {t} : Using(u) => daemon_socket[u] \in Fds /\ (daemon_socket[u] = n => Reused(u))
  BY <1>1 DEF LibInv, OwnDescriptors, LibTyped, Using, Conn
<1>13. OwnDescriptors'
  <2>1. \A u \in LibThreads : call'[u].at \in OnTheWay \ {"get_socket"} => Using(u)'
    BY <1>8, <1>10, <1>11 DEF LibInv, OwnDescriptors
  <2>2. \A u \in stale' : Using(u)'
    BY <1>9, <1>10, <1>11
  <2>3. \A u \in LibThreads : Using(u)' /\ ~Reused(u)' => Conn(u)' # NoConn
    <3> SUFFICES ASSUME NEW u \in LibThreads, Using(u)', ~Reused(u)' PROVE Conn(u)' # NoConn
      OBVIOUS
    <3>1. CASE u = t
      BY <1>1, <1>7, <1>8, <3>1 DEF Conn
    <3>2. CASE u # t
      <4>1. Using(u) /\ ~Reused(u) /\ daemon_socket[u] \in Fds \ {n}
        BY <1>10, <1>12, <3>2
      <4>2. Conn(u) # NoConn
        BY <4>1 DEF LibInv, OwnDescriptors
      <4> QED BY <1>8, <3>2, <4>1, <4>2 DEF Conn
    <3> QED BY <3>1, <3>2
  <2>4. ASSUME NEW u \in LibThreads, NEW v \in LibThreads, u # v, Using(u)',
               daemon_socket'[u] = daemon_socket'[v]
        PROVE  Reused(u)'
    <3>1. CASE u = t
      <4>1. daemon_socket[v] = n /\ Using(v) /\ Reused(v)'
        BY <1>7, <1>8, <1>10, <1>12, <2>4, <3>1 DEF Using
      <4> QED BY <2>4, <4>1 DEF Reused
    <3>2. CASE v = t
      <4>1. Using(u) /\ daemon_socket[u] = n
        BY <1>8, <1>10, <2>4, <3>2
      <4> QED BY <1>10, <1>12, <2>4, <3>2, <4>1
    <3>3. CASE u # t /\ v # t
      <4>1. Using(u) /\ daemon_socket[u] = daemon_socket[v]
        BY <1>8, <1>10, <2>4, <3>3
      <4>2. Reused(u)
        BY <2>4, <4>1 DEF LibInv, OwnDescriptors
      <4> QED BY <1>10, <3>3, <4>2
    <3> QED BY <3>1, <3>2, <3>3
  <2> QED BY <2>1, <2>2, <2>3, <2>4 DEF OwnDescriptors
<1>14. KernelTable'
  <2>1. \A m \in Fds : fd[m] # NoConn => fd[m] \in Conns /\ fd[m] # c
    <3>1. \A m \in Fds : fd[m] \in Conns \cup {NoConn}
      BY DEF LibInv, LibTyped
    <3>2. \A m \in Fds : fd[m] # NoConn => conn[fd[m]].at # "none"
      BY DEF LibInv, KernelTable
    <3> QED BY <1>1, <3>1, <3>2
  <2>2. \A m, o \in Fds : fd'[m] = fd'[o] /\ fd'[m] # NoConn => m = o
    BY <1>7, <1>8, <2>1 DEF LibInv, KernelTable
  <2>3. \A m \in Fds : fd'[m] # NoConn =>
          conn'[fd'[m]].at \in {"open", "ended"} /\ \E u \in LibThreads : daemon_socket'[u] = m
    <3> SUFFICES ASSUME NEW m \in Fds, fd'[m] # NoConn
                 PROVE  conn'[fd'[m]].at \in {"open", "ended"} /\ \E u \in LibThreads : daemon_socket'[u] = m
      OBVIOUS
    <3>1. CASE m = n
      BY <1>1, <1>8, <3>1
    <3>2. CASE m # n
      <4>1. fd'[m] = fd[m] /\ conn'[fd[m]] = conn[fd[m]] /\ conn[fd[m]].at \in {"open", "ended"}
        BY <1>8, <2>1, <3>2 DEF LibInv, KernelTable
      <4>2. PICK u \in LibThreads : daemon_socket[u] = m
        BY <3>2, <4>1 DEF LibInv, KernelTable
      <4>3. u # t
        BY <4>2, ConnFacts DEF Using
      <4> QED BY <1>8, <4>1, <4>2, <4>3
    <3> QED BY <3>1, <3>2
  <2>4. \A d \in Conns : conn'[d].at = "none" => conn'[d].up = <<>> /\ conn'[d].down = <<>>
    BY <1>8 DEF LibInv, KernelTable
  <2>5. Cardinality(Opened') <= Cardinality(Connected')
    <3>1. Opened' = Opened \cup {c} /\ c \notin Opened /\ Opened \subseteq Conns
      BY <1>1, <1>8 DEF Opened
    <3>2. Connected' = Connected \cup {t} /\ t \notin Connected /\ Connected \subseteq LibThreads
      BY <1>10, <1>11 DEF Connected
    <3>3. IsFiniteSet(Opened) /\ IsFiniteSet(Connected)
      BY <3>1, <3>2, ConnFacts, ClientAssumption, FS_Subset
    <3>4. /\ Cardinality(Opened \cup {c}) = Cardinality(Opened) + 1
          /\ Cardinality(Connected \cup {t}) = Cardinality(Connected) + 1
          /\ Cardinality(Opened) \in Nat /\ Cardinality(Connected) \in Nat
      BY <3>1, <3>2, <3>3, FS_AddElement, FS_CardinalityType
    <3>5. Cardinality(Opened) <= Cardinality(Connected)
      BY DEF LibInv, KernelTable
    <3> QED BY <3>1, <3>2, <3>4, <3>5
  <2> QED BY <2>2, <2>3, <2>4, <2>5 DEF KernelTable
<1>15. ASSUME NEW u \in LibThreads, Undisturbed(u)' PROVE InConn(call[u], conn[Conn(u)])'
  <2>1. CASE u = t
    <3>1. Conn(u)' = c /\ conn'[c] = k /\ call'[u] = cl
      BY <1>1, <1>8, <2>1 DEF Conn
    <3> QED BY <1>4, <3>1 DEF InConn
  <2>2. CASE u # t
    <3>1. Undisturbed(u) /\ daemon_socket[u] \in Fds \ {n}
      BY <1>10, <1>12, <1>15, <2>2 DEF Undisturbed
    <3>2. Conn(u)' = Conn(u) /\ Conn(u) \in Conns /\ Conn(u) # c
      <4>1. Conn(u) # NoConn
        BY <3>1 DEF LibInv, OwnDescriptors, Undisturbed
      <4>2. Conn(u) \in Conns /\ conn[Conn(u)].at # "none"
        BY <3>1, <4>1 DEF Conn, LibInv, LibTyped, KernelTable
      <4>3. Conn(u)' = Conn(u)
        BY <1>8, <2>2, <3>1 DEF Conn
      <4> QED BY <1>1, <4>2, <4>3
    <3>3. call'[u] = call[u] /\ conn'[Conn(u)] = conn[Conn(u)]
      BY <1>8, <2>2, <3>2
    <3> QED BY <3>1, <3>2, <3>3 DEF LibInv
  <2> QED BY <2>1, <2>2
<1> QED BY <1>6, <1>13, <1>14, <1>15 DEF LibInv

\* The daemon answers on one connection, or ends them all.
LEMMA DaemonSide ==
  ASSUME LibInv, UNCHANGED <<daemon_socket, fd, call, interrupted, stale, made>>,
         conn' \in [Conns -> Connections],
         \A c \in Conns :
           \/ conn'[c] = conn[c]
           \/ /\ conn[c].at = "open" /\ conn'[c].at \in {"open", "ended"}
              /\ \A t \in LibThreads : InConn(call[t], conn[c]) => InConn(call[t], conn'[c])
  PROVE  LibInv'
<1>1. LibTyped' /\ OwnDescriptors'
  BY DEF LibInv, LibTyped, OwnDescriptors, Using, Reused, Conn
<1>2. KernelTable'
  <2>1. Opened' = Opened /\ Connected' = Connected
    BY DEF Opened, Connected, Using
  <2>2. \A n \in Fds : fd[n] # NoConn => fd[n] \in Conns
    BY DEF LibInv, LibTyped
  <2> QED BY <2>1, <2>2 DEF LibInv, KernelTable
<1>3. ASSUME NEW t \in LibThreads, Undisturbed(t)' PROVE InConn(call[t], conn[Conn(t)])'
  <2>1. Undisturbed(t) /\ Conn(t)' = Conn(t)
    BY <1>3 DEF Undisturbed, Using, Reused, Conn
  <2>2. Conn(t) \in Conns /\ InConn(call[t], conn[Conn(t)])
    BY <2>1, ConnOf DEF LibInv, OwnDescriptors, Undisturbed
  <2> QED BY <2>1, <2>2
<1> QED BY <1>1, <1>2, <1>3 DEF LibInv

----------------------------------------------------------------------------
(* The library: the steps *)

\* A step that leaves the connections alone.
LEMMA QuietStep ==
  ASSUME LibInv, NEW t \in LibThreads, NEW cl \in LibCalls,
         UNCHANGED <<daemon_socket, fd, conn, stale>>, interrupted \subseteq interrupted',
         made' \in [LibThreads -> Nat], call' = [call EXCEPT ![t] = cl],
         cl.at \in OnTheWay \ {"get_socket"} => Using(t),
         Undisturbed(t) /\ t \notin interrupted' => InConn(cl, conn[Conn(t)])
  PROVE  LibInv'
<1>1. CASE Undisturbed(t)
  <2>1. conn[Conn(t)] \in Connections
    BY <1>1, ConnOf DEF LibInv, OwnDescriptors, Undisturbed
  <2> HIDE DEF LibInv, Undisturbed, InConn
  <2> QED BY <1>1, <2>1, CallStep
<1>2. CASE ~Undisturbed(t)
  <2>1. PICK k : k \in Connections
    <3>1. [at |-> "none", up |-> <<>>, down |-> <<>>] \in Connections
      BY DEF Connections
    <3> QED BY <3>1
  <2> HIDE DEF LibInv, Undisturbed, InConn
  <2> QED BY <1>2, <2>1, CallStep
<1> QED BY <1>1, <1>2

LEMMA NothingHappens ==
  ASSUME LibInv, UNCHANGED <<daemon_socket, fd, conn, call, interrupted, stale, made>>
  PROVE  LibInv'
BY DEF LibInv, LibTyped, OwnDescriptors, KernelTable, Undisturbed, Using, Reused, Conn,
   Opened, Connected

\* A call at some place, and what an undisturbed thread finds there.
LEMMA CallAt ==
  ASSUME LibInv, NEW t \in LibThreads
  PROVE  /\ call[t] \in LibCalls /\ made[t] \in Nat /\ made \in [LibThreads -> Nat]
         /\ call[t].at \in OnTheWay \ {"get_socket"} => Using(t)
         /\ Undisturbed(t) => Conn(t) # NoConn /\ InConn(call[t], conn[Conn(t)])
BY DEF LibInv, LibTyped, OwnDescriptors, Undisturbed

LEMMA OutFacts == Out \in LibCalls /\ Out.at = "out"
BY DEF Out, LibCalls

LEMMA CallsStep ==
  ASSUME LibInv, NEW t \in LibThreads, NEW code \in Codes, Calls(t, code) PROVE LibInv'
<1>1. PICK buffers \in BOOLEAN :
        call' = [call EXCEPT ![t] = [at |-> "get_socket", req |-> <<t, made[t] + 1, code>>,
                                     include_buffers |-> buffers, resp |-> None]]
  BY DEF Calls
<1> DEFINE cl == [at |-> "get_socket", req |-> <<t, made[t] + 1, code>>,
                  include_buffers |-> buffers, resp |-> None]
<1>2. cl \in LibCalls /\ cl.at = "get_socket"
  BY CallAt DEF LibCalls, LibRequests, OnTheWay
<1>3. made' \in [LibThreads -> Nat]
  BY CallAt DEF Calls
<1>4. Undisturbed(t) => InConn(cl, conn[Conn(t)])
  BY CallAt, OutFacts DEF Calls, InConn
<1>5. UNCHANGED <<daemon_socket, fd, conn, stale, interrupted>>
  BY DEF Calls
<1> HIDE DEF cl, LibInv, Undisturbed, InConn
<1> QED BY <1>1, <1>2, <1>3, <1>4, <1>5, QuietStep DEF cl

\* The call returns, with the connection as it is.
LEMMA ReturnStep ==
  ASSUME LibInv, NEW t \in LibThreads, Return(t),
         UNCHANGED <<daemon_socket, fd, conn, stale, made>>, interrupted \subseteq interrupted',
         Undisturbed(t) /\ t \notin interrupted' => InConn(Out, conn[Conn(t)])
  PROVE  LibInv'
<1>1. made' \in [LibThreads -> Nat] /\ call' = [call EXCEPT ![t] = Out]
  BY CallAt DEF Return
<1> HIDE DEF LibInv, Undisturbed, InConn
<1> QED BY <1>1, OutFacts, QuietStep DEF OnTheWay

LEMMA GetSocketStep ==
  ASSUME LibInv, NEW t \in LibThreads, chitcpd_get_socket(t) PROVE LibInv'
<1>1. call[t].at = "get_socket" /\ UNCHANGED <<interrupted, stale, made>>
  BY DEF chitcpd_get_socket
<1>2. CASE Using(t) /\ GoesTo(t, "send") /\ UNCHANGED <<daemon_socket, fd, conn>>
  <2> DEFINE cl == [call[t] EXCEPT !.at = "send"]
  <2>1. cl \in LibCalls /\ cl.at = "send"
    BY <1>1, CallAt, CallMoves DEF OnTheWay
  <2>2. call' = [call EXCEPT ![t] = cl]
    BY <1>2, Zenon DEF GoesTo
  <2> HIDE DEF cl
  <2>3. Undisturbed(t) => InConn(cl, conn[Conn(t)])
    BY <1>1, <2>1, CallAt DEF InConn
  <2>4. made' \in [LibThreads -> Nat]
    BY <1>1, CallAt
  <2> HIDE DEF LibInv, Undisturbed, InConn
  <2> QED BY <1>1, <1>2, <2>1, <2>2, <2>3, <2>4, QuietStep
<1>3. CASE /\ ~Using(t) /\ daemon_socket' = Stored(t)
           /\ fd' = [fd EXCEPT ![FreeFd] = FreeConn]
           /\ conn' = [conn EXCEPT ![FreeConn] = [at |-> "open", up |-> <<>>, down |-> <<>>]]
           /\ GoesTo(t, "send")
  BY <1>1, <1>3, NewConnection
<1>4. CASE ~Using(t) /\ Return(t) /\ UNCHANGED <<daemon_socket, fd, conn>>
  <2>1. ~Undisturbed(t)
    BY <1>4 DEF Undisturbed
  <2> HIDE DEF LibInv, Undisturbed, InConn
  <2> QED BY <1>1, <1>4, <2>1, ReturnStep
<1> QED BY <1>2, <1>3, <1>4 DEF chitcpd_get_socket, Using

LEMMA SendMsgStep ==
  ASSUME LibInv, NEW t \in LibThreads, chitcpd_send_msg(t) PROVE LibInv'
<1>1. /\ call[t].at = "send" /\ UNCHANGED <<daemon_socket, interrupted, made>>
      /\ call[t] \in LibCalls /\ Using(t)
  BY CallAt DEF chitcpd_send_msg, OnTheWay
<1>2. CASE Conn(t) = NoConn /\ Return(t) /\ UNCHANGED <<fd, conn, stale>>
  BY <1>1, <1>2, CallAt, ReturnStep
<1>3. CASE Ended(t) /\ UNCHANGED <<call, fd, conn, stale>>
  BY <1>1, <1>3, NothingHappens
<1>4. CASE Ended(t) /\ Return(t) /\ CloseFd(t)
  BY <1>1, <1>4, CloseFdStep DEF Ended
<1>5. CASE /\ Conn(t) # NoConn /\ conn[Conn(t)].at = "open"
           /\ conn' = [conn EXCEPT ![Conn(t)].up = Append(@, call[t].req)]
           /\ GoesTo(t, "size") /\ UNCHANGED <<fd, stale>>
  <2> DEFINE c == Conn(t)
             k == [at |-> "open", up |-> Append(conn[c].up, call[t].req), down |-> conn[c].down]
             cl == [call[t] EXCEPT !.at = "size"]
  <2>1. c \in Conns /\ conn[c] \in Connections /\ conn[c].at = "open" /\ conn \in [Conns -> Connections]
    BY <1>1, <1>5, ConnOf DEF LibInv, LibTyped
  <2>2. /\ cl \in LibCalls /\ cl.at = "size" /\ cl.req = call[t].req /\ call[t].req \in LibRequests
        /\ call' = [call EXCEPT ![t] = cl]
    <3>1. cl \in LibCalls /\ cl.at = "size" /\ cl.req = call[t].req /\ call[t].req \in LibRequests
      BY <1>1, CallFields, CallMoves DEF OnTheWay
    <3>2. call' = [call EXCEPT ![t] = cl]
      BY <1>5, Zenon DEF GoesTo
    <3> QED BY <3>1, <3>2
  <2> HIDE DEF cl, c
  <2>3. k \in Connections
    BY <2>1, <2>2, AppendProperties DEF Connections
  <2>4. conn' = [conn EXCEPT ![c] = k]
    <3>1. conn' = [conn EXCEPT ![c] = [conn[c] EXCEPT !.up = Append(conn[c].up, call[t].req)]]
      BY <1>5, Zenon DEF c
    <3>2. ASSUME NEW up PROVE [conn[c] EXCEPT !.up = up] = [at |-> "open", up |-> up, down |-> conn[c].down]
      BY <2>1 DEF Connections
    <3> QED BY <3>1, <3>2, Zenon
  <2>5. Undisturbed(t) => InConn(cl, k)
    <3>1. k.at = "open" /\ k.down = conn[c].down /\ k.up = Append(conn[c].up, call[t].req)
      OBVIOUS
    <3>2. Append(<<>>, call[t].req) = <<call[t].req>>
      OBVIOUS
    <3> QED BY <1>1, <2>2, <3>1, <3>2, CallAt DEF InConn, c
  <2>6. made' \in [LibThreads -> Nat] /\ k.at = conn[c].at
    BY <1>1, <2>1, CallAt
  <2> HIDE DEF LibInv, Undisturbed, InConn, k
  <2> QED BY <1>1, <1>5, <2>2, <2>3, <2>4, <2>5, <2>6, CallStep DEF c
<1> QED BY <1>2, <1>3, <1>4, <1>5 DEF chitcpd_send_msg

LEMMA DownReplaced ==
  ASSUME NEW k \in Connections, NEW down, NEW new, new = [k EXCEPT !.down = down]
  PROVE  new = [at |-> k.at, up |-> k.up, down |-> down]
BY DEF Connections

LEMMA Answered ==
  ASSUME NEW cl \in LibCalls, cl.at = "body", NEW answer, NEW new,
         new = [cl EXCEPT !.at = "unpack", !.resp = answer]
  PROVE  new = [at |-> "unpack", req |-> cl.req, include_buffers |-> cl.include_buffers,
                resp |-> answer]
<1>1. cl \in [at : OnTheWay, req : LibRequests, include_buffers : BOOLEAN,
             resp : LibRequests \cup {None}]
  BY DEF LibCalls, Out
<1> QED BY <1>1

\* What TakeOne leaves of a connection.
Taken(k) == [at |-> k.at, up |-> k.up, down |-> Tail(k.down)]

LEMMA TakeOneFacts ==
  ASSUME LibInv, NEW t \in LibThreads, Using(t), Incoming(t) # <<>>, TakeOne(t)
  PROVE  /\ Conn(t) # NoConn /\ Incoming(t) = conn[Conn(t)].down
         /\ Taken(conn[Conn(t)]) \in Connections /\ Taken(conn[Conn(t)]).at = conn[Conn(t)].at
         /\ conn' = [conn EXCEPT ![Conn(t)] = Taken(conn[Conn(t)])]
         /\ Head(Incoming(t)) \in Messages
<1> DEFINE c == Conn(t)
<1>1. c # NoConn /\ Incoming(t) = conn[c].down
  BY DEF Incoming
<1>2. c \in Conns /\ conn[c] \in Connections /\ conn \in [Conns -> Connections]
  BY <1>1, ConnOf DEF LibInv, LibTyped
<1>3. conn' = [conn EXCEPT ![c] = [conn[c] EXCEPT !.down = Tail(conn[c].down)]]
  BY Zenon DEF TakeOne
<1> HIDE DEF c
<1>4. ASSUME NEW down PROVE [conn[c] EXCEPT !.down = down] = [at |-> conn[c].at, up |-> conn[c].up, down |-> down]
  BY <1>2, DownReplaced, Zenon
<1>5. conn' = [conn EXCEPT ![c] = Taken(conn[c])]
  BY <1>3, <1>4, Zenon DEF Taken
<1>6. conn[c].down \in Seq(Messages) /\ conn[c].down # <<>>
  BY <1>1, <1>2 DEF Connections
<1>7. Tail(conn[c].down) \in Seq(Messages) /\ Head(conn[c].down) \in Messages
  BY <1>6, HeadTailProperties
<1>8. Taken(conn[c]) \in Connections /\ Taken(conn[c]).at = conn[c].at
  BY <1>2, <1>7 DEF Connections, Taken
<1> QED BY <1>1, <1>5, <1>7, <1>8 DEF c

\* Messages one after the other.
LEMMA MessageFacts ==
  ASSUME NEW r
  PROVE  /\ Head(<<Size, Body(r)>>) = Size /\ Tail(<<Size, Body(r)>>) = <<Body(r)>>
         /\ Head(<<Body(r)>>) = Body(r) /\ Tail(<<Body(r)>>) = <<>>
         /\ <<Size, Body(r)>> # <<>> /\ <<Body(r)>> # <<>>
         /\ Size.part = "size" /\ Body(r).part = "body" /\ Body(r).req = r
<1>1. \A x, y : Head(<<x, y>>) = x /\ Tail(<<x, y>>) = <<y>> /\ Head(<<y>>) = y /\ Tail(<<y>>) = <<>>
                /\ <<x, y>> # <<>> /\ <<y>> # <<>>
  OBVIOUS
<1>2. Size.part = "size" /\ Body(r).part = "body" /\ Body(r).req = r
  BY DEF Size, Body
<1> QED BY <1>1, <1>2

LEMMA RecvSizeStep ==
  ASSUME LibInv, NEW t \in LibThreads, RecvSize(t) PROVE LibInv'
<1> DEFINE c == Conn(t)
<1>1. /\ call[t].at = "size" /\ UNCHANGED <<daemon_socket, made>>
      /\ call[t] \in LibCalls /\ Using(t) /\ made' \in [LibThreads -> Nat]
  BY CallAt DEF RecvSize, OnTheWay
<1>2. Undisturbed(t) => Conn(t) # NoConn /\ InConn(call[t], conn[c])
  BY CallAt
<1>3. CASE /\ Incoming(t) # <<>> /\ TakeOne(t) /\ UNCHANGED <<fd, stale, interrupted>>
           /\ IF Finds(t, "size") THEN GoesTo(t, "body") ELSE UNCHANGED call
  <2> DEFINE k == Taken(conn[c])
  <2>1. /\ c # NoConn /\ Incoming(t) = conn[c].down
        /\ k \in Connections /\ k.at = conn[c].at
        /\ conn' = [conn EXCEPT ![c] = k]
    BY <1>1, <1>3, TakeOneFacts
  <2>2. k.up = conn[c].up /\ k.down = Tail(conn[c].down)
    BY DEF Taken
  <2>3. Undisturbed(t) => conn[c].up = <<>> /\ conn[c].down = <<Size, Body(call[t].req)>>
    BY <1>1, <1>2, <1>3, <2>1 DEF InConn
  <2> HIDE DEF k
  <2>4. CASE Finds(t, "size")
    <3> DEFINE cl == [call[t] EXCEPT !.at = "body"]
    <3>1. cl \in LibCalls /\ cl.at = "body" /\ cl.req = call[t].req
      BY <1>1, CallMoves DEF OnTheWay
    <3>2. call' = [call EXCEPT ![t] = cl]
      BY <1>3, <2>4, Zenon DEF GoesTo
    <3> HIDE DEF cl, c
    <3>3. Undisturbed(t) => InConn(cl, k)
      BY <2>2, <2>3, <3>1, MessageFacts DEF InConn
    <3> HIDE DEF LibInv, Undisturbed, InConn
    <3> QED BY <1>1, <1>3, <2>1, <3>1, <3>2, <3>3, CallStep DEF c
  <2>5. CASE ~Finds(t, "size")
    <3>1. ~Undisturbed(t)
      <4>1. Undisturbed(t) => Incoming(t) = <<Size, Body(call[t].req)>>
        BY <2>1, <2>3
      <4>2. Incoming(t) = <<Size, Body(call[t].req)>> => Finds(t, "size")
        BY MessageFacts DEF Finds
      <4> QED BY <2>5, <4>1, <4>2
    <3>2. call' = [call EXCEPT ![t] = call[t]]
      BY <1>3, <2>5 DEF LibInv, LibTyped
    <3> HIDE DEF LibInv, Undisturbed, InConn, c
    <3> QED BY <1>1, <1>3, <2>1, <3>1, <3>2, CallStep DEF c
  <2> QED BY <2>4, <2>5
<1>4. CASE /\ Incoming(t) = <<>> /\ Ended(t) /\ Return(t)
           /\ CloseFd(t) \/ UNCHANGED <<fd, conn, stale>>
           /\ UNCHANGED interrupted
  <2>1. CASE CloseFd(t)
    BY <1>1, <1>4, <2>1, CloseFdStep DEF Ended
  <2>2. CASE UNCHANGED <<fd, conn, stale>>
    <3>1. conn[c].down = <<>> /\ conn[c].at = "ended"
      BY <1>4 DEF Ended, Incoming
    <3>2. Undisturbed(t) => InConn(Out, conn[c])
      BY <1>1, <1>2, <3>1, OutFacts, MessageFacts DEF InConn
    <3> HIDE DEF LibInv, Undisturbed, InConn
    <3> QED BY <1>1, <1>4, <2>2, <3>2, ReturnStep
  <2> QED BY <1>4, <2>1, <2>2
<1>5. CASE Conn(t) = NoConn /\ Return(t) /\ UNCHANGED <<fd, conn, stale, interrupted>>
  BY <1>1, <1>2, <1>5, ReturnStep
<1>6. CASE Interrupted(t) /\ Return(t) /\ UNCHANGED <<fd, conn, stale>>
  <2>1. t \in interrupted' /\ interrupted \subseteq interrupted'
    BY <1>6 DEF Interrupted
  <2> QED BY <1>1, <1>6, <2>1, ReturnStep
<1>7. \/ /\ Incoming(t) # <<>> /\ TakeOne(t) /\ UNCHANGED <<fd, stale, interrupted>>
         /\ IF Finds(t, "size") THEN GoesTo(t, "body") ELSE UNCHANGED call
      \/ /\ Incoming(t) = <<>> /\ Ended(t) /\ Return(t)
         /\ CloseFd(t) \/ UNCHANGED <<fd, conn, stale>>
         /\ UNCHANGED interrupted
      \/ Conn(t) = NoConn /\ Return(t) /\ UNCHANGED <<fd, conn, stale, interrupted>>
      \/ Interrupted(t) /\ Return(t) /\ UNCHANGED <<fd, conn, stale>>
  BY DEF RecvSize
<1> QED BY <1>3, <1>4, <1>5, <1>6, <1>7

LEMMA RecvBodyStep ==
  ASSUME LibInv, NEW t \in LibThreads, RecvBody(t) PROVE LibInv'
<1> DEFINE c == Conn(t)
<1>1. /\ call[t].at = "body" /\ UNCHANGED <<daemon_socket, fd, interrupted, stale, made>>
      /\ call[t] \in LibCalls /\ Using(t) /\ made' \in [LibThreads -> Nat]
  BY CallAt DEF RecvBody, OnTheWay
<1>2. Undisturbed(t) => Conn(t) # NoConn /\ InConn(call[t], conn[c])
  BY CallAt
<1>3. CASE /\ Finds(t, "body") /\ TakeOne(t)
           /\ call' = [call EXCEPT ![t].at = "unpack", ![t].resp = Head(Incoming(t)).req]
  <2> DEFINE k == Taken(conn[c])
             answer == Head(Incoming(t)).req
             cl == [at |-> "unpack", req |-> call[t].req,
                    include_buffers |-> call[t].include_buffers, resp |-> answer]
  <2>1. /\ c # NoConn /\ Incoming(t) = conn[c].down
        /\ k \in Connections /\ k.at = conn[c].at
        /\ conn' = [conn EXCEPT ![c] = k] /\ Head(Incoming(t)) \in Messages
    BY <1>1, <1>3, TakeOneFacts DEF Finds
  <2>2. k.up = conn[c].up /\ k.down = Tail(conn[c].down)
    BY DEF Taken
  <2>3. answer \in LibRequests
    <3>1. Head(Incoming(t)).part = "body"
      BY <1>3 DEF Finds
    <3> QED BY <2>1, <3>1 DEF Messages, Size
  <2>4. cl \in LibCalls /\ cl.at = "unpack" /\ cl.req = call[t].req /\ cl.resp = answer
    BY <1>1, <2>3, CallFields DEF LibCalls, OnTheWay
  <2>5. call' = [call EXCEPT ![t] = cl]
    <3>1. call' = [call EXCEPT ![t] = [call[t] EXCEPT !.at = "unpack", !.resp = answer]]
      BY <1>3, Zenon
    <3>2. [call[t] EXCEPT !.at = "unpack", !.resp = answer] = cl
      BY <1>1, Answered, Zenon
    <3> QED BY <3>1, <3>2, Zenon
  <2>6. Undisturbed(t) => InConn(cl, k)
    <3>1. Undisturbed(t) => conn[c].up = <<>> /\ conn[c].down = <<Body(call[t].req)>>
      BY <1>1, <1>2 DEF InConn
    <3>2. Undisturbed(t) => answer = call[t].req
      <4>1. Head(<<Body(call[t].req)>>).req = call[t].req
        BY MessageFacts
      <4> QED BY <2>1, <3>1, <4>1
    <3>3. Undisturbed(t) => k.down = <<>>
      BY <2>2, <3>1, MessageFacts
    <3> HIDE DEF k, cl, answer
    <3> QED BY <2>2, <2>4, <3>1, <3>2, <3>3 DEF InConn
  <2> HIDE DEF LibInv, Undisturbed, InConn, cl, k
  <2> QED BY <1>1, <2>1, <2>4, <2>5, <2>6, CallStep
<1>4. CASE UNCHANGED <<conn, call>>
  BY <1>1, <1>4, NothingHappens
<1> QED BY <1>3, <1>4 DEF RecvBody

LEMMA UnpackStep ==
  ASSUME LibInv, NEW t \in LibThreads, Unpack(t) PROVE LibInv'
<1>1. /\ call[t].at = "unpack"
      /\ UNCHANGED <<daemon_socket, fd, conn, interrupted, stale, made>>
      /\ call[t] \in LibCalls /\ Using(t) /\ made[t] \in Nat /\ made' \in [LibThreads -> Nat]
  BY CallAt DEF Unpack, OnTheWay
<1>2. Undisturbed(t) => conn[Conn(t)].up = <<>> /\ conn[Conn(t)].down = <<>>
  BY <1>1, CallAt DEF InConn
<1>3. CASE UNCHANGED call
  BY <1>1, <1>3, NothingHappens
<1>4. CASE Return(t)
  <2>1. Undisturbed(t) => InConn(Out, conn[Conn(t)])
    BY <1>2, OutFacts DEF InConn
  <2> HIDE DEF LibInv, Undisturbed, InConn
  <2> QED BY <1>1, <1>4, <2>1, ReturnStep
<1>5. CASE call' = [call EXCEPT ![t] = [at |-> "send", req |-> <<t, made[t], BUFFERS>>,
                                        include_buffers |-> FALSE, resp |-> None]]
  <2> DEFINE cl == [at |-> "send", req |-> <<t, made[t], BUFFERS>>,
                    include_buffers |-> FALSE, resp |-> None]
  <2>1. cl \in LibCalls /\ cl.at = "send"
    BY <1>1 DEF LibCalls, LibRequests, OnTheWay
  <2>2. Undisturbed(t) => InConn(cl, conn[Conn(t)])
    BY <1>2 DEF InConn
  <2> HIDE DEF LibInv, Undisturbed, InConn
  <2>3. call' = [call EXCEPT ![t] = cl]
    BY <1>5
  <2> HIDE DEF cl
  <2> QED BY <1>1, <2>1, <2>2, <2>3, QuietStep
<1> QED BY <1>3, <1>4, <1>5 DEF Unpack

\* One request is answered: its size and its body follow what is on the way already.
LEMMA ServeStep ==
  ASSUME LibInv, NEW c \in Conns, Serve(c) PROVE LibInv'
<1> DEFINE r == Head(conn[c].up)
           k == [at |-> "open", up |-> Tail(conn[c].up), down |-> conn[c].down \o <<Size, Body(r)>>]
<1>1. /\ conn \in [Conns -> Connections] /\ conn[c] \in Connections
      /\ conn[c].at = "open" /\ conn[c].up # <<>>
      /\ UNCHANGED <<daemon_socket, fd, call, interrupted, stale, made>>
  BY DEF Serve, LibInv, LibTyped
<1>2. conn[c].up \in Seq(LibRequests) /\ conn[c].down \in Seq(Messages)
  BY <1>1 DEF Connections
<1>3. r \in LibRequests /\ Tail(conn[c].up) \in Seq(LibRequests)
  BY <1>1, <1>2, HeadTailProperties
<1>4. conn' = [conn EXCEPT ![c] = k]
  <2>1. conn' = [conn EXCEPT ![c] = [conn[c] EXCEPT !.up = Tail(conn[c].up),
                                                    !.down = conn[c].down \o <<Size, Body(r)>>]]
    BY Zenon DEF Serve, Body
  <2>2. ASSUME NEW up, NEW down
        PROVE  [conn[c] EXCEPT !.up = up, !.down = down] = [at |-> "open", up |-> up, down |-> down]
    <3>1. PICK was \in Connections : was = conn[c]
      BY <1>1
    <3>2. PICK new : new = [was EXCEPT !.up = up, !.down = down]
      BY Zenon
    <3>3. new = [at |-> was.at, up |-> up, down |-> down]
      BY <3>2 DEF Connections
    <3>4. was.at = "open"
      BY <1>1, <3>1
    <3> QED BY <3>1, <3>2, <3>3, <3>4, Zenon
  <2> QED BY <2>1, <2>2, Zenon
<1>5. k \in Connections
  <2>1. Size \in Messages /\ Body(r) \in Messages
    BY <1>3 DEF Messages, Body
  <2>2. conn[c].down \o <<Size, Body(r)>> \in Seq(Messages)
    BY <1>2, <2>1, ConcatProperties
  <2> QED BY <1>3, <2>2 DEF Connections
<1>6. ASSUME NEW t \in LibThreads, InConn(call[t], conn[c]) PROVE InConn(call[t], k)
  <2>1. call[t].at = "size" /\ conn[c].up = <<call[t].req>> /\ conn[c].down = <<>>
    <3>1. call[t] \in LibCalls
      BY CallAt
    <3>2. call[t].at \in {"out", "get_socket", "send", "size", "body", "unpack"}
      BY <3>1, CallFields DEF OnTheWay
    <3> QED BY <1>1, <1>6, <3>2 DEF InConn
  <2>2. r = call[t].req /\ Tail(conn[c].up) = <<>>
    BY <2>1
  <2>3. <<>> \o <<Size, Body(call[t].req)>> = <<Size, Body(call[t].req)>>
    OBVIOUS
  <2> QED BY <2>1, <2>2, <2>3 DEF InConn
<1>7. conn' \in [Conns -> Connections]
  <2> HIDE DEF k
  <2> QED BY <1>1, <1>4, <1>5
<1>8. \A d \in Conns : conn'[d] = conn[d] \/ (d = c /\ conn'[d] = k)
  <2> HIDE DEF k
  <2> QED BY <1>1, <1>4
<1>9. k.at = "open"
  OBVIOUS
<1> HIDE DEF LibInv, InConn, k
<1> QED BY <1>1, <1>6, <1>7, <1>8, <1>9, DaemonSide

LEMMA DaemonStopsStep ==
  ASSUME LibInv, DaemonStops PROVE LibInv'
<1>1. /\ UNCHANGED <<daemon_socket, fd, call, interrupted, stale, made>>
      /\ conn \in [Conns -> Connections]
  BY DEF DaemonStops, LibInv, LibTyped
<1>2. ASSUME NEW c \in Conns, conn[c].at = "open"
      PROVE  /\ conn'[c] = [at |-> "ended", up |-> <<>>, down |-> conn[c].down]
             /\ conn'[c] \in Connections
  <2>1. conn'[c] = [conn[c] EXCEPT !.at = "ended", !.up = <<>>]
    BY <1>2, Zenon DEF DaemonStops
  <2>2. conn'[c] = [at |-> "ended", up |-> <<>>, down |-> conn[c].down]
    <3>1. PICK was \in Connections : was = conn[c]
      BY <1>1
    <3>2. conn'[c] = [was EXCEPT !.at = "ended", !.up = <<>>]
      BY <2>1, <3>1, Zenon
    <3>3. PICK new : new = conn'[c]
      OBVIOUS
    <3>4. new = [at |-> "ended", up |-> <<>>, down |-> was.down]
      <4>1. new = [was EXCEPT !.at = "ended", !.up = <<>>]
        BY <3>2, <3>3, Zenon
      <4> QED BY <4>1 DEF Connections
    <3> QED BY <3>1, <3>3, <3>4, Zenon
  <2>3. conn[c].down \in Seq(Messages) /\ <<>> \in Seq(LibRequests)
    BY <1>1, EmptySeq DEF Connections
  <2> QED BY <2>2, <2>3 DEF Connections
<1>3. \A c \in Conns : conn[c].at # "open" => conn'[c] = conn[c]
  BY DEF DaemonStops
<1>4. conn' \in [Conns -> Connections]
  <2>1. conn' = [c \in Conns |-> conn'[c]]
    BY DEF DaemonStops
  <2> QED BY <1>1, <1>2, <1>3, <2>1
<1>5. ASSUME NEW c \in Conns, conn[c].at = "open", NEW t \in LibThreads, InConn(call[t], conn[c])
      PROVE  InConn(call[t], conn'[c])
  <2>0. conn'[c] = [at |-> "ended", up |-> <<>>, down |-> conn[c].down]
    BY <1>2, <1>5
  <2>1. conn'[c].at = "ended" /\ conn'[c].up = <<>> /\ conn'[c].down = conn[c].down
    BY <2>0
  <2> QED BY <1>5, <2>1 DEF InConn
<1>6. ASSUME NEW c \in Conns, conn[c].at = "open" PROVE conn'[c].at = "ended"
  <2>1. conn'[c] = [at |-> "ended", up |-> <<>>, down |-> conn[c].down]
    BY <1>2, <1>6
  <2> QED BY <2>1
<1> HIDE DEF LibInv, InConn
<1> QED BY <1>1, <1>3, <1>4, <1>5, <1>6, DaemonSide

LEMMA LibStart == ClientInit => LibInv
<1> SUFFICES ASSUME ClientInit PROVE LibInv
  OBVIOUS
<1> USE DEF ClientInit
<1>1. LibTyped
  BY OutFacts DEF LibTyped, Connections
<1>2. \A t \in LibThreads : ~Using(t)
  BY DEF Using
<1>3. OwnDescriptors
  BY <1>2, OutFacts DEF OwnDescriptors, OnTheWay
<1>4. KernelTable
  <2>1. Opened = {} /\ Connected = {}
    BY <1>2 DEF Opened, Connected
  <2>2. Cardinality({}) = 0
    BY FS_EmptySet
  <2> QED BY <2>1, <2>2 DEF KernelTable
<1> QED BY <1>1, <1>2, <1>3, <1>4 DEF LibInv, Undisturbed

LEMMA LibStep == LibInv /\ [ClientNext]_clientVars => LibInv'
<1> SUFFICES ASSUME LibInv, [ClientNext]_clientVars PROVE LibInv'
  OBVIOUS
<1>1. CASE UNCHANGED clientVars
  BY <1>1, NothingHappens DEF clientVars
<1>2. ASSUME NEW t \in LibThreads, NEW code \in Codes, Calls(t, code) PROVE LibInv'
  BY <1>2, CallsStep
<1>3. ASSUME NEW t \in LibThreads,
             \/ chisocket_socket(t) \/ chisocket_connect(t) \/ chisocket_bind(t)
             \/ chisocket_listen(t) \/ chisocket_accept(t) \/ chisocket_close(t)
             \/ chisocket_send(t) \/ chisocket_recv(t) \/ chitcpd_wait_for_state(t)
             \/ chitcpd_get_socket_state(t)
      PROVE  LibInv'
  <2>1. \E code \in Codes : Calls(t, code)
    BY <1>3 DEF chisocket_socket, chisocket_connect, chisocket_bind, chisocket_listen,
       chisocket_accept, chisocket_close, chisocket_send, chisocket_recv,
       chitcpd_wait_for_state, chitcpd_get_socket_state, Codes
  <2> QED BY <1>2, <2>1
<1>4. CASE DaemonStarts
  BY <1>4, NothingHappens DEF DaemonStarts
<1> QED
  BY <1>1, <1>3, <1>4, GetSocketStep, SendMsgStep, RecvSizeStep, RecvBodyStep, UnpackStep,
     ServeStep, DaemonStopsStep DEF ClientNext

\* Descriptors, connections and calls agree, in every state of the library, for every
\* application: each connection that nothing has disturbed holds exactly what its thread waits
\* for (daemon_api.c, protobuf-wrapper.c).
THEOREM LibraryInvariance == ClientSpec => []LibInv
BY LibStart, LibStep, PTL DEF ClientSpec

\* Every call gets the answer to its own request, but for threads that a signal has
\* interrupted or whose descriptor the library has closed (debug_api.c, socket_api.c).
THEOREM AnswersAreOnesOwn == ClientSpec => []AnswersMatch
<1>1. LibInv => AnswersMatch
  BY DEF LibInv, OwnDescriptors, OnTheWay, AnswersMatch, Undisturbed, InConn
<1> QED BY <1>1, LibraryInvariance, PTL

\* What the library keeps for itself, its ghosts and bounds.
LibRest ==
  /\ interrupted \subseteq LibThreads
  /\ process \in {"runs", "killed", "lost"} /\ daemon \in {"up", "down"}
  /\ starts \in 1 .. MaxStarts
  /\ \A t \in LibThreads : made[t] \in 0 .. Len(Program[t])

\* Descriptors, connections and calls keep their types, and no thread makes more calls than its
\* program has (daemon_api.c, socket_api.c).
THEOREM ClientTypes == ClientSpec => []ClientTypeOK
<1>1. ClientInit => LibRest
  <2> SUFFICES ASSUME ClientInit PROVE LibRest
    OBVIOUS
  <2>1. \A t \in LibThreads : made[t] = 0 /\ Len(Program[t]) \in Nat
    BY ClientAssumption DEF ClientInit
  <2> QED BY <2>1, ClientAssumption DEF ClientInit, LibRest
<1>2. LibInv /\ LibRest /\ [ClientNext]_clientVars => LibRest'
  <2> SUFFICES ASSUME LibInv, LibRest, [ClientNext]_clientVars PROVE LibRest'
    OBVIOUS
  <2>1. ASSUME NEW t \in LibThreads, NEW code \in Codes, Calls(t, code) PROVE LibRest'
    <3>1. Len(Program[t]) \in Nat /\ made[t] \in Nat
      BY ClientAssumption DEF LibInv, LibTyped
    <3>2. made \in [LibThreads -> Nat] /\ made' = [made EXCEPT ![t] = made[t] + 1] /\ made[t] < Len(Program[t])
      BY <2>1 DEF LibInv, LibTyped, Calls
    <3>3. ASSUME NEW u \in LibThreads PROVE made'[u] \in 0 .. Len(Program[u])
      BY <3>1, <3>2, ClientAssumption DEF LibRest
    <3> QED BY <2>1, <3>3 DEF Calls, LibRest
  <2>2. ASSUME NEW t \in LibThreads,
               \/ chisocket_socket(t) \/ chisocket_connect(t) \/ chisocket_bind(t)
               \/ chisocket_listen(t) \/ chisocket_accept(t) \/ chisocket_close(t)
               \/ chisocket_send(t) \/ chisocket_recv(t) \/ chitcpd_wait_for_state(t)
               \/ chitcpd_get_socket_state(t)
        PROVE  LibRest'
    <3>1. \E code \in Codes : Calls(t, code)
      BY <2>2 DEF chisocket_socket, chisocket_connect, chisocket_bind, chisocket_listen,
         chisocket_accept, chisocket_close, chisocket_send, chisocket_recv,
         chitcpd_wait_for_state, chitcpd_get_socket_state, Codes
    <3> QED BY <2>1, <3>1
  <2>3. ASSUME NEW t \in LibThreads,
               chitcpd_get_socket(t) \/ chitcpd_send_msg(t) \/ RecvSize(t) \/ RecvBody(t) \/ Unpack(t)
        PROVE  LibRest'
    <3>1. UNCHANGED <<daemon, starts, made>>
      BY <2>3 DEF chitcpd_get_socket, chitcpd_send_msg, RecvSize, RecvBody, Unpack
    <3>2. process' \in {"runs", "killed", "lost"}
      BY <2>3 DEF chitcpd_get_socket, chitcpd_send_msg, RecvSize, RecvBody, Unpack
    <3>3. interrupted' \subseteq LibThreads
      BY <2>3 DEF chitcpd_get_socket, chitcpd_send_msg, RecvSize, RecvBody, Unpack, Interrupted, LibRest
    <3> QED BY <3>1, <3>2, <3>3 DEF LibRest
  <2>4. ASSUME NEW c \in Conns, Serve(c) PROVE LibRest'
    BY <2>4 DEF Serve, LibRest
  <2>5. CASE DaemonStops
    BY <2>5 DEF DaemonStops, LibRest
  <2>6. CASE DaemonStarts
    BY <2>6, ClientAssumption DEF DaemonStarts, LibRest
  <2>7. CASE UNCHANGED clientVars
    BY <2>7 DEF clientVars, LibRest
  <2> QED BY <2>2, <2>3, <2>4, <2>5, <2>6, <2>7 DEF ClientNext
<1>3. LibInv /\ LibRest => ClientTypeOK
  <2> SUFFICES ASSUME LibInv, LibRest PROVE ClientTypeOK
    OBVIOUS
  <2>1. \A c \in Conns : conn[c].at \in {"none", "open", "ended", "closed"}
    BY DEF LibInv, LibTyped, Connections
  <2>2. \A t \in LibThreads : call[t].at \in {"out", "get_socket", "send", "size", "body", "unpack"}
    <3> SUFFICES ASSUME NEW t \in LibThreads
                 PROVE  call[t].at \in {"out", "get_socket", "send", "size", "body", "unpack"}
      OBVIOUS
    <3>1. call[t] \in LibCalls
      BY DEF LibInv, LibTyped
    <3> QED BY <3>1, CallFields DEF OnTheWay
  <2> QED BY <2>1, <2>2 DEF LibInv, LibTyped, LibRest, ClientTypeOK
<1> QED BY <1>1, <1>2, <1>3, LibraryInvariance, PTL DEF ClientSpec
----------------------------------------------------------------------------
(* The daemon: the invariant *)

Stages == Busy \cup {"none", "recv", "read", "readDebug", "leave", "exited"}
Opening == {"claim", "fill", "connect", "create", "record"}   \* CONNECT has chosen its entry
Plain == [at : Stages, command : BOOLEAN]
Asking == [at : Stages, command : BOOLEAN, to : Daemons]
Dialling == [at : Stages, command : BOOLEAN, to : Daemons, entry : ConnEntries]

\* A handler thread; the fields of its last CONNECT stay in it.
HandlerOK(a) ==
  LET h == handler[a]
  IN /\ h \in Plain \/ (a \in Callers /\ h \in Asking \cup Dialling)
     /\ h.at \in {"lookup", "pick"} => h \in Asking
     /\ h.at \in Opening => h \in Dialling

HandlersTyped ==
  /\ handler \in [Apps -> Plain \cup Asking \cup Dialling]
  /\ \A a \in Apps : HandlerOK(a)
  /\ unixQueue \in Seq(Apps) /\ handler_list \in Seq(Apps)
  /\ server.at \in {"none", "accept", "append", "stop", "join", "exited"}
  /\ server.at \in {"append", "join"} => server.app \in Apps
  /\ hungUp \subseteq Apps /\ shutHandlers \subseteq Apps

Ends == Descriptors \cup {NoDescriptor}
Arrivals == [from : Daemons, fd : Descriptors]
ConnRows ==
  [available : BOOLEAN, peer : Daemons \cup {"unset"}, send : Ends, recv : Ends, id : Ends]

\* The network thread, in each of its stages.
NetworkOK ==
  \/ network \in [at : {"none", "accept", "exited"}]
  \/ network \in [at : {"lookup", "pick"}, from : Daemons, fd : Descriptors]
  \/ network \in [at : {"claim", "fill"}, from : Daemons, fd : Descriptors, entry : ConnEntries]
  \/ network \in [at : {"create", "join"}, entry : ConnEntries]
  \/ network \in [at : {"record"}, entry : ConnEntries, id : Ends]
  \/ network \in [at : {"shut"}, entry : ConnEntries \cup {NoEntry}]

NetworkTyped ==
  /\ NetworkOK
  /\ networkQueue \in Seq(Arrivals)
  /\ connection_table \in [ConnEntries -> ConnRows]
  /\ connThreads \subseteq [id : Ends, entry : ConnEntries, fd : Ends]

\* Every handler thread that has begun and not ended is in the list, or in the server
\* thread's hands: accepted and not listed yet, or taken off the list to be joined.
NoHandlerForgotten ==
  \A a \in Apps :
    \/ handler[a].at \in {"none", "exited"}
    \/ \E n \in 1 .. Len(handler_list) : handler_list[n] = a
    \/ server.at \in {"append", "join"} /\ server.app = a

Orderly ==
  /\ state \in {"READY", "STARTING", "RUNNING", "STOPPING", "STOPPED"}
  /\ mainAt \in {"init", "serverThread"} => server.at = "none"
  /\ server.at = "exited" => handler_list = <<>>
  /\ state = "STOPPED" =>
       mainAt = "stopped" /\ server.at = "exited" /\ network.at = "exited"

ServerInv == HandlersTyped /\ NetworkTyped /\ NoHandlerForgotten /\ Orderly

----------------------------------------------------------------------------
(* The daemon: handler threads and the table *)

LEMMA SubsetAt == Opening \subseteq Busy /\ {"lookup", "pick", "answer"} \subseteq Busy /\ Busy \subseteq Stages
BY DEF Opening, Busy, Stages

\* A handler thread that goes on to another stage keeps its fields.
LEMMA StageReplaced ==
  ASSUME NEW h \in Plain \cup Asking \cup Dialling, NEW stage \in Stages, NEW new,
         new = [h EXCEPT !.at = stage]
  PROVE  /\ new.at = stage
         /\ h \in Plain => new \in Plain
         /\ h \in Asking => new \in Asking
         /\ h \in Dialling => new \in Dialling
<1>1. CASE h \in Plain
  BY <1>1 DEF Plain, Asking, Dialling
<1>2. CASE h \in Asking
  BY <1>2 DEF Plain, Asking, Dialling
<1>3. CASE h \in Dialling
  BY <1>3 DEF Plain, Asking, Dialling
<1> QED BY <1>1, <1>2, <1>3

LEMMA FieldsDiffer ==
  ASSUME NEW h \in Asking \cup Dialling PROVE h \notin Plain /\ h.to \in Daemons
<1>1. "to" \in DOMAIN h /\ h.to \in Daemons
  BY DEF Asking, Dialling
<1>2. h \in Plain => "to" \notin DOMAIN h
  BY DEF Plain
<1> QED BY <1>1, <1>2

\* A row of the table with some of its fields written.
LEMMA RowWritten ==
  ASSUME NEW e \in ConnRows, NEW p \in Daemons \cup {"unset"}, NEW s \in Ends, NEW r \in Ends, NEW new
  PROVE  /\ new = [e EXCEPT !.available = FALSE] => new \in ConnRows
         /\ new = [e EXCEPT !.recv = r] => new \in ConnRows
         /\ new = [e EXCEPT !.id = r] => new \in ConnRows
         /\ new = [e EXCEPT !.peer = p, !.send = s, !.recv = r] => new \in ConnRows
BY DEF ConnRows

LEMMA LowestEntry ==
  ASSUME NEW S \in SUBSET ConnEntries, S # {} PROVE Lowest(S) \in S
<1>1. S \in SUBSET Nat
  BY ServerAssumption DEF ConnEntries
<1>2. \E n \in S : \A k \in S : n <= k
  BY <1>1, LowestOf
<1> QED BY <1>2 DEF Lowest

LEMMA LookupFinds ==
  ASSUME NEW d
  PROVE  get_connection(d) \in ConnEntries \cup {NoEntry}
<1> DEFINE used == {i \in ConnEntries : ~connection_table[i].available
                                        /\ connection_table[i].peer \in {d, "unset"}}
<1>1. used # {} => Lowest(used) \in used
  <2>1. used \in SUBSET ConnEntries
    OBVIOUS
  <2> HIDE DEF used
  <2> QED BY <2>1, LowestEntry
<1> QED BY <1>1 DEF get_connection

LEMMA AvailableFinds == get_available_connection_entry \in ConnEntries \cup {NoEntry}
<1> DEFINE free == {i \in ConnEntries : connection_table[i].available}
<1>1. free # {} => Lowest(free) \in free
  <2>1. free \in SUBSET ConnEntries
    OBVIOUS
  <2> HIDE DEF free
  <2> QED BY <2>1, LowestEntry
<1> QED BY <1>1 DEF get_available_connection_entry

----------------------------------------------------------------------------
(* The daemon: the steps *)

\* A step of one handler thread that is alive.
LEMMA HandlerStep ==
  ASSUME ServerInv, NEW a \in Apps, NEW h \in Plain \cup Asking \cup Dialling,
         handler[a].at \notin {"none", "exited"}, handler' = [handler EXCEPT ![a] = h],
         h \in Plain \/ (a \in Callers /\ h \in Asking \cup Dialling),
         h.at \in {"lookup", "pick"} => h \in Asking,
         h.at \in Opening => h \in Dialling,
         UNCHANGED <<state, mainAt, unixQueue, server, handler_list, shutHandlers, hungUp, network>>,
         NetworkTyped'
  PROVE  ServerInv'
<1>1. /\ handler' \in [Apps -> Plain \cup Asking \cup Dialling]
      /\ \A b \in Apps : handler'[b] = IF b = a THEN h ELSE handler[b]
  BY DEF ServerInv, HandlersTyped
<1>2. \A b \in Apps : HandlerOK(b)'
  BY <1>1 DEF ServerInv, HandlersTyped, HandlerOK
<1>3. HandlersTyped'
  BY <1>1, <1>2 DEF ServerInv, HandlersTyped
<1>4. NoHandlerForgotten'
  BY <1>1 DEF ServerInv, NoHandlerForgotten
<1> QED BY <1>3, <1>4 DEF ServerInv, Orderly

\* One that keeps its fields.
LEMMA HandlerAtStep ==
  ASSUME ServerInv, NEW a \in Apps, NEW stage \in Stages,
         handler[a].at \notin {"none", "exited"}, HandlerAt(a, stage),
         stage \in {"lookup", "pick"} => handler[a] \in Asking,
         stage \in Opening => handler[a] \in Dialling,
         UNCHANGED <<state, mainAt, unixQueue, server, handler_list, shutHandlers, hungUp, network>>,
         NetworkTyped'
  PROVE  ServerInv'
<1> DEFINE h == [handler[a] EXCEPT !.at = stage]
<1>1. /\ handler[a] \in Plain \cup Asking \cup Dialling
      /\ handler[a] \in Plain \/ (a \in Callers /\ handler[a] \in Asking \cup Dialling)
  BY DEF ServerInv, HandlersTyped, HandlerOK
<1>2. /\ h.at = stage
      /\ handler[a] \in Plain => h \in Plain
      /\ handler[a] \in Asking => h \in Asking
      /\ handler[a] \in Dialling => h \in Dialling
  BY <1>1, StageReplaced
<1>3. handler' = [handler EXCEPT ![a] = h]
  BY Zenon DEF HandlerAt
<1> HIDE DEF h, ServerInv, NetworkTyped
<1> QED BY <1>1, <1>2, <1>3, HandlerStep

\* A step that touches no handler thread.
LEMMA OtherStep ==
  ASSUME ServerInv, NetworkTyped', network.at = "exited" => network'.at = "exited",
         UNCHANGED <<state, mainAt, handler, unixQueue, server, handler_list, shutHandlers>>,
         hungUp' \subseteq Apps
  PROVE  ServerInv'
<1>1. HandlersTyped' /\ NoHandlerForgotten' /\ Orderly'
  BY DEF ServerInv, HandlersTyped, HandlerOK, NoHandlerForgotten, Orderly
<1> QED BY <1>1 DEF ServerInv

\* A step that leaves the network thread and the connections alone.
LEMMA NetworkKept ==
  ASSUME ServerInv, UNCHANGED <<networkQueue, network, connection_table, connThreads>>
  PROVE  NetworkTyped'
BY DEF ServerInv, NetworkTyped, NetworkOK

LEMMA ServerStart == ServerInit => ServerInv
<1> SUFFICES ASSUME ServerInit PROVE ServerInv
  OBVIOUS
<1> USE DEF ServerInit
<1>1. \A a \in Apps : handler[a] \in Plain /\ handler[a].at = "none"
  BY DEF NoHandler, Plain, Stages
<1>2. HandlersTyped
  BY <1>1 DEF HandlersTyped, HandlerOK, Opening
<1>3. connection_table \in [ConnEntries -> ConnRows]
  BY DEF BlankConnection, ConnRows, Ends
<1>4. NetworkTyped
  BY <1>3 DEF NetworkTyped, NetworkOK
<1>5. NoHandlerForgotten /\ Orderly
  BY <1>1 DEF NoHandlerForgotten, Orderly
<1> QED BY <1>2, <1>4, <1>5 DEF ServerInv

LEMMA MainSteps ==
  ASSUME ServerInv,
         \/ Start \/ StartThread \/ StartNetworkThread \/ StartFails \/ Started \/ Wait
         \/ Stop \/ StopNetwork \/ StopServer
  PROVE  ServerInv'
<1>1. CASE Start \/ StartFails \/ Started \/ Wait \/ Stop
  <2>1. /\ UNCHANGED <<appVars, unixVars, networkVars>>
        /\ state' \in {"READY", "STARTING", "RUNNING", "STOPPING", "STOPPED"}
        /\ mainAt' \in {"init", "serverThread"} => server.at = "none"
        /\ state' = "STOPPED" => mainAt' = "stopped" /\ server.at = "exited" /\ network.at = "exited"
    BY <1>1 DEF Start, StartFails, Started, Wait, Stop, ServerInv, Orderly
  <2>2. NetworkTyped'
    BY <2>1, NetworkKept DEF networkVars
  <2>3. HandlersTyped' /\ NoHandlerForgotten' /\ Orderly'
    BY <2>1 DEF ServerInv, HandlersTyped, HandlerOK, NoHandlerForgotten, Orderly, appVars, unixVars,
       networkVars
  <2> QED BY <2>2, <2>3 DEF ServerInv
<1>2. CASE StartThread
  <2>1. NetworkTyped'
    BY <1>2, NetworkKept DEF StartThread, networkVars
  <2>2. server.at = "none" /\ server'.at = "accept"
    BY <1>2 DEF StartThread, ServerInv, Orderly
  <2>3. HandlersTyped'
    BY <1>2, <2>2 DEF StartThread, ServerInv, HandlersTyped, HandlerOK, appVars
  <2>4. NoHandlerForgotten' /\ Orderly'
    BY <1>2, <2>2 DEF StartThread, ServerInv, NoHandlerForgotten, Orderly, appVars, networkVars
  <2> QED BY <2>1, <2>3, <2>4 DEF ServerInv
<1>3. CASE StartNetworkThread
  <2>1. NetworkTyped'
    BY <1>3 DEF StartNetworkThread, ServerInv, NetworkTyped, NetworkOK
  <2>2. HandlersTyped' /\ NoHandlerForgotten' /\ Orderly'
    BY <1>3 DEF StartNetworkThread, ServerInv, HandlersTyped, HandlerOK, NoHandlerForgotten, Orderly,
       appVars, unixVars
  <2> QED BY <2>1, <2>2 DEF ServerInv
<1>4. CASE StopNetwork
  <2>1. NetworkTyped'
    BY <1>4, EmptySeq DEF StopNetwork, ServerInv, NetworkTyped, NetworkOK
  <2> QED BY <1>4, <2>1, OtherStep DEF StopNetwork, appVars, unixVars, ServerInv, HandlersTyped
<1>5. CASE StopServer
  <2>1. NetworkTyped'
    BY <1>5, NetworkKept DEF StopServer, networkVars
  <2> QED BY <1>5, <2>1, OtherStep DEF StopServer, appVars, networkVars, ServerInv, HandlersTyped
<1> QED BY <1>1, <1>2, <1>3, <1>4, <1>5

\* An application waits to be accepted, or goes away.
LEMMA AppSteps ==
  ASSUME ServerInv, NEW a \in Apps, OpenApp(a) \/ HangUp(a) PROVE ServerInv'
<1>1. CASE HangUp(a)
  <2>1. NetworkTyped'
    BY <1>1, NetworkKept DEF HangUp, networkVars
  <2>2. hungUp' \subseteq Apps
    BY <1>1 DEF HangUp, ServerInv, HandlersTyped
  <2> QED BY <1>1, <2>1, <2>2, OtherStep DEF HangUp, unixVars, networkVars
<1>2. CASE OpenApp(a)
  <2>1. NetworkTyped'
    BY <1>2, NetworkKept DEF OpenApp, networkVars
  <2>2. unixQueue' \in Seq(Apps)
    BY <1>2, AppendProperties DEF OpenApp, ServerInv, HandlersTyped
  <2>3. HandlersTyped' /\ NoHandlerForgotten' /\ Orderly'
    BY <1>2, <2>2 DEF OpenApp, ServerInv, HandlersTyped, HandlerOK, NoHandlerForgotten, Orderly,
       appVars, networkVars
  <2> QED BY <2>1, <2>3 DEF ServerInv
<1> QED BY <1>1, <1>2

\* accept(): the new handler thread is in the server thread's hands.
LEMMA AcceptStep ==
  ASSUME ServerInv, ServerAccept PROVE ServerInv'
<1> DEFINE a == Head(unixQueue)
           h == [handler[a] EXCEPT !.at = "recv"]
<1>1. /\ server.at = "accept" /\ server' = [at |-> "append", app |-> a]
      /\ UNCHANGED <<state, mainAt, hungUp, handler_list, shutHandlers, networkVars>>
  BY DEF ServerAccept
<1>2. a \in Apps /\ unixQueue' \in Seq(Apps)
  BY HeadTailProperties DEF ServerAccept, ServerInv, HandlersTyped
<1>3. /\ handler[a] \in Plain \cup Asking \cup Dialling
      /\ handler[a] \in Plain \/ (a \in Callers /\ handler[a] \in Asking \cup Dialling)
  BY <1>2 DEF ServerInv, HandlersTyped, HandlerOK
<1>4. /\ h.at = "recv"
      /\ handler[a] \in Plain => h \in Plain
      /\ handler[a] \in Asking => h \in Asking
      /\ handler[a] \in Dialling => h \in Dialling
  BY <1>3, StageReplaced DEF Stages
<1>5. handler' = [handler EXCEPT ![a] = h]
  BY Zenon DEF ServerAccept
<1> HIDE DEF h, a
<1>6. /\ handler' \in [Apps -> Plain \cup Asking \cup Dialling]
      /\ \A b \in Apps : handler'[b] = IF b = a THEN h ELSE handler[b]
  BY <1>2, <1>3, <1>4, <1>5 DEF ServerInv, HandlersTyped
<1>7. \A b \in Apps : HandlerOK(b)'
  BY <1>2, <1>3, <1>4, <1>6 DEF ServerInv, HandlersTyped, HandlerOK, Opening
<1>8. HandlersTyped'
  BY <1>1, <1>2, <1>6, <1>7 DEF ServerInv, HandlersTyped
<1>9. NetworkTyped'
  BY <1>1, NetworkKept DEF networkVars
<1>10. NoHandlerForgotten'
  BY <1>1, <1>6 DEF ServerInv, NoHandlerForgotten
<1>11. Orderly'
  BY <1>1 DEF ServerInv, Orderly, networkVars
<1> QED BY <1>8, <1>9, <1>10, <1>11 DEF ServerInv

LEMMA AppendStep ==
  ASSUME ServerInv, ServerAppend PROVE ServerInv'
<1>1. /\ server.at = "append" /\ server' = [at |-> "accept"] /\ server.app \in Apps
      /\ handler_list \in Seq(Apps) /\ handler_list' = Append(handler_list, server.app)
      /\ UNCHANGED <<state, mainAt, appVars, unixQueue, shutHandlers, networkVars>>
  BY DEF ServerAppend, ServerInv, HandlersTyped
<1>2. /\ handler_list' \in Seq(Apps) /\ Len(handler_list') = Len(handler_list) + 1
      /\ Len(handler_list) \in Nat
      /\ \A n \in 1 .. Len(handler_list) : handler_list'[n] = handler_list[n]
      /\ handler_list'[Len(handler_list) + 1] = server.app
  BY <1>1, AppendProperties, LenProperties
<1>3. HandlersTyped'
  BY <1>1, <1>2 DEF ServerInv, HandlersTyped, HandlerOK, appVars
<1>4. NetworkTyped'
  BY <1>1, NetworkKept DEF networkVars
<1>5. NoHandlerForgotten'
  <2> SUFFICES ASSUME NEW a \in Apps, handler[a].at \notin {"none", "exited"}
               PROVE  \E n \in 1 .. Len(handler_list') : handler_list'[n] = a
    BY <1>1 DEF NoHandlerForgotten, appVars
  <2>1. CASE a = server.app
    BY <1>2, <2>1
  <2>2. CASE a # server.app
    <3>1. PICK n \in 1 .. Len(handler_list) : handler_list[n] = a
      BY <2>2 DEF ServerInv, NoHandlerForgotten
    <3> QED BY <1>2, <3>1
  <2> QED BY <2>1, <2>2
<1>6. Orderly'
  BY <1>1 DEF ServerInv, Orderly, networkVars
<1> QED BY <1>3, <1>4, <1>5, <1>6 DEF ServerInv

\* The first of the list is taken off it, and will be joined.
LEMMA ShutsStep ==
  ASSUME ServerInv, ServerShuts PROVE ServerInv'
<1> DEFINE a == Head(handler_list)
<1>1. /\ server.at = "stop" /\ server' = [at |-> "join", app |-> a]
      /\ handler_list \in Seq(Apps) /\ handler_list # <<>> /\ handler_list' = Tail(handler_list)
      /\ shutHandlers' = shutHandlers \cup {a}
      /\ UNCHANGED <<state, mainAt, appVars, unixQueue, networkVars>>
  BY DEF ServerShuts, ServerInv, HandlersTyped
<1>2. /\ a \in Apps /\ handler_list' \in Seq(Apps) /\ Len(handler_list') = Len(handler_list) - 1
      /\ Len(handler_list) \in Nat
      /\ \A n \in 1 .. Len(handler_list) - 1 : handler_list'[n] = handler_list[n + 1]
      /\ handler_list[1] = a
  BY <1>1, HeadTailProperties, LenProperties
<1> HIDE DEF a
<1>3. HandlersTyped'
  BY <1>1, <1>2 DEF ServerInv, HandlersTyped, HandlerOK, appVars
<1>4. NetworkTyped'
  BY <1>1, NetworkKept DEF networkVars
<1>5. NoHandlerForgotten'
  <2> SUFFICES ASSUME NEW b \in Apps, handler[b].at \notin {"none", "exited"}, b # a
               PROVE  \E n \in 1 .. Len(handler_list') : handler_list'[n] = b
    BY <1>1 DEF NoHandlerForgotten, appVars
  <2>1. PICK n \in 1 .. Len(handler_list) : handler_list[n] = b
    BY <1>1 DEF ServerInv, NoHandlerForgotten
  <2>2. n # 1 /\ n - 1 \in 1 .. Len(handler_list) - 1
    BY <1>2, <2>1
  <2>3. n \in Int /\ (n - 1) + 1 = n
    BY <2>1
  <2>4. handler_list'[n - 1] = b
    BY <1>2, <2>1, <2>2, <2>3
  <2> QED BY <1>2, <2>2, <2>4
<1>6. Orderly'
  BY <1>1 DEF ServerInv, Orderly, networkVars
<1> QED BY <1>3, <1>4, <1>5, <1>6 DEF ServerInv

\* Whom the server thread joins has exited; and when it exits itself the list is empty.
LEMMA ServerGoesOn ==
  ASSUME ServerInv, ServerFails \/ ServerJoins \/ ServerExits PROVE ServerInv'
<1>1. /\ UNCHANGED <<state, mainAt, appVars, unixQueue, handler_list, shutHandlers, networkVars>>
      /\ server.at \in {"accept", "join", "stop"}
      /\ server' \in {[at |-> "stop"], [at |-> "exited"]}
      /\ server'.at = "exited" => handler_list = <<>>
      /\ server.at = "join" => handler[server.app].at = "exited"
  BY DEF ServerFails, ServerJoins, ServerExits
<1>2. HandlersTyped'
  BY <1>1 DEF ServerInv, HandlersTyped, HandlerOK, appVars
<1>3. NetworkTyped'
  BY <1>1, NetworkKept DEF networkVars
<1>4. NoHandlerForgotten'
  BY <1>1 DEF ServerInv, NoHandlerForgotten, appVars
<1>5. Orderly'
  BY <1>1 DEF ServerInv, Orderly, networkVars
<1> QED BY <1>2, <1>3, <1>4, <1>5 DEF ServerInv

\* The steps of a handler thread that leave the table alone.
LEMMA HandlerSteps ==
  ASSUME ServerInv, NEW a \in Apps,
         \/ \E kind \in {"DEBUG", "other"} : HandlerReads(a, kind)
         \/ HandlerHangsUp(a) \/ HandlerLocks(a) \/ HandlerDebugs(a) \/ HandlerHandles(a)
         \/ HandlerAnswers(a) \/ HandlerExits(a)
  PROVE  ServerInv'
<1>1. /\ handler[a] \in Plain \cup Asking \cup Dialling
      /\ handler[a] \in Plain \/ (a \in Callers /\ handler[a] \in Asking \cup Dialling)
  BY DEF ServerInv, HandlersTyped, HandlerOK
<1>2. /\ UNCHANGED <<state, mainAt, hungUp, unixVars, networkVars>>
      /\ handler[a].at \in {"recv", "read", "readDebug", "handle", "answer", "leave"}
  BY DEF HandlerReads, HandlerHangsUp, HandlerLocks, HandlerDebugs, HandlerHandles,
     HandlerAnswers, HandlerExits
<1>3. /\ UNCHANGED <<state, mainAt, unixQueue, server, handler_list, shutHandlers, hungUp, network>>
      /\ NetworkTyped'
  BY <1>2, NetworkKept DEF unixVars, networkVars
<1>4. ASSUME NEW stage \in Stages \ (Opening \cup {"lookup", "pick"}), HandlerAt(a, stage)
      PROVE  ServerInv'
  <2> HIDE DEF ServerInv, NetworkTyped, HandlerAt
  <2> QED BY <1>2, <1>3, <1>4, HandlerAtStep
<1>5. CASE HandlerLocks(a)
  <2>1. CASE handler' = [handler EXCEPT ![a].at = "handle", ![a].command = TRUE]
    <3> DEFINE h == [handler[a] EXCEPT !.at = "handle", !.command = TRUE]
    <3>1. handler' = [handler EXCEPT ![a] = h]
      BY <2>1, Zenon
    <3>2. PICK was \in Plain \cup Asking \cup Dialling : was = handler[a]
      BY <1>1
    <3>3. PICK new : new = [was EXCEPT !.at = "handle", !.command = TRUE]
      BY Zenon
    <3>4. new = h
      BY <3>2, <3>3, Zenon
    <3>5. "handle" \in Stages \ (Opening \cup {"lookup", "pick"})
      BY DEF Stages, Busy, Opening
    <3>6. /\ new.at = "handle"
          /\ was \in Plain => new \in Plain
          /\ was \in Asking => new \in Asking
          /\ was \in Dialling => new \in Dialling
      <4>1. CASE was \in Plain
        BY <3>3, <3>5, <4>1 DEF Plain, Asking, Dialling
      <4>2. CASE was \in Asking
        BY <3>3, <3>5, <4>2 DEF Plain, Asking, Dialling
      <4>3. CASE was \in Dialling
        BY <3>3, <3>5, <4>3 DEF Plain, Asking, Dialling
      <4> QED BY <3>2, <4>1, <4>2, <4>3
    <3> HIDE DEF h, ServerInv, NetworkTyped
    <3> QED BY <1>1, <1>2, <1>3, <3>1, <3>2, <3>4, <3>5, <3>6, HandlerStep
  <2>2. CASE a \in Callers /\ \E d \in Daemons :
               handler' = [handler EXCEPT ![a] = [at |-> "lookup", command |-> TRUE, to |-> d]]
    <3>1. PICK d \in Daemons :
            handler' = [handler EXCEPT ![a] = [at |-> "lookup", command |-> TRUE, to |-> d]]
      BY <2>2
    <3> DEFINE h == [at |-> "lookup", command |-> TRUE, to |-> d]
    <3>2. h \in Asking /\ h.at = "lookup" /\ "lookup" \notin Opening
      BY DEF Asking, Stages, Busy, Opening
    <3>3. handler' = [handler EXCEPT ![a] = h]
      BY <3>1
    <3> HIDE DEF h, ServerInv, NetworkTyped
    <3> QED BY <1>2, <1>3, <2>2, <3>2, <3>3, HandlerStep
  <2> QED BY <1>5, <2>1, <2>2 DEF HandlerLocks
<1>6. CASE \E kind \in {"DEBUG", "other"} : HandlerReads(a, kind)
  <2>1. HandlerAt(a, "readDebug") \/ HandlerAt(a, "read")
    BY <1>6 DEF HandlerReads, HandlerAt
  <2> QED BY <1>4, <2>1 DEF Stages, Busy, Opening
<1>7. CASE \/ HandlerHangsUp(a) \/ HandlerDebugs(a) \/ HandlerHandles(a)
           \/ HandlerAnswers(a) \/ HandlerExits(a)
  <2>1. \/ HandlerAt(a, "leave") \/ HandlerAt(a, "exited") \/ HandlerAt(a, "answer")
        \/ HandlerAt(a, "recv")
    BY <1>7 DEF HandlerHangsUp, HandlerDebugs, HandlerHandles, HandlerAnswers, HandlerExits
  <2> QED BY <1>4, <2>1 DEF Stages, Busy, Opening
<1> QED BY <1>5, <1>6, <1>7

\* The table with one row replaced.
LEMMA TableWritten ==
  ASSUME ServerInv, NEW i \in ConnEntries, NEW e \in ConnRows,
         connection_table' = [connection_table EXCEPT ![i] = e],
         NetworkOK', networkQueue' \in Seq(Arrivals), UNCHANGED connThreads
  PROVE  NetworkTyped'
BY DEF ServerInv, NetworkTyped

LEMMA RowOf ==
  ASSUME ServerInv, NEW i \in ConnEntries
  PROVE  connection_table[i] \in ConnRows /\ connection_table[i].recv \in Ends
BY DEF ServerInv, NetworkTyped, ConnRows

\* A thread is made for an entry's connection.
LEMMA ThreadMade ==
  ASSUME ServerInv, NEW i \in ConnEntries, connThreads' = connThreads \cup {NewThread(i)},
         NetworkOK', UNCHANGED <<networkQueue, connection_table>>
  PROVE  NetworkTyped'
<1>1. NewThread(i) \in [id : Ends, entry : ConnEntries, fd : Ends]
  BY RowOf DEF NewThread
<1> QED BY <1>1 DEF ServerInv, NetworkTyped

\* CONNECT opens a connection.
LEMMA CallerSteps ==
  ASSUME ServerInv, NEW a \in Apps,
         \/ CallerLookup(a) \/ CallerPick(a) \/ CallerClaim(a) \/ CallerFill(a)
         \/ CallerConnect(a) \/ CallerCreate(a) \/ CallerRecord(a)
  PROVE  ServerInv'
<1>1. /\ UNCHANGED <<state, mainAt, unixQueue, server, handler_list, shutHandlers, hungUp, network>>
      /\ handler[a].at \in Opening \cup {"lookup", "pick"}
      /\ handler[a].at \notin {"none", "exited"}
      /\ NetworkOK'
  BY DEF CallerLookup, CallerPick, CallerClaim, CallerFill, CallerConnect, CallerCreate,
     CallerRecord, unixVars, networkVars, Opening, ServerInv, NetworkTyped, NetworkOK
<1>2. /\ handler[a].at \in {"lookup", "pick"} => handler[a] \in Asking /\ handler[a].to \in Daemons
      /\ handler[a].at \in Opening =>
           handler[a] \in Dialling /\ handler[a].to \in Daemons /\ handler[a].entry \in ConnEntries
      /\ a \in Callers
  <2>1. /\ handler[a].at \in {"lookup", "pick"} => handler[a] \in Asking
        /\ handler[a].at \in Opening => handler[a] \in Dialling
        /\ handler[a] \in Plain \/ a \in Callers
    BY DEF ServerInv, HandlersTyped, HandlerOK
  <2>2. handler[a] \in Dialling => handler[a].entry \in ConnEntries
    BY DEF Dialling
  <2> QED BY <1>1, <2>1, <2>2, FieldsDiffer
<1>3. ASSUME NEW stage \in Stages \ Opening, stage # "lookup",
             HandlerAt(a, stage), NetworkTyped', stage = "pick" => handler[a] \in Asking
      PROVE  ServerInv'
  <2> HIDE DEF ServerInv, NetworkTyped, HandlerAt
  <2> QED BY <1>1, <1>3, HandlerAtStep
<1>4. ASSUME NEW stage \in Opening, HandlerAt(a, stage), NetworkTyped',
             handler[a].at \in Opening
      PROVE  ServerInv'
  <2>1. stage \in Stages /\ stage \notin {"lookup", "pick"}
    BY <1>4, SubsetAt DEF Opening
  <2> HIDE DEF ServerInv, NetworkTyped, HandlerAt
  <2> QED BY <1>1, <1>2, <1>4, <2>1, HandlerAtStep
<1> DEFINE i == handler[a].entry
           d == handler[a].to
<1>5. CASE CallerLookup(a)
  <2>1. NetworkTyped' /\ handler[a] \in Asking
    BY <1>2, <1>5, NetworkKept DEF CallerLookup, networkVars
  <2>2. HandlerAt(a, "pick") \/ HandlerAt(a, "answer")
    BY <1>5 DEF CallerLookup
  <2> QED BY <1>3, <2>1, <2>2 DEF Stages, Busy, Opening
<1>6. CASE CallerPick(a)
  <2>1. NetworkTyped'
    BY <1>6, NetworkKept DEF CallerPick, networkVars
  <2>2. CASE HandlerAt(a, "answer")
    BY <1>3, <2>1, <2>2 DEF Stages, Busy, Opening
  <2>3. CASE \E k \in ConnEntries : handler' = [handler EXCEPT ![a] =
               [at |-> "claim", command |-> TRUE, to |-> d, entry |-> k]]
    <3>1. PICK k \in ConnEntries : handler' = [handler EXCEPT ![a] =
            [at |-> "claim", command |-> TRUE, to |-> d, entry |-> k]]
      BY <2>3
    <3> DEFINE h == [at |-> "claim", command |-> TRUE, to |-> d, entry |-> k]
    <3>2. h \in Dialling /\ h.at = "claim"
      BY <1>2, <1>6 DEF CallerPick, Dialling, Stages, Busy
    <3>3. handler' = [handler EXCEPT ![a] = h]
      BY <3>1
    <3> HIDE DEF h, ServerInv, NetworkTyped
    <3> QED BY <1>1, <1>2, <2>1, <3>2, <3>3, HandlerStep
  <2>4. get_available_connection_entry \in ConnEntries \cup {NoEntry}
    BY AvailableFinds
  <2> QED BY <1>6, <2>2, <2>3, <2>4 DEF CallerPick
<1>7. CASE CallerClaim(a)
  <2>1. PICK e : e = [connection_table[i] EXCEPT !.available = FALSE]
    BY Zenon
  <2>2. i \in ConnEntries /\ handler[a].at \in Opening
    BY <1>2, <1>7 DEF CallerClaim, Opening
  <2>3. e \in ConnRows
    BY <2>1, <2>2, RowOf, RowWritten, Zenon
  <2>4. connection_table' = [connection_table EXCEPT ![i] = e]
    BY <1>7, <2>1, Zenon DEF CallerClaim
  <2>5. NetworkTyped'
    BY <1>1, <1>7, <2>2, <2>3, <2>4, TableWritten DEF CallerClaim, ServerInv, NetworkTyped
  <2> QED BY <1>4, <1>7, <2>2, <2>5 DEF CallerClaim, Opening
<1>8. CASE CallerFill(a)
  <2>1. PICK e : e = [connection_table[i] EXCEPT !.peer = d, !.send = <<a, d>>, !.recv = NoDescriptor]
    BY Zenon
  <2>2. i \in ConnEntries /\ d \in Daemons /\ handler[a].at \in Opening
    BY <1>2, <1>8 DEF CallerFill, Opening
  <2>3. <<a, d>> \in Ends /\ NoDescriptor \in Ends
    BY <1>2, <2>2 DEF Ends, Descriptors
  <2>4. e \in ConnRows
    <3>1. d \in Daemons \cup {"unset"} /\ connection_table[i] \in ConnRows
      BY <2>2, RowOf
    <3> QED BY <2>1, <2>3, <3>1, RowWritten, Zenon
  <2>5. connection_table' = [connection_table EXCEPT ![i] = e]
    BY <1>8, <2>1, Zenon DEF CallerFill
  <2>6. NetworkTyped'
    BY <1>1, <1>8, <2>2, <2>4, <2>5, TableWritten DEF CallerFill, ServerInv, NetworkTyped
  <2> QED BY <1>4, <1>8, <2>2, <2>6 DEF CallerFill, Opening
<1>9. CASE CallerConnect(a)
  <2>1. i \in ConnEntries /\ d \in Daemons /\ handler[a].at \in Opening
    BY <1>2, <1>9 DEF CallerConnect, Opening
  <2>2. CASE d \in Loopback
    <3>1. [from |-> d, fd |-> <<d, a>>] \in Arrivals
      BY <1>2, <2>1 DEF Arrivals, Descriptors
    <3>2. networkQueue' \in Seq(Arrivals) /\ UNCHANGED <<connection_table, connThreads>>
      <4>1. \/ networkQueue' = Append(networkQueue, [from |-> d, fd |-> <<d, a>>])
            \/ networkQueue' = networkQueue
        BY <1>9, <2>2 DEF CallerConnect
      <4>2. networkQueue \in Seq(Arrivals)
        BY DEF ServerInv, NetworkTyped
      <4>3. UNCHANGED <<connection_table, connThreads>>
        BY <1>9, <2>2 DEF CallerConnect
      <4> QED BY <3>1, <4>1, <4>2, <4>3, AppendProperties
    <3>3. NetworkTyped'
      BY <1>1, <3>2 DEF ServerInv, NetworkTyped
    <3>4. HandlerAt(a, "answer")
      BY <1>9, <2>2 DEF CallerConnect
    <3> QED BY <1>3, <3>3, <3>4 DEF Stages, Busy, Opening
  <2>3. CASE d \notin Loopback
    <3>1. PICK e : e = [connection_table[i] EXCEPT !.recv = <<a, d>>]
      BY Zenon
    <3>2. <<a, d>> \in Ends /\ connection_table[i] \in ConnRows
      BY <1>2, <2>1, RowOf DEF Ends, Descriptors
    <3>3. e \in ConnRows
      BY <3>1, <3>2, RowWritten, Zenon
    <3>4. connection_table' = [connection_table EXCEPT ![i] = e]
      BY <1>9, <2>3, <3>1, Zenon DEF CallerConnect
    <3>5. NetworkTyped'
      BY <1>1, <1>9, <2>1, <2>3, <3>3, <3>4, TableWritten DEF CallerConnect, ServerInv, NetworkTyped
    <3>6. HandlerAt(a, "create")
      BY <1>9, <2>3 DEF CallerConnect
    <3> QED BY <1>4, <2>1, <3>5, <3>6 DEF Opening
  <2> QED BY <2>2, <2>3
<1>10. CASE CallerCreate(a)
  <2>1. i \in ConnEntries /\ handler[a].at \in Opening
    BY <1>2, <1>10 DEF CallerCreate, Opening
  <2>2. NetworkTyped'
    BY <1>1, <1>10, <2>1, ThreadMade DEF CallerCreate
  <2> QED BY <1>4, <1>10, <2>1, <2>2 DEF CallerCreate, Opening
<1>11. CASE CallerRecord(a)
  <2>1. PICK e : e = [connection_table[i] EXCEPT !.id = <<a, d>>]
    BY Zenon
  <2>2. i \in ConnEntries /\ d \in Daemons
    BY <1>2, <1>11 DEF CallerRecord, Opening
  <2>3. <<a, d>> \in Ends /\ connection_table[i] \in ConnRows
    BY <1>2, <2>2, RowOf DEF Ends, Descriptors
  <2>4. e \in ConnRows
    BY <2>1, <2>3, RowWritten, Zenon
  <2>5. connection_table' = [connection_table EXCEPT ![i] = e]
    BY <1>11, <2>1, Zenon DEF CallerRecord
  <2>6. NetworkTyped'
    BY <1>1, <1>11, <2>2, <2>4, <2>5, TableWritten DEF CallerRecord, ServerInv, NetworkTyped
  <2>7. HandlerAt(a, "answer")
    BY <1>11 DEF CallerRecord
  <2> QED BY <1>3, <2>6, <2>7 DEF Stages, Busy, Opening
<1> QED BY <1>5, <1>6, <1>7, <1>8, <1>9, <1>10, <1>11

\* What the network thread has at hand in each of its stages.
LEMMA NetworkFields ==
  ASSUME ServerInv
  PROVE  /\ network.at \in {"lookup", "pick", "claim", "fill"} =>
              network.from \in Daemons /\ network.fd \in Descriptors
         /\ network.at \in {"claim", "fill", "create", "join", "record"} => network.entry \in ConnEntries
         /\ network.at = "record" => network.id \in Ends
         /\ network.at = "shut" => network.entry \in ConnEntries \cup {NoEntry}
         /\ network.at \in {"none", "accept", "exited", "lookup", "pick", "claim", "fill", "create",
                            "join", "record", "shut"}
BY DEF ServerInv, NetworkTyped, NetworkOK

\* accept() and the table.
LEMMA NetworkEnters ==
  ASSUME ServerInv,
         \/ NetworkAccept \/ NetworkFails \/ NetworkLookup \/ NetworkPick \/ NetworkClaim
         \/ NetworkFill
  PROVE  ServerInv'
<1>1. /\ UNCHANGED <<state, mainAt, handler, unixQueue, server, handler_list, shutHandlers, hungUp>>
      /\ network.at \in {"accept", "lookup", "pick", "claim", "fill"} /\ hungUp' \subseteq Apps
      /\ connThreads' = connThreads
  BY DEF NetworkAccept, NetworkFails, NetworkLookup, NetworkPick, NetworkClaim, NetworkFill, appVars,
     unixVars, ServerInv, HandlersTyped
<1>2. NetworkTyped' => ServerInv'
  <2> HIDE DEF ServerInv, NetworkTyped
  <2> QED BY <1>1, OtherStep
<1>3. CASE NetworkAccept
  <2>1. Head(networkQueue) \in Arrivals /\ networkQueue' \in Seq(Arrivals)
    BY <1>3, HeadTailProperties DEF NetworkAccept, ServerInv, NetworkTyped
  <2>2. NetworkOK'
    BY <1>3, <2>1 DEF NetworkAccept, NetworkOK, Arrivals
  <2> QED BY <1>1, <1>2, <1>3, <2>1, <2>2 DEF NetworkAccept, ServerInv, NetworkTyped
<1>4. CASE NetworkFails
  <2>1. NetworkOK'
    BY <1>4, ServerAssumption DEF NetworkFails, NetworkOK, ConnEntries
  <2> QED BY <1>1, <1>2, <1>4, <2>1 DEF NetworkFails, ServerInv, NetworkTyped
<1>5. CASE NetworkLookup
  <2> DEFINE i == get_connection(network.from)
  <2>1. i \in ConnEntries \cup {NoEntry} /\ network.from \in Daemons /\ network.fd \in Descriptors
    BY <1>5, LookupFinds, NetworkFields DEF NetworkLookup
  <2> HIDE DEF i
  <2>2. CASE UNCHANGED connection_table
    <3>1. NetworkOK'
      BY <1>5, <2>1 DEF NetworkLookup, NetworkOK, i
    <3> QED BY <1>1, <1>2, <1>5, <2>2, <3>1 DEF NetworkLookup, ServerInv, NetworkTyped
  <2>3. CASE /\ i \in ConnEntries
             /\ connection_table' = [connection_table EXCEPT ![i].recv = network.fd]
             /\ network' = [at |-> "create", entry |-> i]
    <3>1. PICK e : e = [connection_table[i] EXCEPT !.recv = network.fd]
      BY Zenon
    <3>2. network.fd \in Ends /\ connection_table[i] \in ConnRows
      BY <2>1, <2>3, RowOf DEF Ends
    <3>3. e \in ConnRows
      BY <3>1, <3>2, RowWritten, Zenon
    <3>4. connection_table' = [connection_table EXCEPT ![i] = e]
      BY <2>3, <3>1, Zenon
    <3>5. NetworkOK'
      BY <2>3 DEF NetworkOK
    <3> QED BY <1>1, <1>2, <1>5, <2>3, <3>3, <3>4, <3>5, TableWritten DEF NetworkLookup, ServerInv,
         NetworkTyped
  <2> QED BY <1>5, <2>1, <2>2, <2>3 DEF NetworkLookup, i
<1>6. CASE NetworkPick
  <2>1. /\ get_available_connection_entry \in ConnEntries \cup {NoEntry}
        /\ network.from \in Daemons /\ network.fd \in Descriptors
    BY <1>6, AvailableFinds, NetworkFields DEF NetworkPick
  <2>2. NetworkOK'
    BY <1>6, <2>1 DEF NetworkPick, NetworkOK
  <2> QED BY <1>1, <1>2, <1>6, <2>2 DEF NetworkPick, ServerInv, NetworkTyped
<1>7. CASE NetworkClaim
  <2> DEFINE i == network.entry
  <2>1. PICK e : e = [connection_table[i] EXCEPT !.available = FALSE]
    BY Zenon
  <2>2. i \in ConnEntries
    BY <1>7, NetworkFields DEF NetworkClaim
  <2>3. e \in ConnRows
    BY <2>1, <2>2, RowOf, RowWritten, Zenon
  <2>4. connection_table' = [connection_table EXCEPT ![i] = e]
    BY <1>7, <2>1, Zenon DEF NetworkClaim
  <2>5. NetworkOK'
    <3>1. network \in [at : {"claim", "fill"}, from : Daemons, fd : Descriptors, entry : ConnEntries]
      BY <1>7 DEF NetworkClaim, ServerInv, NetworkTyped, NetworkOK
    <3>2. network' = [network EXCEPT !.at = "fill"]
      BY <1>7, Zenon DEF NetworkClaim
    <3>3. network' \in [at : {"claim", "fill"}, from : Daemons, fd : Descriptors, entry : ConnEntries]
      BY <3>1, <3>2
    <3> QED BY <3>3 DEF NetworkOK
  <2> QED BY <1>1, <1>2, <1>7, <2>2, <2>3, <2>4, <2>5, TableWritten DEF NetworkClaim, ServerInv,
       NetworkTyped
<1>8. CASE NetworkFill
  <2> DEFINE i == network.entry
  <2>1. PICK e : e = [connection_table[i] EXCEPT !.peer = network.from, !.send = network.fd,
                                                 !.recv = network.fd]
    BY Zenon
  <2>2. i \in ConnEntries /\ network.from \in Daemons \cup {"unset"} /\ network.fd \in Ends
    BY <1>8, NetworkFields DEF NetworkFill, Ends
  <2>3. e \in ConnRows
    BY <2>1, <2>2, RowOf, RowWritten, Zenon
  <2>4. connection_table' = [connection_table EXCEPT ![i] = e]
    BY <1>8, <2>1, Zenon DEF NetworkFill
  <2>5. NetworkOK'
    BY <1>8, <2>2 DEF NetworkFill, NetworkOK
  <2> QED BY <1>1, <1>2, <1>8, <2>2, <2>3, <2>4, <2>5, TableWritten DEF NetworkFill, ServerInv,
       NetworkTyped
<1> QED BY <1>3, <1>4, <1>5, <1>6, <1>7, <1>8

\* The threads of the table's connections, made and joined.
LEMMA NetworkEnds ==
  ASSUME ServerInv,
         NetworkCreate \/ NetworkRecord \/ NetworkShuts \/ NetworkJoins \/ NetworkExits
  PROVE  ServerInv'
<1>1. /\ UNCHANGED <<state, mainAt, handler, unixQueue, server, handler_list, shutHandlers, hungUp,
                     networkQueue>>
      /\ network.at \in {"create", "record", "shut", "join"} /\ hungUp' \subseteq Apps
  BY DEF NetworkCreate, NetworkRecord, NetworkShuts, NetworkJoins, NetworkExits, appVars,
     unixVars, ServerInv, HandlersTyped
<1>2. NetworkTyped' => ServerInv'
  <2> HIDE DEF ServerInv, NetworkTyped
  <2> QED BY <1>1, OtherStep
<1> DEFINE i == network.entry
<1>3. CASE NetworkCreate
  <2>1. i \in ConnEntries /\ connection_table[i].recv \in Ends
    BY <1>3, NetworkFields, RowOf DEF NetworkCreate
  <2>2. NetworkOK'
    BY <1>3, <2>1 DEF NetworkCreate, NetworkOK
  <2>3. NetworkTyped'
    BY <1>1, <1>3, <2>1, <2>2, ThreadMade DEF NetworkCreate
  <2> QED BY <1>2, <2>3
<1>4. CASE NetworkRecord
  <2>1. PICK e : e = [connection_table[i] EXCEPT !.id = network.id]
    BY Zenon
  <2>2. i \in ConnEntries /\ network.id \in Ends /\ connection_table[i] \in ConnRows
    BY <1>4, NetworkFields, RowOf DEF NetworkRecord
  <2>3. e \in ConnRows
    BY <2>1, <2>2, RowWritten, Zenon
  <2>4. connection_table' = [connection_table EXCEPT ![i] = e]
    BY <1>4, <2>1, Zenon DEF NetworkRecord
  <2>5. NetworkOK'
    BY <1>4 DEF NetworkRecord, NetworkOK
  <2> QED BY <1>1, <1>2, <1>4, <2>2, <2>3, <2>4, <2>5, TableWritten DEF NetworkRecord, ServerInv,
       NetworkTyped
<1>5. CASE NetworkShuts \/ NetworkJoins \/ NetworkExits
  <2>1. /\ NetworkShuts => network.entry \in ConnEntries /\ network.at = "shut"
        /\ NetworkJoins => network.entry \in ConnEntries
    BY NetworkFields DEF NetworkShuts, NetworkJoins
  <2>2. network.entry \in ConnEntries => network.entry + 1 \in ConnEntries \cup {NoEntry}
    BY ServerAssumption DEF ConnEntries, NoEntry
  <2>3. NetworkOK'
    <3>1. CASE NetworkShuts
      <4>1. network \in [at : {"shut"}, entry : ConnEntries \cup {NoEntry}]
        BY <2>1, <3>1 DEF ServerInv, NetworkTyped, NetworkOK
      <4>2. CASE network' = [network EXCEPT !.entry = network.entry + 1]
        <5>1. network' \in [at : {"shut"}, entry : ConnEntries \cup {NoEntry}]
          BY <2>1, <2>2, <3>1, <4>1, <4>2
        <5> QED BY <5>1 DEF NetworkOK
      <4>3. CASE network' = [network EXCEPT !.at = "join"]
        <5>1. network' \in [at : {"create", "join"}, entry : ConnEntries]
          BY <2>1, <3>1, <4>1, <4>3
        <5> QED BY <5>1 DEF NetworkOK
      <4> QED BY <3>1, <4>2, <4>3, Zenon DEF NetworkShuts
    <3>2. CASE NetworkJoins
      BY <2>1, <2>2, <3>2 DEF NetworkJoins, NetworkOK
    <3>3. CASE NetworkExits
      BY <3>3 DEF NetworkExits, NetworkOK
    <3> QED BY <1>5, <3>1, <3>2, <3>3
  <2>4. UNCHANGED <<connection_table, connThreads>>
    BY <1>5 DEF NetworkShuts, NetworkJoins, NetworkExits
  <2> QED BY <1>1, <1>2, <2>3, <2>4 DEF ServerInv, NetworkTyped
<1> QED BY <1>3, <1>4, <1>5

\* Another daemon connects; a connection thread receives, or ends.
LEMMA ConnectionSteps ==
  ASSUME ServerInv,
         \/ \E d \in Daemons : PeerConnects(d)
         \/ \E t \in connThreads : ConnectionReceives(t) \/ PeerCloses(t) \/ ConnectionEnds(t)
  PROVE  ServerInv'
<1>1. /\ UNCHANGED <<state, mainAt, handler, unixQueue, server, handler_list, shutHandlers, hungUp,
                     network, connection_table>>
      /\ hungUp' \subseteq Apps /\ NetworkOK'
  BY DEF PeerConnects, ConnectionReceives, PeerCloses, ConnectionEnds, appVars, unixVars, ServerInv,
     HandlersTyped, NetworkTyped, NetworkOK
<1>2. NetworkTyped' => ServerInv'
  <2> HIDE DEF ServerInv, NetworkTyped
  <2> QED BY <1>1, OtherStep
<1>3. ASSUME NEW d \in Daemons, PeerConnects(d) PROVE NetworkTyped'
  <2>1. [from |-> d, fd |-> <<d, d>>] \in Arrivals
    BY DEF Arrivals, Descriptors
  <2>2. networkQueue' \in Seq(Arrivals)
    BY <1>3, <2>1, AppendProperties DEF PeerConnects, ServerInv, NetworkTyped
  <2> QED BY <1>1, <1>3, <2>2 DEF PeerConnects, ServerInv, NetworkTyped
<1>4. ASSUME NEW t \in connThreads, ConnectionReceives(t) PROVE NetworkTyped'
  <2>1. t \in [id : Ends, entry : ConnEntries, fd : Ends]
    BY DEF ServerInv, NetworkTyped
  <2>2. connection_table[t.entry].recv \in Ends
    BY <2>1, RowOf
  <2>3. PICK u : u = [t EXCEPT !.fd = connection_table[t.entry].recv]
    BY Zenon
  <2>4. u \in [id : Ends, entry : ConnEntries, fd : Ends]
    BY <2>1, <2>2, <2>3
  <2>5. connThreads' = (connThreads \ {t}) \cup {u}
    BY <1>4, <2>3, Zenon DEF ConnectionReceives
  <2> QED BY <1>1, <1>4, <2>4, <2>5 DEF ConnectionReceives, ServerInv, NetworkTyped
<1>5. ASSUME NEW t \in connThreads, PeerCloses(t) \/ ConnectionEnds(t) PROVE NetworkTyped'
  BY <1>1, <1>5 DEF PeerCloses, ConnectionEnds, ServerInv, NetworkTyped
<1> QED BY <1>2, <1>3, <1>4, <1>5

LEMMA ServerStep == ServerInv /\ [ServerNext]_serverVars => ServerInv'
<1> SUFFICES ASSUME ServerInv, [ServerNext]_serverVars PROVE ServerInv'
  OBVIOUS
<1>1. CASE UNCHANGED serverVars
  <2>1. NetworkTyped'
    BY <1>1, NetworkKept DEF serverVars, networkVars
  <2>2. hungUp' \subseteq Apps
    BY <1>1 DEF serverVars, appVars, ServerInv, HandlersTyped
  <2> QED BY <1>1, <2>1, <2>2, OtherStep DEF serverVars, appVars, unixVars, networkVars
<1>2. ASSUME NEW a \in Apps, OpenApp(a) \/ HangUp(a) \/ Handler(a) PROVE ServerInv'
  <2> HIDE DEF ServerInv
  <2> QED BY <1>2, AppSteps, HandlerSteps, CallerSteps DEF Handler
<1>3. CASE ServerThread
  BY <1>3, AcceptStep, AppendStep, ShutsStep, ServerGoesOn DEF ServerThread
<1>4. CASE NetworkThread
  BY <1>4, NetworkEnters, NetworkEnds DEF NetworkThread
<1> HIDE DEF ServerInv
<1> QED BY <1>1, <1>2, <1>3, <1>4, MainSteps, ConnectionSteps DEF ServerNext

\* The daemon's threads, list of handlers and connection table agree in every state, for every
\* number of applications, daemons and connections (server.c, connection.c).
THEOREM ServerInvariance == ServerSpec => []ServerInv
BY ServerStart, ServerStep, PTL DEF ServerSpec

\* The daemon's state, its threads and the connection table keep their types (serverinfo.h).
THEOREM ServerTypes == ServerSpec => []ServerTypeOK
<1>1. ServerInv => ServerTypeOK
  <2> SUFFICES ASSUME ServerInv PROVE ServerTypeOK
    OBVIOUS
  <2>1. \A a \in Apps : handler[a].at \in Stages
    <3> SUFFICES ASSUME NEW a \in Apps PROVE handler[a].at \in Stages
      OBVIOUS
    <3>1. handler[a] \in Plain \/ handler[a] \in Asking \/ handler[a] \in Dialling
      BY DEF ServerInv, HandlersTyped
    <3> QED BY <3>1 DEF Plain, Asking, Dialling
  <2>2. \A i \in ConnEntries : connection_table[i] \in ConnRows
    BY RowOf
  <2>3. connThreads \subseteq [id : Ends, entry : ConnEntries, fd : Ends]
    BY DEF ServerInv, NetworkTyped
  <2>4. network.at \in {"none", "accept", "lookup", "pick", "claim", "fill", "create", "record",
                        "shut", "join", "exited"}
    BY NetworkFields
  <2>5. \A e \in ConnRows :
          e.peer \in Daemons \cup {"unset"} /\ {e.send, e.recv, e.id} \subseteq Ends
    BY DEF ConnRows
  <2> QED BY <2>1, <2>2, <2>3, <2>4, <2>5 DEF ServerInv, HandlersTyped, Orderly, ServerTypeOK, Stages, Ends
<1> QED BY <1>1, ServerInvariance, PTL

\* When the daemon is STOPPED both of its threads have exited, and so has every handler thread
\* that ever ran (server.c: chitcpd_server_wait, and the server thread's last loop).
THEOREM StopJoinsAll == ServerSpec => []StopIsOrderly
<1>1. ServerInv => StopIsOrderly
  <2> SUFFICES ASSUME ServerInv, state = "STOPPED" PROVE StopIsOrderly
    BY DEF StopIsOrderly
  <2>1. server.at = "exited" /\ network.at = "exited" /\ handler_list = <<>>
    BY DEF ServerInv, Orderly
  <2>2. Len(handler_list) = 0 /\ 1 .. 0 = {}
    BY <2>1
  <2> QED BY <2>1, <2>2 DEF ServerInv, NoHandlerForgotten, StopIsOrderly
<1> QED BY <1>1, ServerInvariance, PTL

----------------------------------------------------------------------------
(* The debug monitors: the "complicated synchronization" of breakpoint.c *)

\* A thread that has a monitor in its hands; one that has its lock_sockfd as well.
InHands == {"wait", "send", "answer", "stop", "sweep"}
Owning == {"send", "answer", "stop", "sweep"}

Children == MonEntries \cup {NoChild}
Hits ==
  [at : {"out"}]
    \cup [at : {"look"}, sock : MonEntries, child : Children]
    \cup [at : {"wait", "send", "answer", "stop"}, sock : MonEntries, child : Children, mon : Debuggers]
    \cup [at : {"sweep"}, mon : Debuggers, sock : 0 .. MonSockets, child : Children]
    \cup [at : {"copy"}, sock : MonEntries, child : MonEntries]
    \cup [at : {"undefined"}, mon : Debuggers]

Monitors ==
  [at : {"live", "freed"}, numwaiters : Nat, dying : BOOLEAN, lock_sockfd : Threads \cup {NoOwner}]

MonTypes ==
  /\ exists \subseteq MonEntries
  /\ debug_monitor \in [MonEntries -> Debuggers \cup {NoMonitor}]
  /\ monitor \in [Debuggers -> Monitors]
  /\ hit \in [Threads -> Hits]
  /\ registering \in [Debuggers -> [at : {"new"}] \cup
                        [at : {"lock", "refused", "answer", "set", "done"}, sock : MonEntries]]
  /\ missed \subseteq Debuggers

Waiters(d) == {t \in Threads : hit[t].at = "wait" /\ hit[t].mon = d}

\* Who may be used is alive and has been registered: by a thread, by an entry that exists. An
\* entry may also have one that was copied behind its sweep.
InUse(d) == monitor[d].at = "live" /\ registering[d].at = "done"
UsersInv == \A t \in Threads : hit[t].at \in InHands => InUse(hit[t].mon)
Listed(d) == registering[d].at = "done" /\ (monitor[d].at = "live" \/ d \in missed)
EntriesInv ==
  \A i \in MonEntries : debug_monitor[i] # NoMonitor => i \in exists /\ Listed(debug_monitor[i])

RegisterInv ==
  \A d \in Debuggers : registering[d].at \in {"lock", "answer", "set"} =>
    monitor[d].at = "live" /\ registering[d].sock \in exists

CountInv == \A d \in Debuggers : monitor[d].numwaiters = Cardinality(Waiters(d))

HoldInv == \A t \in Threads : hit[t].at \in Owning => monitor[hit[t].mon].lock_sockfd = t

\* The entries behind a sweep do not have its monitor, unless ACCEPT has copied it there since;
\* only such a one can be met when it has been freed.
Swept(h) ==
  /\ h.at = "sweep" =>
       \A i \in MonEntries : i < h.sock => debug_monitor[i] # h.mon \/ h.mon \in missed
  /\ h.at = "undefined" => h.mon \in missed
SweepInv == \A t \in Threads : Swept(hit[t])

\* ACCEPT copies from the listening socket's entry to the one it has allocated.
Accepts(h) ==
  h.at \in {"look", "wait", "send", "answer", "stop", "copy"} /\ h.child # NoChild =>
    h.sock = Listener /\ h.child \in exists
ChildInv == Listener \in exists /\ \A t \in Threads : Accepts(hit[t])

MonitorInv ==
  /\ MonTypes /\ UsersInv /\ EntriesInv /\ RegisterInv /\ CountInv /\ HoldInv /\ SweepInv /\ ChildInv

-----------------------------------------------------------------------------
(* Counting the waiting threads *)

LEMMA SameWaiters ==
  ASSUME MonTypes, NEW t \in Threads, NEW h \in Hits, hit' = [hit EXCEPT ![t] = h],
         NEW d \in Debuggers,
         (hit[t].at = "wait" /\ hit[t].mon = d) <=> (h.at = "wait" /\ h.mon = d)
  PROVE  Waiters(d)' = Waiters(d)
BY DEF MonTypes, Waiters

LEMMA MoreWaiters ==
  ASSUME MonTypes, NEW t \in Threads, NEW h \in Hits, hit' = [hit EXCEPT ![t] = h],
         NEW d \in Debuggers, hit[t].at # "wait", h.at = "wait", h.mon = d
  PROVE  Cardinality(Waiters(d)') = Cardinality(Waiters(d)) + 1
<1>1. Waiters(d)' = Waiters(d) \cup {t} /\ t \notin Waiters(d)
  BY DEF MonTypes, Waiters
<1>2. IsFiniteSet(Waiters(d))
  BY FS_Subset, DebugAssumption DEF Waiters
<1> QED BY <1>1, <1>2, FS_AddElement

LEMMA FewerWaiters ==
  ASSUME MonTypes, NEW t \in Threads, NEW h \in Hits, hit' = [hit EXCEPT ![t] = h],
         NEW d \in Debuggers, hit[t].at = "wait", hit[t].mon = d, h.at # "wait"
  PROVE  Cardinality(Waiters(d)') = Cardinality(Waiters(d)) - 1 /\ Cardinality(Waiters(d)) \in Nat \ {0}
<1>1. Waiters(d)' = Waiters(d) \ {t} /\ t \in Waiters(d)
  BY DEF MonTypes, Waiters
<1>2. IsFiniteSet(Waiters(d))
  BY FS_Subset, DebugAssumption DEF Waiters
<1>3. Cardinality(Waiters(d)) \in Nat /\ Cardinality(Waiters(d)) # 0
  BY <1>1, <1>2, FS_CardinalityType, FS_EmptySet
<1> QED BY <1>1, <1>2, <1>3, FS_RemoveElement

-----------------------------------------------------------------------------
(* Steps *)

LEMMA InitHolds == DebugInit => MonitorInv
<1> SUFFICES ASSUME DebugInit PROVE MonitorInv
  OBVIOUS
<1> USE DebugAssumption DEF DebugInit, MonEntries
<1>1. MonTypes
  <2>1. [Fresh EXCEPT !.at = "freed"] \in Monitors
    BY DEF Fresh, Monitors
  <2>2. [at |-> "out"] \in Hits
    BY DEF Hits
  <2> QED BY <2>1, <2>2 DEF MonTypes
<1>2. UsersInv /\ EntriesInv /\ RegisterInv /\ HoldInv /\ SweepInv /\ ChildInv
  BY DEF UsersInv, EntriesInv, RegisterInv, HoldInv, SweepInv, ChildInv, InHands, Owning, Swept, Accepts
<1>3. CountInv
  <2> SUFFICES ASSUME NEW d \in Debuggers PROVE monitor[d].numwaiters = Cardinality(Waiters(d))
    BY DEF CountInv
  <2>1. Waiters(d) = {}
    BY DEF Waiters
  <2> QED BY <2>1, FS_EmptySet DEF Fresh
<1> QED BY <1>1, <1>2, <1>3 DEF MonitorInv

\* A thread goes on without counting itself in or out: it may drop lock_sockfd, mark its
\* monitor, or take a monitor out of the table.
LEMMA ThreadStep ==
  ASSUME MonitorInv, NEW t \in Threads, NEW h \in Hits,
         hit' = [hit EXCEPT ![t] = h], hit[t].at # "wait", h.at # "wait",
         h.at \in InHands => hit[t].at \in InHands /\ h.mon = hit[t].mon,
         UNCHANGED <<registering, missed>>, exists \subseteq exists', exists' \subseteq MonEntries,
         debug_monitor' \in [MonEntries -> Debuggers \cup {NoMonitor}],
         \A i \in MonEntries : debug_monitor'[i] \in {debug_monitor[i], NoMonitor},
         monitor' \in [Debuggers -> Monitors],
         \A d \in Debuggers :
           /\ monitor'[d].at = monitor[d].at /\ monitor'[d].numwaiters = monitor[d].numwaiters
           /\ \/ monitor'[d].lock_sockfd = monitor[d].lock_sockfd
              \/ monitor[d].lock_sockfd = t /\ h.at \notin Owning,
         Swept(h)', Accepts(h)'
  PROVE  MonitorInv'
<1> USE DEF MonitorInv
<1>1. MonTypes'
  BY DEF MonTypes
<1>2. UsersInv'
  BY DEF MonTypes, UsersInv, InUse, InHands, Hits
<1>3. EntriesInv'
  BY DEF MonTypes, EntriesInv, Listed
<1>4. RegisterInv'
  BY DEF MonTypes, RegisterInv
<1>5. CountInv'
  <2> SUFFICES ASSUME NEW d \in Debuggers PROVE (monitor[d].numwaiters = Cardinality(Waiters(d)))'
    BY DEF CountInv
  <2>1. Waiters(d)' = Waiters(d)
    BY SameWaiters
  <2> QED BY <2>1 DEF CountInv
<1>6. HoldInv'
  <2> SUFFICES ASSUME NEW u \in Threads, hit'[u].at \in Owning
               PROVE  monitor'[hit'[u].mon].lock_sockfd = u
    BY DEF HoldInv
  <2>1. CASE u = t
    <3>1. hit'[u] = h /\ h.at \in Owning /\ hit[t].at \in Owning /\ h.mon = hit[t].mon
      BY <2>1 DEF MonTypes, InHands, Owning
    <3>2. hit[t].mon \in Debuggers
      BY <3>1 DEF MonTypes, Owning, Hits
    <3> QED BY <2>1, <3>1, <3>2 DEF HoldInv
  <2>2. CASE u # t
    <3>1. hit'[u] = hit[u]
      BY <2>2 DEF MonTypes
    <3>2. hit[u].mon \in Debuggers /\ monitor[hit[u].mon].lock_sockfd = u
      BY <3>1 DEF MonTypes, Owning, Hits, HoldInv
    <3> QED BY <2>2, <3>1, <3>2
  <2> QED BY <2>1, <2>2
<1>7. SweepInv'
  <2> SUFFICES ASSUME NEW u \in Threads PROVE Swept(hit[u])'
    BY DEF SweepInv
  <2>1. CASE u = t
    BY <2>1 DEF MonTypes
  <2>2. CASE u # t
    <3>1. hit'[u] = hit[u] /\ Swept(hit[u])
      BY <2>2 DEF MonTypes, SweepInv
    <3>2. hit[u].at = "sweep" => hit[u].mon # NoMonitor
      BY DebugAssumption DEF MonTypes, Hits
    <3> QED BY <3>1, <3>2 DEF Swept
  <2> QED BY <2>1, <2>2
<1>8. ChildInv'
  <2>1. ASSUME NEW u \in Threads PROVE Accepts(hit[u])'
    BY DEF MonTypes, ChildInv, Accepts
  <2> QED BY <2>1 DEF ChildInv
<1> QED BY <1>1, <1>2, <1>3, <1>4, <1>5, <1>6, <1>7, <1>8

\* A thread that keeps its monitor and moves on.
ThreadMoves(t, where) == hit' = [hit EXCEPT ![t].at = where]

LEMMA MoveStep ==
  ASSUME MonitorInv, NEW t \in Threads, NEW where \in {"stop", "answer"}, ThreadMoves(t, where),
         hit[t].at \in {"send", "answer"}, UNCHANGED <<exists, missed, debug_monitor, monitor, registering>>
  PROVE  MonitorInv'
<1> USE DEF MonitorInv
<1>1. PICK h : h = [hit[t] EXCEPT !.at = where] /\ hit' = [hit EXCEPT ![t] = h]
  BY DEF ThreadMoves
<1>2. /\ hit[t] \in [at : {"wait", "send", "answer", "stop"}, sock : MonEntries, child : Children,
                     mon : Debuggers]
      /\ Accepts(hit[t])
  BY DEF MonTypes, Hits, ChildInv
<1>3. /\ h \in [at : {"wait", "send", "answer", "stop"}, sock : MonEntries, child : Children,
                mon : Debuggers]
      /\ h.at = where /\ h.mon = hit[t].mon /\ h.sock = hit[t].sock /\ h.child = hit[t].child
  BY <1>1, <1>2
<1>4. h \in Hits
  BY <1>3 DEF Hits
<1>5. Swept(h)' /\ Accepts(h)'
  BY <1>2, <1>3 DEF Swept, Accepts
<1>6. hit[t].at # "wait" /\ h.at # "wait" /\ hit[t].at \in InHands
  BY <1>3 DEF InHands
<1> QED BY <1>1, <1>3, <1>4, <1>5, <1>6, ThreadStep DEF MonTypes

\* The destroyer is the only one left with the monitor.
LEMMA DestroyStep ==
  ASSUME MonitorInv, NEW t \in Threads, Destroy(t)
  PROVE  MonitorInv'
<1> USE DEF MonitorInv
<1>1. PICK m0, m, h :
        /\ m0 = hit[t].mon /\ hit[t].at = "sweep" /\ hit[t].sock = MonSockets
        /\ m = [monitor[m0] EXCEPT !.lock_sockfd = NoOwner,
                                   !.at = IF monitor[m0].numwaiters = 0 THEN "freed" ELSE monitor[m0].at]
        /\ monitor' = [monitor EXCEPT ![m0] = m]
        /\ h = [at |-> "out"] /\ hit' = [hit EXCEPT ![t] = h]
        /\ UNCHANGED <<exists, missed, debug_monitor, registering>>
  BY DEF Destroy, At
<1>2. m0 \in Debuggers /\ monitor[m0] \in Monitors
  BY <1>1 DEF MonTypes, Hits
<1>3. /\ m \in Monitors /\ m.numwaiters = monitor[m0].numwaiters
      /\ m.at = IF monitor[m0].numwaiters = 0 THEN "freed" ELSE monitor[m0].at
  BY <1>1, <1>2 DEF Monitors
<1>4. /\ monitor' \in [Debuggers -> Monitors]
      /\ \A d \in Debuggers : monitor'[d] = IF d = m0 THEN m ELSE monitor[d]
  BY <1>1, <1>2, <1>3 DEF MonTypes
<1>5. h \in Hits /\ h.at = "out"
  BY <1>1 DEF Hits
<1>6. \A u \in Threads : hit'[u] = IF u = t THEN h ELSE hit[u]
  BY <1>1 DEF MonTypes
<1>7. ASSUME NEW u \in Threads, u # t, hit[u].at \in Owning
      PROVE  hit[u].mon # m0
  <2>1. monitor[hit[u].mon].lock_sockfd = u /\ monitor[m0].lock_sockfd = t
    BY <1>1, <1>7 DEF HoldInv, Owning
  <2> QED BY <1>7, <2>1
<1>8. ASSUME m.at # monitor[m0].at
      PROVE  /\ \A u \in Threads \ {t} : hit[u].at \in InHands => hit[u].mon # m0
             /\ \A i \in MonEntries : debug_monitor[i] # m0 \/ m0 \in missed
  <2>1. Cardinality(Waiters(m0)) = 0
    BY <1>2, <1>3, <1>8 DEF CountInv
  <2>2. Waiters(m0) = {}
    BY <2>1, FS_Subset, FS_EmptySet, DebugAssumption DEF Waiters
  <2>3. \A u \in Threads \ {t} : hit[u].at \in InHands => hit[u].mon # m0
    BY <1>7, <2>2 DEF Waiters, InHands, Owning
  <2>4. \A i \in MonEntries : debug_monitor[i] # m0 \/ m0 \in missed
    BY <1>1, DebugAssumption DEF SweepInv, Swept, MonEntries
  <2> QED BY <2>3, <2>4
<1>9. MonTypes'
  BY <1>1, <1>4, <1>5 DEF MonTypes
<1>10. UsersInv'
  <2> SUFFICES ASSUME NEW u \in Threads, hit'[u].at \in InHands
               PROVE  monitor'[hit'[u].mon].at = "live" /\ registering'[hit'[u].mon].at = "done"
    BY DEF UsersInv, InUse
  <2>1. u # t /\ hit'[u] = hit[u] /\ hit[u].at \in InHands
    BY <1>5, <1>6 DEF InHands
  <2>2. hit[u].mon \in Debuggers /\ InUse(hit[u].mon)
    BY <2>1 DEF MonTypes, Hits, InHands, UsersInv
  <2>3. monitor'[hit[u].mon].at = monitor[hit[u].mon].at
    BY <1>4, <1>8, <2>1, <2>2
  <2> QED BY <1>1, <2>1, <2>2, <2>3 DEF InUse
<1>11. EntriesInv'
  <2> SUFFICES ASSUME NEW i \in MonEntries, debug_monitor[i] # NoMonitor
               PROVE  /\ i \in exists /\ registering[debug_monitor[i]].at = "done"
                      /\ monitor'[debug_monitor[i]].at = "live" \/ debug_monitor[i] \in missed
    BY <1>1 DEF EntriesInv, Listed
  <2>1. debug_monitor[i] \in Debuggers /\ i \in exists /\ Listed(debug_monitor[i])
    BY DEF MonTypes, EntriesInv
  <2> QED BY <1>4, <1>8, <2>1 DEF Listed
<1>12. RegisterInv'
  <2>1. registering[m0].at = "done"
    BY <1>1 DEF UsersInv, InUse, InHands
  <2> QED BY <1>1, <1>4, <2>1 DEF RegisterInv
<1>13. CountInv'
  <2> SUFFICES ASSUME NEW d \in Debuggers PROVE (monitor[d].numwaiters = Cardinality(Waiters(d)))'
    BY DEF CountInv
  <2>1. Waiters(d)' = Waiters(d)
    BY <1>1, <1>5, SameWaiters
  <2> QED BY <1>3, <1>4, <2>1 DEF CountInv
<1>14. HoldInv'
  <2> SUFFICES ASSUME NEW u \in Threads, hit'[u].at \in Owning
               PROVE  monitor'[hit'[u].mon].lock_sockfd = u
    BY DEF HoldInv
  <2>1. u # t /\ hit'[u] = hit[u] /\ hit[u].at \in Owning
    BY <1>5, <1>6 DEF Owning
  <2>2. hit[u].mon \in Debuggers /\ monitor[hit[u].mon].lock_sockfd = u
    BY <2>1 DEF MonTypes, Hits, Owning, HoldInv
  <2> QED BY <1>4, <1>7, <2>1, <2>2
<1>15. SweepInv'
  BY <1>1, <1>5, <1>6 DEF SweepInv, Swept
<1>16. ChildInv'
  BY <1>1, <1>5, <1>6 DEF ChildInv, Accepts
<1> QED BY <1>9, <1>10, <1>11, <1>12, <1>13, <1>14, <1>15, <1>16

\* ACCEPT gives the new entry the monitor of the listening one: behind its sweep, it is missed.
LEMMA CopyStep ==
  ASSUME MonitorInv, NEW t \in Threads, CopyMonitor(t)
  PROVE  MonitorInv'
<1> USE DEF MonitorInv
<1>1. PICK i, c, h :
        /\ i = hit[t].sock /\ c = hit[t].child /\ hit[t].at = "copy"
        /\ debug_monitor' = [debug_monitor EXCEPT ![c] = debug_monitor[i]]
        /\ h = [at |-> "out"] /\ hit' = [hit EXCEPT ![t] = h]
        /\ missed' \in {missed, missed \cup {debug_monitor[i]}}
        /\ (\E u \in Threads : hit[u].at = "sweep" /\ hit[u].mon = debug_monitor[i] /\ c < hit[u].sock)
             => debug_monitor[i] \in missed'
        /\ missed' # missed => \E u \in Threads : hit[u].at = "sweep" /\ hit[u].mon = debug_monitor[i]
        /\ UNCHANGED <<exists, monitor, registering>>
  BY DEF CopyMonitor, At
<1>2. i \in MonEntries /\ c \in MonEntries /\ c \in exists
  <2>1. i \in MonEntries /\ c \in MonEntries /\ Accepts(hit[t])
    BY <1>1 DEF MonTypes, Hits, ChildInv
  <2>2. c # NoChild
    BY <2>1, DebugAssumption DEF MonEntries, NoChild
  <2> QED BY <1>1, <2>1, <2>2 DEF Accepts
<1>3. h \in Hits /\ h.at = "out"
  BY <1>1 DEF Hits
<1>4. \A u \in Threads : hit'[u] = IF u = t THEN h ELSE hit[u]
  BY <1>1 DEF MonTypes
<1>5. \A k \in MonEntries : debug_monitor'[k] = IF k = c THEN debug_monitor[i] ELSE debug_monitor[k]
  BY <1>1 DEF MonTypes
<1>14. missed \subseteq missed' /\ missed' \subseteq Debuggers
  <2>1. \A u \in Threads : hit[u].at = "sweep" => hit[u].mon \in Debuggers
    BY DEF MonTypes, Hits
  <2> QED BY <1>1, <2>1 DEF MonTypes
<1>6. MonTypes'
  BY <1>1, <1>2, <1>3, <1>14 DEF MonTypes
<1>7. UsersInv'
  BY <1>1, <1>3, <1>4 DEF UsersInv, InUse, InHands
<1>8. EntriesInv'
  BY <1>1, <1>2, <1>5, <1>14 DEF EntriesInv, Listed
<1>9. RegisterInv'
  BY <1>1 DEF RegisterInv
<1>10. CountInv'
  <2> SUFFICES ASSUME NEW d \in Debuggers PROVE (monitor[d].numwaiters = Cardinality(Waiters(d)))'
    BY DEF CountInv
  <2>1. Waiters(d)' = Waiters(d)
    BY <1>1, <1>3, SameWaiters
  <2> QED BY <1>1, <2>1 DEF CountInv
<1>11. HoldInv'
  BY <1>1, <1>3, <1>4 DEF HoldInv, Owning
<1>12. SweepInv'
  <2> SUFFICES ASSUME NEW u \in Threads PROVE Swept(hit[u])'
    BY DEF SweepInv
  <2>1. CASE u = t
    BY <1>3, <1>4, <2>1 DEF Swept
  <2>2. CASE u # t
    <3>1. hit'[u] = hit[u] /\ Swept(hit[u])
      BY <1>4, <2>2 DEF SweepInv
    <3>2. hit[u].at = "undefined" => hit[u].mon \in missed'
      BY <1>14, <3>1 DEF Swept
    <3>3. ASSUME hit[u].at = "sweep", NEW k \in MonEntries, k < hit[u].sock
          PROVE  debug_monitor'[k] # hit[u].mon \/ hit[u].mon \in missed'
      <4>1. CASE k = c
        BY <1>1, <1>5, <3>3, <4>1
      <4>2. CASE k # c
        BY <1>5, <1>14, <3>1, <3>3, <4>2 DEF Swept
      <4> QED BY <4>1, <4>2
    <3> QED BY <3>1, <3>2, <3>3 DEF Swept
  <2> QED BY <2>1, <2>2
<1>13. ChildInv'
  BY <1>1, <1>3, <1>4 DEF ChildInv, Accepts
<1> QED BY <1>6, <1>7, <1>8, <1>9, <1>10, <1>11, <1>12, <1>13

\* Who waits or stops waiting at a breakpoint changes no monitor's life and no registration.
LEMMA LivesKept ==
  ASSUME MonitorInv, UNCHANGED <<exists, missed, debug_monitor, registering>>,
         \A d \in Debuggers : monitor'[d].at = monitor[d].at
  PROVE  EntriesInv' /\ RegisterInv' /\ \A d \in Debuggers : InUse(d)' <=> InUse(d)
<1>1. \A d \in Debuggers : InUse(d)' <=> InUse(d)
  BY DEF InUse
<1>2. EntriesInv'
  <2> SUFFICES ASSUME NEW i \in MonEntries, debug_monitor[i] # NoMonitor
               PROVE  i \in exists /\ Listed(debug_monitor[i])'
    BY DEF EntriesInv
  <2>1. debug_monitor[i] \in Debuggers
    BY DEF MonitorInv, MonTypes
  <2>2. i \in exists /\ Listed(debug_monitor[i])
    BY DEF MonitorInv, EntriesInv
  <2> QED BY <2>1, <2>2 DEF Listed
<1>3. RegisterInv'
  BY DEF MonitorInv, RegisterInv
<1> QED BY <1>1, <1>2, <1>3

\* Steps of the daemon's threads.
LEMMA BreakpointSteps ==
  ASSUME MonitorInv, NEW t \in Threads, Breakpoint(t)
  PROVE  MonitorInv'
<1> USE DebugAssumption DEF MonitorInv
<1>1. CASE \E i \in MonEntries : Reach(t, i)
  <2>1. PICK i \in MonEntries : Reach(t, i)
    BY <1>1
  <2> DEFINE h == [at |-> "look", sock |-> i, child |-> NoChild]
  <2>2. h \in Hits /\ hit' = [hit EXCEPT ![t] = h] /\ hit[t].at = "out"
        /\ UNCHANGED <<exists, missed, debug_monitor, monitor, registering>>
    BY <2>1 DEF Reach, At, Hits, Children
  <2>3. Swept(h)' /\ Accepts(h)'
    BY DEF Swept, Accepts
  <2> HIDE DEF h
  <2>4. h.at = "look"
    BY DEF h
  <2> QED BY <2>2, <2>3, <2>4, ThreadStep DEF MonTypes, InHands
<1>2. CASE \E i \in MonEntries : ReachAccept(t, i)
  <2>1. PICK i \in MonEntries : ReachAccept(t, i)
    BY <1>2
  <2> DEFINE h == [at |-> "look", sock |-> Listener, child |-> i]
  <2>2. h \in Hits /\ hit' = [hit EXCEPT ![t] = h] /\ hit[t].at = "out"
        /\ exists' = exists \cup {i} /\ i \notin exists
        /\ UNCHANGED <<missed, debug_monitor, monitor, registering>>
    BY <2>1 DEF ReachAccept, At, Hits, Children, MonTypes, ChildInv
  <2>4. Swept(h)' /\ Accepts(h)'
    BY <2>2 DEF Swept, Accepts
  <2> HIDE DEF h
  <2>5. h.at = "look"
    BY DEF h
  <2> QED BY <2>2, <2>4, <2>5, ThreadStep DEF MonTypes, InHands
<1>3. ASSUME NEW r, Returned(t, r), hit[t].at \in {"look", "answer"},
             UNCHANGED <<exists, missed, debug_monitor, registering>>,
             monitor' \in [Debuggers -> Monitors],
             \A d \in Debuggers :
               /\ monitor'[d].at = monitor[d].at /\ monitor'[d].numwaiters = monitor[d].numwaiters
               /\ \/ monitor'[d].lock_sockfd = monitor[d].lock_sockfd
                  \/ monitor[d].lock_sockfd = t
      PROVE  MonitorInv'
  <2>1. PICK h : /\ hit' = [hit EXCEPT ![t] = h]
                 /\ h = IF hit[t].child # NoChild /\ r \notin {"NONE", "STOP"}
                          THEN [at |-> "copy", sock |-> hit[t].sock, child |-> hit[t].child]
                          ELSE [at |-> "out"]
    BY <1>3 DEF Returned, At
  <2>2. hit[t].sock \in MonEntries /\ hit[t].child \in Children /\ Accepts(hit[t])
    BY <1>3 DEF MonTypes, Hits, ChildInv
  <2>3. h.at \in {"copy", "out"} /\ h \in Hits /\ Swept(h)' /\ Accepts(h)'
    BY <1>3, <2>1, <2>2 DEF Hits, Swept, Accepts, Children
  <2>4. hit[t].at # "wait" /\ h.at # "wait" /\ h.at \notin InHands /\ h.at \notin Owning
    BY <1>3, <2>3 DEF InHands, Owning
  <2>5. /\ exists \subseteq exists' /\ exists' \subseteq MonEntries
        /\ debug_monitor' \in [MonEntries -> Debuggers \cup {NoMonitor}]
        /\ \A i \in MonEntries : debug_monitor'[i] \in {debug_monitor[i], NoMonitor}
    BY <1>3 DEF MonTypes
  <2>6. /\ monitor' \in [Debuggers -> Monitors]
        /\ \A d \in Debuggers :
             /\ monitor'[d].at = monitor[d].at /\ monitor'[d].numwaiters = monitor[d].numwaiters
             /\ \/ monitor'[d].lock_sockfd = monitor[d].lock_sockfd
                \/ monitor[d].lock_sockfd = t /\ h.at \notin Owning
    BY <1>3, <2>4
  <2>7. h \in Hits /\ hit' = [hit EXCEPT ![t] = h] /\ Swept(h)' /\ Accepts(h)'
    BY <2>1, <2>3
  <2>8. UNCHANGED <<registering, missed>>
    BY <1>3
  <2> QED BY <2>4, <2>5, <2>6, <2>7, <2>8, ThreadStep
<1>4. CASE LookIgnored(t)
  BY <1>3, <1>4 DEF LookIgnored, MonTypes
<1>5. CASE Look(t)
  <2>1. PICK i, d0, h :
          /\ i = hit[t].sock /\ d0 = debug_monitor[i]
          /\ h = [at |-> "wait", sock |-> i, child |-> hit[t].child, mon |-> d0]
          /\ hit[t].at = "look" /\ d0 # NoMonitor /\ monitor[d0].at = "live"
          /\ monitor' = [monitor EXCEPT ![d0].numwaiters = @ + 1]
          /\ hit' = [hit EXCEPT ![t] = h]
          /\ UNCHANGED <<exists, missed, debug_monitor, registering>>
    BY <1>5 DEF Look, At
  <2>2. /\ i \in MonEntries /\ hit[t].child \in Children /\ Accepts(hit[t])
    BY <2>1 DEF MonTypes, Hits, ChildInv
  <2>3. d0 \in Debuggers /\ InUse(d0)
    BY <2>1, <2>2 DEF MonTypes, EntriesInv, Listed, InUse
  <2>4. h \in Hits
    BY <2>1, <2>2, <2>3 DEF Hits
  <2>5. /\ monitor' \in [Debuggers -> Monitors]
        /\ \A d \in Debuggers : /\ monitor'[d].at = monitor[d].at
                                /\ monitor'[d].lock_sockfd = monitor[d].lock_sockfd
                                /\ monitor'[d].numwaiters =
                                     IF d = d0 THEN monitor[d].numwaiters + 1 ELSE monitor[d].numwaiters
    <3>1. monitor[d0] \in Monitors /\ monitor[d0].numwaiters + 1 \in Nat
      BY <2>3 DEF MonTypes, Monitors
    <3>2. monitor'[d0] = [monitor[d0] EXCEPT !.numwaiters = monitor[d0].numwaiters + 1]
      BY <2>1, <2>3 DEF MonTypes
    <3>3. /\ monitor'[d0].at = monitor[d0].at /\ monitor'[d0].lock_sockfd = monitor[d0].lock_sockfd
          /\ monitor'[d0].numwaiters = monitor[d0].numwaiters + 1 /\ monitor'[d0] \in Monitors
      BY <3>1, <3>2 DEF Monitors
    <3>4. \A d \in Debuggers \ {d0} : monitor'[d] = monitor[d]
      BY <2>1 DEF MonTypes
    <3>5. monitor' \in [Debuggers -> Monitors]
      BY <2>1, <3>3, <3>4 DEF MonTypes
    <3> QED BY <3>3, <3>4, <3>5
  <2>6. h.at = "wait" /\ h.mon = d0 /\ h.sock = i /\ h.child = hit[t].child
    BY <2>1
  <2>7. \A u \in Threads : hit'[u] = IF u = t THEN h ELSE hit[u]
    BY <2>1 DEF MonTypes
  <2>8. MonTypes'
    BY <2>1, <2>4, <2>5 DEF MonTypes
  <2>10. EntriesInv' /\ RegisterInv' /\ \A d \in Debuggers : InUse(d)' <=> InUse(d)
    BY <2>1, <2>5, LivesKept
  <2>9. UsersInv'
    <3> SUFFICES ASSUME NEW u \in Threads, hit'[u].at \in InHands PROVE InUse(hit[u].mon)'
      BY DEF UsersInv
    <3>1. CASE u = t
      <4>1. hit'[u].mon = d0
        BY <2>6, <2>7, <3>1
      <4> QED BY <2>3, <2>10, <4>1 DEF InUse
    <3>2. CASE u # t
      <4>1. hit'[u] = hit[u] /\ InUse(hit[u].mon)
        BY <2>7, <3>2 DEF UsersInv
      <4>2. hit[u].mon \in Debuggers
        <5>1. hit[u] \in Hits /\ hit[u].at \in InHands
          BY <3>2, <4>1 DEF MonTypes
        <5> QED BY <5>1 DEF Hits, InHands
      <4> QED BY <2>10, <4>1, <4>2 DEF InUse
    <3> QED BY <3>1, <3>2
  <2>11. CountInv'
    <3> SUFFICES ASSUME NEW d \in Debuggers PROVE (monitor[d].numwaiters = Cardinality(Waiters(d)))'
      BY DEF CountInv
    <3>1. CASE d = d0
      <4>1. Cardinality(Waiters(d)') = Cardinality(Waiters(d)) + 1
        BY <2>1, <2>4, <2>6, <3>1, MoreWaiters
      <4> QED BY <2>5, <3>1, <4>1 DEF CountInv
    <3>2. CASE d # d0
      <4>1. Waiters(d)' = Waiters(d)
        BY <2>1, <2>4, <2>6, <3>2, SameWaiters
      <4> QED BY <2>5, <3>2, <4>1 DEF CountInv
    <3> QED BY <3>1, <3>2
  <2>12. HoldInv'
    BY <2>5, <2>6, <2>7 DEF MonTypes, HoldInv, Owning, Hits
  <2>13. SweepInv'
    BY <2>1, <2>6, <2>7 DEF SweepInv, Swept
  <2>14. Accepts(h)
    BY <2>1, <2>2, <2>6 DEF Accepts
  <2>15. ChildInv'
    BY <2>1, <2>7, <2>14 DEF ChildInv, Accepts
  <2> QED BY <2>8, <2>9, <2>10, <2>11, <2>12, <2>13, <2>15
<1>6. CASE LockSockfd(t)
  <2>1. PICK m0 :
        /\ m0 = hit[t].mon
        /\ hit[t].at = "wait" /\ monitor[m0].lock_sockfd = NoOwner
        /\ monitor' = [monitor EXCEPT ![m0] =
             [monitor[m0] EXCEPT
               !.numwaiters = monitor[m0].numwaiters - 1,
               !.lock_sockfd = IF monitor[m0].dying THEN NoOwner ELSE t,
               !.at = IF monitor[m0].dying /\ monitor[m0].numwaiters = 0
                        THEN "freed" ELSE monitor[m0].at]]
        /\ IF monitor[m0].dying THEN Returned(t, "NONE") ELSE hit' = [hit EXCEPT ![t].at = "send"]
        /\ UNCHANGED <<exists, missed, debug_monitor, registering>>
    BY <1>6 DEF LockSockfd
  <2>2. PICK h : /\ hit' = [hit EXCEPT ![t] = h]
                 /\ h = IF monitor[m0].dying THEN [at |-> "out"] ELSE [hit[t] EXCEPT !.at = "send"]
    BY <2>1 DEF Returned, At
  <2>3. /\ hit[t] \in [at : {"wait"}, sock : MonEntries, child : Children, mon : Debuggers]
        /\ Accepts(hit[t]) /\ InUse(m0)
    BY <2>1 DEF MonTypes, Hits, ChildInv, UsersInv, InHands
  <2>4. /\ h \in Hits
        /\ \/ h.at = "out"
           \/ h.at = "send" /\ h.mon = m0 /\ h.sock = hit[t].sock /\ h.child = hit[t].child
                /\ ~monitor[m0].dying
    <3>1. CASE monitor[m0].dying
      BY <2>2, <3>1 DEF Hits
    <3>2. CASE ~monitor[m0].dying
      <4>1. h = [hit[t] EXCEPT !.at = "send"]
        BY <2>2, <3>2
      <4>2. h \in [at : {"wait", "send", "answer", "stop"}, sock : MonEntries, child : Children,
                   mon : Debuggers]
        BY <2>3, <4>1
      <4>3. h \in Hits
        BY <4>2 DEF Hits
      <4> QED BY <2>1, <2>3, <3>2, <4>1, <4>3
    <3> QED BY <3>1, <3>2
  <2>5. m0 \in Debuggers
    BY <2>1, <2>3
  <2>6. /\ Cardinality(Waiters(m0)') = Cardinality(Waiters(m0)) - 1
        /\ Cardinality(Waiters(m0)) \in Nat \ {0}
    BY <2>1, <2>2, <2>4, <2>5, FewerWaiters
  <2>7. monitor[m0].numwaiters = Cardinality(Waiters(m0))
    BY <2>5 DEF CountInv
  <2>8. /\ monitor' \in [Debuggers -> Monitors]
        /\ \A d \in Debuggers :
             /\ monitor'[d].at = monitor[d].at
             /\ d # m0 => monitor'[d] = monitor[d]
        /\ monitor'[m0].numwaiters = monitor[m0].numwaiters - 1
        /\ h.at = "send" => monitor'[m0].lock_sockfd = t
    <3>1. monitor[m0].numwaiters \in Nat \ {0} /\ monitor[m0] \in Monitors
      BY <2>5, <2>6, <2>7 DEF MonTypes
    <3>2. monitor[m0].numwaiters - 1 \in Nat
      BY <3>1
    <3>6. PICK m : /\ monitor' = [monitor EXCEPT ![m0] = m]
                   /\ m = [monitor[m0] EXCEPT
                     !.numwaiters = monitor[m0].numwaiters - 1,
                     !.lock_sockfd = IF monitor[m0].dying THEN NoOwner ELSE t,
                     !.at = IF monitor[m0].dying /\ monitor[m0].numwaiters = 0
                              THEN "freed" ELSE monitor[m0].at]
      BY <2>1
    <3>7. /\ m.at = monitor[m0].at /\ m.numwaiters = monitor[m0].numwaiters - 1
          /\ m.lock_sockfd = IF monitor[m0].dying THEN NoOwner ELSE t
          /\ m \in Monitors
      BY <3>1, <3>2, <3>6 DEF Monitors
    <3>8. monitor'[m0] = m
      BY <2>5, <3>6 DEF MonTypes
    <3>3. /\ monitor'[m0].at = monitor[m0].at /\ monitor'[m0].numwaiters = monitor[m0].numwaiters - 1
          /\ monitor'[m0].lock_sockfd = IF monitor[m0].dying THEN NoOwner ELSE t
          /\ monitor'[m0] \in Monitors
      BY <3>7, <3>8
    <3>4. \A d \in Debuggers \ {m0} : monitor'[d] = monitor[d]
      BY <2>1 DEF MonTypes
    <3>5. monitor' \in [Debuggers -> Monitors]
      BY <2>1, <3>3, <3>4 DEF MonTypes
    <3> QED BY <2>4, <3>3, <3>4, <3>5
  <2>9. \A u \in Threads : hit'[u] = IF u = t THEN h ELSE hit[u]
    BY <2>2 DEF MonTypes
  <2>10. MonTypes'
    BY <2>1, <2>2, <2>4, <2>8 DEF MonTypes
  <2>12. EntriesInv' /\ RegisterInv' /\ \A d \in Debuggers : InUse(d)' <=> InUse(d)
    BY <2>1, <2>8, LivesKept
  <2>11. UsersInv'
    <3> SUFFICES ASSUME NEW u \in Threads, hit'[u].at \in InHands PROVE InUse(hit[u].mon)'
      BY DEF UsersInv
    <3>1. CASE u = t
      <4>1. h.at \in InHands /\ hit'[u] = h
        BY <2>9, <3>1
      <4>2. h.mon = m0
        BY <2>4, <4>1 DEF InHands
      <4> QED BY <2>3, <2>5, <2>12, <4>1, <4>2 DEF InUse
    <3>2. CASE u # t
      <4>1. hit'[u] = hit[u] /\ InUse(hit[u].mon)
        BY <2>9, <3>2 DEF UsersInv
      <4>2. hit[u].mon \in Debuggers
        <5>1. hit[u] \in Hits /\ hit[u].at \in InHands
          BY <3>2, <4>1 DEF MonTypes
        <5> QED BY <5>1 DEF Hits, InHands
      <4> QED BY <2>12, <4>1, <4>2 DEF InUse
    <3> QED BY <3>1, <3>2
  <2>13. CountInv'
    <3> SUFFICES ASSUME NEW d \in Debuggers PROVE (monitor[d].numwaiters = Cardinality(Waiters(d)))'
      BY DEF CountInv
    <3>1. CASE d = m0
      BY <2>6, <2>7, <2>8, <3>1
    <3>2. CASE d # m0
      <4>1. Waiters(d)' = Waiters(d)
        BY <2>1, <2>2, <2>4, <3>2, SameWaiters
      <4> QED BY <2>8, <3>2, <4>1 DEF CountInv
    <3> QED BY <3>1, <3>2
  <2>14. HoldInv'
    <3> SUFFICES ASSUME NEW u \in Threads, hit'[u].at \in Owning
                 PROVE  monitor'[hit'[u].mon].lock_sockfd = u
      BY DEF HoldInv
    <3>1. CASE u = t
      BY <2>4, <2>8, <2>9, <3>1 DEF Owning
    <3>2. CASE u # t
      <4>1. hit'[u] = hit[u] /\ hit[u].mon \in Debuggers /\ monitor[hit[u].mon].lock_sockfd = u
        BY <2>9, <3>2 DEF MonTypes, Owning, Hits, HoldInv
      <4>2. hit[u].mon # m0
        BY <2>1, <4>1, DebugAssumption
      <4> QED BY <2>8, <4>1, <4>2
    <3> QED BY <3>1, <3>2
  <2>15. SweepInv'
    BY <2>1, <2>4, <2>9 DEF SweepInv, Swept
  <2>16. ChildInv'
    <3>1. Accepts(h)
      BY <2>1, <2>3, <2>4 DEF Accepts
    <3> QED BY <2>1, <2>9, <3>1 DEF ChildInv, Accepts
  <2> QED BY <2>10, <2>11, <2>12, <2>13, <2>14, <2>15, <2>16
<1>7. CASE SendEvent(t)
  <2>1. PICK where \in {"stop", "answer"} :
          /\ hit[t].at = "send" /\ hit' = [hit EXCEPT ![t].at = where]
          /\ UNCHANGED <<exists, missed, debug_monitor, monitor, registering>>
    BY <1>7 DEF SendEvent
  <2>2. ThreadMoves(t, where)
    BY <2>1 DEF ThreadMoves
  <2>3. hit[t].at = "send" /\ where \in Owning
    BY <2>1 DEF Owning
  <2> QED BY <2>1, <2>2, <2>3, MoveStep DEF MonTypes
<1>8. CASE TakeAnswer(t)
  <2>1. PICK d : /\ d = hit[t].mon
                 /\ hit[t].at = "answer" /\ UNCHANGED <<exists, missed, debug_monitor, registering>>
                 /\ \/ /\ monitor' = [monitor EXCEPT ![d].lock_sockfd = NoOwner]
                       /\ Returned(t, wire[d].ret)
                    \/ ThreadMoves(t, "stop") /\ UNCHANGED monitor
    BY <1>8 DEF TakeAnswer, ThreadMoves
  <2>2. CASE ThreadMoves(t, "stop") /\ UNCHANGED monitor
    BY <2>1, <2>2, MoveStep DEF MonTypes, Owning
  <2>3. CASE /\ monitor' = [monitor EXCEPT ![d].lock_sockfd = NoOwner]
             /\ Returned(t, wire[d].ret)
    <3>1. d \in Debuggers /\ monitor[d].lock_sockfd = t
      BY <2>1 DEF MonTypes, Hits, HoldInv, Owning
    <3>2. /\ monitor' \in [Debuggers -> Monitors]
          /\ \A e \in Debuggers :
               /\ monitor'[e].at = monitor[e].at /\ monitor'[e].numwaiters = monitor[e].numwaiters
               /\ \/ monitor'[e].lock_sockfd = monitor[e].lock_sockfd
                  \/ monitor[e].lock_sockfd = t
      BY <2>3, <3>1 DEF MonTypes, Monitors
    <3> QED BY <1>3, <2>1, <2>3, <3>2
  <2> QED BY <2>1, <2>2, <2>3
<1>9. CASE Stopping(t)
  <2>1. PICK d, h : /\ d = hit[t].mon /\ hit[t].at = "stop"
                    /\ h = [at |-> "sweep", mon |-> d, sock |-> 0, child |-> hit[t].child]
                    /\ hit' = [hit EXCEPT ![t] = h]
                    /\ monitor' = [monitor EXCEPT ![d].dying = TRUE]
                    /\ UNCHANGED <<exists, missed, debug_monitor, registering>>
    BY <1>9 DEF Stopping, At
  <2>2. d \in Debuggers /\ hit[t].child \in Children
    BY <2>1 DEF MonTypes, Hits
  <2>3. h \in Hits /\ h.at = "sweep" /\ h.mon = d /\ h.sock = 0
    BY <2>1, <2>2 DEF Hits
  <2>4. /\ monitor' \in [Debuggers -> Monitors]
        /\ \A e \in Debuggers :
             /\ monitor'[e].at = monitor[e].at /\ monitor'[e].numwaiters = monitor[e].numwaiters
             /\ monitor'[e].lock_sockfd = monitor[e].lock_sockfd
    <3>1. monitor'[d] = [monitor[d] EXCEPT !.dying = TRUE] /\ monitor[d] \in Monitors
      BY <2>1, <2>2 DEF MonTypes
    <3>2. /\ monitor'[d].at = monitor[d].at /\ monitor'[d].numwaiters = monitor[d].numwaiters
          /\ monitor'[d].lock_sockfd = monitor[d].lock_sockfd /\ monitor'[d] \in Monitors
      BY <3>1 DEF Monitors
    <3>3. \A e \in Debuggers \ {d} : monitor'[e] = monitor[e]
      BY <2>1 DEF MonTypes
    <3>4. monitor' \in [Debuggers -> Monitors]
      BY <2>1, <3>2, <3>3 DEF MonTypes
    <3> QED BY <3>2, <3>3, <3>4
  <2>5. Swept(h)' /\ Accepts(h)'
    BY <2>3 DEF Swept, Accepts, MonEntries
  <2>6. hit[t].at # "wait" /\ h.at # "wait" /\ hit[t].at \in InHands
    BY <2>1, <2>3 DEF InHands
  <2> QED BY <2>1, <2>3, <2>4, <2>5, <2>6, ThreadStep DEF MonTypes
<1>10. CASE SweepEntry(t)
  <2>1. PICK i, m, h :
          /\ i = hit[t].sock /\ m = hit[t].mon /\ h = [hit[t] EXCEPT !.sock = @ + 1]
          /\ hit[t].at = "sweep" /\ i < MonSockets
          /\ IF i \in exists
               THEN debug_monitor' = [debug_monitor EXCEPT ![i] = IF @ = m THEN NoMonitor ELSE @]
               ELSE UNCHANGED debug_monitor
          /\ hit' = [hit EXCEPT ![t] = h]
          /\ UNCHANGED <<exists, missed, monitor, registering>>
    BY <1>10 DEF SweepEntry
  <2>2. hit[t] \in [at : {"sweep"}, mon : Debuggers, sock : 0 .. MonSockets, child : Children]
    BY <2>1 DEF MonTypes, Hits
  <2>3. i \in MonEntries /\ i + 1 \in 0 .. MonSockets /\ m \in Debuggers
    BY <2>1, <2>2 DEF MonEntries
  <2>4. /\ h \in Hits /\ h.at = "sweep" /\ h.mon = m /\ h.sock = i + 1
    <3>1. h \in [at : {"sweep"}, mon : Debuggers, sock : 0 .. MonSockets, child : Children]
      BY <2>1, <2>2, <2>3
    <3> QED BY <2>1, <2>2, <3>1 DEF Hits
  <2>5. /\ debug_monitor' \in [MonEntries -> Debuggers \cup {NoMonitor}]
        /\ \A k \in MonEntries : debug_monitor'[k] \in {debug_monitor[k], NoMonitor}
        /\ debug_monitor'[i] # m
    <3>1. CASE i \in exists
      BY <2>1, <2>3, <3>1 DEF MonTypes
    <3>2. CASE i \notin exists
      BY <2>1, <2>3, <3>2 DEF MonTypes, EntriesInv
    <3> QED BY <3>1, <3>2
  <2>6. Swept(h)'
    <3> SUFFICES ASSUME NEW k \in MonEntries, k < i + 1
                 PROVE  debug_monitor'[k] # m \/ m \in missed'
      BY <2>4 DEF Swept
    <3>1. CASE k = i
      BY <2>5, <3>1
    <3>2. CASE k < i
      BY <2>1, <2>3, <2>5, <3>2 DEF SweepInv, Swept
    <3> QED BY <2>3, <3>1, <3>2 DEF MonEntries
  <2>7. Accepts(h)' /\ hit[t].at # "wait" /\ h.at # "wait" /\ hit[t].at \in InHands
    BY <2>1, <2>4 DEF Accepts, InHands
  <2> QED BY <2>1, <2>4, <2>5, <2>6, <2>7, ThreadStep DEF MonTypes
<1>11. CASE Destroy(t)
  BY <1>11, DestroyStep
<1>12. CASE CopyMonitor(t)
  BY <1>12, CopyStep
<1>13. CASE LookFreed(t)
  <2>1. PICK d, h : /\ d = debug_monitor[hit[t].sock] /\ d # NoMonitor /\ monitor[d].at = "freed"
                    /\ hit[t].at = "look" /\ h = [at |-> "undefined", mon |-> d]
                    /\ hit' = [hit EXCEPT ![t] = h]
                    /\ UNCHANGED <<exists, missed, debug_monitor, monitor, registering>>
    BY <1>13 DEF LookFreed, At
  <2>2. hit[t].sock \in MonEntries
    BY <2>1 DEF MonTypes, Hits
  <2>3. d \in Debuggers /\ d \in missed
    BY <2>1, <2>2 DEF MonTypes, EntriesInv, Listed
  <2>4. h \in Hits /\ h.at = "undefined" /\ h.mon = d
    BY <2>1, <2>3 DEF Hits
  <2>5. Swept(h)' /\ Accepts(h)'
    BY <2>1, <2>3, <2>4 DEF Swept, Accepts
  <2> QED BY <2>1, <2>4, <2>5, ThreadStep DEF MonTypes, InHands
<1> QED BY <1>1, <1>2, <1>4, <1>5, <1>6, <1>7, <1>8, <1>9, <1>10, <1>11, <1>12, <1>13 DEF Breakpoint

-----------------------------------------------------------------------------
(* The DEBUG request, and the debugger *)

\* What a debugger does by itself changes nothing of the daemon's.
LEMMA DebuggerSteps ==
  ASSUME MonitorInv, UNCHANGED <<daemonSide, registering>>
  PROVE  MonitorInv'
<1> USE DEF MonitorInv, daemonSide
<1>1. MonTypes' /\ UsersInv' /\ EntriesInv' /\ RegisterInv'
  BY DEF MonTypes, UsersInv, EntriesInv, RegisterInv, InUse, Listed
<1>2. CountInv'
  BY DEF CountInv, Waiters
<1>3. HoldInv' /\ SweepInv' /\ ChildInv'
  BY DEF HoldInv, SweepInv, Swept, ChildInv, Accepts
<1> QED BY <1>1, <1>2, <1>3

\* A monitor that is not registered yet has no users, so that nobody sees it come and go.
LEMMA RegisterStep ==
  ASSUME MonitorInv, NEW d \in Debuggers, NEW r, NEW m \in Monitors,
         registering[d].at # "done",
         monitor' = [monitor EXCEPT ![d] = m], m.numwaiters = monitor[d].numwaiters,
         registering' = [registering EXCEPT ![d] = r],
         \/ r.at = "refused" /\ r \in [at : {"refused"}, sock : MonEntries]
         \/ /\ r.at \in {"lock", "answer", "set"}
            /\ r \in [at : {"lock", "answer", "set"}, sock : MonEntries]
            /\ m.at = "live" /\ r.sock \in exists,
         UNCHANGED <<exists, missed, debug_monitor, hit>>
  PROVE  MonitorInv'
<1> USE DEF MonitorInv
<1>1. \A e \in Debuggers : /\ monitor'[e] = IF e = d THEN m ELSE monitor[e]
                           /\ registering'[e] = IF e = d THEN r ELSE registering[e]
  BY DEF MonTypes
<1>2. /\ \A t \in Threads : hit[t].at \in InHands => hit[t].mon \in Debuggers \ {d}
      /\ \A i \in MonEntries : debug_monitor[i] # NoMonitor => debug_monitor[i] \in Debuggers \ {d}
  BY DEF MonTypes, UsersInv, EntriesInv, InUse, Listed, InHands, Hits
<1>3. MonTypes'
  BY DEF MonTypes
<1>4. UsersInv' /\ EntriesInv'
  BY <1>1, <1>2 DEF UsersInv, EntriesInv, InUse, Listed
<1>5. RegisterInv'
  BY <1>1 DEF RegisterInv
<1>6. CountInv'
  <2>1. \A e \in Debuggers : Waiters(e)' = Waiters(e)
    BY DEF Waiters
  <2> QED BY <1>1, <2>1 DEF CountInv
<1>7. HoldInv'
  BY <1>1, <1>2 DEF HoldInv, InHands, Owning
<1>8. SweepInv' /\ ChildInv'
  BY DEF SweepInv, Swept, ChildInv, Accepts
<1> QED BY <1>3, <1>4, <1>5, <1>6, <1>7, <1>8

LEMMA RegisterSteps ==
  ASSUME MonitorInv, NEW d \in Debuggers,
         (\E i \in MonEntries : Debug(d, i)) \/ DebugLock(d) \/ DebugAnswer(d) \/ DebugSet(d)
  PROVE  MonitorInv'
<1> USE DEF MonitorInv
<1>1. /\ monitor[d] \in Monitors /\ [monitor[d] EXCEPT !.at = "freed"] \in Monitors
      /\ [monitor[d] EXCEPT !.at = "freed"].numwaiters = monitor[d].numwaiters
      /\ monitor = [monitor EXCEPT ![d] = monitor[d]]
  BY DEF MonTypes, Monitors
<1>2. CASE \E i \in MonEntries : Debug(d, i)
  <2>1. PICK i, r : /\ i \in exists /\ registering[d].at = "new" /\ r = [at |-> "lock", sock |-> i]
                    /\ monitor' = [monitor EXCEPT ![d] = Fresh]
                    /\ registering' = [registering EXCEPT ![d] = r]
                    /\ UNCHANGED <<exists, missed, debug_monitor, hit>>
    BY <1>2 DEF Debug
  <2>2. Waiters(d) = {}
    BY <2>1 DEF Waiters, UsersInv, InHands, InUse
  <2>3. monitor[d].numwaiters = 0
    BY <2>2, FS_EmptySet DEF CountInv
  <2>4. Fresh \in Monitors /\ Fresh.numwaiters = monitor[d].numwaiters /\ Fresh.at = "live"
    BY <2>3 DEF Fresh, Monitors
  <2>5. r \in [at : {"lock", "answer", "set"}, sock : MonEntries] /\ r.at = "lock" /\ r.sock = i
    BY <2>1 DEF MonTypes
  <2> QED BY <2>1, <2>4, <2>5, RegisterStep
<1>3. CASE DebugLock(d) \/ DebugAnswer(d)
  <2>1. /\ registering[d].at \in {"lock", "answer"}
        /\ \/ /\ monitor' = [monitor EXCEPT ![d].at = "freed"]
              /\ registering' = [registering EXCEPT ![d].at = "refused"]
           \/ /\ UNCHANGED monitor
              /\ \E at \in {"answer", "set"} : registering' = [registering EXCEPT ![d].at = at]
        /\ UNCHANGED <<exists, missed, debug_monitor, hit>>
    BY <1>3 DEF DebugLock, DebugAnswer
  <2>2. /\ registering[d] \in [at : {"lock", "refused", "answer", "set", "done"}, sock : MonEntries]
        /\ monitor[d].at = "live" /\ registering[d].sock \in exists
    BY <2>1 DEF MonTypes, RegisterInv
  <2>3. CASE /\ monitor' = [monitor EXCEPT ![d].at = "freed"]
             /\ registering' = [registering EXCEPT ![d].at = "refused"]
    <3>1. PICK m, r : /\ m = [monitor[d] EXCEPT !.at = "freed"] /\ monitor' = [monitor EXCEPT ![d] = m]
                      /\ r = [registering[d] EXCEPT !.at = "refused"]
                      /\ registering' = [registering EXCEPT ![d] = r]
      BY <2>3
    <3>2. r \in [at : {"refused"}, sock : MonEntries] /\ r.at = "refused"
      BY <2>2, <3>1
    <3>3. m \in Monitors /\ m.numwaiters = monitor[d].numwaiters
      BY <1>1, <3>1
    <3>4. registering[d].at # "done"
      BY <2>1
    <3> QED BY <2>1, <3>1, <3>2, <3>3, <3>4, RegisterStep
  <2>4. CASE /\ UNCHANGED monitor
             /\ \E at \in {"answer", "set"} : registering' = [registering EXCEPT ![d].at = at]
    <3>1. PICK at, r : /\ at \in {"answer", "set"} /\ r = [registering[d] EXCEPT !.at = at]
                       /\ registering' = [registering EXCEPT ![d] = r]
      BY <2>4
    <3>2. /\ r \in [at : {"lock", "answer", "set"}, sock : MonEntries]
          /\ r.at \in {"lock", "answer", "set"} /\ r.sock \in exists
      BY <2>2, <3>1
    <3>3. registering[d].at # "done" /\ monitor' = [monitor EXCEPT ![d] = monitor[d]]
      BY <1>1, <2>1, <2>4
    <3> QED BY <1>1, <2>1, <2>2, <3>1, <3>2, <3>3, RegisterStep
  <2> QED BY <2>1, <2>3, <2>4
<1>4. CASE DebugSet(d)
  \* Nothing has this monitor yet, so that no sweep is looking for it.
  <2>1. PICK i, r : /\ i = registering[d].sock /\ registering[d].at = "set"
                    /\ debug_monitor' = [debug_monitor EXCEPT ![i] = d]
                    /\ r = [registering[d] EXCEPT !.at = "done"]
                    /\ registering' = [registering EXCEPT ![d] = r]
                    /\ UNCHANGED <<exists, missed, monitor, hit>>
    BY <1>4 DEF DebugSet
  <2>2. /\ registering[d] \in [at : {"lock", "refused", "answer", "set", "done"}, sock : MonEntries]
        /\ monitor[d].at = "live" /\ i \in exists
    BY <2>1 DEF MonTypes, RegisterInv
  <2>3. /\ r \in [at : {"lock", "refused", "answer", "set", "done"}, sock : MonEntries]
        /\ r.at = "done" /\ i \in MonEntries
    BY <2>1, <2>2 DEF MonTypes
  <2>4. /\ \A k \in MonEntries : debug_monitor'[k] = IF k = i THEN d ELSE debug_monitor[k]
        /\ \A e \in Debuggers : registering'[e] = IF e = d THEN r ELSE registering[e]
    BY <2>1, <2>3 DEF MonTypes
  <2>5. \A t \in Threads : hit[t].at \in InHands => hit[t].mon \in Debuggers \ {d}
    BY <2>1 DEF MonTypes, UsersInv, InUse, InHands, Hits
  <2>6. MonTypes'
    BY <2>1, <2>3 DEF MonTypes
  <2>7. UsersInv' /\ EntriesInv'
    BY <2>1, <2>2, <2>3, <2>4 DEF UsersInv, EntriesInv, InUse, Listed, MonTypes
  <2>8. RegisterInv'
    BY <2>1, <2>3, <2>4 DEF RegisterInv
  <2>9. CountInv' /\ HoldInv' /\ ChildInv'
    BY <2>1 DEF CountInv, Waiters, HoldInv, ChildInv, Accepts
  <2>10. SweepInv'
    BY <2>1, <2>4, <2>5 DEF SweepInv, Swept, InHands
  <2> QED BY <2>6, <2>7, <2>8, <2>9, <2>10
<1> QED BY <1>2, <1>3, <1>4

-----------------------------------------------------------------------------

\* Invariance of what keeps the monitors: the users are registered and alive, numwaiters counts
\* the waiting threads, lock_sockfd has one holder, and a sweep leaves no entry behind but one
\* that ACCEPT has written since (breakpoint.c, handlers.c:638).
THEOREM MonitorInvariance == DebugSpec => []MonitorInv
<1>1. MonitorInv /\ [DebugNext]_debugVars => MonitorInv'
  <2> SUFFICES ASSUME MonitorInv, [DebugNext]_debugVars PROVE MonitorInv'
    OBVIOUS
  <2>1. CASE \E t \in Threads : Breakpoint(t)
    BY <2>1, BreakpointSteps
  <2>2. ASSUME NEW d \in Debuggers,
               (\E i \in MonEntries : Debug(d, i)) \/ DebugLock(d) \/ DebugAnswer(d) \/ DebugSet(d)
        PROVE  MonitorInv'
    BY <2>2, RegisterSteps
  <2>3. ASSUME NEW d \in Debuggers, DebugThread(d) \/ Die(d) PROVE MonitorInv'
    <3>1. UNCHANGED <<daemonSide, registering>>
      BY <2>3 DEF DebugThread, Die, EventAccept, Event, AwaitActive, Answer, Quit, Kill, Killed
    <3> QED BY <3>1, DebuggerSteps
  <2>4. ASSUME NEW d \in Debuggers, NEW i \in MonEntries,
               (\E r \in {"NONE", "DROP", "STOP"} : HandleEvent(d, i, r)) \/ HandleKill(d, i)
        PROVE  MonitorInv'
    <3>1. UNCHANGED <<daemonSide, registering>>
      BY <2>4 DEF HandleEvent, HandleKill
    <3> QED BY <3>1, DebuggerSteps
  <2>5. CASE UNCHANGED debugVars
    BY <2>5, DebuggerSteps DEF debugVars, daemonSide
  <2> QED BY <2>1, <2>2, <2>3, <2>4, <2>5 DEF DebugNext
<1> QED BY <1>1, InitHolds, PTL DEF DebugSpec

\* breakpoint.c:83's promise: no thread at a breakpoint has a monitor in its hands that another
\* thread has freed, and no entry has one, unless ACCEPT has copied it behind the sweep that took
\* it out of the table (handlers.c:638).
THEOREM MonitorsOutlive == DebugSpec => []MonitorOutlivesItsUsers
<1>1. MonitorInv => MonitorOutlivesItsUsers
  BY DEF MonitorInv, MonTypes, UsersInv, EntriesInv, SweepInv, Swept, InUse, Listed, InHands,
         MonitorOutlivesItsUsers
<1> QED BY <1>1, MonitorInvariance, PTL

-----------------------------------------------------------------------------
(* The debugger's own threads *)

Running == {"recv", "await", "reply", "quit", "killed"}
DebugAnswers == {"NONE", "DROP", "ACCEPT_MONITOR", "STOP"}
Wires ==
  [at : {"idle"}] \cup [at : {"event"}, sock : MonEntries, new : Children]
    \cup [at : {"answer"}, ret : DebugAnswers]
DebugThreads ==
  [at : {"none", "exited", "dead"}]
    \cup [at : Running, passive : BOOLEAN, first : BOOLEAN, list : SUBSET MonEntries,
          ret : DebugAnswers]
ActiveThreads ==
  [at : {"none", "wait", "exited"}, event_flag : {"NONE", "EVENT", "KILL"},
   response : {"UNSET"} \cup DebugAnswers]

DebuggerTypes ==
  /\ wire \in [Debuggers -> Wires]
  /\ debugger \in [Debuggers -> DebugThreads]
  /\ active \in [Debuggers -> [MonEntries -> ActiveThreads]]

\* The life of an active thread: it sleeps; it has been given an event, and has answered it or
\* ended with STOP; it has been told to end; it is not there.
Ready(a) == a.at = "wait" /\ a.event_flag = "NONE" /\ a.response = "UNSET"
Asked(a) ==
  \/ a.at = "wait" /\ a.event_flag = "EVENT" /\ a.response = "UNSET"
  \/ a.at = "wait" /\ a.event_flag = "NONE" /\ a.response \notin {"UNSET", "STOP"}
  \/ a.at = "exited" /\ a.event_flag = "NONE" /\ a.response = "STOP"
Told(a) == a.at = "wait" /\ a.event_flag = "KILL"
DebuggerEnded(a) == a.at \in {"none", "exited"} /\ a.event_flag = "NONE"

\* The thread of socket i, while the thread of the connection is at D with W on the wire: those
\* in its list sleep, but for the one whose answer is awaited, and no other is there, but for
\* the one being joined.
Fits(D, W, i, a) ==
  IF D.at \in Running /\ i \in D.list
    THEN IF D.at = "await" /\ i = W.sock THEN Asked(a) ELSE Ready(a)
    ELSE DebuggerEnded(a) \/ (D.at = "killed" /\ Told(a))

\* An event stays on the wire until it is answered, and it is awaited from a thread of the list.
Attends(D, W) ==
  /\ D.at \in {"await", "reply"} => W.at = "event"
  /\ D.at = "await" => W.sock \in D.list

\* Only a registered debugger runs; and what is on the wire is the concern of one thread of the
\* daemon, which waits for the answer.
StartInv(d) == debugger[d].at # "none" => registering[d].at \in {"set", "done"}
WireInv(d) == wire[d].at # "idle" => \E t \in Threads : hit[t].at = "answer" /\ hit[t].mon = d

DebuggerInv ==
  /\ DebuggerTypes
  /\ \A d \in Debuggers :
       /\ StartInv(d) /\ WireInv(d) /\ Attends(debugger[d], wire[d])
       /\ \A i \in MonEntries : Fits(debugger[d], wire[d], i, active[d][i])

\* At the start no debugger runs.
LEMMA DebuggerInit == DebugInit => DebuggerInv
<1> SUFFICES ASSUME DebugInit PROVE DebuggerInv
  OBVIOUS
<1>1. NoThreadYet \in ActiveThreads /\ DebuggerEnded(NoThreadYet)
  BY DEF NoThreadYet, ActiveThreads, DebuggerEnded
<1>2. DebuggerTypes
  BY <1>1 DEF DebugInit, DebuggerTypes, Wires, DebugThreads
<1>3. ASSUME NEW d \in Debuggers
      PROVE  /\ StartInv(d) /\ WireInv(d) /\ Attends(debugger[d], wire[d])
             /\ \A i \in MonEntries : Fits(debugger[d], wire[d], i, active[d][i])
  BY <1>1, <1>3 DEF DebugInit, StartInv, WireInv, Attends, Fits, Running
<1> QED BY <1>2, <1>3 DEF DebuggerInv

\* A step of one debugger's threads, which the daemon does not see but for an answer.
LEMMA OneDebugger ==
  ASSUME DebuggerInv, NEW d \in Debuggers,
         NEW D \in DebugThreads, NEW W \in Wires, NEW A \in [MonEntries -> ActiveThreads],
         debugger' = [debugger EXCEPT ![d] = D], wire' = [wire EXCEPT ![d] = W],
         active' = [active EXCEPT ![d] = A], UNCHANGED <<hit, registering>>,
         D.at # "none", debugger[d].at # "none", W.at # "idle" => wire[d].at # "idle",
         Attends(D, W), \A i \in MonEntries : Fits(D, W, i, A[i])
  PROVE  DebuggerInv'
<1>1. DebuggerTypes'
  BY DEF DebuggerInv, DebuggerTypes
<1>2. /\ debugger'[d] = D /\ wire'[d] = W /\ active'[d] = A
      /\ \A e \in Debuggers \ {d} :
           debugger'[e] = debugger[e] /\ wire'[e] = wire[e] /\ active'[e] = active[e]
  BY DEF DebuggerInv, DebuggerTypes
<1>3. ASSUME NEW e \in Debuggers
      PROVE  StartInv(e)' /\ WireInv(e)' /\ Attends(debugger'[e], wire'[e])
  BY <1>2 DEF DebuggerInv, StartInv, WireInv
<1>4. ASSUME NEW e \in Debuggers, NEW i \in MonEntries
      PROVE  Fits(debugger'[e], wire'[e], i, active'[e][i])
  BY <1>2 DEF DebuggerInv
<1> QED BY <1>1, <1>3, <1>4 DEF DebuggerInv

\* The connection's thread moves on, and its active threads stay as they are.
LEMMA ThreadGoesOn ==
  ASSUME DebuggerInv, NEW d \in Debuggers, NEW D \in DebugThreads,
         Step(d, D), UNCHANGED <<daemonSide, registering, wire, active>>,
         D.at # "none", debugger[d].at # "none", Attends(D, wire[d]),
         \A i \in MonEntries : Fits(D, wire[d], i, active[d][i])
  PROVE  DebuggerInv'
<1>1. /\ wire[d] \in Wires /\ active[d] \in [MonEntries -> ActiveThreads]
      /\ wire' = [wire EXCEPT ![d] = wire[d]] /\ active' = [active EXCEPT ![d] = active[d]]
      /\ UNCHANGED <<hit, registering>>
  BY DEF DebuggerInv, DebuggerTypes, daemonSide
<1> QED BY <1>1, OneDebugger DEF Step

\* One active thread moves, and the connection's with it.
LEMMA OneActiveThread ==
  ASSUME DebuggerInv, NEW d \in Debuggers, NEW k \in MonEntries,
         NEW D \in DebugThreads, NEW a \in ActiveThreads,
         debugger' = [debugger EXCEPT ![d] = D], active' = [active EXCEPT ![d][k] = a],
         UNCHANGED <<daemonSide, registering, wire>>,
         D.at # "none", debugger[d].at # "none", Attends(D, wire[d]), Fits(D, wire[d], k, a),
         \A i \in MonEntries \ {k} : Fits(D, wire[d], i, active[d][i])
  PROVE  DebuggerInv'
<1> DEFINE A == [active[d] EXCEPT ![k] = a]
<1>1. /\ wire[d] \in Wires /\ A \in [MonEntries -> ActiveThreads]
      /\ wire' = [wire EXCEPT ![d] = wire[d]] /\ active' = [active EXCEPT ![d] = A]
      /\ UNCHANGED <<hit, registering>>
  BY DEF DebuggerInv, DebuggerTypes, daemonSide
<1>2. \A i \in MonEntries : A[i] = IF i = k THEN a ELSE active[d][i]
  BY DEF DebuggerInv, DebuggerTypes
<1>3. \A i \in MonEntries : Fits(D, wire[d], i, A[i])
  BY <1>2
<1> HIDE DEF A
<1> QED BY <1>1, <1>3, OneDebugger

\* What a running thread of a connection is.
LEMMA RunningThread ==
  ASSUME DebuggerInv, NEW d \in Debuggers, debugger[d].at \in Running
  PROVE  /\ debugger[d] \in [at : Running, passive : BOOLEAN, first : BOOLEAN,
                             list : SUBSET MonEntries, ret : DebugAnswers]
         /\ \A i \in debugger[d].list : i \in MonEntries
         /\ wire[d] \in Wires
         /\ \A i \in MonEntries : /\ active[d][i] \in ActiveThreads
                                  /\ Fits(debugger[d], wire[d], i, active[d][i])
BY DEF DebuggerInv, DebuggerTypes, DebugThreads, Running

\* A pending connection: the handler may ask for a thread of the new socket.
LEMMA EventAcceptStep ==
  ASSUME DebuggerInv, NEW d \in Debuggers, NEW r \in {"NONE", "ACCEPT_MONITOR", "STOP"},
         EventAccept(d, r)
  PROVE  DebuggerInv'
<1>1. debugger[d].at = "recv" /\ wire[d].at = "event" /\ wire[d].new # NoChild
  BY DEF EventAccept
<1>2. /\ debugger[d] \in [at : Running, passive : BOOLEAN, first : BOOLEAN,
                          list : SUBSET MonEntries, ret : DebugAnswers]
      /\ wire[d].new \in MonEntries
      /\ \A i \in MonEntries : /\ active[d][i] \in ActiveThreads
                               /\ Fits(debugger[d], wire[d], i, active[d][i])
  BY <1>1, RunningThread DEF Running, Wires, Children
<1> DEFINE seen == [debugger[d] EXCEPT !.passive = TRUE, !.first = FALSE, !.ret = r]
           i == wire[d].new
<1>3. /\ seen \in [at : Running, passive : BOOLEAN, first : BOOLEAN,
                   list : SUBSET MonEntries, ret : DebugAnswers]
      /\ seen.list = debugger[d].list
  BY <1>2 DEF DebugAnswers
<1>4. UNCHANGED <<daemonSide, registering, wire>>
  BY DEF EventAccept
<1>5. CASE r = "ACCEPT_MONITOR"
  <2> DEFINE D == [seen EXCEPT !.at = "reply", !.list = @ \cup {i}]
             a == [NoThreadYet EXCEPT !.at = "wait"]
  <2>1. Step(d, D) /\ active' = [active EXCEPT ![d][i] = a]
    BY <1>5 DEF EventAccept
  <2>2. /\ D \in DebugThreads /\ D.at = "reply" /\ D.list = debugger[d].list \cup {i}
    BY <1>2, <1>3 DEF DebugThreads, Running
  <2>3. a \in ActiveThreads /\ Ready(a)
    BY DEF NoThreadYet, ActiveThreads, Ready
  <2>4. /\ Attends(D, wire[d]) /\ Fits(D, wire[d], i, a)
        /\ \A k \in MonEntries \ {i} : Fits(D, wire[d], k, active[d][k])
    <3> HIDE DEF D, a, seen
    <3> QED BY <1>1, <1>2, <2>2, <2>3 DEF Attends, Fits, Running
  <2> HIDE DEF D, a, seen, i
  <2> QED BY <1>1, <1>2, <1>4, <2>1, <2>2, <2>3, <2>4, OneActiveThread DEF Step, i
<1>6. CASE r # "ACCEPT_MONITOR"
  <2>1. PICK at \in {"quit", "reply"} :
          Step(d, [seen EXCEPT !.at = at]) /\ UNCHANGED active
    BY <1>6 DEF EventAccept
  <2> DEFINE D == [seen EXCEPT !.at = at]
  <2>2. D \in DebugThreads /\ D.at = at /\ D.list = debugger[d].list
    BY <1>2, <1>3 DEF DebugThreads, Running
  <2>3. /\ Attends(D, wire[d])
        /\ \A k \in MonEntries : Fits(D, wire[d], k, active[d][k])
    <3> HIDE DEF D, seen
    <3> QED BY <1>1, <1>2, <2>2 DEF Attends, Fits, Running
  <2>4. Step(d, D)
    BY <2>1
  <2> HIDE DEF D, seen
  <2> QED BY <1>1, <1>4, <2>1, <2>2, <2>3, <2>4, ThreadGoesOn
<1> QED BY <1>5, <1>6

\* Another event: it is given to the thread of its socket, which the first one makes.
LEMMA EventStep ==
  ASSUME DebuggerInv, NEW d \in Debuggers, Event(d)
  PROVE  DebuggerInv'
<1>1. debugger[d].at = "recv" /\ wire[d].at = "event"
  BY DEF Event
<1>2. /\ debugger[d] \in [at : Running, passive : BOOLEAN, first : BOOLEAN,
                          list : SUBSET MonEntries, ret : DebugAnswers]
      /\ wire[d].sock \in MonEntries
      /\ \A i \in MonEntries : /\ active[d][i] \in ActiveThreads
                               /\ Fits(debugger[d], wire[d], i, active[d][i])
  BY <1>1, RunningThread DEF Running, Wires
<1> DEFINE i == wire[d].sock
           list == IF debugger[d].first THEN debugger[d].list \cup {i} ELSE debugger[d].list
           D == [debugger[d] EXCEPT !.at = IF i \in list THEN "await" ELSE "reply",
                                    !.first = FALSE, !.list = list]
           a == IF i \notin list THEN active[d][i]
                ELSE [(IF debugger[d].first THEN [NoThreadYet EXCEPT !.at = "wait"] ELSE active[d][i])
                        EXCEPT !.event_flag = "EVENT"]
<1>3. /\ debugger' = [debugger EXCEPT ![d] = D] /\ active' = [active EXCEPT ![d][i] = a]
      /\ UNCHANGED <<daemonSide, registering, wire>>
  <2>1. active' = [active EXCEPT ![d] = [active[d] EXCEPT ![i] = a]]
    BY <1>2 DEF Event, DebuggerInv, DebuggerTypes
  <2> QED BY <2>1 DEF Event, Step
<1>4. /\ list \in SUBSET MonEntries /\ (i \in list => i \in debugger[d].list \/ debugger[d].first)
      /\ \A k \in MonEntries : k # i => (k \in list <=> k \in debugger[d].list)
      /\ i \notin list => i \notin debugger[d].list
  BY <1>2
<1>5. /\ D \in DebugThreads /\ D.list = list
      /\ D.at = IF i \in list THEN "await" ELSE "reply"
  <2> HIDE DEF list
  <2> QED BY <1>2, <1>4 DEF DebugThreads, Running
<1>6. /\ a \in ActiveThreads
      /\ i \in list => Asked(a)
      /\ i \notin list => a = active[d][i]
  <2>1. CASE i \notin list
    BY <1>2, <2>1
  <2>2. CASE i \in list /\ debugger[d].first
    <3>1. a = [at |-> "wait", event_flag |-> "EVENT", response |-> "UNSET"]
      <4> HIDE DEF list
      <4> QED BY <2>2 DEF NoThreadYet
    <3> QED BY <2>2, <3>1 DEF ActiveThreads, Asked
  <2>3. CASE i \in list /\ ~debugger[d].first
    <3>1. i \in debugger[d].list
      BY <1>4, <2>3
    <3>2. Ready(active[d][i]) /\ active[d][i] \in ActiveThreads
      BY <1>1, <1>2, <3>1 DEF Fits, Running
    <3>3. a = [active[d][i] EXCEPT !.event_flag = "EVENT"]
      <4> HIDE DEF list
      <4> QED BY <2>3
    <3> QED BY <2>3, <3>2, <3>3 DEF ActiveThreads, Asked, Ready
  <2> QED BY <2>1, <2>2, <2>3
<1>7. /\ Attends(D, wire[d]) /\ Fits(D, wire[d], i, a)
      /\ \A k \in MonEntries \ {i} : Fits(D, wire[d], k, active[d][k])
  <2> HIDE DEF D, a, list
  <2>1. Attends(D, wire[d])
    BY <1>1, <1>5 DEF Attends
  <2>2. ASSUME NEW k \in MonEntries
        PROVE  /\ k \in debugger[d].list => Ready(active[d][k])
               /\ k \notin debugger[d].list => DebuggerEnded(active[d][k])
    BY <1>1, <1>2 DEF Fits, Running
  <2>3. Fits(D, wire[d], i, a)
    <3>1. CASE i \in list
      BY <1>5, <1>6, <3>1 DEF Fits, Running
    <3>2. CASE i \notin list
      BY <1>2, <1>4, <1>5, <1>6, <2>2, <3>2 DEF Fits, Running
    <3> QED BY <3>1, <3>2
  <2>4. ASSUME NEW k \in MonEntries, k # i PROVE Fits(D, wire[d], k, active[d][k])
    <3>1. k \in list <=> k \in debugger[d].list
      BY <1>4, <2>4
    <3> QED BY <1>5, <2>2, <2>4, <3>1 DEF Fits, Running
  <2> QED BY <2>1, <2>3, <2>4
<1>8. D.at # "none" /\ debugger[d].at # "none"
  BY <1>1, <1>5
<1> HIDE DEF D, a, i, list
<1> QED BY <1>2, <1>3, <1>5, <1>6, <1>7, <1>8, OneActiveThread DEF i

\* The answer of an active thread; one that ends is taken off the list.
LEMMA AwaitActiveStep ==
  ASSUME DebuggerInv, NEW d \in Debuggers, AwaitActive(d)
  PROVE  DebuggerInv'
<1>1. debugger[d].at = "await" /\ wire[d].at = "event" /\ wire[d].sock \in debugger[d].list
  BY DEF AwaitActive, DebuggerInv, Attends
<1>2. /\ debugger[d] \in [at : Running, passive : BOOLEAN, first : BOOLEAN,
                          list : SUBSET MonEntries, ret : DebugAnswers]
      /\ wire[d].sock \in MonEntries
      /\ \A i \in MonEntries : /\ active[d][i] \in ActiveThreads
                               /\ Fits(debugger[d], wire[d], i, active[d][i])
  BY <1>1, RunningThread DEF Running
<1> DEFINE i == wire[d].sock
           r == active[d][i].response
           D == [debugger[d] EXCEPT !.ret = r,
             !.list = IF r = "STOP" THEN @ \ {i} ELSE @,
             !.at = IF r = "STOP" /\ ~debugger[d].passive THEN "quit" ELSE "reply"]
           a == [active[d][i] EXCEPT !.response = "UNSET"]
<1>3. /\ debugger' = [debugger EXCEPT ![d] = D] /\ active' = [active EXCEPT ![d][i] = a]
      /\ UNCHANGED <<daemonSide, registering, wire>>
  <2>1. active' = [active EXCEPT ![d] = [active[d] EXCEPT ![i] = a]]
    BY <1>2 DEF AwaitActive, DebuggerInv, DebuggerTypes
  <2> QED BY <2>1 DEF AwaitActive, Step
<1>4. /\ r # "UNSET" /\ r \in DebugAnswers
      /\ a \in ActiveThreads /\ a.at = active[d][i].at
      /\ a.event_flag = active[d][i].event_flag /\ a.response = "UNSET"
  <2>1. r # "UNSET"
    BY DEF AwaitActive
  <2>2. active[d][i] \in ActiveThreads
    BY <1>2
  <2> QED BY <2>1, <2>2 DEF ActiveThreads
<1>5. /\ D \in DebugThreads /\ D.at \in {"quit", "reply"}
      /\ D.list = IF r = "STOP" THEN debugger[d].list \ {i} ELSE debugger[d].list
  <2> HIDE DEF r
  <2> QED BY <1>2, <1>4 DEF DebugThreads, Running
<1>6. r = "STOP" => a.at = "exited"
  BY <1>4 DEF AwaitActive
<1>7. Asked(active[d][i])
  BY <1>1, <1>2 DEF Fits
<1>8. /\ r # "STOP" => Ready(a)
      /\ r = "STOP" => DebuggerEnded(a)
  BY <1>4, <1>6, <1>7 DEF Asked, Ready, DebuggerEnded
<1>9. /\ Attends(D, wire[d]) /\ Fits(D, wire[d], i, a)
      /\ \A k \in MonEntries \ {i} : Fits(D, wire[d], k, active[d][k])
  <2> HIDE DEF D, a, r
  <2>1. Attends(D, wire[d])
    BY <1>1, <1>5 DEF Attends
  <2>2. Fits(D, wire[d], i, a)
    BY <1>1, <1>5, <1>8 DEF Fits, Running
  <2>3. \A k \in MonEntries \ {i} : Fits(D, wire[d], k, active[d][k])
    BY <1>1, <1>2, <1>5 DEF Fits, Running
  <2> QED BY <2>1, <2>2, <2>3
<1>10. D.at # "none" /\ debugger[d].at # "none"
  BY <1>1, <1>5
<1> HIDE DEF D, a, i, r
<1> QED BY <1>2, <1>3, <1>4, <1>5, <1>9, <1>10, OneActiveThread DEF i

\* The answer goes out.
LEMMA AnswerStep ==
  ASSUME DebuggerInv, NEW d \in Debuggers, Answer(d)
  PROVE  DebuggerInv'
<1>1. debugger[d].at = "reply" /\ wire[d].at = "event"
  BY DEF Answer, DebuggerInv, Attends
<1>2. /\ debugger[d] \in [at : Running, passive : BOOLEAN, first : BOOLEAN,
                          list : SUBSET MonEntries, ret : DebugAnswers]
      /\ \A i \in MonEntries : Fits(debugger[d], wire[d], i, active[d][i])
  BY <1>1, RunningThread DEF Running
<1> DEFINE D == [debugger[d] EXCEPT !.at = "recv"]
           W == [at |-> "answer", ret |-> debugger[d].ret]
<1>3. D \in DebugThreads /\ D.at = "recv" /\ D.list = debugger[d].list
  BY <1>2 DEF DebugThreads, Running
<1>4. W \in Wires /\ W.at = "answer"
  BY <1>2 DEF Wires
<1>5. /\ debugger' = [debugger EXCEPT ![d] = D] /\ wire' = [wire EXCEPT ![d] = W]
      /\ active[d] \in [MonEntries -> ActiveThreads] /\ active' = [active EXCEPT ![d] = active[d]]
      /\ UNCHANGED <<hit, registering>>
  BY DEF Answer, Step, daemonSide, DebuggerInv, DebuggerTypes
<1> HIDE DEF D, W
<1>6. Attends(D, W) /\ \A i \in MonEntries : Fits(D, W, i, active[d][i])
  BY <1>1, <1>2, <1>3 DEF Attends, Fits, Running
<1> QED BY <1>1, <1>3, <1>4, <1>5, <1>6, OneDebugger

\* The end of a debugger's thread: those that are left are told to end and joined.
LEMMA QuitSteps ==
  ASSUME DebuggerInv, NEW d \in Debuggers, Quit(d) \/ Kill(d) \/ Killed(d)
  PROVE  DebuggerInv'
<1>1. debugger[d].at \in {"quit", "killed"} /\ UNCHANGED <<daemonSide, registering, wire>>
  BY DEF Quit, Kill, Killed
<1>2. /\ debugger[d] \in [at : Running, passive : BOOLEAN, first : BOOLEAN,
                          list : SUBSET MonEntries, ret : DebugAnswers]
      /\ \A i \in MonEntries : /\ active[d][i] \in ActiveThreads
                               /\ Fits(debugger[d], wire[d], i, active[d][i])
  BY <1>1, RunningThread DEF Running
<1>3. CASE Quit(d)
  <2> DEFINE D == [at |-> "exited"]
  <2>1. Step(d, D) /\ UNCHANGED active /\ debugger[d].at = "quit" /\ debugger[d].list = {}
    BY <1>3 DEF Quit
  <2>2. D \in DebugThreads /\ D.at = "exited"
    BY DEF DebugThreads
  <2> HIDE DEF D
  <2>3. Attends(D, wire[d]) /\ \A i \in MonEntries : Fits(D, wire[d], i, active[d][i])
    BY <1>2, <2>1, <2>2 DEF Attends, Fits, Running
  <2> QED BY <1>1, <2>1, <2>2, <2>3, ThreadGoesOn
<1>4. CASE Kill(d)
  <2>1. PICK i \in debugger[d].list :
          /\ active' = [active EXCEPT ![d][i].event_flag = "KILL"]
          /\ Step(d, [debugger[d] EXCEPT !.at = "killed", !.list = @ \ {i}])
    BY <1>4 DEF Kill
  <2>2. debugger[d].at = "quit"
    BY <1>4 DEF Kill
  <2>3. i \in MonEntries
    BY <1>2
  <2> DEFINE D == [debugger[d] EXCEPT !.at = "killed", !.list = @ \ {i}]
             a == [active[d][i] EXCEPT !.event_flag = "KILL"]
  <2>4. active' = [active EXCEPT ![d][i] = a]
    BY <2>1
  <2>5. D \in DebugThreads /\ D.at = "killed" /\ D.list = debugger[d].list \ {i}
    BY <1>2, <2>3 DEF DebugThreads, Running
  <2>6. Ready(active[d][i]) /\ active[d][i] \in ActiveThreads
    BY <1>2, <2>2, <2>3 DEF Fits, Running
  <2>7. a \in ActiveThreads /\ Told(a)
    BY <2>6 DEF ActiveThreads, Ready, Told
  <2>8. debugger' = [debugger EXCEPT ![d] = D]
    BY <2>1 DEF Step
  <2> HIDE DEF D, a
  <2>9. /\ Attends(D, wire[d]) /\ Fits(D, wire[d], i, a)
        /\ \A k \in MonEntries \ {i} : Fits(D, wire[d], k, active[d][k])
    BY <1>2, <2>2, <2>5, <2>7 DEF Attends, Fits, Running
  <2> QED BY <1>1, <2>2, <2>3, <2>4, <2>5, <2>7, <2>8, <2>9, OneActiveThread
<1>5. CASE Killed(d)
  <2> DEFINE D == [debugger[d] EXCEPT !.at = "quit"]
  <2>1. /\ Step(d, D) /\ UNCHANGED active /\ debugger[d].at = "killed"
        /\ \A i \in MonEntries : active[d][i].event_flag # "KILL"
    BY <1>5 DEF Killed
  <2>2. D \in DebugThreads /\ D.at = "quit" /\ D.list = debugger[d].list
    BY <1>2 DEF DebugThreads, Running
  <2> HIDE DEF D
  <2>3. Attends(D, wire[d]) /\ \A i \in MonEntries : Fits(D, wire[d], i, active[d][i])
    BY <1>2, <2>1, <2>2 DEF Attends, Fits, Running, Told
  <2> QED BY <1>1, <2>1, <2>2, <2>3, ThreadGoesOn
<1> QED BY <1>3, <1>4, <1>5

\* An active thread answers its event, or ends as it was told.
LEMMA HandleSteps ==
  ASSUME DebuggerInv, NEW d \in Debuggers, NEW i \in MonEntries,
         (\E r \in {"NONE", "DROP", "STOP"} : HandleEvent(d, i, r)) \/ HandleKill(d, i)
  PROVE  DebuggerInv'
<1>1. /\ UNCHANGED <<daemonSide, registering, wire, debugger>> /\ active[d][i].at = "wait"
      /\ active[d][i].event_flag \in {"EVENT", "KILL"}
  BY DEF HandleEvent, HandleKill
<1>2. /\ debugger[d] \in DebugThreads /\ active[d][i] \in ActiveThreads
      /\ Attends(debugger[d], wire[d])
      /\ \A k \in MonEntries : Fits(debugger[d], wire[d], k, active[d][k])
      /\ debugger' = [debugger EXCEPT ![d] = debugger[d]]
  BY <1>1 DEF DebuggerInv, DebuggerTypes
<1>3. /\ debugger[d].at \in Running
      /\ \/ /\ i \in debugger[d].list /\ debugger[d].at = "await" /\ i = wire[d].sock
            /\ Asked(active[d][i])
         \/ i \notin debugger[d].list /\ debugger[d].at = "killed" /\ Told(active[d][i])
  BY <1>1, <1>2 DEF Fits, Ready, DebuggerEnded, Running
<1>4. PICK a \in ActiveThreads :
        /\ active' = [active EXCEPT ![d][i] = a]
        /\ Fits(debugger[d], wire[d], i, a)
  <2>1. CASE \E r \in {"NONE", "DROP", "STOP"} : HandleEvent(d, i, r)
    <3>1. PICK r \in {"NONE", "DROP", "STOP"} : HandleEvent(d, i, r)
      BY <2>1
    <3> DEFINE a == [at |-> IF r = "STOP" THEN "exited" ELSE "wait", event_flag |-> "NONE",
                     response |-> r]
    <3>2. a \in ActiveThreads /\ Asked(a)
      BY DEF ActiveThreads, Asked, DebugAnswers
    <3>3. active' = [active EXCEPT ![d][i] = a] /\ active[d][i].event_flag = "EVENT"
      BY <3>1 DEF HandleEvent
    <3> HIDE DEF a
    <3> QED BY <1>3, <3>2, <3>3 DEF Fits, Told
  <2>2. CASE HandleKill(d, i)
    <3> DEFINE a == [at |-> "exited", event_flag |-> "NONE", response |-> "UNSET"]
    <3>1. a \in ActiveThreads /\ DebuggerEnded(a)
      BY DEF ActiveThreads, DebuggerEnded
    <3>2. active' = [active EXCEPT ![d][i] = a] /\ active[d][i].event_flag = "KILL"
      BY <2>2 DEF HandleKill
    <3> HIDE DEF a
    <3> QED BY <1>1, <1>3, <3>1, <3>2 DEF Fits, Asked
  <2> QED BY <2>1, <2>2
<1>5. debugger[d].at # "none"
  BY <1>3 DEF Running
<1> QED BY <1>1, <1>2, <1>4, <1>5, OneActiveThread

\* The debugger's process ends, and all its threads with it.
LEMMA DieStep ==
  ASSUME DebuggerInv, NEW d \in Debuggers, Die(d)
  PROVE  DebuggerInv'
<1> DEFINE D == [at |-> "dead"]
           A == [i \in MonEntries |-> NoThreadYet]
<1>1. D \in DebugThreads /\ A \in [MonEntries -> ActiveThreads] /\ D.at = "dead"
  BY DEF DebugThreads, ActiveThreads, NoThreadYet
<1>2. /\ debugger' = [debugger EXCEPT ![d] = D] /\ active' = [active EXCEPT ![d] = A]
      /\ wire[d] \in Wires /\ wire' = [wire EXCEPT ![d] = wire[d]]
      /\ UNCHANGED <<hit, registering>> /\ debugger[d].at # "none"
  BY DEF Die, Step, daemonSide, DebuggerInv, DebuggerTypes
<1>3. \A i \in MonEntries : DebuggerEnded(A[i])
  BY DEF DebuggerEnded, NoThreadYet
<1> HIDE DEF D, A
<1>4. Attends(D, wire[d]) /\ \A i \in MonEntries : Fits(D, wire[d], i, A[i])
  BY <1>1, <1>3 DEF Attends, Fits, Running
<1> QED BY <1>1, <1>2, <1>4, OneDebugger

\* The daemon registers a debugger, which starts its thread.
LEMMA RegisteringSteps ==
  ASSUME DebuggerInv, NEW d \in Debuggers,
         (\E i \in MonEntries : Debug(d, i)) \/ DebugLock(d) \/ DebugAnswer(d) \/ DebugSet(d),
         registering \in [Debuggers -> [at : {"new"}] \cup
                            [at : {"lock", "refused", "answer", "set", "done"}, sock : MonEntries]]
  PROVE  DebuggerInv'
<1>1. PICK r : /\ registering' = [registering EXCEPT ![d] = r]
               /\ registering[d].at \in {"set", "done"} => r.at \in {"set", "done"}
               /\ \/ UNCHANGED debugger
                  \/ /\ registering[d].at = "answer" /\ r.at = "set"
                     /\ debugger' = [debugger EXCEPT ![d] =
                          [at |-> "recv", passive |-> FALSE, first |-> TRUE, list |-> {},
                           ret |-> "NONE"]]
  <2>1. CASE \E i \in MonEntries : Debug(d, i)
    <3>1. PICK i \in MonEntries : Debug(d, i)
      BY <2>1
    <3>2. /\ registering' = [registering EXCEPT ![d] = [at |-> "lock", sock |-> i]]
          /\ registering[d].at = "new" /\ UNCHANGED debugger
      BY <3>1 DEF Debug
    <3> QED BY <3>2
  <2>2. CASE DebugLock(d) \/ DebugAnswer(d) \/ DebugSet(d)
    <3>1. PICK at \in {"refused", "answer", "set", "done"} :
            /\ registering' = [registering EXCEPT ![d].at = at]
            /\ registering[d].at \in {"lock", "answer", "set"}
            /\ registering[d].at = "set" => at = "done"
            /\ \/ UNCHANGED debugger
               \/ /\ registering[d].at = "answer" /\ at = "set"
                  /\ debugger' = [debugger EXCEPT ![d] =
                       [at |-> "recv", passive |-> FALSE, first |-> TRUE, list |-> {},
                        ret |-> "NONE"]]
      BY <2>2 DEF DebugLock, DebugAnswer, DebugSet
    <3> DEFINE r == [registering[d] EXCEPT !.at = at]
    <3>2. registering' = [registering EXCEPT ![d] = r] /\ r.at = at
      BY <3>1
    <3> HIDE DEF r
    <3> QED BY <3>1, <3>2
  <2> QED BY <2>1, <2>2
<1>2. UNCHANGED <<hit, wire, active>>
  BY DEF Debug, DebugLock, DebugAnswer, DebugSet
<1>3. \A e \in Debuggers : registering'[e] = IF e = d THEN r ELSE registering[e]
  BY <1>1
<1>4. CASE UNCHANGED debugger
  <2>1. \A e \in Debuggers : StartInv(e)'
    BY <1>1, <1>3, <1>4 DEF DebuggerInv, StartInv
  <2> QED BY <1>2, <1>4, <2>1 DEF DebuggerInv, DebuggerTypes, WireInv
<1>5. CASE /\ registering[d].at = "answer" /\ r.at = "set"
           /\ debugger' = [debugger EXCEPT ![d] =
                [at |-> "recv", passive |-> FALSE, first |-> TRUE, list |-> {}, ret |-> "NONE"]]
  <2> DEFINE D == [at |-> "recv", passive |-> FALSE, first |-> TRUE, list |-> {}, ret |-> "NONE"]
  <2>1. D \in DebugThreads /\ D.at = "recv" /\ D.list = {}
    BY DEF DebugThreads, Running, DebugAnswers
  <2>2. debugger[d].at = "none"
    BY <1>5 DEF DebuggerInv, StartInv
  <2>3. \A i \in MonEntries : DebuggerEnded(active[d][i])
    BY <2>2 DEF DebuggerInv, Fits, Running
  <2> HIDE DEF D
  <2>4. \A e \in Debuggers : debugger'[e] = IF e = d THEN D ELSE debugger[e]
    BY <1>5 DEF D, DebuggerInv, DebuggerTypes
  <2>5. DebuggerTypes'
    BY <1>2, <1>5, <2>1 DEF D, DebuggerInv, DebuggerTypes
  <2>6. ASSUME NEW e \in Debuggers PROVE StartInv(e)'
    BY <1>1, <1>3, <1>5, <2>4, <2>6 DEF DebuggerInv, StartInv
  <2>7. ASSUME NEW e \in Debuggers
        PROVE  /\ WireInv(e)' /\ Attends(debugger'[e], wire'[e])
               /\ \A i \in MonEntries : Fits(debugger'[e], wire'[e], i, active'[e][i])
    BY <1>2, <2>1, <2>3, <2>4, <2>7 DEF DebuggerInv, WireInv, Attends, Fits, Running
  <2> QED BY <2>5, <2>6, <2>7 DEF DebuggerInv
<1> QED BY <1>1, <1>4, <1>5

\* At a breakpoint: the thread that holds lock_sockfd puts an event on a wire that is idle, and
\* takes the answer off it.
LEMMA BreakpointsAndDebuggers ==
  ASSUME MonitorInv, DebuggerInv, NEW t \in Threads, Breakpoint(t)
  PROVE  DebuggerInv'
<1>1. UNCHANGED <<registering, debugger, active>>
  BY DEF Breakpoint, Reach, ReachAccept, LookIgnored, Look, LookFreed, LockSockfd, SendEvent, TakeAnswer,
         Stopping, SweepEntry, Destroy, CopyMonitor
<1>2. hit[t] \in Hits
  BY DEF MonitorInv, MonTypes
<1>3. ASSUME NEW d \in Debuggers, hit[t].at = "answer", hit[t].mon = d, NEW u \in Threads, u # t
      PROVE  ~(hit[u].at = "answer" /\ hit[u].mon = d)
  BY <1>3 DEF MonitorInv, HoldInv, Owning
<1>4. PICK h : hit' = [hit EXCEPT ![t] = h]
  <2>1. CASE \E i \in MonEntries : Reach(t, i) \/ ReachAccept(t, i)
    BY <2>1 DEF Reach, ReachAccept, At
  <2>2. CASE LookIgnored(t) \/ Look(t) \/ LookFreed(t) \/ LockSockfd(t)
    BY <2>2 DEF LookIgnored, Look, LookFreed, LockSockfd, Returned, At
  <2>3. CASE SendEvent(t) \/ TakeAnswer(t)
    BY <2>3 DEF SendEvent, TakeAnswer, Returned, At
  <2>4. CASE Stopping(t) \/ SweepEntry(t) \/ Destroy(t) \/ CopyMonitor(t)
    BY <2>4 DEF Stopping, SweepEntry, Destroy, CopyMonitor, At
  <2> QED BY <2>1, <2>2, <2>3, <2>4 DEF Breakpoint
<1>5. \A u \in Threads : hit'[u] = IF u = t THEN h ELSE hit[u]
  BY <1>4 DEF MonitorInv, MonTypes
<1>6. CASE UNCHANGED wire /\ hit[t].at # "answer"
  <2>1. \A d \in Debuggers : WireInv(d)'
    BY <1>5, <1>6 DEF DebuggerInv, WireInv
  <2> QED BY <1>1, <1>6, <2>1 DEF DebuggerInv, DebuggerTypes, StartInv
<1>7. ASSUME NEW d \in Debuggers, NEW W \in Wires, wire' = [wire EXCEPT ![d] = W],
             hit[t].at = "send" \/ (hit[t].at = "answer" /\ hit[t].mon = d),
             W.at # "idle" => h.at = "answer" /\ h.mon = d,
             debugger[d].at \notin {"await", "reply"}
      PROVE  DebuggerInv'
  <2>1. \A e \in Debuggers : wire'[e] = IF e = d THEN W ELSE wire[e]
    BY <1>7 DEF DebuggerInv, DebuggerTypes
  <2>2. DebuggerTypes'
    BY <1>1, <1>7 DEF DebuggerInv, DebuggerTypes
  <2>3. ASSUME NEW e \in Debuggers PROVE WireInv(e)'
    <3>1. CASE e = d
      BY <1>5, <1>7, <2>1, <3>1 DEF WireInv
    <3>2. CASE e # d
      BY <1>5, <1>7, <2>1, <3>2 DEF WireInv, DebuggerInv
    <3> QED BY <3>1, <3>2
  <2>4. ASSUME NEW e \in Debuggers
        PROVE  /\ StartInv(e)' /\ Attends(debugger'[e], wire'[e])
               /\ \A i \in MonEntries : Fits(debugger'[e], wire'[e], i, active'[e][i])
    <3>1. StartInv(e)'
      BY <1>1 DEF DebuggerInv, StartInv
    <3>2. CASE e = d
      BY <1>1, <1>7, <2>1, <3>1, <3>2 DEF DebuggerInv, Attends, Fits
    <3>3. CASE e # d
      BY <1>1, <2>1, <3>1, <3>3 DEF DebuggerInv
    <3> QED BY <3>2, <3>3
  <2> QED BY <2>2, <2>3, <2>4 DEF DebuggerInv
<1>8. CASE SendEvent(t)
  <2>1. hit[t].at = "send" /\ hit[t].mon \in Debuggers /\ hit[t].sock \in MonEntries
        /\ hit[t].child \in Children
    BY <1>2, <1>8 DEF SendEvent, Hits
  <2>2. CASE UNCHANGED wire
    BY <1>6, <2>1, <2>2
  <2>3. CASE ~ UNCHANGED wire
    <3> DEFINE d == hit[t].mon
               W == [at |-> "event", sock |-> hit[t].sock, new |-> hit[t].child]
    <3>1. /\ wire' = [wire EXCEPT ![d] = W] /\ hit' = [hit EXCEPT ![t].at = "answer"]
      BY <1>8, <2>3 DEF SendEvent
    <3>2. W \in Wires
      BY <2>1 DEF Wires
    <3>3. h.at = "answer" /\ h.mon = d
      <4>1. hit'[t].at = "answer" /\ hit'[t].mon = d
        BY <1>2, <2>1, <3>1 DEF MonitorInv, MonTypes, Hits
      <4> QED BY <1>5, <4>1
    <3>4. wire[d].at = "idle"
      <4>1. ASSUME NEW u \in Threads, hit[u].at = "answer", hit[u].mon = d PROVE FALSE
        <5>1. monitor[d].lock_sockfd = t /\ monitor[d].lock_sockfd = u
          BY <2>1, <4>1 DEF MonitorInv, HoldInv, Owning
        <5> QED BY <2>1, <4>1, <5>1
      <4> QED BY <2>1, <4>1 DEF DebuggerInv, WireInv
    <3>5. debugger[d].at \notin {"await", "reply"}
      BY <2>1, <3>4 DEF DebuggerInv, Attends
    <3> HIDE DEF d, W
    <3> QED BY <1>7, <2>1, <3>1, <3>2, <3>3, <3>5 DEF d
  <2> QED BY <2>2, <2>3
<1>9. CASE TakeAnswer(t)
  <2>1. hit[t].at = "answer" /\ hit[t].mon \in Debuggers
    BY <1>2, <1>9 DEF TakeAnswer, Hits
  <2> DEFINE d == hit[t].mon
             W == [at |-> "idle"]
  <2>2. wire' = [wire EXCEPT ![d] = W] /\ (wire[d].at = "answer" \/ Gone(d))
    BY <1>9 DEF TakeAnswer
  <2>3. W \in Wires /\ W.at = "idle"
    BY DEF Wires
  <2>4. debugger[d].at \notin {"await", "reply"}
    BY <2>1, <2>2 DEF DebuggerInv, Attends, Gone
  <2> HIDE DEF d, W
  <2> QED BY <1>7, <2>1, <2>2, <2>3, <2>4 DEF d
<1>10. CASE ~SendEvent(t) /\ ~TakeAnswer(t)
  <2>1. UNCHANGED wire /\ hit[t].at # "answer"
    BY <1>10 DEF Breakpoint, Reach, ReachAccept, LookIgnored, Look, LookFreed, LockSockfd,
                 Stopping, SweepEntry, Destroy, CopyMonitor
  <2> QED BY <1>6, <2>1
<1> QED BY <1>8, <1>9, <1>10

LEMMA DebuggersInvariance == DebugSpec => []DebuggerInv
<1>1. MonitorInv /\ DebuggerInv /\ [DebugNext]_debugVars => DebuggerInv'
  <2> SUFFICES ASSUME MonitorInv, DebuggerInv, [DebugNext]_debugVars PROVE DebuggerInv'
    OBVIOUS
  <2>1. CASE \E t \in Threads : Breakpoint(t)
    BY <2>1, BreakpointsAndDebuggers
  <2>2. ASSUME NEW d \in Debuggers,
               (\E i \in MonEntries : Debug(d, i)) \/ DebugLock(d) \/ DebugAnswer(d) \/ DebugSet(d)
        PROVE  DebuggerInv'
    BY <2>2, RegisteringSteps DEF MonitorInv, MonTypes
  <2>3. ASSUME NEW d \in Debuggers, DebugThread(d) PROVE DebuggerInv'
    BY <2>3, EventAcceptStep, EventStep, AwaitActiveStep, AnswerStep, QuitSteps DEF DebugThread
  <2>4. ASSUME NEW d \in Debuggers, Die(d) PROVE DebuggerInv'
    BY <2>4, DieStep
  <2>5. ASSUME NEW d \in Debuggers, NEW i \in MonEntries,
               (\E r \in {"NONE", "DROP", "STOP"} : HandleEvent(d, i, r)) \/ HandleKill(d, i)
        PROVE  DebuggerInv'
    BY <2>5, HandleSteps
  <2>6. CASE UNCHANGED debugVars
    BY <2>6 DEF debugVars, DebuggerInv, DebuggerTypes, StartInv, WireInv
  <2> QED BY <2>1, <2>2, <2>3, <2>4, <2>5, <2>6 DEF DebugNext
<1> QED BY <1>1, DebuggerInit, MonitorInvariance, PTL DEF DebugSpec

\* The debugger waits only for threads that will answer, and none outlives it: whatever the
\* daemon's threads report to it, its handlers answer and the accepted sockets add.
THEOREM ActiveThreadsAreThere == DebugSpec => []ActiveThreadsAnswer
<1>1. DebuggerInv => ActiveThreadsAnswer
  BY DEF DebuggerInv, DebuggerTypes, DebugThreads, ActiveThreadsAnswer, Fits, Ready, DebuggerEnded, Running
<1> QED BY <1>1, DebuggersInvariance, PTL

\* Monitors and the threads at breakpoints keep their types, and numwaiters counts those that
\* wait (breakpoint.h).
THEOREM DebugTypes == DebugSpec => []DebugTypeOK
<1> DEFINE Owners == lock_debug_monitor \in [MonEntries -> Debuggers \cup {NoOwner}]
<1>1. DebugInit => Owners
  BY DEF DebugInit
<1>2. MonitorInv /\ Owners /\ [DebugNext]_debugVars => Owners'
  <2> SUFFICES ASSUME MonitorInv, Owners, [DebugNext]_debugVars PROVE Owners'
    OBVIOUS
  <2>1. ASSUME NEW t \in Threads, Breakpoint(t) PROVE UNCHANGED lock_debug_monitor
    BY <2>1 DEF Breakpoint, Reach, ReachAccept, LookIgnored, Look, LookFreed, LockSockfd, SendEvent, TakeAnswer,
           Stopping, SweepEntry, Destroy, CopyMonitor
  <2>2. ASSUME NEW d \in Debuggers, (\E i \in MonEntries : Debug(d, i)) \/ DebugLock(d) \/ DebugAnswer(d) \/ DebugSet(d)
        PROVE  Owners'
    BY <2>2 DEF Debug, DebugLock, DebugAnswer, DebugSet
  <2>3. ASSUME NEW d \in Debuggers, DebugThread(d) \/ Die(d) PROVE UNCHANGED lock_debug_monitor
    BY <2>3 DEF DebugThread, Die, EventAccept, Event, AwaitActive, Answer, Quit, Kill, Killed, daemonSide
  <2>4. ASSUME NEW d \in Debuggers, NEW i \in MonEntries,
               (\E r \in {"NONE", "DROP", "STOP"} : HandleEvent(d, i, r)) \/ HandleKill(d, i)
        PROVE  UNCHANGED lock_debug_monitor
    BY <2>4 DEF HandleEvent, HandleKill, daemonSide
  <2>5. CASE UNCHANGED debugVars
    BY <2>5 DEF debugVars
  <2>6. UNCHANGED lock_debug_monitor => Owners'
    OBVIOUS
  <2> QED BY <2>1, <2>2, <2>3, <2>4, <2>5, <2>6 DEF DebugNext
<1>3. MonitorInv /\ DebuggerInv /\ Owners => DebugTypeOK
  <2> SUFFICES ASSUME MonitorInv, DebuggerInv, Owners PROVE DebugTypeOK
    OBVIOUS
  <2>1. ASSUME NEW d \in Debuggers
        PROVE  /\ monitor[d].at \in {"live", "freed"} /\ monitor[d].lock_sockfd \in Threads \cup {NoOwner}
               /\ monitor[d].numwaiters = Cardinality({t \in Threads : hit[t].at = "wait" /\ hit[t].mon = d})
    BY DEF MonitorInv, MonTypes, Monitors, CountInv, Waiters
  <2>2. ASSUME NEW t \in Threads
        PROVE  hit[t].at \in {"out", "look", "wait", "send", "answer", "stop", "sweep", "copy",
                         "undefined"}
    BY DEF MonitorInv, MonTypes, Hits
  <2>3. ASSUME NEW d \in Debuggers
        PROVE  /\ wire[d].at \in {"idle", "event", "answer"}
               /\ debugger[d].at \in {"none", "recv", "await", "reply", "quit", "killed", "exited", "dead"}
    BY DEF DebuggerInv, DebuggerTypes, Wires, DebugThreads, Running
  <2> QED BY <2>1, <2>2, <2>3 DEF DebugTypeOK, MonitorInv, MonTypes
<1> HIDE DEF Owners
<1> QED BY <1>1, <1>2, <1>3, MonitorInvariance, DebuggersInvariance, PTL DEF DebugSpec

----------------------------------------------------------------------------
(* The views together *)

\* A step of the daemon is a step of each of its views, or leaves it alone: what is proved of
\* one view holds of them together (serverinfo.c, handlers.c, breakpoint.c, daemon_api.c).
THEOREM ViewsTogether == MCSpec => SocketsSpec /\ ServerSpec /\ DebugSpec /\ ClientSpec
<1>1. MCInit => SocketsInit /\ ServerInit /\ DebugInit /\ ClientInit
  BY DEF MCInit
<1>2. [MCNext]_chitcpdVars => [SocketsNext]_socketVars
  BY DEF MCNext, chitcpdVars
<1>3. [MCNext]_chitcpdVars => [ServerNext]_serverVars
  BY DEF MCNext, chitcpdVars
<1>4. [MCNext]_chitcpdVars => [DebugNext]_debugVars
  BY DEF MCNext, chitcpdVars
<1>5. [MCNext]_chitcpdVars => [ClientNext]_clientVars
  BY DEF MCNext, chitcpdVars
<1> QED BY <1>1, <1>2, <1>3, <1>4, <1>5, PTL DEF MCSpec, SocketsSpec, ServerSpec, DebugSpec, ClientSpec

\* In every state of the daemon and of the library each view's variables have their types.
THEOREM ChitcpdTypes == MCSpec => []MCTypeOK
<1>1. SocketsTypeOK /\ ServerTypeOK /\ DebugTypeOK /\ ClientTypeOK => MCTypeOK
  BY DEF MCTypeOK
<1> QED BY <1>1, ViewsTogether, SocketsTypes, ServerTypes, DebugTypes, ClientTypes, PTL

\* What is proved of each view holds of the daemon and its clients as they run: no slot, port,
\* lock or TCP thread passes to the wrong socket; none of the daemon's own threads is left when
\* it has stopped; a monitor is used once it is freed only where ACCEPT has copied it behind
\* its sweep; and the library's calls get the answers to their own requests, but for the
\* exceptions that AnswersMatch names (handlers.c, serverinfo.c, server.c, breakpoint.c,
\* daemon_api.c).
THEOREM ChitcpdIsSafe ==
  MCSpec => /\ [](SlotsAreNotStolen /\ ThreadServesItsSocket /\ PortsPointAtTheirSockets /\ NoLockLeftBehind)
            /\ [](StopIsOrderly /\ MonitorOutlivesItsUsers /\ ActiveThreadsAnswer)
            /\ []AnswersMatch
            /\ ListenersGetStrangersOnly
<1> QED BY ViewsTogether, SlotsStayOwned, ThreadsKeepTheirSockets, PortsHaveSockets, LocksAreGivenBack,
           StrangersKnock, StopJoinsAll, MonitorsOutlive, ActiveThreadsAreThere,
           AnswersAreOnesOwn, PTL

================================================================================
