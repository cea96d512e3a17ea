----------------------------- MODULE ClientLibrary -----------------------------
(***************************************************************************)
(* The calls of libchitcp (socket_api.c, debug_api.c) as an application's       *)
(* threads make them: each thread has its own connection to the daemon, which    *)
(* it opens at its first call (daemon_api.c), sends one request and reads one     *)
(* answer, first its size and then its body (protobuf-wrapper.c).                 *)
(*                                                                                *)
(* Of a request only its kind is kept: what the library asserts of the answer.      *)
(* What the daemon does with it is in Tcp.tla and Sockets.tla, how it serves its     *)
(* connections in Server.tla. A message is sent and arrives whole, as messages that    *)
(* fit one buffer of a UNIX socket do; memory does not run out.                        *)
(***************************************************************************)
EXTENDS Naturals, Sequences, FiniteSets, TLC

CONSTANTS
  LibThreads,      \* threads of an application
  Program,      \* bound: the calls each of them makes, in order
  MaxStarts,    \* bound: how often the daemon is started
  MaxSignals    \* bound: how often a signal interrupts a recv

NoFd == 0
Fds == 1 .. Cardinality(LibThreads)
NoConn == 0
Conns == 1 .. Cardinality(LibThreads) * MaxStarts

\* The codes of the requests (ChitcpdMsgCode).
Codes == {"SOCKET", "CONNECT", "BIND", "LISTEN", "ACCEPT", "CLOSE", "SEND", "RECV",
          "WAIT_FOR_STATE", "GET_SOCKET_STATE"}
BUFFERS == "GET_SOCKET_BUFFER_CONTENTS"

ASSUME ClientAssumption ==
  /\ IsFiniteSet(LibThreads) /\ Program \in [LibThreads -> Seq(Codes)]
  /\ MaxStarts \in Nat \ {0} /\ MaxSignals \in Nat

VARIABLES
  daemon_socket,  \* the descriptor each thread has stored under daemon_socket_key
  fd,             \* the kernel: the connection behind each descriptor
  conn,           \* the two directions of each connection, and who has closed it
  call,           \* the call each thread is in
  interrupted,    \* ghost: the threads a signal has interrupted in recv
  stale,          \* ghost: the threads whose stored descriptor the library has closed
  process,        \* "runs", "killed" by SIGPIPE, or "lost"
  daemon, starts, \* whether it is up; bound
  made            \* how many calls each thread has begun

clientVars == <<daemon_socket, fd, conn, call, interrupted, stale, process, daemon, starts, made>>

Out == [at |-> "out"]
None == <<>>
Size == [part |-> "size"]

ClientInit ==
  /\ daemon_socket = [t \in LibThreads |-> NoFd]
  /\ fd = [n \in Fds |-> NoConn]
  /\ conn = [c \in Conns |-> [at |-> "none", up |-> <<>>, down |-> <<>>]]
  /\ call = [t \in LibThreads |-> Out]
  /\ interrupted = {} /\ stale = {}
  /\ process = "runs"
  /\ daemon = "up" /\ starts = 1
  /\ made = [t \in LibThreads |-> 0]

-----------------------------------------------------------------------------
(* The calls *)

\* The next call of a thread's program, once the last has returned, whatever it returned.
\* A request is named by its thread, its call and its code.
Calls(t, code) ==
  /\ process = "runs" /\ call[t] = Out
  /\ made[t] < Len(Program[t]) /\ Program[t][made[t] + 1] = code
  /\ made' = [made EXCEPT ![t] = @ + 1]
  /\ \E include_buffers \in IF code = "GET_SOCKET_STATE" THEN BOOLEAN ELSE {FALSE} :
       call' = [call EXCEPT ![t] = [at |-> "get_socket", req |-> <<t, made[t] + 1, code>>,
                                    include_buffers |-> include_buffers, resp |-> None]]
  /\ UNCHANGED <<daemon_socket, fd, conn, interrupted, stale, process, daemon, starts>>

chisocket_socket(t) == Calls(t, "SOCKET")
chisocket_connect(t) == Calls(t, "CONNECT")
chisocket_bind(t) == Calls(t, "BIND")
chisocket_listen(t) == Calls(t, "LISTEN")
chisocket_accept(t) == Calls(t, "ACCEPT")
chisocket_close(t) == Calls(t, "CLOSE")
chisocket_send(t) == Calls(t, "SEND")
chisocket_recv(t) == Calls(t, "RECV")
chitcpd_wait_for_state(t) == Calls(t, "WAIT_FOR_STATE")
chitcpd_get_socket_state(t) == Calls(t, "GET_SOCKET_STATE")

-----------------------------------------------------------------------------
(* The connection *)

GoesTo(t, where) == call' = [call EXCEPT ![t].at = where]
Return(t) == call' = [call EXCEPT ![t] = Out]

\* Where a new connection goes: the kernel gives the lowest free descriptor.
FreeFd == CHOOSE n \in Fds : fd[n] = NoConn /\ \A k \in Fds : fd[k] = NoConn => n <= k
FreeConn == CHOOSE c \in Conns : conn[c].at = "none" /\ \A k \in Conns : conn[k].at = "none" => c <= k

\* pthread_setspecific. Mutant: one descriptor for all threads.
StoredForAll(t) == [u \in LibThreads |-> FreeFd]
Stored(t) == [daemon_socket EXCEPT ![t] = FreeFd]

\* The descriptor of this thread's first connection, for ever.
chitcpd_get_socket(t) ==
  /\ process = "runs" /\ call[t].at = "get_socket"
  /\ \/ /\ daemon_socket[t] # NoFd
        /\ GoesTo(t, "send")
        /\ UNCHANGED <<daemon_socket, fd, conn>>
     \/ /\ daemon_socket[t] = NoFd /\ daemon = "up"
        /\ daemon_socket' = Stored(t)
        /\ fd' = [fd EXCEPT ![FreeFd] = FreeConn]
        /\ conn' = [conn EXCEPT ![FreeConn] = [at |-> "open", up |-> <<>>, down |-> <<>>]]
        /\ GoesTo(t, "send")
     \/ /\ daemon_socket[t] = NoFd /\ daemon = "down"
        /\ Return(t)
        /\ UNCHANGED <<daemon_socket, fd, conn>>
  /\ UNCHANGED <<interrupted, stale, process, daemon, starts, made>>

Conn(t) == fd[daemon_socket[t]]
Ended(t) == Conn(t) # NoConn /\ conn[Conn(t)].at = "ended"

\* close(sockfd): the number is free for another connection, and stays stored. What the
\* daemon had sent on this one is lost.
CloseFd(t) ==
  /\ fd' = [fd EXCEPT ![daemon_socket[t]] = NoConn]
  /\ stale' = stale \cup {t}
  /\ conn' = [conn EXCEPT ![Conn(t)] = [at |-> "closed", up |-> <<>>, down |-> <<>>]]

\* A descriptor that is closed fails; a connection that the daemon has ended raises SIGPIPE,
\* which kills the process unless it has chosen otherwise.
chitcpd_send_msg(t) ==
  /\ process = "runs" /\ call[t].at = "send"
  /\ \/ /\ Conn(t) = NoConn
        /\ Return(t)
        /\ UNCHANGED <<fd, conn, stale, process>>
     \/ /\ Ended(t)
        /\ \/ process' = "killed" /\ UNCHANGED <<call, fd, conn, stale>>
           \/ Return(t) /\ CloseFd(t) /\ UNCHANGED process
     \/ /\ Conn(t) # NoConn /\ conn[Conn(t)].at = "open"
        /\ conn' = [conn EXCEPT ![Conn(t)].up = Append(@, call[t].req)]
        /\ GoesTo(t, "size")
        /\ UNCHANGED <<fd, stale, process>>
  /\ UNCHANGED <<daemon_socket, interrupted, daemon, starts, made>>

Incoming(t) == IF Conn(t) = NoConn THEN <<>> ELSE conn[Conn(t)].down
Finds(t, part) == Incoming(t) # <<>> /\ Head(Incoming(t)).part = part
TakeOne(t) == conn' = [conn EXCEPT ![Conn(t)].down = Tail(@)]

\* A recv that waits is interrupted: the answer is left for the thread's next call to find.
Interrupted(t) ==
  /\ Conn(t) # NoConn /\ Incoming(t) = <<>> /\ Cardinality(interrupted) < MaxSignals
  /\ interrupted' = interrupted \cup {t}

\* The first recv: a size; a connection that the daemon has ended, or reset (then it is not
\* closed here); a descriptor that is closed; or a signal. Whoever reads a body for a size, a
\* size for a body, or another call's answer for its own, is lost, and not followed further.
RecvSize(t) ==
  /\ process = "runs" /\ call[t].at = "size"
  /\ \/ /\ Incoming(t) # <<>>
        /\ TakeOne(t)
        /\ IF Finds(t, "size") THEN GoesTo(t, "body") /\ UNCHANGED process
                              ELSE process' = "lost" /\ UNCHANGED call
        /\ UNCHANGED <<fd, stale, interrupted>>
     \/ /\ Incoming(t) = <<>> /\ Ended(t)
        /\ Return(t)
        /\ CloseFd(t) \/ UNCHANGED <<fd, conn, stale>>
        /\ UNCHANGED <<process, interrupted>>
     \/ /\ Conn(t) = NoConn
        /\ Return(t)
        /\ UNCHANGED <<fd, conn, stale, process, interrupted>>
     \/ /\ Interrupted(t)
        /\ Return(t)
        /\ UNCHANGED <<fd, conn, stale, process>>
  /\ UNCHANGED <<daemon_socket, daemon, starts, made>>

\* The body has come with the size: this recv does not wait.
RecvBody(t) ==
  /\ process = "runs" /\ call[t].at = "body"
  /\ IF Finds(t, "body")
       THEN /\ call' = [call EXCEPT ![t].at = "unpack", ![t].resp = Head(Incoming(t)).req]
            /\ TakeOne(t)
            /\ UNCHANGED process
       ELSE process' = "lost" /\ UNCHANGED <<conn, call>>
  /\ UNCHANGED <<daemon_socket, fd, interrupted, stale, daemon, starts, made>>

\* What a call asserts of its answer holds of the right one, and may end the process on another
\* (an ACCEPT without an address, a RECV without a buffer). The state and the buffers of a
\* socket are two requests, the second only if the first has succeeded.
Unpack(t) ==
  /\ process = "runs" /\ call[t].at = "unpack"
  /\ IF call[t].resp # call[t].req
       THEN process' = "lost" /\ UNCHANGED call
       ELSE /\ \/ Return(t)
               \/ /\ call[t].include_buffers
                  /\ call' = [call EXCEPT ![t] = [at |-> "send", req |-> <<t, made[t], BUFFERS>>,
                                                  include_buffers |-> FALSE, resp |-> None]]
            /\ UNCHANGED process
  /\ UNCHANGED <<daemon_socket, fd, conn, interrupted, stale, daemon, starts, made>>

-----------------------------------------------------------------------------
(* The daemon: one request of a connection after the other *)

\* An answer is named by its request.
Serve(c) ==
  /\ process = "runs" /\ conn[c].at = "open" /\ conn[c].up # <<>>
  /\ conn' = [conn EXCEPT ![c].up = Tail(@),
                ![c].down = @ \o <<Size, [part |-> "body", req |-> Head(conn[c].up)]>>]
  /\ UNCHANGED <<daemon_socket, fd, call, interrupted, stale, process, daemon, starts, made>>

DaemonStops ==
  /\ process = "runs" /\ daemon = "up"
  /\ daemon' = "down"
  /\ conn' = [c \in Conns |->
       IF conn[c].at = "open" THEN [conn[c] EXCEPT !.at = "ended", !.up = <<>>] ELSE conn[c]]
  /\ UNCHANGED <<daemon_socket, fd, call, interrupted, stale, process, starts, made>>

DaemonStarts ==
  /\ process = "runs" /\ daemon = "down" /\ starts < MaxStarts
  /\ daemon' = "up" /\ starts' = starts + 1
  /\ UNCHANGED <<daemon_socket, fd, conn, call, interrupted, stale, process, made>>

ClientNext ==
  \/ \E t \in LibThreads :
       \/ chisocket_socket(t) \/ chisocket_connect(t) \/ chisocket_bind(t) \/ chisocket_listen(t)
       \/ chisocket_accept(t) \/ chisocket_close(t) \/ chisocket_send(t) \/ chisocket_recv(t)
       \/ chitcpd_wait_for_state(t) \/ chitcpd_get_socket_state(t)
       \/ chitcpd_get_socket(t) \/ chitcpd_send_msg(t) \/ RecvSize(t) \/ RecvBody(t) \/ Unpack(t)
  \/ \E c \in Conns : Serve(c)
  \/ DaemonStops \/ DaemonStarts

ClientSpec == ClientInit /\ [][ClientNext]_clientVars

-----------------------------------------------------------------------------
(* Properties *)

\* The descriptor of this thread has been closed under a thread that still uses it.
Reused(t) == \E u \in stale : daemon_socket[u] = daemon_socket[t]

\* A call returns the answer to its own request, whatever the other threads do and however
\* often the daemon goes away and comes back, unless a signal has interrupted the thread's recv
\* (its answers then come one call late), or the library has closed the descriptor that a thread
\* still uses, and the kernel may have given it to another.
AnswersMatch ==
  \A t \in LibThreads : call[t].at = "unpack" /\ t \notin interrupted /\ ~Reused(t) =>
    call[t].resp = call[t].req

ClientTypeOK ==
  /\ daemon_socket \in [LibThreads -> Fds \cup {NoFd}]
  /\ fd \in [Fds -> Conns \cup {NoConn}]
  /\ \A c \in Conns : conn[c].at \in {"none", "open", "ended", "closed"}
  /\ \A t \in LibThreads : call[t].at \in {"out", "get_socket", "send", "size", "body", "unpack"}
  /\ interrupted \subseteq LibThreads /\ stale \subseteq LibThreads
  /\ process \in {"runs", "killed", "lost"} /\ daemon \in {"up", "down"}
  /\ starts \in 1 .. MaxStarts /\ \A t \in LibThreads : made[t] \in 0 .. Len(Program[t])

=============================================================================
