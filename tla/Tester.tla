-------------------------------- MODULE Tester --------------------------------
(***************************************************************************)
(* The tester of libchitcp (tester.c, tester_peer.c): a test drives a server *)
(* and a client, each a thread of its own with a mailbox for one event and a    *)
(* state. The mailbox's lock is held while the event is acted on; one condition   *)
(* variable tells the peer that an event has come and the test that it is gone.    *)
(* The test waits for exact states before it sends the next event.                  *)
(*                                                                                *)
(* The sockets behind it are kept as far as the calls wait for one another: a       *)
(* SYN that finds no listener is dropped, accept and connect return once the         *)
(* connection is made, a function that receives waits for one that sends; whether a    *)
(* close returns is left open.                                                         *)
(***************************************************************************)
EXTENDS Naturals, Sequences, FiniteSets

VARIABLES
  test,        \* what the test has still to do
  sleeps,      \* whether the test sleeps, on the cv_event or the cv_state of a peer
  event,       \* the mailbox of each peer
  holds,       \* whether the peer's thread holds its lock_event
  state,       \* the state of each peer
  thread,      \* what the thread of each peer does, and its prev_state
  network      \* external: what the daemon knows of the two sockets

testerVars == <<test, sleeps, event, holds, state, thread, network>>

TestPeers == {"server", "client"}
PeerStates == {"UNINITIALIZED", "INITIALIZED", "SERVER_LISTENING", "SERVER_READY",
               "SERVER_CLOSING", "SERVER_CLOSED", "CLIENT_READY", "CLIENT_CLOSING",
               "CLIENT_CLOSED", "RUNNING_FUNCTION"}
Ready(p) == IF p = "server" THEN "SERVER_READY" ELSE "CLIENT_READY"

-----------------------------------------------------------------------------
(* The calls of a test, as what each of them does *)

Create(p) == [do |-> "create", peer |-> p, what |-> "thread"]
AwaitState(p, s) == [do |-> "wait", peer |-> p, what |-> s]
Tell(p, e) == [do |-> "tell", peer |-> p, what |-> e]
Look(p) == [do |-> "look", peer |-> p, what |-> "state"]
AwaitTcp(p, s) == [do |-> "tcp", peer |-> p, what |-> s]
JoinPeer(p) == [do |-> "join", peer |-> p, what |-> "thread"]

chitcp_tester_start == <<Create("server"), Create("client"), Tell("server", "INIT"), Tell("client", "INIT")>>
chitcp_tester_server_listen == <<AwaitState("server", "INITIALIZED"), Tell("server", "LISTEN")>>
chitcp_tester_server_accept == <<AwaitState("server", "SERVER_LISTENING"), Tell("server", "ACCEPT")>>
chitcp_tester_client_connect == <<AwaitState("client", "INITIALIZED"), Tell("client", "CONNECT")>>
chitcp_tester_run(p) == <<AwaitState(p, Ready(p)), Tell(p, "RUN")>>
chitcp_tester_close(p) == <<AwaitState(p, Ready(p)), Tell(p, "CLOSE")>>
chitcp_tester_exit(p) == <<Tell(p, "EXIT"), JoinPeer(p)>>
chitcp_tester_wait_for_state(p, s) == <<Look(p), AwaitTcp(p, s)>>

tester_connect ==
  chitcp_tester_start \o chitcp_tester_server_listen \o chitcp_tester_server_accept
    \o chitcp_tester_client_connect

WaitForBoth(s) ==
  chitcp_tester_wait_for_state("client", s) \o chitcp_tester_wait_for_state("server", s)

tester_done == chitcp_tester_exit("client") \o chitcp_tester_exit("server")

\* tests/check_tcp_data_transfer.c (send and receive, or echo), and the handshake alone of tests/check_tcp_conn_init.c
test_data ==
  tester_connect \o WaitForBoth("ESTABLISHED")
    \o chitcp_tester_run("server") \o chitcp_tester_run("client") \o tester_done
test_handshake == tester_connect \o WaitForBoth("ESTABLISHED") \o tester_done

\* samples/simple-tester.c
simple_tester ==
  tester_connect \o WaitForBoth("ESTABLISHED")
    \o chitcp_tester_run("client") \o chitcp_tester_run("server")
    \o chitcp_tester_close("client") \o chitcp_tester_close("server")
    \o WaitForBoth("CLOSED") \o tester_done

\* samples/handshake.c
handshake == tester_connect \o chitcp_tester_close("client") \o chitcp_tester_close("server")

TesterInit ==
  /\ test \in {test_data, test_handshake, simple_tester, handshake}
  /\ sleeps = FALSE
  /\ event = [p \in TestPeers |-> "NONE"]
  /\ holds = [p \in TestPeers |-> FALSE]
  /\ state = [p \in TestPeers |-> "UNINITIALIZED"]
  /\ thread = [p \in TestPeers |-> [at |-> "none", prev |-> "UNINITIALIZED"]]
  /\ \E echo \in BOOLEAN :
       /\ echo => test = test_data
       /\ network = [listening |-> FALSE, syn |-> FALSE, echo |-> echo, sent |-> {}, closed |-> {}]

-----------------------------------------------------------------------------
(* The test *)

Now(what) == test # <<>> /\ ~sleeps /\ Head(test).do = what
Of == Head(test).peer
What == Head(test).what
NextCall == test' = Tail(test)

CreateThread ==
  /\ Now("create")
  /\ thread' = [thread EXCEPT ![Of].at = "loop"]
  /\ NextCall
  /\ UNCHANGED <<sleeps, event, holds, state, network>>

\* chitcp_tester_peer_wait_for_state: an exact state, looked at when a signal comes.
WaitForPeer ==
  /\ Now("wait")
  /\ IF state[Of] = What THEN NextCall /\ UNCHANGED sleeps
                         ELSE sleeps' = TRUE /\ UNCHANGED test
  /\ UNCHANGED <<event, holds, state, thread, network>>

\* chitcp_tester_peer_event: the next event goes in when the last one has been acted on.
\* The signal wakes the thread that sleeps in its loop.
Woken(p) == thread' = [thread EXCEPT ![p].at = IF @ = "asleep" THEN "loop" ELSE @]

PeerEvent ==
  /\ Now("tell") /\ ~holds[Of]
  /\ IF event[Of] = "NONE"
       THEN event' = [event EXCEPT ![Of] = What] /\ Woken(Of) /\ NextCall /\ UNCHANGED sleeps
       ELSE sleeps' = TRUE /\ UNCHANGED <<test, event, thread>>
  /\ UNCHANGED <<holds, state, network>>

\* chitcp_tester_*_wait_for_state looks at the state without the lock: a peer that is
\* not connected yet is waited for first.
LookAtPeer ==
  /\ Now("look")
  /\ test' = (IF state[Of] \in {"UNINITIALIZED", "INITIALIZED", "SERVER_LISTENING"}
                THEN <<AwaitState(Of, Ready(Of))>> ELSE <<>>) \o Tail(test)
  /\ UNCHANGED <<sleeps, event, holds, state, thread, network>>

\* chitcpd_wait_for_state. Once a peer is ready its socket has been ESTABLISHED; both are
\* CLOSED once both have been closed.
WaitForTcp ==
  /\ Now("tcp")
  /\ What = "CLOSED" => network.closed = TestPeers
  /\ NextCall
  /\ UNCHANGED <<sleeps, event, holds, state, thread, network>>

JoinThread ==
  /\ Now("join") /\ thread[Of].at = "done"
  /\ NextCall
  /\ UNCHANGED <<sleeps, event, holds, state, thread, network>>

-----------------------------------------------------------------------------
(* chitcp_tester_peer_thread_func *)

Asleep(what) == sleeps /\ Head(test).do = what

\* Mutant: cv_state is not signalled.
update_state_silently(p, s) == state' = [state EXCEPT ![p] = s] /\ UNCHANGED sleeps

\* chitcp_tester_peer_update_state: the test, if it sleeps on this peer's state, looks again.
update_state(p, s) ==
  /\ state' = [state EXCEPT ![p] = s]
  /\ sleeps' = (sleeps /\ ~(Asleep("wait") /\ Of = p))

TakeEvent(p) ==
  /\ thread[p].at = "loop" /\ ~holds[p]
  /\ IF event[p] = "NONE"
       THEN thread' = [thread EXCEPT ![p].at = "asleep"] /\ UNCHANGED holds
       ELSE /\ thread' = [thread EXCEPT ![p].at = event[p]]
            /\ holds' = [holds EXCEPT ![p] = TRUE]
  /\ UNCHANGED <<test, sleeps, event, state, network>>

GoOn(p, where) == thread' = [thread EXCEPT ![p].at = where]

DoInit(p) ==
  /\ thread[p].at = "INIT"
  /\ update_state(p, "INITIALIZED") /\ GoOn(p, "acted")
  /\ UNCHANGED <<test, event, holds, network>>

DoListen(p) ==
  /\ thread[p].at = "LISTEN"
  /\ network' = [network EXCEPT !.listening = TRUE] /\ GoOn(p, "listening")
  /\ UNCHANGED <<test, sleeps, event, holds, state>>

Listening(p) ==
  /\ thread[p].at = "listening"
  /\ update_state(p, "SERVER_LISTENING") /\ GoOn(p, "acted")
  /\ UNCHANGED <<test, event, holds, network>>

DoAccept(p) ==
  /\ thread[p].at = "ACCEPT" /\ network.syn
  /\ update_state(p, "SERVER_READY") /\ GoOn(p, "acted")
  /\ UNCHANGED <<test, event, holds, network>>

\* The SYN is sent once.
DoConnect(p) ==
  /\ thread[p].at = "CONNECT"
  /\ network' = [network EXCEPT !.syn = network.listening] /\ GoOn(p, "connecting")
  /\ UNCHANGED <<test, sleeps, event, holds, state>>

Connected(p) ==
  /\ thread[p].at = "connecting" /\ network.syn
  /\ thread["server"].at = "ACCEPT" \/ state["server"] = "SERVER_READY"
  /\ update_state(p, "CLIENT_READY") /\ GoOn(p, "acted")
  /\ UNCHANGED <<test, event, holds, network>>

DoRun(p) ==
  /\ thread[p].at = "RUN"
  /\ update_state(p, "RUNNING_FUNCTION")
  /\ thread' = [thread EXCEPT ![p] = [at |-> "running", prev |-> state[p]]]
  /\ UNCHANGED <<test, event, holds, network>>

\* The client's function sends; if it is an echo the server's sends back what it has received.
FunctionSends(p) ==
  /\ thread[p].at = "running" /\ p \notin network.sent
  /\ p = "server" => network.echo /\ "client" \in network.sent
  /\ network' = [network EXCEPT !.sent = @ \cup {p}]
  /\ UNCHANGED <<test, sleeps, event, holds, state, thread>>

\* ... and returns once it has received what it waits for.
FunctionReturns(p) ==
  /\ thread[p].at = "running" /\ "client" \in network.sent
  /\ network.echo => network.sent = TestPeers
  /\ update_state(p, thread[p].prev) /\ GoOn(p, "acted")
  /\ UNCHANGED <<test, event, holds, network>>

\* CLOSE is told to peers that are ready: the tester waits for that.
DoClose(p) ==
  /\ thread[p].at = "CLOSE"
  /\ update_state(p, IF p = "server" THEN "SERVER_CLOSING" ELSE "CLIENT_CLOSING")
  /\ GoOn(p, "closing")
  /\ UNCHANGED <<test, event, holds, network>>

\* chisocket_close returns, if it does: two chiTCPs need not finish the closing handshake.
CloseReturns(p) ==
  /\ thread[p].at = "closing"
  /\ network' = [network EXCEPT !.closed = @ \cup {p}] /\ GoOn(p, "closed")
  /\ UNCHANGED <<test, sleeps, event, holds, state>>

UpdateClosed(p) ==
  /\ thread[p].at = "closed"
  /\ update_state(p, IF p = "server" THEN "SERVER_CLOSED" ELSE "CLIENT_CLOSED")
  /\ GoOn(p, "acted")
  /\ UNCHANGED <<test, event, holds, network>>

\* The mailbox is empty again: the test, if it waits for that, looks again.
EventDone(p) ==
  /\ thread[p].at \in {"acted", "EXIT"}
  /\ event' = [event EXCEPT ![p] = "NONE"]
  /\ holds' = [holds EXCEPT ![p] = FALSE]
  /\ sleeps' = (sleeps /\ ~(Asleep("tell") /\ Of = p))
  /\ GoOn(p, IF thread[p].at = "EXIT" THEN "done" ELSE "loop")
  /\ UNCHANGED <<test, state, network>>

-----------------------------------------------------------------------------

TestSteps ==
  CreateThread \/ WaitForPeer \/ PeerEvent \/ LookAtPeer \/ WaitForTcp \/ JoinThread

PeerSteps(p) ==
  \/ TakeEvent(p) \/ DoInit(p) \/ DoListen(p) \/ Listening(p) \/ DoAccept(p) \/ DoConnect(p)
  \/ Connected(p) \/ DoRun(p) \/ FunctionSends(p) \/ FunctionReturns(p) \/ DoClose(p)
  \/ UpdateClosed(p) \/ EventDone(p)

TesterNext == TestSteps \/ \E p \in TestPeers : PeerSteps(p) \/ CloseReturns(p)

-----------------------------------------------------------------------------
(* Properties *)

\* A test that calls the tester as the repository's tests and samples do comes, once it has
\* begun, to its end, unless a chisocket_close does not return: no event is overwritten before
\* it is acted on, no signal is lost between the two users of cv_event, no state is left before
\* the test has seen it, and no connect goes out before the server listens.
TestsFinish ==
  event["server"] # "NONE" ~> test = <<>> \/ \E p \in TestPeers : thread[p].at = "closing"

TesterTypeOK ==
  /\ sleeps \in BOOLEAN
  /\ sleeps => test # <<>>
  /\ event \in [TestPeers -> {"NONE", "INIT", "LISTEN", "ACCEPT", "CONNECT", "RUN", "CLOSE", "EXIT"}]
  /\ holds \in [TestPeers -> BOOLEAN]
  /\ state \in [TestPeers -> PeerStates]
  /\ \A p \in TestPeers : thread[p].prev \in PeerStates
  /\ network.sent \subseteq TestPeers /\ network.closed \subseteq TestPeers

=============================================================================
