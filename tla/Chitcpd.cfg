\* Two applications, one that serves and one that connects and watches, share two sockets
\* and two ports; two applications come and go while the daemon starts and stops and
\* another daemon connects; two debuggers look at three sockets; an application of two
\* threads meets a restart of the daemon and a signal.
SPECIFICATION MCSpec
CONSTANTS
  Clients = {app, tester}
  Nobody = nobody
  Servers = {app}
  Connectors = {tester}
  Watchers = {tester}
  Peers = {peer}
  TableSize = 2
  PortTableSize = 2
  EphemeralStart = 1
  AnyLocal = {TRUE}
  Awaited = {"FIN_WAIT_1"}
  MaxQueue = 1
  MaxPackets = 2
  Apps = {server, caller}
  Callers = {caller}
  Daemons = {other, self}
  Loopback = {self}
  ConnTableSize = 1
  MaxRequests = 1
  Debuggers = {d1, d2}
  NoMonitor = none
  Threads = {t1, t2}
  NoOwner = free
  MonSockets = 3
  Occupied = {1}
  Listener = 1
  MaxHits = 3
  first = first
  second = second
  LibThreads <- MCLibThreads
  Program <- MCProgram
  MaxStarts = 2
  MaxSignals = 1
INVARIANTS MCTypeOK SlotsAreNotStolen ThreadServesItsSocket PortsPointAtTheirSockets
  NoLockLeftBehind StopIsOrderly MonitorOutlivesItsUsers ActiveThreadsAnswer
  AnswersMatch
PROPERTIES ListenersGetStrangersOnly
\* Requests may wait for ever, bounds are reached, and the daemon ends.
CHECK_DEADLOCK FALSE
