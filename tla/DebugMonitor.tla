----------------------------- MODULE DebugMonitor -----------------------------
(***************************************************************************)
(* A debugger's connection to chitcpd: the DEBUG request that registers a     *)
(* monitor for a socket (handlers.c), the breakpoints at which the daemon's    *)
(* threads ask the debugger what to do (breakpoint.c), ACCEPT handing the       *)
(* monitor of a listening socket on to the new one, and the other end: the       *)
(* debugger's thread for the connection and one thread per active socket          *)
(* (debug_api.c). What the daemon does with an answer is in Tcp.tla.              *)
(*                                                                              *)
(* Sockets are not released here, and the daemon is RUNNING: Sockets.tla and      *)
(* Server.tla have the rest. Any entries may be free at first, before that of      *)
(* the listening socket or after it, which matters: see CopyMonitor. A monitor is   *)
(* named by its debugger.                                                           *)
(***************************************************************************)
EXTENDS Naturals, FiniteSets

CONSTANTS
  Debuggers,    \* connections made by chitcpd_debug
  NoMonitor,
  Threads,      \* threads of the daemon that reach breakpoints
  NoOwner,        \* no thread
  MonSockets,   \* the number of sockets
  Occupied,     \* the entries in use at first; the others come out of ACCEPT
  Listener,     \* one of them listens, the others are active
  MaxHits       \* bound: breakpoints reached

ASSUME DebugAssumption ==
  /\ NoMonitor \notin Debuggers /\ NoOwner \notin Threads \cup Debuggers
  /\ Threads \cap Debuggers = {} /\ IsFiniteSet(Threads)
  /\ MonSockets \in Nat /\ Occupied \subseteq 0 .. MonSockets - 1 /\ Listener \in Occupied
  /\ MaxHits \in Nat

MonEntries == 0 .. MonSockets - 1
NoChild == MonSockets

VARIABLES
  exists,       \* the sockets whose entry is not available
  debug_monitor,   \* of each entry
  lock_debug_monitor,
  monitor,      \* debug_monitor_t of each debugger
  hit,          \* the threads at breakpoints
  hits,         \* bound: how many breakpoints have been reached
  registering,  \* the DEBUG request of each debugger
  wire,         \* the event or the answer that is on each debug connection
  debugger,     \* debug_thread
  active,       \* active_thread of each debugger and socket
  missed        \* ghost: monitors that ACCEPT has copied behind the sweep that removes them

debugVars == <<exists, debug_monitor, lock_debug_monitor, monitor, hit, hits, registering, wire,
               debugger, active, missed>>
daemonSide == <<exists, debug_monitor, lock_debug_monitor, monitor, hit, hits, missed>>

\* malloc and what DEBUG sets; "freed" when there is none.
Fresh == [at |-> "live", numwaiters |-> 0, dying |-> FALSE, lock_sockfd |-> NoOwner]
NoThreadYet == [at |-> "none", event_flag |-> "NONE", response |-> "UNSET"]

DebugInit ==
  /\ exists = Occupied
  /\ debug_monitor = [i \in MonEntries |-> NoMonitor]
  /\ lock_debug_monitor = [i \in MonEntries |-> NoOwner]
  /\ monitor = [d \in Debuggers |-> [Fresh EXCEPT !.at = "freed"]]
  /\ hit = [t \in Threads |-> [at |-> "out"]]
  /\ hits = 0
  /\ registering = [d \in Debuggers |-> [at |-> "new"]]
  /\ wire = [d \in Debuggers |-> [at |-> "idle"]]
  /\ debugger = [d \in Debuggers |-> [at |-> "none"]]
  /\ active = [d \in Debuggers |-> [i \in MonEntries |-> NoThreadYet]]
  /\ missed = {}

-----------------------------------------------------------------------------
(* DEBUG *)

Debug(d, i) ==
  /\ registering[d].at = "new"
  /\ i \in exists
  /\ monitor' = [monitor EXCEPT ![d] = Fresh]
  /\ registering' = [registering EXCEPT ![d] = [at |-> "lock", sock |-> i]]
  /\ UNCHANGED <<exists, debug_monitor, lock_debug_monitor, hit, hits, wire, debugger, active, missed>>

\* The entry's lock is kept while the answer is sent. A socket has one monitor (EAGAIN).
DebugLock(d) ==
  /\ registering[d].at = "lock"
  /\ LET i == registering[d].sock
     IN /\ lock_debug_monitor[i] = NoOwner
        /\ IF debug_monitor[i] # NoMonitor
             THEN /\ monitor' = [monitor EXCEPT ![d].at = "freed"]
                  /\ registering' = [registering EXCEPT ![d].at = "refused"]
                  /\ UNCHANGED lock_debug_monitor
             ELSE /\ lock_debug_monitor' = [lock_debug_monitor EXCEPT ![i] = d]
                  /\ registering' = [registering EXCEPT ![d].at = "answer"]
                  /\ UNCHANGED monitor
  /\ UNCHANGED <<exists, debug_monitor, hit, hits, wire, debugger, active, missed>>

\* The answer reaches the debugger, which starts its thread; or the debugger is gone.
DebugAnswer(d) ==
  /\ registering[d].at = "answer"
  /\ \/ /\ registering' = [registering EXCEPT ![d].at = "set"]
        /\ debugger' = [debugger EXCEPT ![d] =
             [at |-> "recv", passive |-> FALSE, first |-> TRUE, list |-> {}, ret |-> "NONE"]]
        /\ UNCHANGED <<lock_debug_monitor, monitor>>
     \/ /\ registering' = [registering EXCEPT ![d].at = "refused"]
        /\ lock_debug_monitor' = [lock_debug_monitor EXCEPT ![registering[d].sock] = NoOwner]
        /\ monitor' = [monitor EXCEPT ![d].at = "freed"]
        /\ UNCHANGED debugger
  /\ UNCHANGED <<exists, debug_monitor, hit, hits, wire, active, missed>>

\* The debugger asks for every event: which of them an entry reports is left open below.
DebugSet(d) ==
  /\ registering[d].at = "set"
  /\ debug_monitor' = [debug_monitor EXCEPT ![registering[d].sock] = d]
  /\ lock_debug_monitor' = [lock_debug_monitor EXCEPT ![registering[d].sock] = NoOwner]
  /\ registering' = [registering EXCEPT ![d].at = "done"]
  /\ UNCHANGED <<exists, monitor, hit, hits, wire, debugger, active, missed>>

-----------------------------------------------------------------------------
(* chitcpd_debug_breakpoint *)

At(t, h) == hit' = [hit EXCEPT ![t] = h]

\* A packet or a change of state at an active socket.
Reach(t, i) ==
  /\ hit[t].at = "out" /\ hits < MaxHits
  /\ i \in exists \ {Listener}
  /\ At(t, [at |-> "look", sock |-> i, child |-> NoChild])
  /\ hits' = hits + 1
  /\ UNCHANGED <<exists, debug_monitor, lock_debug_monitor, monitor, registering, wire, debugger, active, missed>>

\* ACCEPT has allocated the entry of the new socket, the first one that is free.
ReachAccept(t, i) ==
  /\ hit[t].at = "out" /\ hits < MaxHits
  /\ i \in MonEntries \ exists /\ \A j \in MonEntries \ exists : i <= j
  /\ exists' = exists \cup {i}
  /\ At(t, [at |-> "look", sock |-> Listener, child |-> i])
  /\ hits' = hits + 1
  /\ UNCHANGED <<debug_monitor, lock_debug_monitor, monitor, registering, wire, debugger, active, missed>>

\* Where ACCEPT goes on after its breakpoint has returned r: it copies the monitor.
Returned(t, r) ==
  At(t, IF hit[t].child # NoChild /\ r \notin {"NONE", "STOP"}
          THEN [at |-> "copy", sock |-> hit[t].sock, child |-> hit[t].child]
          ELSE [at |-> "out"])

\* numwaiters is raised before the entry's lock is released. The event may be one that
\* nobody asked for.
LookIgnored(t) ==
  /\ hit[t].at = "look"
  /\ lock_debug_monitor[hit[t].sock] = NoOwner
  /\ Returned(t, "NONE")
  /\ UNCHANGED <<exists, debug_monitor, lock_debug_monitor, monitor, hits, registering, wire, debugger, active, missed>>
Look(t) ==
  /\ hit[t].at = "look"
  /\ LET i == hit[t].sock
         d == debug_monitor[i]
     IN /\ lock_debug_monitor[i] = NoOwner /\ d # NoMonitor /\ monitor[d].at = "live"
        /\ monitor' = [monitor EXCEPT ![d].numwaiters = @ + 1]
        /\ At(t, [at |-> "wait", sock |-> i, child |-> hit[t].child, mon |-> d])
  /\ UNCHANGED <<exists, debug_monitor, lock_debug_monitor, hits, registering, wire, debugger, active, missed>>

\* The entry has a monitor that was freed: what happens from here on is undefined.
LookFreed(t) ==
  /\ hit[t].at = "look"
  /\ LET i == hit[t].sock
         d == debug_monitor[i]
     IN /\ lock_debug_monitor[i] = NoOwner /\ d # NoMonitor /\ monitor[d].at = "freed"
        /\ At(t, [at |-> "undefined", mon |-> d])
  /\ UNCHANGED <<exists, debug_monitor, lock_debug_monitor, monitor, hits, registering, wire, debugger, active, missed>>

\* With lock_sockfd: no longer waiting. Of a monitor that is dying nothing more is asked.
\* What is tested for 0 is the value before it was decremented, so that it is not freed here.
LockSockfd(t) ==
  /\ hit[t].at = "wait"
  /\ LET m == monitor[hit[t].mon]
     IN /\ m.lock_sockfd = NoOwner
        /\ monitor' = [monitor EXCEPT ![hit[t].mon] =
             [m EXCEPT !.numwaiters = m.numwaiters - 1,
                       !.lock_sockfd = IF m.dying THEN NoOwner ELSE t,
                       !.at = IF m.dying /\ m.numwaiters = 0 THEN "freed" ELSE m.at]]
        /\ IF m.dying THEN Returned(t, "NONE") ELSE hit' = [hit EXCEPT ![t].at = "send"]
  /\ UNCHANGED <<exists, debug_monitor, lock_debug_monitor, hits, registering, wire, debugger, active, missed>>

Gone(d) == debugger[d].at \in {"exited", "dead"}

SendEvent(t) ==
  /\ hit[t].at = "send"
  /\ LET d == hit[t].mon
     IN IF Gone(d)
          THEN hit' = [hit EXCEPT ![t].at = "stop"] /\ UNCHANGED wire
          ELSE /\ wire' = [wire EXCEPT ![d] =
                    [at |-> "event", sock |-> hit[t].sock, new |-> hit[t].child]]
               /\ hit' = [hit EXCEPT ![t].at = "answer"]
  /\ UNCHANGED <<exists, debug_monitor, lock_debug_monitor, monitor, hits, registering, debugger, active, missed>>

\* What a debugger that is gone has answered is still read.
TakeAnswer(t) ==
  /\ hit[t].at = "answer"
  /\ LET d == hit[t].mon
     IN /\ wire[d].at = "answer" \/ Gone(d)
        /\ IF wire[d].at = "answer" /\ wire[d].ret # "STOP"
             THEN /\ monitor' = [monitor EXCEPT ![d].lock_sockfd = NoOwner]
                  /\ Returned(t, wire[d].ret)
             ELSE /\ hit' = [hit EXCEPT ![t].at = "stop"]
                  /\ UNCHANGED monitor
        /\ wire' = [wire EXCEPT ![d] = [at |-> "idle"]]
  /\ UNCHANGED <<exists, debug_monitor, lock_debug_monitor, hits, registering, debugger, active, missed>>

\* The monitor is marked, and taken out of one entry after the other.
\* Mutant: beginning after the entry whose event it was.
StoppingLate(t) ==
  /\ hit[t].at = "stop"
  /\ monitor' = [monitor EXCEPT ![hit[t].mon].dying = TRUE]
  /\ At(t, [at |-> "sweep", mon |-> hit[t].mon, sock |-> hit[t].sock + 1, child |-> hit[t].child])
  /\ UNCHANGED <<exists, debug_monitor, lock_debug_monitor, hits, registering, wire, debugger, active, missed>>
Stopping(t) ==
  /\ hit[t].at = "stop"
  /\ monitor' = [monitor EXCEPT ![hit[t].mon].dying = TRUE]
  /\ At(t, [at |-> "sweep", mon |-> hit[t].mon, sock |-> 0, child |-> hit[t].child])
  /\ UNCHANGED <<exists, debug_monitor, lock_debug_monitor, hits, registering, wire, debugger, active, missed>>

SweepEntry(t) ==
  /\ hit[t].at = "sweep" /\ hit[t].sock < MonSockets
  /\ LET i == hit[t].sock
     IN IF i \in exists
          THEN /\ lock_debug_monitor[i] = NoOwner
               /\ debug_monitor' = [debug_monitor EXCEPT ![i] = IF @ = hit[t].mon THEN NoMonitor ELSE @]
          ELSE UNCHANGED debug_monitor
  /\ hit' = [hit EXCEPT ![t].sock = @ + 1]
  /\ UNCHANGED <<exists, lock_debug_monitor, monitor, hits, registering, wire, debugger, active, missed>>

\* The monitor is freed, unless somebody waits for it; then nobody will free it.
Destroy(t) ==
  /\ hit[t].at = "sweep" /\ hit[t].sock = MonSockets
  /\ LET m == monitor[hit[t].mon]
     IN monitor' = [monitor EXCEPT ![hit[t].mon] =
          [m EXCEPT !.lock_sockfd = NoOwner, !.at = IF m.numwaiters = 0 THEN "freed" ELSE m.at]]
  /\ At(t, [at |-> "out"])
  /\ UNCHANGED <<exists, debug_monitor, lock_debug_monitor, hits, registering, wire, debugger, active, missed>>

\* ACCEPT: with the locks of both entries. The monitor may have changed since it answered,
\* and a sweep that is under way may have passed the new entry and not the other one.
CopyMonitor(t) ==
  /\ hit[t].at = "copy"
  /\ lock_debug_monitor[hit[t].sock] = NoOwner /\ lock_debug_monitor[hit[t].child] = NoOwner
  /\ LET d == debug_monitor[hit[t].sock]
         passed == \E u \in Threads :
                     hit[u].at = "sweep" /\ hit[u].mon = d /\ hit[t].child < hit[u].sock
     IN /\ debug_monitor' = [debug_monitor EXCEPT ![hit[t].child] = d]
        /\ missed' = IF passed THEN missed \cup {d} ELSE missed
  /\ At(t, [at |-> "out"])
  /\ UNCHANGED <<exists, lock_debug_monitor, monitor, hits, registering, wire, debugger, active>>

-----------------------------------------------------------------------------
(* The debugger: debug_thread *)

Step(d, r) == debugger' = [debugger EXCEPT ![d] = r]

\* A pending connection is shown to the handler. When it wants to monitor the new socket,
\* a thread is made for that.
EventAccept(d, r) ==
  /\ debugger[d].at = "recv" /\ wire[d].at = "event" /\ wire[d].new # NoChild
  /\ LET seen == [debugger[d] EXCEPT !.passive = TRUE, !.first = FALSE, !.ret = r]
         i == wire[d].new
     IN /\ Step(d, CASE r = "STOP" -> [seen EXCEPT !.at = "quit"]
                     [] r = "ACCEPT_MONITOR" -> [seen EXCEPT !.at = "reply", !.list = @ \cup {i}]
                     [] OTHER -> [seen EXCEPT !.at = "reply"])
        /\ active' = IF r = "ACCEPT_MONITOR"
                       THEN [active EXCEPT ![d][i] = [NoThreadYet EXCEPT !.at = "wait"]] ELSE active
  /\ UNCHANGED <<daemonSide, registering, wire>>

\* Any other event goes to the thread of its socket: the first one makes it. An event for a
\* socket without one is answered like the event before it.
Event(d) ==
  /\ debugger[d].at = "recv" /\ wire[d].at = "event" /\ wire[d].new = NoChild
  /\ LET i == wire[d].sock
         list == IF debugger[d].first THEN debugger[d].list \cup {i} ELSE debugger[d].list
     IN /\ Step(d, [debugger[d] EXCEPT !.at = IF i \in list THEN "await" ELSE "reply",
                                        !.first = FALSE, !.list = list])
        /\ active' = [active EXCEPT ![d][i] =
             IF i \notin list THEN @
             ELSE [(IF debugger[d].first THEN [NoThreadYet EXCEPT !.at = "wait"] ELSE @)
                     EXCEPT !.event_flag = "EVENT"]]
  /\ UNCHANGED <<daemonSide, registering, wire>>

\* send_and_get_from_active, once the thread has answered. One that answers STOP ends, and is
\* joined; the only thread of an active socket takes this one with it.
AwaitActive(d) ==
  /\ debugger[d].at = "await"
  /\ LET i == wire[d].sock
         r == active[d][i].response
     IN /\ r # "UNSET"
        /\ r = "STOP" => active[d][i].at = "exited"
        /\ active' = [active EXCEPT ![d][i].response = "UNSET"]
        /\ Step(d, [debugger[d] EXCEPT !.ret = r,
             !.list = IF r = "STOP" THEN @ \ {i} ELSE @,
             !.at = IF r = "STOP" /\ ~debugger[d].passive THEN "quit" ELSE "reply"])
  /\ UNCHANGED <<daemonSide, registering, wire>>

Answer(d) ==
  /\ debugger[d].at = "reply"
  /\ wire' = [wire EXCEPT ![d] = [at |-> "answer", ret |-> debugger[d].ret]]
  /\ Step(d, [debugger[d] EXCEPT !.at = "recv"])
  /\ UNCHANGED <<daemonSide, registering, active>>

\* The threads that are left are told to stop and joined, one after the other, before the
\* connection is closed. Mutant: it is closed at once.
QuitAtOnce(d) ==
  /\ debugger[d].at = "quit"
  /\ Step(d, [at |-> "exited"])
  /\ UNCHANGED <<daemonSide, registering, wire, active>>
Quit(d) ==
  /\ debugger[d].at = "quit" /\ debugger[d].list = {}
  /\ Step(d, [at |-> "exited"])
  /\ UNCHANGED <<daemonSide, registering, wire, active>>

Kill(d) ==
  /\ debugger[d].at = "quit"
  /\ \E i \in debugger[d].list :
       /\ active' = [active EXCEPT ![d][i].event_flag = "KILL"]
       /\ Step(d, [debugger[d] EXCEPT !.at = "killed", !.list = @ \ {i}])
  /\ UNCHANGED <<daemonSide, registering, wire>>

Killed(d) ==
  /\ debugger[d].at = "killed"
  /\ \A i \in MonEntries : active[d][i].event_flag # "KILL"
  /\ Step(d, [debugger[d] EXCEPT !.at = "quit"])
  /\ UNCHANGED <<daemonSide, registering, wire, active>>

-----------------------------------------------------------------------------
(* The debugger: active_thread, and the process as a whole *)

\* With its lock, the thread answers an event with what the handler says, or with STOP when
\* the state of the socket is not to be had.
HandleEvent(d, i, r) ==
  /\ active[d][i].at = "wait" /\ active[d][i].event_flag = "EVENT"
  /\ active' = [active EXCEPT ![d][i] =
       [at |-> IF r = "STOP" THEN "exited" ELSE "wait", event_flag |-> "NONE", response |-> r]]
  /\ UNCHANGED <<daemonSide, registering, wire, debugger>>

HandleKill(d, i) ==
  /\ active[d][i].at = "wait" /\ active[d][i].event_flag = "KILL"
  /\ active' = [active EXCEPT ![d][i] = [at |-> "exited", event_flag |-> "NONE", response |-> "UNSET"]]
  /\ UNCHANGED <<daemonSide, registering, wire, debugger>>

\* The debugger's process ends.
Die(d) ==
  /\ debugger[d].at \notin {"none", "exited", "dead"}
  /\ Step(d, [at |-> "dead"])
  /\ active' = [active EXCEPT ![d] = [i \in MonEntries |-> NoThreadYet]]
  /\ UNCHANGED <<daemonSide, registering, wire>>

-----------------------------------------------------------------------------

Breakpoint(t) ==
  \/ \E i \in MonEntries : Reach(t, i) \/ ReachAccept(t, i)
  \/ LookIgnored(t) \/ Look(t) \/ LookFreed(t) \/ LockSockfd(t) \/ SendEvent(t) \/ TakeAnswer(t)
  \/ Stopping(t) \/ SweepEntry(t) \/ Destroy(t) \/ CopyMonitor(t)

DebugThread(d) ==
  \/ \E r \in {"NONE", "ACCEPT_MONITOR", "STOP"} : EventAccept(d, r)
  \/ Event(d) \/ AwaitActive(d) \/ Answer(d) \/ Quit(d) \/ Kill(d) \/ Killed(d)

DebugNext ==
  /\ \A t \in Threads : hit[t].at # "undefined"
  /\ \/ \E d \in Debuggers :
          \/ \E i \in MonEntries : Debug(d, i)
          \/ DebugLock(d) \/ DebugAnswer(d) \/ DebugSet(d)
          \/ DebugThread(d) \/ Die(d)
          \/ \E i \in MonEntries :
               \/ \E r \in {"NONE", "DROP", "STOP"} : HandleEvent(d, i, r)
               \/ HandleKill(d, i)
     \/ \E t \in Threads : Breakpoint(t)

DebugSpec == DebugInit /\ [][DebugNext]_debugVars

-----------------------------------------------------------------------------

\* Entries, monitors and threads keep their types, and numwaiters counts the waiting ones.
DebugTypeOK ==
  /\ exists \subseteq MonEntries
  /\ debug_monitor \in [MonEntries -> Debuggers \cup {NoMonitor}]
  /\ lock_debug_monitor \in [MonEntries -> Debuggers \cup {NoOwner}]
  /\ \A d \in Debuggers : LET m == monitor[d] IN
       /\ m.at \in {"live", "freed"} /\ m.lock_sockfd \in Threads \cup {NoOwner}
       /\ m.numwaiters = Cardinality({t \in Threads : hit[t].at = "wait" /\ hit[t].mon = d})
  /\ \A t \in Threads : hit[t].at \in
       {"out", "look", "wait", "send", "answer", "stop", "sweep", "copy", "undefined"}
  /\ missed \subseteq Debuggers
  /\ \A d \in Debuggers : /\ wire[d].at \in {"idle", "event", "answer"}
                          /\ debugger[d].at \in
                               {"none", "recv", "await", "reply", "quit", "killed", "exited", "dead"}

\* 'Complicated synchronization' keeps a monitor from being destroyed while other threads
\* wait to write to its debugger (breakpoint.c:83): no thread at a breakpoint has a monitor in
\* its hands that was freed, and an entry has one, which the next breakpoint there will use,
\* only if ACCEPT copied it behind the sweep that took it out of the table, the race that
\* handlers.c:638 admits.
MonitorOutlivesItsUsers ==
  /\ \A t \in Threads : hit[t].at \in {"wait", "send", "answer", "stop", "sweep"}
       => monitor[hit[t].mon].at = "live"
  /\ \A i \in MonEntries : debug_monitor[i] \notin missed \cup {NoMonitor}
       => monitor[debug_monitor[i]].at = "live"
  /\ \A t \in Threads : hit[t].at = "undefined" => hit[t].mon \in missed

\* The debugger waits only for threads that will answer: those in its list are alive, and
\* none of them outlives it.
ActiveThreadsAnswer ==
  \A d \in Debuggers :
    /\ debugger[d].at \in {"recv", "reply"} => \A i \in debugger[d].list : active[d][i].at = "wait"
    /\ debugger[d].at = "exited" => \A i \in MonEntries : active[d][i].at \in {"none", "exited"}

=============================================================================
