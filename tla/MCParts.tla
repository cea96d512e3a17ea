-------------------------------- MODULE MCParts --------------------------------
(***************************************************************************)
(* Four programs that stand alone, for TLC: the buffer of a chitcp socket    *)
(* (CircularBuffer), the list behind its queues (Simclist), the tester of      *)
(* libchitcp (Tester), and the simple router's session (Router). They share no  *)
(* variable; one moves and the others stand still.                              *)
(***************************************************************************)
EXTENDS CircularBuffer, Simclist, Tester, Router

VARIABLE moving   \* the part whose steps are taken

partsVars == <<moving, vars, listVars, testerVars, routerVars>>

\* Of what stands still, one initial state is enough.
PartsInit ==
  /\ moving \in {"buffer", "list", "tester", "router"}
  /\ Init /\ ListInit /\ TesterInit /\ RouterInit
  /\ moving # "buffer" => seqStart = 0
  /\ moving # "tester" => test = test_handshake
  /\ moving # "router" => sr.file = Ifaces /\ ~sr.template

PartsNext ==
  /\ UNCHANGED moving
  /\ \/ moving = "buffer" /\ Next /\ UNCHANGED <<listVars, testerVars, routerVars>>
     \/ moving = "list" /\ ListNext /\ UNCHANGED <<vars, testerVars, routerVars>>
     \/ moving = "tester" /\ TesterNext /\ UNCHANGED <<vars, listVars, routerVars>>
     \/ moving = "router" /\ RouterNext /\ UNCHANGED <<vars, listVars, testerVars>>

\* The buffer: a thread inside a call keeps running, and a reader calls again (the scheduler,
\* and an application that keeps receiving); of when a writer calls nothing is assumed.
\* The tester: every thread runs when it can.
PartsFairness ==
  /\ \A w \in Writers : WF_vars(moving = "buffer" /\ WriterSteps(w))
  /\ \A r \in Readers : WF_vars(moving = "buffer" /\ Read(r))
  /\ WF_testerVars(moving = "tester" /\ TestSteps)
  /\ \A p \in TestPeers : WF_testerVars(moving = "tester" /\ PeerSteps(p))

PartsSpec == PartsInit /\ [][PartsNext]_partsVars /\ PartsFairness

PartsTypeOK ==
  /\ moving = "buffer" => TypeOK
  /\ moving = "list" => ListTypeOK
  /\ moving = "tester" => TesterTypeOK
  /\ moving = "router" => RouterTypeOK

=============================================================================
