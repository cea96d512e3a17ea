------------------------------ MODULE MCChitcpd ------------------------------
(***************************************************************************)
(* Views of one chitcpd, for TLC: its sockets (Sockets), its life (Server),  *)
(* its debuggers (DebugMonitor), and the library its applications call it     *)
(* through (ClientLibrary). As modelled they share no variable: what one of     *)
(* them can do does not depend on the state of the others, and a property of     *)
(* one holds of all together if it holds while the others stand still, which      *)
(* spares TLC the product of their states.                                         *)
(***************************************************************************)
EXTENDS Sockets, Server, DebugMonitor, ClientLibrary

CONSTANTS first, second   \* the two threads of an application

VARIABLE moving   \* the view whose steps are taken

\* One thread serves, the other connects; between them they make every call of the library.
MCProgram ==
  first :> <<"SOCKET", "BIND", "LISTEN", "ACCEPT", "WAIT_FOR_STATE">> @@
  second :> <<"CONNECT", "SEND", "RECV", "GET_SOCKET_STATE", "CLOSE">>

MCLibThreads == {first, second}

chitcpdVars == <<moving, socketVars, serverVars, debugVars, clientVars>>

MCInit ==
  /\ moving \in {"sockets", "server", "debug", "library"}
  /\ SocketsInit /\ ServerInit /\ DebugInit /\ ClientInit

MCNext ==
  /\ UNCHANGED moving
  /\ \/ /\ moving = "sockets" /\ SocketsNext
        /\ UNCHANGED <<serverVars, debugVars, clientVars>>
     \/ /\ moving = "server" /\ ServerNext
        /\ UNCHANGED <<socketVars, debugVars, clientVars>>
     \/ /\ moving = "debug" /\ DebugNext
        /\ UNCHANGED <<socketVars, serverVars, clientVars>>
     \/ /\ moving = "library" /\ ClientNext
        /\ UNCHANGED <<socketVars, serverVars, debugVars>>

MCSpec == MCInit /\ [][MCNext]_chitcpdVars

\* Each view's variables keep their types; those that stand still need no second look.
MCTypeOK ==
  /\ moving = "sockets" => SocketsTypeOK
  /\ moving = "server" => ServerTypeOK
  /\ moving = "debug" => DebugTypeOK
  /\ moving = "library" => ClientTypeOK

=============================================================================
