-------------------------- MODULE MCChircRegistry --------------------------
(***************************************************************************)
(* Two scenes of chirc's registry, for TLC. In one the connections do      *)
(* without relays, and several register at a time. In the other everybody, *)
(* the resident too, relays messages, renames and gives others up; one     *)
(* connection comes after the other, but an evicted thread outlives its    *)
(* connection, and shares its descriptor with the next. Both at once have  *)
(* more states than a run has time for.                                    *)
(***************************************************************************)
EXTENDS ChircRegistry

CONSTANT MaxRelayed   \* bound: commands of all connections together, in the second scene

VARIABLE relaying   \* the scene

\* Nobody needs to be told anything, and the resident is silent.
Alone == pc'[1] = "read" /\ lost' = {} /\ \A t \in Conns : pc'[t] \notin {"send", "stuck"}

\* One descriptor besides the resident's, and one connection less.
Narrow == descriptor'[Max(Sockets)] = NoConn /\ newest' # N /\ commands' <= MaxRelayed

MCInit == Init /\ relaying \in BOOLEAN
MCNext == Next /\ UNCHANGED relaying /\ IF relaying THEN Narrow ELSE Alone

MCSpec == MCInit /\ [][MCNext]_<<vars, relaying>> /\ Fairness

=============================================================================
