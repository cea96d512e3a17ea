-------------------------------- MODULE Router --------------------------------
(***************************************************************************)
(* A session of the simple router (sr_main.c, sr_vns_comm.c) with the VNS     *)
(* server that lends it its interfaces (pox_module/cs144/srhandler.py): the     *)
(* router authenticates, opens its topology, is told its hardware, and then       *)
(* handles the frames that the server passes on. The server passes frames on to    *)
(* every client that has connected, whatever stage it is at.                        *)
(*                                                                                  *)
(* Of a frame its kind is kept, and of an ARP request whose address it asks for;      *)
(* interfaces are named by their IP addresses, which differ (IP_CONFIG). IP packets    *)
(* end at the checksum test of sr_handlepacket, which cksum, never 0, never passes:     *)
(* forwarding and the queue of the ARP cache are not reached. Frames are long enough for    *)
(* their headers.                                                                            *)
(***************************************************************************)
EXTENDS Naturals, Sequences, FiniteSets

CONSTANTS
  Ifaces,       \* the interfaces of the switch
  RtFiles,      \* what the routing table file may name: sets of interfaces
  MaxFrames     \* bound: frames from the hosts

ASSUME RouterAssumption == MaxFrames \in Nat

VARIABLES
  sr,           \* the router: where it is, its if_list, its routing table, its options
  down, up,     \* the TCP connection: messages for the router, and for the server
  vns,          \* the server: whether the client is listed, its interfaces known, the connection lost
  asked,        \* ghost: the ARP requests the hosts have sent
  answered,     \* the ARP replies that have reached the switch
  frames        \* bound

routerVars == <<sr, down, up, vns, asked, answered, frames>>

RouterInit ==
  /\ \E file \in RtFiles, template \in BOOLEAN :
       sr = [at |-> "start", if_list |-> {}, routing_table |-> {}, file |-> file,
             template |-> template]
  /\ down = <<>> /\ up = <<>>
  /\ vns = [listed |-> FALSE, interfaces |-> {}, lost |-> FALSE]
  /\ asked = {} /\ answered = {} /\ frames = 0

-----------------------------------------------------------------------------
(* The server *)

Msg(type) == [type |-> type]
Packet(iface, frame) == [type |-> "PACKET", iface |-> iface, frame |-> frame]
ToRouter(msgs) == down' = IF vns.lost THEN down ELSE down \o msgs
Received(type) == ~vns.lost /\ up # <<>> /\ Head(up).type = type

\* The switch has connected to the controller.
handle_RouterInfo ==
  /\ vns.interfaces = {}
  /\ vns' = [vns EXCEPT !.interfaces = Ifaces]
  /\ UNCHANGED <<sr, down, up, asked, answered, frames>>

handle_new_client ==
  /\ sr.at = "connecting" /\ ~vns.listed
  /\ vns' = [vns EXCEPT !.listed = TRUE]
  /\ ToRouter(<<Msg("AUTH_REQUEST")>>)
  /\ sr' = [sr EXCEPT !.at = "AUTH_REQUEST"]
  /\ UNCHANGED <<up, asked, answered, frames>>

handle_auth_reply ==
  /\ Received("AUTH_REPLY")
  /\ ToRouter(<<Msg("AUTH_STATUS")>>) /\ up' = Tail(up)
  /\ UNCHANGED <<sr, vns, asked, answered, frames>>

\* With no interfaces yet there is an exception, and no answer.
handle_open_msg ==
  /\ Received("OPEN")
  /\ ToRouter(IF vns.interfaces = {} THEN <<>>
                ELSE <<[type |-> "HWINFO", interfaces |-> vns.interfaces]>>)
  /\ up' = Tail(up)
  /\ UNCHANGED <<sr, vns, asked, answered, frames>>

\* srhandler has no _handle_open_template_msg, and the exception costs the client its
\* connection; the VNS server the protocol is from answers with a table and the hardware.
handle_open_template_msg ==
  /\ Received("OPEN_TEMPLATE")
  /\ \/ vns' = [vns EXCEPT !.lost = TRUE] /\ UNCHANGED down
     \/ /\ ToRouter(<<Msg("RTABLE"), [type |-> "HWINFO", interfaces |-> Ifaces]>>)
        /\ UNCHANGED vns
  /\ up' = Tail(up)
  /\ UNCHANGED <<sr, asked, answered, frames>>

\* A frame of a host goes to every client on the list.
handle_SRPacketIn ==
  /\ frames < MaxFrames /\ vns.listed /\ vns.interfaces # {}
  /\ frames' = frames + 1
  /\ \E iface \in Ifaces, frame \in {<<"request", tip>> : tip \in Ifaces} \cup {<<"reply">>, <<"ip">>} :
       /\ ToRouter(<<Packet(iface, frame)>>)
       /\ asked' = IF frame[1] = "request" THEN asked \cup {<<iface, frame[2]>>} ELSE asked
  /\ UNCHANGED <<sr, up, vns, answered>>

handle_packet_msg ==
  /\ Received("PACKET")
  /\ answered' = answered \cup {<<Head(up).iface, Head(up).frame[2]>>} /\ up' = Tail(up)
  /\ UNCHANGED <<sr, down, vns, asked, frames>>

\* The controller ends, or (the VNS server) closes the session.
ServerEnds ==
  /\ ~vns.lost /\ vns.listed
  /\ vns' = [vns EXCEPT !.lost = TRUE]
  /\ down' \in {down, Append(down, Msg("CLOSE"))}
  /\ UNCHANGED <<sr, up, asked, answered, frames>>

-----------------------------------------------------------------------------
(* The router *)

Goes(where) == sr' = [sr EXCEPT !.at = where]
ToServer(msg) == up' = Append(up, msg)

\* sr_load_rt, sr_add_rt_entry: of the entries of the file their interfaces.
sr_load_rt == sr.file

\* main, up to the connection: a template brings its own routing table.
Start ==
  /\ sr.at = "start"
  /\ sr' = [sr EXCEPT !.at = "connecting", !.routing_table = IF sr.template THEN {} ELSE sr_load_rt]
  /\ UNCHANGED <<down, up, vns, asked, answered, frames>>

\* sr_read_from_server_expect: the next message. At the end of the stream recv returns 0,
\* and the loop goes round for ever.
Reading == sr.at \in {"AUTH_REQUEST", "AUTH_STATUS", "RTABLE", "loop"}

EndOfStream ==
  /\ Reading /\ vns.lost /\ down = <<>>
  /\ Goes("spins")
  /\ UNCHANGED <<down, up, vns, asked, answered, frames>>

Reads(type) ==
  /\ Reading /\ down # <<>> /\ Head(down).type = type
  /\ down' = Tail(down)
  /\ UNCHANGED <<vns, asked, answered, frames>>

Wanted(type) == sr.at \in {type, "loop"}

\* What is not expected ends the router, a CLOSE always does.
Unexpected ==
  \E type \in {"AUTH_STATUS", "RTABLE", "HWINFO", "PACKET", "CLOSE"} :
    /\ Reads(type) /\ (type = "CLOSE" \/ ~Wanted(type))
    /\ Goes("exited")
    /\ UNCHANGED up

\* The key file may be missing.
sr_handle_auth_request ==
  /\ Reads("AUTH_REQUEST")
  /\ \/ ToServer(Msg("AUTH_REPLY")) /\ Goes("AUTH_STATUS")
     \/ Goes("exited") /\ UNCHANGED up

OpenSession == ToServer(Msg(IF sr.template THEN "OPEN_TEMPLATE" ELSE "OPEN"))

\* ... and the session is opened.
sr_handle_auth_status ==
  /\ Reads("AUTH_STATUS") /\ Wanted("AUTH_STATUS")
  /\ OpenSession
  /\ Goes(IF sr.template THEN "RTABLE" ELSE "loop")

\* The table is written to a file, and that or the given one is read again.
sr_handle_rtable ==
  /\ Reads("RTABLE") /\ Wanted("RTABLE")
  /\ sr' = [sr EXCEPT !.at = "loop", !.routing_table = sr_load_rt]
  /\ UNCHANGED up

sr_verify_routing_table(ifs) ==
  ifs # {} /\ sr.routing_table # {} /\ sr.routing_table \subseteq ifs

\* One after the other they are added at the end of the list, with their addresses.
sr_add_interfaces(new) == sr.if_list \cup new

sr_handle_hwinfo ==
  /\ Reads("HWINFO") /\ Wanted("HWINFO")
  /\ LET ifs == sr_add_interfaces(Head(down).interfaces)
     IN sr' = [sr EXCEPT !.if_list = ifs,
                         !.at = IF sr_verify_routing_table(ifs) THEN "loop" ELSE "exited"]
  /\ UNCHANGED up

Frame == Head(down).frame
Iface == Head(down).iface
sr_get_interface(name) == name \in sr.if_list

\* Asserts that the interface is known, which it is not before the hardware is.
NoInterface ==
  /\ Reads("PACKET") /\ Wanted("PACKET") /\ ~sr_get_interface(Iface)
  /\ Goes("aborted")
  /\ UNCHANGED up

ReadsFrame(kind) ==
  Reads("PACKET") /\ Wanted("PACKET") /\ sr_get_interface(Iface) /\ Frame[1] = kind

\* The request comes by another interface than that whose address it asks for. Mutant: that
\* is not looked at.
sr_arp_req_for_anyone == FALSE
sr_arp_req_not_for_us == Frame[2] # Iface

\* The interface that has the address is looked for on the list, whichever the request came by,
\* and the reply leaves by it.
handle_arpreq_recieved ==
  /\ ReadsFrame("request")
  /\ IF ~sr_arp_req_not_for_us /\ Frame[2] \in sr.if_list
       THEN ToServer(Packet(Frame[2], <<"reply", Frame[2]>>)) ELSE UNCHANGED up
  /\ UNCHANGED sr

\* Nothing was asked, so sr_arpcache_insert returns no request, and it is dereferenced.
handle_arprep ==
  /\ ReadsFrame("reply")
  /\ Goes("crashed")
  /\ UNCHANGED up

\* The checksum of a packet is never 0.
DropIP ==
  /\ ReadsFrame("ip")
  /\ UNCHANGED <<sr, up>>

RouterNext ==
  \/ handle_RouterInfo \/ handle_new_client \/ handle_auth_reply \/ handle_open_msg
  \/ handle_open_template_msg \/ handle_SRPacketIn \/ handle_packet_msg \/ ServerEnds
  \/ Start \/ EndOfStream \/ Unexpected \/ sr_handle_auth_request \/ sr_handle_auth_status
  \/ sr_handle_rtable \/ sr_handle_hwinfo \/ NoInterface \/ handle_arpreq_recieved
  \/ handle_arprep \/ DropIP

RouterSpec == RouterInit /\ [][RouterNext]_routerVars

-----------------------------------------------------------------------------
(* Properties *)

\* An ARP reply leaves by the interface its request has come in by, for that interface's own
\* address, though the code that makes it looks at neither: two checks in two files keep a
\* host from being answered on another host's wire. And no reply leaves before the hardware
\* is known and agrees with the routing table.
AnswersGoBack ==
  /\ answered \subseteq {<<i, i>> : i \in Ifaces}
  /\ answered \subseteq asked
  /\ answered # {} => sr.routing_table # {} /\ sr.routing_table \subseteq sr.if_list

RouterTypeOK ==
  /\ sr.at \in {"start", "connecting", "AUTH_REQUEST", "AUTH_STATUS", "RTABLE", "loop",
                "exited", "aborted", "crashed", "spins"}
  /\ sr.if_list \subseteq Ifaces
  /\ frames \in 0 .. MaxFrames

=============================================================================
