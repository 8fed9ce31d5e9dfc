------------------------------ MODULE Sockets ------------------------------
(***************************************************************************)
(* The sockets of the kernel: the table of sockets and the two maps from   *)
(* ports to sockets (net/socket.rs), the socket calls and the handling of  *)
(* received packets (net/mod.rs), the states of TCP (net/tcp.rs) and the   *)
(* buffer of a UDP socket (net/udp.rs).  Sequence numbers and TCP data are *)
(* the subject of module TcpStream.  Every operation holds the lock of the *)
(* network manager, hence is one step; packets come in any order, any      *)
(* number of times.                                                        *)
(***************************************************************************)
EXTENDS Integers, Sequences, FiniteSets

CONSTANTS
    Kinds,        \* kinds of sockets in use, a subset of Stream and Dgram
    Ports,        \* ports below the ephemeral ones
    Ephemeral,    \* PORT_EPHEMERAL_START .. PORT_EPHEMERAL_END
    Remotes,      \* pairs of address and port of the other side
    None,
    MaxSockets,   \* bound: sockets ever created
    MaxDatagrams  \* bound: UDP packets ever received

Stream == "Stream"
Dgram == "Dgram"

ASSUME SocketsAssumption ==
    /\ Kinds \subseteq {Stream, Dgram}
    /\ Ports \subseteq Nat \ {0} /\ Ephemeral \subseteq Nat \ {0}
    /\ None \notin Remotes
    /\ MaxSockets \in Nat /\ MaxDatagrams \in Nat

VARIABLES
    table,                   \* SocketId -> Socket
    tcp_port_socket_id_map,  \* port -> SocketId
    udp_port_socket_id_map,
    NEXT,                    \* the next SocketId
    held,                    \* the SocketIds programs were given
    datagrams                \* history: number of UDP packets received

maps == <<tcp_port_socket_id_map, udp_port_socket_id_map>>
socketsVars == <<table, maps, NEXT, held, datagrams>>

Ids == 1 .. MaxSockets

States == {"Closed", "Listen", "SynReceived", "SynSent", "Established", "CloseWait"}

Socket(kind) == [kind |-> kind, port |-> 0, state |-> "Closed", remote |-> None, buf |-> <<>>]

Extend(f, x, y) == [z \in DOMAIN f \cup {x} |-> IF z = x THEN y ELSE f[z]]
Without(f, x) == [z \in DOMAIN f \ {x} |-> f[z]]

Used == DOMAIN tcp_port_socket_id_map \cup DOMAIN udp_port_socket_id_map

SocketsInit ==
    /\ table = <<>>
    /\ tcp_port_socket_id_map = <<>>
    /\ udp_port_socket_id_map = <<>>
    /\ NEXT = 1
    /\ held = {}
    /\ datagrams = 0

----------------------------------------------------------------------------
insert_new_socket(kind) ==
    /\ NEXT <= MaxSockets
    /\ NEXT' = NEXT + 1
    /\ table' = Extend(table, NEXT, Socket(kind))

create_new_socket(kind) ==
    /\ insert_new_socket(kind)
    /\ held' = held \cup {NEXT}
    /\ UNCHANGED <<maps, datagrams>>

(* The port bind_port gives when asked for one, 0 asking for any: the      *)
(* first ephemeral one neither protocol uses, if there is one.             *)
select_port(port) ==
    IF port # 0 THEN {port} \ Used
    ELSE {p \in Ephemeral \ Used : \A q \in Ephemeral \ Used : p <= q}

(* bind_port of a socket that is in table t.                               *)
bind_port(t, id, port) ==
    /\ table' = [t EXCEPT ![id].port = port]
    /\ IF t[id].kind = Stream
       THEN /\ tcp_port_socket_id_map' = Extend(tcp_port_socket_id_map, port, id)
            /\ UNCHANGED udp_port_socket_id_map
       ELSE /\ udp_port_socket_id_map' = Extend(udp_port_socket_id_map, port, id)
            /\ UNCHANGED tcp_port_socket_id_map

(* A socket is bound once; the address it is bound to is never looked at.  *)
bind_socket_v4(id, port) ==
    /\ table[id].port = 0
    /\ \E p \in select_port(port) : bind_port(table, id, p)
    /\ UNCHANGED <<NEXT, held, datagrams>>

(* start_passive.                                                          *)
listen_tcp_v4(id) ==
    /\ table[id].kind = Stream /\ table[id].port # 0 /\ table[id].state = "Closed"
    /\ table' = [table EXCEPT ![id].state = "Listen"]
    /\ UNCHANGED <<maps, NEXT, held, datagrams>>

(* A socket with no port gets one, also one that then cannot connect.      *)
(* Running out of ports is an error before anything changes.               *)
connect_tcp_v4(id, r) ==
    LET t == IF table[id].kind = Stream /\ table[id].state = "Closed"
             THEN [table EXCEPT ![id].state = "SynSent", ![id].remote = r]
             ELSE table
    IN  /\ IF table[id].port = 0
           THEN \E p \in select_port(0) : bind_port(t, id, p)
           ELSE table' = t /\ UNCHANGED maps
        /\ UNCHANGED <<NEXT, held, datagrams>>

(* find_tcp_established_socket                                             *)
Established(port) ==
    {id \in DOMAIN table : table[id].kind = Stream /\ table[id].port = port
                            /\ table[id].state = "Established"}

first_established(port) == {c \in Established(port) : \A d \in Established(port) : c <= d}

(* The first connection of the listener's port that is established.  The   *)
(* socket is not marked: the next call may return it again.                *)
accept_tcp_v4(id) ==
    /\ table[id].kind = Stream /\ table[id].state = "Listen"
    /\ \E c \in first_established(table[id].port) : held' = held \cup {c}
    /\ UNCHANGED <<table, maps, NEXT, datagrams>>

remove_socket_KeepsPort(id) ==
    /\ table' = Without(table, id)
    /\ UNCHANGED maps

remove_socket(id) ==
    LET s == table[id] IN
    /\ table' = Without(table, id)
    /\ tcp_port_socket_id_map' =
            IF s.kind = Stream THEN Without(tcp_port_socket_id_map, s.port)
            ELSE tcp_port_socket_id_map
    /\ udp_port_socket_id_map' =
            IF s.kind = Dgram THEN Without(udp_port_socket_id_map, s.port)
            ELSE udp_port_socket_id_map

(* The FIN that is sent first changes nothing that outlives the socket.    *)
close_socket(id) ==
    /\ remove_socket(id)
    /\ held' = held \ {id}
    /\ UNCHANGED <<NEXT, datagrams>>

----------------------------------------------------------------------------
(* Received packets.                                                       *)

(* find_tcp_socket_by_port_and_addr                                        *)
Connected(port, r) ==
    {id \in DOMAIN table : table[id].kind = Stream /\ table[id].port = port /\ table[id].remote = r}

tcp_socket_by_port_OwnerFirst(port, r) ==
    IF port \in DOMAIN tcp_port_socket_id_map THEN {tcp_port_socket_id_map[port]}
    ELSE {id \in Connected(port, r) : \A i \in Connected(port, r) : id <= i}

(* The socket a TCP packet is for: that of the connection, or else the     *)
(* owner of the port.                                                      *)
tcp_socket_by_port(port, r) ==
    IF Connected(port, r) # {}
    THEN {id \in Connected(port, r) : \A i \in Connected(port, r) : id <= i}
    ELSE {tcp_port_socket_id_map[p] : p \in {port} \cap DOMAIN tcp_port_socket_id_map}

(* Nobody's port: a socket is created and bound to it, or stays unbound    *)
(* because the other protocol has the port.                                *)
receive_unbound(kind, port) ==
    /\ NEXT <= MaxSockets
    /\ NEXT' = NEXT + 1
    /\ IF port \in Used
       THEN table' = Extend(table, NEXT, Socket(kind)) /\ UNCHANGED maps
       ELSE bind_port(Extend(table, NEXT, Socket(kind)), NEXT, port)

(* The listener stays; a socket of its port, in no map, gets the           *)
(* connection.                                                             *)
new_connection(id, port, r) ==
    /\ NEXT <= MaxSockets
    /\ NEXT' = NEXT + 1
    /\ table' = Extend(table, NEXT, [Socket(Stream) EXCEPT
                            !.port = port, !.remote = r, !.state = "SynReceived"])

(* The state a packet with these flags leaves the socket in.               *)
state_after(state, flags) ==
    CASE state = "SynSent" /\ {"SYN", "ACK"} \subseteq flags -> "Established"
      [] state = "SynReceived" /\ "ACK" \in flags -> "Established"
      [] state = "Established" /\ "FIN" \in flags -> "CloseWait"
      [] OTHER -> state

receive_tcp_packet(port, r, flags) ==
    LET target == tcp_socket_by_port(port, r) IN
    /\ \/ /\ target = {}
          /\ receive_unbound(Stream, port)
       \/ \E id \in target :
            /\ table[id].state = "Listen" /\ "SYN" \in flags
            /\ new_connection(id, port, r)
            /\ UNCHANGED maps
       \/ \E id \in target :
            /\ table[id].state # "Listen"
            /\ table' = [table EXCEPT ![id].state = state_after(@, flags)]
            /\ UNCHANGED <<maps, NEXT>>
    /\ UNCHANGED <<held, datagrams>>

(* The bytes of the n-th packet are numbered, to be told apart.            *)
Datagram(n, len) == [i \in 1 .. len |-> <<n, i>>]

(* UdpSocket::receive appends to the buffer; the first packet for a port   *)
(* nobody has creates a socket for it.                                     *)
receive_udp_packet(port, len) ==
    /\ datagrams < MaxDatagrams
    /\ datagrams' = datagrams + 1
    /\ IF port \in DOMAIN udp_port_socket_id_map
       THEN /\ table' = [table EXCEPT ![udp_port_socket_id_map[port]].buf =
                                @ \o Datagram(datagrams + 1, len)]
            /\ UNCHANGED <<maps, NEXT>>
       ELSE IF port \in Used THEN receive_unbound(Dgram, port)
       ELSE /\ NEXT <= MaxSockets
            /\ NEXT' = NEXT + 1
            /\ bind_port(Extend(table, NEXT,
                    [Socket(Dgram) EXCEPT !.buf = Datagram(datagrams + 1, len)]), NEXT, port)
    /\ UNCHANGED held

(* What read_buf leaves in the buffer.                                     *)
rest(buf, len) == SubSeq(buf, (IF len < Len(buf) THEN len ELSE Len(buf)) + 1, Len(buf))

recvfrom_udp_v4(id, len) ==
    LET buf == table[id].buf IN
    /\ table[id].kind = Dgram /\ buf # <<>>
    /\ table' = [table EXCEPT ![id].buf = rest(buf, len)]
    /\ UNCHANGED <<maps, NEXT, held, datagrams>>

----------------------------------------------------------------------------
Flags == {{"SYN"}, {"SYN", "ACK"}, {"ACK"}, {"FIN", "ACK"}}

SocketsNext ==
    \/ \E kind \in Kinds : create_new_socket(kind)
    \/ \E id \in held :
        \/ \E port \in Ports \cup {0} : bind_socket_v4(id, port)
        \/ listen_tcp_v4(id)
        \/ accept_tcp_v4(id)
        \/ \E r \in Remotes : connect_tcp_v4(id, r)
        \/ close_socket(id)
        \/ \E len \in 1 .. 2 : recvfrom_udp_v4(id, len)
    \/ \E port \in Ports \cup Ephemeral, r \in Remotes, flags \in Flags :
            receive_tcp_packet(port, r, flags)
    \/ \E port \in Ports \cup Ephemeral, len \in 1 .. 2 : receive_udp_packet(port, len)

SocketsSpec == SocketsInit /\ [][SocketsNext]_socketsVars

----------------------------------------------------------------------------
(* The state is well typed.                                                *)
SocketRecords ==
    [kind : {Stream, Dgram}, port : Ports \cup Ephemeral \cup {0}, state : States,
     remote : Remotes \cup {None}, buf : Seq(Nat \X Nat)]

SocketsTypeOK ==
    /\ NEXT \in 1 .. MaxSockets + 1 /\ datagrams \in Nat
    /\ DOMAIN table \subseteq 1 .. NEXT - 1
    /\ \A id \in DOMAIN table : table[id] \in SocketRecords
    /\ Used \subseteq Ports \cup Ephemeral
    /\ held \subseteq DOMAIN table

(* The port maps never name a socket that is gone, of the other kind or of *)
(* another port, and never give one port to both protocols, so that the    *)
(* lookups of received packets cannot fail half way.  A bound UDP socket   *)
(* is the one its port leads to: no other socket takes its packets,        *)
(* whatever is bound, closed and created by packets meanwhile.             *)
PortMapsSound ==
    /\ SocketsTypeOK
    /\ DOMAIN tcp_port_socket_id_map \cap DOMAIN udp_port_socket_id_map = {}
    /\ \A p \in DOMAIN tcp_port_socket_id_map :
        LET id == tcp_port_socket_id_map[p] IN
        id \in DOMAIN table /\ table[id].kind = Stream /\ table[id].port = p
    /\ \A p \in DOMAIN udp_port_socket_id_map :
        LET id == udp_port_socket_id_map[p] IN
        id \in DOMAIN table /\ table[id].kind = Dgram /\ table[id].port = p
    /\ \A id \in DOMAIN table :
        table[id].kind = Dgram /\ table[id].port # 0 =>
            /\ table[id].port \in DOMAIN udp_port_socket_id_map
            /\ udp_port_socket_id_map[table[id].port] = id

(* Only a socket of TCP leaves the state Closed, and one that knows its    *)
(* other side is not a listener and cannot become one.                     *)
StatesSound ==
    \A id \in DOMAIN table :
        /\ table[id].kind = Dgram => table[id].state = "Closed"
        /\ table[id].remote # None => table[id].state \notin {"Closed", "Listen"}

(* A SYN that is sent again, before or after the connection is accepted,   *)
(* never makes a second socket for its connection.                         *)
OneSocketPerSyn ==
    [][\A id \in DOMAIN table' \ DOMAIN table :
        table'[id].remote # None => Connected(table'[id].port, table'[id].remote) = {}]_socketsVars

(* net/mod.rs, on the socket of a new connection: "manually set port       *)
(* without registering to map".  The map is left to the listener, so that  *)
(* the port of a listener leads to it.                                     *)
ListenerReachable ==
    \A id \in DOMAIN table :
        table[id].state = "Listen" =>
            /\ table[id].port \in DOMAIN tcp_port_socket_id_map
            /\ tcp_port_socket_id_map[table[id].port] = id
=============================================================================
