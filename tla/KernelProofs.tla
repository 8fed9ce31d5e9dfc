---------------------------- MODULE KernelProofs ---------------------------
(* Proofs about parts of the kernel that stand alone: the sockets of       *)
(* net/socket.rs (Sockets), the ring of util/fifo.rs (Fifo), the frames of *)
(* mem/bitmap.rs (FrameBitmap) and the registers of a task (Context).      *)
EXTENDS Sockets, Fifo, FrameBitmap, Context, TLAPS

(* Sockets, for every set of ports, of peers and any number of sockets.    *)
(* With StatesSound, PortMapsSound is inductive: the socket that is asked  *)
(* for a connection must be a listener, and only one without a peer is.    *)

SocketsInv == PortMapsSound /\ StatesSound

(* A record of a socket, field by field.                                   *)
LEMMA SocketFields ==
    ASSUME NEW s \in SocketRecords
    PROVE  /\ s.kind \in {Stream, Dgram} /\ s.port \in Ports \cup Ephemeral \cup {0}
           /\ s.state \in States /\ s.remote \in Remotes \cup {None} /\ s.buf \in Seq(Nat \X Nat)
           /\ \A p \in Ports \cup Ephemeral \cup {0} :
                LET u == [s EXCEPT !.port = p] IN
                /\ u \in SocketRecords /\ u.port = p
                /\ u.kind = s.kind /\ u.state = s.state /\ u.remote = s.remote
           /\ \A a \in States :
                LET u == [s EXCEPT !.state = a] IN
                /\ u \in SocketRecords /\ u.state = a
                /\ u.kind = s.kind /\ u.port = s.port /\ u.remote = s.remote
           /\ \A r \in Remotes \cup {None} :
                LET u == [s EXCEPT !.remote = r] IN
                /\ u \in SocketRecords /\ u.remote = r
                /\ u.kind = s.kind /\ u.port = s.port /\ u.state = s.state
           /\ \A b \in Seq(Nat \X Nat) :
                LET u == [s EXCEPT !.buf = b] IN
                /\ u \in SocketRecords
                /\ u.kind = s.kind /\ u.port = s.port /\ u.state = s.state /\ u.remote = s.remote
BY Zenon DEF SocketRecords

(* The record of a new socket.                                             *)
LEMMA NewSocket ==
    ASSUME NEW kind \in {Stream, Dgram}
    PROVE  /\ Socket(kind) \in SocketRecords
           /\ Socket(kind).kind = kind /\ Socket(kind).port = 0
           /\ Socket(kind).state = "Closed" /\ Socket(kind).remote = None
BY DEF Socket, SocketRecords, States

(* Sockets that are added or changed without touching the maps: the maps   *)
(* stay sound as long as a socket keeps its kind and port and no new one   *)
(* is a UDP socket with a port.                                            *)
LEMMA SameMaps ==
    ASSUME PortMapsSound, SocketsTypeOK', UNCHANGED maps,
           DOMAIN table \subseteq DOMAIN table',
           \A id \in DOMAIN table : table'[id].kind = table[id].kind /\ table'[id].port = table[id].port,
           \A id \in DOMAIN table' \ DOMAIN table : table'[id].kind = Dgram => table'[id].port = 0
    PROVE  PortMapsSound'
<1>1. tcp_port_socket_id_map' = tcp_port_socket_id_map /\ udp_port_socket_id_map' = udp_port_socket_id_map
  BY DEF maps
<1> QED
  BY <1>1 DEF PortMapsSound

(* A table that holds the sockets there are, perhaps in another state, and *)
(* the socket id without a port.                                           *)
Bindable(t, id) ==
    /\ DOMAIN t = DOMAIN table \cup {id} /\ t[id].port = 0
    /\ \A x \in DOMAIN t : t[x] \in SocketRecords
    /\ \A x \in DOMAIN table : t[x].kind = table[x].kind /\ t[x].port = table[x].port
    /\ NEXT' \in 1 .. MaxSockets + 1 /\ DOMAIN t \subseteq 1 .. NEXT' - 1
    /\ held' \subseteq DOMAIN t /\ datagrams' \in Nat

(* A port nobody uses is given to a socket that has none.                  *)
LEMMA BindPort ==
    ASSUME PortMapsSound, NEW t, NEW id, Bindable(t, id),
           NEW p \in (Ports \cup Ephemeral) \ Used, bind_port(t, id, p)
    PROVE  /\ PortMapsSound'
           /\ DOMAIN table' = DOMAIN t
           /\ \A x \in DOMAIN t : /\ table'[x].kind = t[x].kind
                                  /\ table'[x].state = t[x].state
                                  /\ table'[x].remote = t[x].remote
                                  /\ x # id => table'[x].port = t[x].port
<1>0. /\ DOMAIN t = DOMAIN table \cup {id} /\ t[id].port = 0
      /\ \A x \in DOMAIN t : t[x] \in SocketRecords
      /\ \A x \in DOMAIN table : t[x].kind = table[x].kind /\ t[x].port = table[x].port
      /\ NEXT' \in 1 .. MaxSockets + 1 /\ DOMAIN t \subseteq 1 .. NEXT' - 1
      /\ held' \subseteq DOMAIN t /\ datagrams' \in Nat
  BY DEF Bindable
<1>1. /\ table' = [t EXCEPT ![id] = [t[id] EXCEPT !.port = p]]
      /\ t[id].kind = Stream =>
            /\ tcp_port_socket_id_map' = Extend(tcp_port_socket_id_map, p, id)
            /\ udp_port_socket_id_map' = udp_port_socket_id_map
      /\ t[id].kind # Stream =>
            /\ udp_port_socket_id_map' = Extend(udp_port_socket_id_map, p, id)
            /\ tcp_port_socket_id_map' = tcp_port_socket_id_map
  BY DEF bind_port
<1> DEFINE bound == [t[id] EXCEPT !.port = p]
<1>2. /\ bound \in SocketRecords /\ bound.port = p /\ bound.kind = t[id].kind
      /\ bound.state = t[id].state /\ bound.remote = t[id].remote
      /\ t[id].kind \in {Stream, Dgram}
  <2>1. t[id] \in SocketRecords
    BY <1>0
  <2> QED
    BY <2>1, SocketFields
<1>3. /\ DOMAIN table' = DOMAIN t
      /\ table'[id] = bound
      /\ \A x \in DOMAIN t \ {id} : table'[x] = t[x]
  BY <1>0, <1>1
<1> HIDE DEF bound
<1>4. \A x \in DOMAIN t : /\ table'[x] \in SocketRecords
                          /\ table'[x].kind = t[x].kind
                          /\ table'[x].state = t[x].state
                          /\ table'[x].remote = t[x].remote
                          /\ x # id => table'[x].port = t[x].port
  BY <1>0, <1>2, <1>3
<1>5. p # 0 /\ p \notin DOMAIN tcp_port_socket_id_map /\ p \notin DOMAIN udp_port_socket_id_map
  BY SocketsAssumption DEF Used
<1>6. \A q \in DOMAIN tcp_port_socket_id_map :
        /\ tcp_port_socket_id_map[q] \in DOMAIN table \ {id}
        /\ table'[tcp_port_socket_id_map[q]].kind = Stream
        /\ table'[tcp_port_socket_id_map[q]].port = q
  <2> SUFFICES ASSUME NEW q \in DOMAIN tcp_port_socket_id_map
               PROVE  /\ tcp_port_socket_id_map[q] \in DOMAIN table \ {id}
                      /\ table'[tcp_port_socket_id_map[q]].kind = Stream
                      /\ table'[tcp_port_socket_id_map[q]].port = q
    OBVIOUS
  <2> DEFINE x == tcp_port_socket_id_map[q]
  <2>1. x \in DOMAIN table /\ table[x].kind = Stream /\ table[x].port = q
    BY DEF PortMapsSound
  <2>2. q # 0
    BY SocketsAssumption DEF PortMapsSound, SocketsTypeOK, Used
  <2> QED
    BY <1>0, <1>4, <2>1, <2>2
<1>7. \A q \in DOMAIN udp_port_socket_id_map :
        /\ udp_port_socket_id_map[q] \in DOMAIN table \ {id}
        /\ table'[udp_port_socket_id_map[q]].kind = Dgram
        /\ table'[udp_port_socket_id_map[q]].port = q
  <2> SUFFICES ASSUME NEW q \in DOMAIN udp_port_socket_id_map
               PROVE  /\ udp_port_socket_id_map[q] \in DOMAIN table \ {id}
                      /\ table'[udp_port_socket_id_map[q]].kind = Dgram
                      /\ table'[udp_port_socket_id_map[q]].port = q
    OBVIOUS
  <2> DEFINE x == udp_port_socket_id_map[q]
  <2>1. x \in DOMAIN table /\ table[x].kind = Dgram /\ table[x].port = q
    BY DEF PortMapsSound
  <2>2. q # 0
    BY SocketsAssumption DEF PortMapsSound, SocketsTypeOK, Used
  <2> QED
    BY <1>0, <1>4, <2>1, <2>2
<1>8. \A x \in DOMAIN table \ {id} :
        table'[x].kind = Dgram /\ table'[x].port # 0 =>
            /\ table'[x].port \in DOMAIN udp_port_socket_id_map
            /\ udp_port_socket_id_map[table'[x].port] = x
  BY <1>0, <1>4 DEF PortMapsSound
<1>9. table'[id].port = p /\ table'[id].kind = t[id].kind /\ id \in DOMAIN table'
  BY <1>0, <1>2, <1>3
<1>10. CASE t[id].kind = Stream
  <2>1. /\ DOMAIN tcp_port_socket_id_map' = DOMAIN tcp_port_socket_id_map \cup {p}
        /\ tcp_port_socket_id_map'[p] = id
        /\ \A q \in DOMAIN tcp_port_socket_id_map : tcp_port_socket_id_map'[q] = tcp_port_socket_id_map[q]
        /\ udp_port_socket_id_map' = udp_port_socket_id_map
    BY <1>1, <1>5, <1>10 DEF Extend
  <2>2. SocketsTypeOK'
    BY <1>0, <1>3, <1>4, <2>1 DEF PortMapsSound, SocketsTypeOK, Used
  <2>3. (DOMAIN tcp_port_socket_id_map \cap DOMAIN udp_port_socket_id_map = {})'
    BY <1>5, <2>1 DEF PortMapsSound
  <2>4. (\A q \in DOMAIN tcp_port_socket_id_map :
            LET x == tcp_port_socket_id_map[q] IN
            x \in DOMAIN table /\ table[x].kind = Stream /\ table[x].port = q)'
    BY <1>0, <1>3, <1>6, <1>9, <1>10, <2>1
  <2>5. (\A q \in DOMAIN udp_port_socket_id_map :
            LET x == udp_port_socket_id_map[q] IN
            x \in DOMAIN table /\ table[x].kind = Dgram /\ table[x].port = q)'
    BY <1>0, <1>3, <1>7, <2>1
  <2>6. Stream # Dgram
    BY DEF Stream, Dgram
  <2>7. (\A x \in DOMAIN table :
            table[x].kind = Dgram /\ table[x].port # 0 =>
                /\ table[x].port \in DOMAIN udp_port_socket_id_map
                /\ udp_port_socket_id_map[table[x].port] = x)'
    BY <1>0, <1>3, <1>8, <1>9, <1>10, <2>1, <2>6
  <2> QED
    BY <1>3, <1>4, <2>2, <2>3, <2>4, <2>5, <2>7 DEF PortMapsSound
<1>11. CASE t[id].kind # Stream
  <2>1. /\ DOMAIN udp_port_socket_id_map' = DOMAIN udp_port_socket_id_map \cup {p}
        /\ udp_port_socket_id_map'[p] = id
        /\ \A q \in DOMAIN udp_port_socket_id_map : udp_port_socket_id_map'[q] = udp_port_socket_id_map[q]
        /\ tcp_port_socket_id_map' = tcp_port_socket_id_map
    BY <1>1, <1>5, <1>11 DEF Extend
  <2>2. SocketsTypeOK'
    BY <1>0, <1>3, <1>4, <2>1 DEF PortMapsSound, SocketsTypeOK, Used
  <2>3. (DOMAIN tcp_port_socket_id_map \cap DOMAIN udp_port_socket_id_map = {})'
    BY <1>5, <2>1 DEF PortMapsSound
  <2>4. (\A q \in DOMAIN tcp_port_socket_id_map :
            LET x == tcp_port_socket_id_map[q] IN
            x \in DOMAIN table /\ table[x].kind = Stream /\ table[x].port = q)'
    BY <1>0, <1>3, <1>6, <2>1
  <2>5. (\A q \in DOMAIN udp_port_socket_id_map :
            LET x == udp_port_socket_id_map[q] IN
            x \in DOMAIN table /\ table[x].kind = Dgram /\ table[x].port = q)'
    BY <1>0, <1>2, <1>3, <1>7, <1>9, <1>11, <2>1
  <2>7. (\A x \in DOMAIN table :
            table[x].kind = Dgram /\ table[x].port # 0 =>
                /\ table[x].port \in DOMAIN udp_port_socket_id_map
                /\ udp_port_socket_id_map[table[x].port] = x)'
    <3> SUFFICES ASSUME NEW x \in DOMAIN table', table'[x].kind = Dgram, table'[x].port # 0
                 PROVE  table'[x].port \in DOMAIN udp_port_socket_id_map' /\ udp_port_socket_id_map'[table'[x].port] = x
      OBVIOUS
    <3>1. CASE x = id
      BY <1>9, <2>1, <3>1
    <3>2. CASE x # id
      BY <1>0, <1>3, <1>8, <2>1, <3>2
    <3> QED
      BY <3>1, <3>2
  <2> QED
    BY <1>3, <1>4, <2>2, <2>3, <2>4, <2>5, <2>7 DEF PortMapsSound
<1> QED
  BY <1>10, <1>11

(* What StatesSound says of one socket.                                    *)
StateOf(s) ==
    /\ s.kind = Dgram => s.state = "Closed"
    /\ s.remote # None => s.state \notin {"Closed", "Listen"}

(* What OneSocketPerSyn says of a step.                                    *)
NoSecondSocket ==
    \A id \in DOMAIN table' \ DOMAIN table :
        table'[id].remote # None => Connected(table'[id].port, table'[id].remote) = {}

(* One socket changes and keeps its kind and port.                         *)
LEMMA ChangeSocket ==
    ASSUME SocketsInv, NEW id \in DOMAIN table, NEW u \in SocketRecords,
           table' = [table EXCEPT ![id] = u], u.kind = table[id].kind, u.port = table[id].port,
           StateOf(u), UNCHANGED <<maps, NEXT, held>>, datagrams' \in Nat
    PROVE  SocketsInv' /\ NoSecondSocket
<1>1. /\ DOMAIN table' = DOMAIN table /\ table'[id] = u
      /\ \A x \in DOMAIN table \ {id} : table'[x] = table[x]
  OBVIOUS
<1>2. maps' = maps /\ NEXT' = NEXT /\ held' = held
  OBVIOUS
<1>3. Used' = Used
  BY <1>2 DEF Used, maps
<1>4. SocketsTypeOK'
  BY <1>1, <1>2, <1>3 DEF SocketsInv, PortMapsSound, SocketsTypeOK
<1>5. PortMapsSound'
  <2>1. PortMapsSound /\ UNCHANGED maps /\ DOMAIN table \subseteq DOMAIN table'
    BY <1>1, <1>2 DEF SocketsInv
  <2>2. \A x \in DOMAIN table : table'[x].kind = table[x].kind /\ table'[x].port = table[x].port
    BY <1>1
  <2>3. \A x \in DOMAIN table' \ DOMAIN table : table'[x].kind = Dgram => table'[x].port = 0
    BY <1>1
  <2> QED
    BY <1>4, <2>1, <2>2, <2>3, SameMaps
<1>6. StatesSound'
  BY <1>1 DEF SocketsInv, StatesSound, StateOf
<1> QED
  BY <1>1, <1>5, <1>6 DEF SocketsInv, NoSecondSocket

(* The table with one socket more.                                         *)
LEMMA AddedSocket ==
    ASSUME SocketsInv, NEW u
    PROVE  /\ NEXT \notin DOMAIN table
           /\ DOMAIN Extend(table, NEXT, u) = DOMAIN table \cup {NEXT}
           /\ Extend(table, NEXT, u)[NEXT] = u
           /\ \A x \in DOMAIN table : Extend(table, NEXT, u)[x] = table[x]
           /\ NEXT <= MaxSockets /\ NEXT' = NEXT + 1 =>
                /\ NEXT' \in 1 .. MaxSockets + 1
                /\ DOMAIN Extend(table, NEXT, u) \subseteq 1 .. NEXT' - 1
<1>1. DOMAIN table \subseteq 1 .. NEXT - 1 /\ NEXT \in 1 .. MaxSockets + 1
  BY DEF SocketsInv, PortMapsSound, SocketsTypeOK
<1>2. NEXT \notin DOMAIN table
  BY <1>1
<1>3. /\ DOMAIN Extend(table, NEXT, u) = DOMAIN table \cup {NEXT}
      /\ Extend(table, NEXT, u)[NEXT] = u
      /\ \A x \in DOMAIN table : Extend(table, NEXT, u)[x] = table[x]
  BY <1>2 DEF Extend
<1>4. ASSUME NEXT <= MaxSockets, NEXT' = NEXT + 1
      PROVE  NEXT' \in 1 .. MaxSockets + 1 /\ DOMAIN table \cup {NEXT} \subseteq 1 .. NEXT' - 1
  BY <1>1, <1>4, SocketsAssumption
<1> QED
  BY <1>2, <1>3, <1>4

(* A socket is added without a port, or with one in no map.                *)
LEMMA AddSocket ==
    ASSUME SocketsInv, NEW u \in SocketRecords, table' = Extend(table, NEXT, u),
           NEXT <= MaxSockets, NEXT' = NEXT + 1, u.kind = Dgram => u.port = 0, StateOf(u),
           UNCHANGED maps, held' \subseteq held \cup {NEXT}, datagrams' \in Nat,
           u.remote # None => Connected(u.port, u.remote) = {}
    PROVE  SocketsInv' /\ NoSecondSocket
<1>1. /\ NEXT \notin DOMAIN table /\ DOMAIN table' = DOMAIN table \cup {NEXT}
      /\ table'[NEXT] = u /\ \A x \in DOMAIN table : table'[x] = table[x]
      /\ NEXT' \in 1 .. MaxSockets + 1 /\ DOMAIN table' \subseteq 1 .. NEXT' - 1
  BY AddedSocket
<1>2. Used' = Used
  BY DEF Used, maps
<1>3. SocketsTypeOK'
  BY <1>1, <1>2 DEF SocketsInv, PortMapsSound, SocketsTypeOK
<1>4. PortMapsSound'
  <2>1. PortMapsSound /\ DOMAIN table \subseteq DOMAIN table'
    BY <1>1 DEF SocketsInv
  <2>2. \A x \in DOMAIN table : table'[x].kind = table[x].kind /\ table'[x].port = table[x].port
    BY <1>1
  <2>3. \A x \in DOMAIN table' \ DOMAIN table : table'[x].kind = Dgram => table'[x].port = 0
    BY <1>1
  <2> QED
    BY <1>3, <2>1, <2>2, <2>3, SameMaps
<1>5. StatesSound'
  BY <1>1 DEF SocketsInv, StatesSound, StateOf
<1>6. NoSecondSocket
  BY <1>1 DEF NoSecondSocket
<1> QED
  BY <1>4, <1>5, <1>6 DEF SocketsInv

(* A socket is added and bound at once.                                    *)
LEMMA AddBound ==
    ASSUME SocketsInv, NEW u \in SocketRecords, u.port = 0, u.remote = None, u.state = "Closed",
           NEW p \in (Ports \cup Ephemeral) \ Used, bind_port(Extend(table, NEXT, u), NEXT, p),
           NEXT <= MaxSockets, NEXT' = NEXT + 1, held' = held, datagrams' \in Nat
    PROVE  SocketsInv' /\ NoSecondSocket
<1>0. PICK t : t = Extend(table, NEXT, u)
  OBVIOUS
<1>1. /\ NEXT \notin DOMAIN table /\ DOMAIN t = DOMAIN table \cup {NEXT}
      /\ t[NEXT] = u /\ \A x \in DOMAIN table : t[x] = table[x]
      /\ NEXT' \in 1 .. MaxSockets + 1 /\ DOMAIN t \subseteq 1 .. NEXT' - 1
  BY <1>0, AddedSocket
<1>2. bind_port(t, NEXT, p)
  BY <1>0
<1>3. /\ \A x \in DOMAIN t : t[x] \in SocketRecords
      /\ held' \subseteq DOMAIN t
      /\ \A x \in DOMAIN table : t[x].kind = table[x].kind /\ t[x].port = table[x].port
      /\ t[NEXT].port = 0 /\ PortMapsSound
  BY <1>1 DEF SocketsInv, PortMapsSound, SocketsTypeOK
<1>5b. Bindable(t, NEXT)
  BY <1>1, <1>3 DEF Bindable
<1>4. /\ PortMapsSound'
      /\ DOMAIN table' = DOMAIN t
      /\ \A x \in DOMAIN t : /\ table'[x].kind = t[x].kind
                             /\ table'[x].state = t[x].state
                             /\ table'[x].remote = t[x].remote
  BY <1>2, <1>3, <1>5b, BindPort
<1>5. StatesSound'
  BY <1>1, <1>4 DEF SocketsInv, StatesSound
<1>6. NoSecondSocket
  BY <1>1, <1>4 DEF NoSecondSocket
<1> QED
  BY <1>4, <1>5, <1>6 DEF SocketsInv

(* create_new_socket takes a free number.                                  *)
LEMMA SocketsCreate ==
    ASSUME SocketsInv, NEW kind \in Kinds, create_new_socket(kind)
    PROVE  SocketsInv' /\ NoSecondSocket
<1>1. /\ NEXT <= MaxSockets /\ NEXT' = NEXT + 1 /\ table' = Extend(table, NEXT, Socket(kind))
      /\ held' = held \cup {NEXT} /\ UNCHANGED maps /\ datagrams' = datagrams
  BY DEF create_new_socket, insert_new_socket
<1>2. /\ Socket(kind) \in SocketRecords /\ Socket(kind).port = 0
      /\ Socket(kind).remote = None /\ Socket(kind).state = "Closed"
  BY NewSocket, SocketsAssumption
<1>3. datagrams' \in Nat
  BY <1>1 DEF SocketsInv, PortMapsSound, SocketsTypeOK
<1>4. StateOf(Socket(kind))
  BY <1>2 DEF StateOf
<1> DEFINE u == Socket(kind)
<1> HIDE DEF u
<1>5. /\ u \in SocketRecords /\ u.port = 0 /\ u.remote = None /\ StateOf(u)
      /\ table' = Extend(table, NEXT, u)
  BY <1>1, <1>2, <1>4 DEF u
<1> QED
  BY <1>1, <1>3, <1>5, AddSocket

(* What select_port finds is a port nobody uses.                           *)
LEMMA SelectedPort ==
    ASSUME NEW port \in Ports \cup {0}, NEW p \in select_port(port)
    PROVE  p \in (Ports \cup Ephemeral) \ Used
BY DEF select_port

(* bind_port of a socket of the table, whose state may change before.      *)
LEMMA BindOld ==
    ASSUME SocketsInv, NEW id \in DOMAIN table, table[id].port = 0,
           NEW u \in SocketRecords, u.kind = table[id].kind, u.port = 0, StateOf(u),
           NEW p \in (Ports \cup Ephemeral) \ Used, bind_port([table EXCEPT ![id] = u], id, p),
           UNCHANGED <<NEXT, held, datagrams>>
    PROVE  SocketsInv' /\ NoSecondSocket
<1>0. PICK t : t = [table EXCEPT ![id] = u]
  OBVIOUS
<1>1. /\ DOMAIN t = DOMAIN table /\ t[id] = u
      /\ \A x \in DOMAIN table \ {id} : t[x] = table[x]
      /\ bind_port(t, id, p)
  BY <1>0
<1>2. /\ \A x \in DOMAIN t : t[x] \in SocketRecords
      /\ NEXT' \in 1 .. MaxSockets + 1 /\ DOMAIN t \subseteq 1 .. NEXT' - 1
      /\ held' \subseteq DOMAIN t /\ datagrams' \in Nat
      /\ PortMapsSound
  BY <1>1 DEF SocketsInv, PortMapsSound, SocketsTypeOK
<1>3. \A x \in DOMAIN table : t[x].kind = table[x].kind /\ t[x].port = table[x].port
  BY <1>1
<1>4. id \in DOMAIN t /\ t[id].port = 0 /\ DOMAIN t = DOMAIN table \cup {id}
  BY <1>1
<1>5b. Bindable(t, id)
  BY <1>2, <1>3, <1>4 DEF Bindable
<1>5. /\ PortMapsSound'
      /\ DOMAIN table' = DOMAIN t
      /\ \A x \in DOMAIN t : /\ table'[x].kind = t[x].kind
                             /\ table'[x].state = t[x].state
                             /\ table'[x].remote = t[x].remote
  BY <1>1, <1>2, <1>5b, BindPort
<1>6. StatesSound'
  BY <1>1, <1>5 DEF SocketsInv, StatesSound, StateOf
<1>7. NoSecondSocket
  BY <1>1, <1>5 DEF NoSecondSocket
<1> QED
  BY <1>5, <1>6, <1>7 DEF SocketsInv

(* The same when nothing else changes.                                     *)
LEMMA BindOnly ==
    ASSUME SocketsInv, NEW id \in DOMAIN table, table[id].port = 0,
           NEW p \in (Ports \cup Ephemeral) \ Used, bind_port(table, id, p),
           UNCHANGED <<NEXT, held, datagrams>>
    PROVE  SocketsInv' /\ NoSecondSocket
<1>1. /\ \A x \in DOMAIN table : table[x] \in SocketRecords
      /\ NEXT' \in 1 .. MaxSockets + 1 /\ DOMAIN table \subseteq 1 .. NEXT' - 1
      /\ held' \subseteq DOMAIN table /\ datagrams' \in Nat /\ PortMapsSound
  BY DEF SocketsInv, PortMapsSound, SocketsTypeOK
<1>2. DOMAIN table = DOMAIN table \cup {id}
  OBVIOUS
<1>3. \A x \in DOMAIN table : table[x].kind = table[x].kind /\ table[x].port = table[x].port
  OBVIOUS
<1>4. Bindable(table, id)
  BY <1>1, <1>2, <1>3 DEF Bindable
<1>5. /\ PortMapsSound'
      /\ DOMAIN table' = DOMAIN table
      /\ \A x \in DOMAIN table : /\ table'[x].kind = table[x].kind
                                 /\ table'[x].state = table[x].state
                                 /\ table'[x].remote = table[x].remote
  BY <1>1, <1>4, BindPort
<1>6. StatesSound'
  BY <1>5 DEF SocketsInv, StatesSound
<1> QED
  BY <1>5, <1>6 DEF SocketsInv, NoSecondSocket

(* bind_socket_v4 enters the port, or fails and changes nothing.           *)
LEMMA SocketsBind ==
    ASSUME SocketsInv, NEW id \in held, NEW port \in Ports \cup {0}, bind_socket_v4(id, port)
    PROVE  SocketsInv' /\ NoSecondSocket
<1>1. PICK p \in select_port(port) : bind_port(table, id, p)
  BY DEF bind_socket_v4
<1>2. table[id].port = 0 /\ UNCHANGED <<NEXT, held, datagrams>>
  BY DEF bind_socket_v4
<1>3. p \in (Ports \cup Ephemeral) \ Used
  BY SelectedPort
<1>4. id \in DOMAIN table
  BY DEF SocketsInv, PortMapsSound, SocketsTypeOK
<1> QED
  BY <1>1, <1>2, <1>3, <1>4, BindOnly

(* listen_tcp_v4 keeps the port.                                           *)
LEMMA SocketsListen ==
    ASSUME SocketsInv, NEW id \in held, listen_tcp_v4(id)
    PROVE  SocketsInv' /\ NoSecondSocket
<1> DEFINE u == [table[id] EXCEPT !.state = "Listen"]
<1>1. /\ table[id].kind = Stream /\ table[id].state = "Closed"
      /\ table' = [table EXCEPT ![id] = u] /\ UNCHANGED <<maps, NEXT, held>> /\ datagrams' = datagrams
  BY DEF listen_tcp_v4
<1>2. id \in DOMAIN table /\ table[id] \in SocketRecords /\ StateOf(table[id]) /\ datagrams' \in Nat
  BY <1>1 DEF SocketsInv, PortMapsSound, SocketsTypeOK, StatesSound, StateOf
<1>3. "Listen" \in States
  BY DEF States
<1>4. /\ u \in SocketRecords /\ u.kind = table[id].kind /\ u.port = table[id].port
      /\ u.remote = table[id].remote
  BY <1>2, <1>3, SocketFields
<1>5. StateOf(u)
  BY <1>1, <1>2, <1>4 DEF StateOf, Stream, Dgram
<1> HIDE DEF u
<1> QED
  BY Zenon, <1>1, <1>2, <1>4, <1>5, ChangeSocket

(* accept_tcp_v4 hands over an established socket of the same port.        *)
LEMMA SocketsAccept ==
    ASSUME SocketsInv, NEW id \in held, accept_tcp_v4(id)
    PROVE  SocketsInv' /\ NoSecondSocket
<1>1. PICK c \in first_established(table[id].port) : held' = held \cup {c}
  BY DEF accept_tcp_v4
<1>2. table' = table /\ maps' = maps /\ NEXT' = NEXT /\ datagrams' = datagrams
  BY DEF accept_tcp_v4
<1>3. c \in DOMAIN table
  BY DEF first_established, Established
<1>4. tcp_port_socket_id_map' = tcp_port_socket_id_map /\ udp_port_socket_id_map' = udp_port_socket_id_map
  BY <1>2 DEF maps
<1>5. SocketsTypeOK'
  BY <1>1, <1>2, <1>3, <1>4 DEF SocketsInv, PortMapsSound, SocketsTypeOK, Used
<1>6. PortMapsSound' /\ StatesSound'
  BY <1>2, <1>4, <1>5 DEF SocketsInv, PortMapsSound, StatesSound
<1> QED
  BY <1>2, <1>6 DEF SocketsInv, NoSecondSocket

(* A step of the rest of the system changes nothing.                       *)
LEMMA SocketsSame ==
    ASSUME SocketsInv, UNCHANGED socketsVars
    PROVE  SocketsInv' /\ NoSecondSocket
<1>1. /\ table' = table /\ NEXT' = NEXT /\ held' = held /\ datagrams' = datagrams
      /\ tcp_port_socket_id_map' = tcp_port_socket_id_map
      /\ udp_port_socket_id_map' = udp_port_socket_id_map
  BY DEF socketsVars, maps
<1>2. SocketsTypeOK'
  BY <1>1 DEF SocketsInv, PortMapsSound, SocketsTypeOK, Used
<1> QED
  BY <1>1, <1>2 DEF SocketsInv, PortMapsSound, StatesSound, NoSecondSocket

(* connect_tcp_v4 takes an ephemeral port if the socket has none.          *)
LEMMA SocketsConnect ==
    ASSUME SocketsInv, NEW id \in held, NEW r \in Remotes, connect_tcp_v4(id, r)
    PROVE  SocketsInv' /\ NoSecondSocket
<1> DEFINE sent == [table[id] EXCEPT !.state = "SynSent"]
           called == [sent EXCEPT !.remote = r]
<1>1. id \in DOMAIN table /\ table[id] \in SocketRecords /\ StateOf(table[id]) /\ datagrams \in Nat
  BY DEF SocketsInv, PortMapsSound, SocketsTypeOK, StatesSound, StateOf
<1>2. [table EXCEPT ![id].state = "SynSent", ![id].remote = r] = [table EXCEPT ![id] = called]
  BY Zenon, <1>1
<1>3. UNCHANGED <<NEXT, held, datagrams>>
  BY DEF connect_tcp_v4
<1>4. "SynSent" \in States
  BY DEF States
<1>5. /\ sent \in SocketRecords /\ sent.kind = table[id].kind /\ sent.port = table[id].port
      /\ sent.state = "SynSent"
  BY <1>1, <1>4, SocketFields
<1> HIDE DEF sent
<1>6. /\ called \in SocketRecords /\ called.kind = sent.kind /\ called.port = sent.port
      /\ called.state = sent.state
  BY <1>5, SocketFields
<1> HIDE DEF called
<1>7. CASE table[id].kind = Stream /\ table[id].state = "Closed"
  <2>1. StateOf(called)
    BY <1>5, <1>6, <1>7 DEF StateOf, Stream, Dgram
  <2>2. CASE table[id].port = 0
    <3>1. PICK p \in select_port(0) : bind_port([table EXCEPT ![id] = called], id, p)
      BY <1>2, <1>7, <2>2 DEF connect_tcp_v4
    <3>2. p \in (Ports \cup Ephemeral) \ Used
      BY SelectedPort
    <3> QED
      BY <1>1, <1>3, <1>5, <1>6, <2>1, <2>2, <3>1, <3>2, BindOld
  <2>3. CASE table[id].port # 0
    <3>1. table' = [table EXCEPT ![id] = called] /\ UNCHANGED maps
      BY <1>2, <1>7, <2>3 DEF connect_tcp_v4
    <3> QED
      BY Zenon, <1>1, <1>3, <1>5, <1>6, <2>1, <3>1, ChangeSocket
  <2> QED
    BY <2>2, <2>3
<1>8. CASE ~(table[id].kind = Stream /\ table[id].state = "Closed")
  <2>1. CASE table[id].port = 0
    <3>1. PICK p \in select_port(0) : bind_port(table, id, p)
      BY <1>8, <2>1 DEF connect_tcp_v4
    <3>2. p \in (Ports \cup Ephemeral) \ Used
      BY SelectedPort
    <3> QED
      BY <1>1, <1>3, <2>1, <3>1, <3>2, BindOnly
  <2>2. CASE table[id].port # 0
    <3>1. table' = table /\ UNCHANGED maps
      BY <1>8, <2>2 DEF connect_tcp_v4
    <3> QED
      BY <1>3, <3>1, SocketsSame DEF socketsVars
  <2> QED
    BY <2>1, <2>2
<1> QED
  BY <1>7, <1>8

(* close_socket removes the socket, and the entry of its port.             *)
LEMMA SocketsClose ==
    ASSUME SocketsInv, NEW id \in held, close_socket(id)
    PROVE  SocketsInv' /\ NoSecondSocket
<1>1. /\ table' = Without(table, id) /\ held' = held \ {id} /\ NEXT' = NEXT /\ datagrams' = datagrams
      /\ tcp_port_socket_id_map' =
            IF table[id].kind = Stream THEN Without(tcp_port_socket_id_map, table[id].port)
            ELSE tcp_port_socket_id_map
      /\ udp_port_socket_id_map' =
            IF table[id].kind = Dgram THEN Without(udp_port_socket_id_map, table[id].port)
            ELSE udp_port_socket_id_map
  BY DEF close_socket, remove_socket
<1>2. DOMAIN table' = DOMAIN table \ {id} /\ \A x \in DOMAIN table' : table'[x] = table[x]
  BY <1>1 DEF Without
<1>3. /\ DOMAIN tcp_port_socket_id_map' \subseteq DOMAIN tcp_port_socket_id_map
      /\ \A p \in DOMAIN tcp_port_socket_id_map' : tcp_port_socket_id_map'[p] = tcp_port_socket_id_map[p]
      /\ table[id].kind = Stream => table[id].port \notin DOMAIN tcp_port_socket_id_map'
  BY <1>1 DEF Without
<1>4. /\ DOMAIN udp_port_socket_id_map' \subseteq DOMAIN udp_port_socket_id_map
      /\ \A p \in DOMAIN udp_port_socket_id_map' : udp_port_socket_id_map'[p] = udp_port_socket_id_map[p]
      /\ \A p \in DOMAIN udp_port_socket_id_map :
            p \notin DOMAIN udp_port_socket_id_map' => table[id].kind = Dgram /\ p = table[id].port
      /\ table[id].kind = Dgram => table[id].port \notin DOMAIN udp_port_socket_id_map'
  BY <1>1 DEF Without
<1>5. SocketsTypeOK'
  BY <1>1, <1>2, <1>3, <1>4 DEF SocketsInv, PortMapsSound, SocketsTypeOK, Used
<1>6. \A p \in DOMAIN tcp_port_socket_id_map' :
        LET x == tcp_port_socket_id_map'[p] IN
        x \in DOMAIN table' /\ table'[x].kind = Stream /\ table'[x].port = p
  BY <1>2, <1>3 DEF SocketsInv, PortMapsSound
<1>7. \A p \in DOMAIN udp_port_socket_id_map' :
        LET x == udp_port_socket_id_map'[p] IN
        x \in DOMAIN table' /\ table'[x].kind = Dgram /\ table'[x].port = p
  BY <1>2, <1>4 DEF SocketsInv, PortMapsSound
<1>8. \A x \in DOMAIN table' :
        table'[x].kind = Dgram /\ table'[x].port # 0 =>
            /\ table'[x].port \in DOMAIN udp_port_socket_id_map'
            /\ udp_port_socket_id_map'[table'[x].port] = x
  <2> SUFFICES ASSUME NEW x \in DOMAIN table', table[x].kind = Dgram, table[x].port # 0
               PROVE  /\ table[x].port \in DOMAIN udp_port_socket_id_map'
                      /\ udp_port_socket_id_map'[table[x].port] = x
    BY <1>2
  <2>1. x \in DOMAIN table /\ x # id /\ id \in DOMAIN table
    BY <1>2 DEF SocketsInv, PortMapsSound, SocketsTypeOK
  <2>2. table[x].port \in DOMAIN udp_port_socket_id_map /\ udp_port_socket_id_map[table[x].port] = x
    BY <2>1 DEF SocketsInv, PortMapsSound
  <2>3. table[id].kind = Dgram => table[id].port # table[x].port
    BY <2>1, <2>2 DEF SocketsInv, PortMapsSound
  <2> QED
    BY <1>4, <2>2, <2>3
<1>9. DOMAIN tcp_port_socket_id_map' \cap DOMAIN udp_port_socket_id_map' = {}
  BY <1>3, <1>4 DEF SocketsInv, PortMapsSound
<1>10. PortMapsSound'
  BY <1>5, <1>6, <1>7, <1>8, <1>9 DEF PortMapsSound
<1>11. StatesSound' /\ NoSecondSocket
  BY <1>2 DEF SocketsInv, StatesSound, NoSecondSocket
<1> QED
  BY <1>10, <1>11 DEF SocketsInv

(* recvfrom_udp_v4 takes datagrams and leaves the ports alone.             *)
LEMMA SocketsRecvfrom ==
    ASSUME SocketsInv, NEW id \in held, NEW n \in 1 .. 2, recvfrom_udp_v4(id, n)
    PROVE  SocketsInv' /\ NoSecondSocket
<1> DEFINE u == [table[id] EXCEPT !.buf = rest(table[id].buf, n)]
<1>1. table' = [table EXCEPT ![id] = u] /\ UNCHANGED <<maps, NEXT, held>> /\ datagrams' = datagrams
  BY DEF recvfrom_udp_v4
<1>2. id \in DOMAIN table /\ table[id] \in SocketRecords /\ StateOf(table[id]) /\ datagrams' \in Nat
  BY <1>1 DEF SocketsInv, PortMapsSound, SocketsTypeOK, StatesSound, StateOf
<1>3. rest(table[id].buf, n) \in Seq(Nat \X Nat)
  <2>1. table[id].buf \in Seq(Nat \X Nat)
    BY <1>2, SocketFields
  <2> QED
    BY <2>1 DEF rest
<1>4. /\ u \in SocketRecords /\ u.kind = table[id].kind /\ u.port = table[id].port
      /\ u.state = table[id].state /\ u.remote = table[id].remote
  BY <1>2, <1>3, SocketFields
<1> HIDE DEF u
<1>5. StateOf(u)
  BY <1>2, <1>4 DEF StateOf
<1> QED
  BY Zenon, <1>1, <1>2, <1>4, <1>5, ChangeSocket

(* A packet for a port of nobody makes a socket, bound or not.             *)
LEMMA ReceiveUnbound ==
    ASSUME SocketsInv, NEW kind \in {Stream, Dgram}, NEW port \in Ports \cup Ephemeral,
           receive_unbound(kind, port), held' = held, datagrams' \in Nat
    PROVE  SocketsInv' /\ NoSecondSocket
<1>1. PICK u : u = Socket(kind)
  OBVIOUS
<1>2. /\ u \in SocketRecords /\ u.port = 0 /\ u.remote = None /\ u.state = "Closed"
  BY <1>1, NewSocket
<1>3. /\ NEXT <= MaxSockets /\ NEXT' = NEXT + 1
      /\ port \in Used => table' = Extend(table, NEXT, u) /\ UNCHANGED maps
      /\ port \notin Used => bind_port(Extend(table, NEXT, u), NEXT, port)
  BY <1>1 DEF receive_unbound
<1>4. CASE port \in Used
  <2>1. StateOf(u)
    BY <1>2 DEF StateOf
  <2> QED
    BY <1>2, <1>3, <1>4, <2>1, AddSocket
<1>5. CASE port \notin Used
  BY <1>2, <1>3, <1>5, AddBound
<1> QED
  BY <1>4, <1>5

(* A TCP packet is for a socket of TCP that is there.                      *)
LEMMA TcpTarget ==
    ASSUME SocketsInv, NEW port, NEW r, NEW id \in tcp_socket_by_port(port, r)
    PROVE  /\ id \in DOMAIN table /\ table[id].kind = Stream
           /\ Connected(port, r) # {} => table[id].remote = r
BY DEF tcp_socket_by_port, Connected, SocketsInv, PortMapsSound

(* A segment: for a connection, for a listener, which may add a socket, or *)
(* for nobody.                                                             *)
LEMMA SocketsTcpPacket ==
    ASSUME SocketsInv, NEW port \in Ports \cup Ephemeral, NEW r \in Remotes, NEW flags \in Flags,
           receive_tcp_packet(port, r, flags)
    PROVE  SocketsInv' /\ NoSecondSocket
<1>1. held' = held /\ datagrams' = datagrams /\ datagrams \in Nat
  BY DEF receive_tcp_packet, SocketsInv, PortMapsSound, SocketsTypeOK
<1>2. CASE receive_unbound(Stream, port)
  BY <1>1, <1>2, ReceiveUnbound
<1>3. ASSUME NEW id \in tcp_socket_by_port(port, r), table[id].state = "Listen",
             new_connection(id, port, r), UNCHANGED maps
      PROVE  SocketsInv' /\ NoSecondSocket
  <2>1. PICK u : u = [Socket(Stream) EXCEPT !.port = port, !.remote = r, !.state = "SynReceived"]
    OBVIOUS
  <2>2. /\ NEXT <= MaxSockets /\ NEXT' = NEXT + 1 /\ table' = Extend(table, NEXT, u)
    BY <1>3, <2>1 DEF new_connection
  <2>3. u = [kind |-> Stream, port |-> port, state |-> "SynReceived", remote |-> r, buf |-> << >>]
    BY Zenon, <2>1 DEF Socket
  <2>4. /\ u \in SocketRecords /\ u.kind = Stream /\ u.state = "SynReceived"
        /\ u.port = port /\ u.remote = r
    <3>1. u.kind = Stream /\ u.state = "SynReceived" /\ u.port = port /\ u.remote = r
      BY <2>3
    <3>2. /\ Stream \in {Stream, Dgram} /\ port \in Ports \cup Ephemeral \cup {0}
          /\ r \in Remotes \cup {None} /\ << >> \in Seq(Nat \X Nat)
      OBVIOUS
    <3>3. "SynReceived" \in States
      BY DEF States
    <3>4. u \in SocketRecords
      BY <2>3, <3>2, <3>3, Zenon DEF SocketRecords
    <3> QED
      BY <3>1, <3>4
  <2>5. Connected(port, r) = {}
    BY <1>3, TcpTarget, SocketsAssumption DEF SocketsInv, StatesSound
  <2>6. StateOf(u) /\ u.kind # Dgram
    BY <2>4 DEF StateOf, Stream, Dgram
  <2> QED
    BY <1>1, <1>3, <2>2, <2>4, <2>5, <2>6, AddSocket
<1>4. ASSUME NEW id \in tcp_socket_by_port(port, r), table[id].state # "Listen",
             table' = [table EXCEPT ![id].state = state_after(@, flags)], UNCHANGED <<maps, NEXT>>
      PROVE  SocketsInv' /\ NoSecondSocket
  <2> DEFINE a == state_after(table[id].state, flags)
             u == [table[id] EXCEPT !.state = a]
  <2>1. id \in DOMAIN table /\ table[id].kind = Stream
    BY <1>4, TcpTarget
  <2>2. table[id] \in SocketRecords /\ StateOf(table[id])
    BY <2>1 DEF SocketsInv, PortMapsSound, SocketsTypeOK, StatesSound, StateOf
  <2>3. table[id].state \in States
    BY <2>2, SocketFields
  <2>4. a \in States /\ (table[id].state \notin {"Closed", "Listen"} => a \notin {"Closed", "Listen"})
    BY <2>3 DEF state_after, States
  <2>5. table' = [table EXCEPT ![id] = u]
    BY <1>4
  <2> HIDE DEF a
  <2>6. /\ u \in SocketRecords /\ u.kind = table[id].kind /\ u.port = table[id].port
        /\ u.state = a /\ u.remote = table[id].remote
    BY <2>2, <2>4, SocketFields
  <2> HIDE DEF u
  <2>7. StateOf(u)
    BY <2>1, <2>2, <2>4, <2>6 DEF StateOf, Stream, Dgram
  <2> QED
    BY Zenon, <1>1, <1>4, <2>1, <2>5, <2>6, <2>7, ChangeSocket
<1> QED
  BY <1>2, <1>3, <1>4 DEF receive_tcp_packet

(* A datagram: for the socket of the port, or for nobody.                  *)
LEMMA SocketsUdpPacket ==
    ASSUME SocketsInv, NEW port \in Ports \cup Ephemeral, NEW n \in 1 .. 2,
           receive_udp_packet(port, n)
    PROVE  SocketsInv' /\ NoSecondSocket
<1>1. held' = held /\ datagrams' = datagrams + 1 /\ datagrams \in Nat /\ datagrams' \in Nat
  BY DEF receive_udp_packet, SocketsInv, PortMapsSound, SocketsTypeOK
<1>2. PICK b \in Seq(Nat \X Nat) : b = Datagram(datagrams + 1, n)
  <2>1. \A i \in 1 .. n : <<datagrams + 1, i>> \in Nat \X Nat
    BY <1>1
  <2>2. Datagram(datagrams + 1, n) \in [1 .. n -> Nat \X Nat]
    BY <2>1 DEF Datagram
  <2>3. \A S : \A f \in [1 .. n -> S] : f \in Seq(S)
    OBVIOUS
  <2> QED
    BY <2>2, <2>3
<1>3. CASE port \in DOMAIN udp_port_socket_id_map
  <2> DEFINE id == udp_port_socket_id_map[port]
             c == table[id].buf \o b
             u == [table[id] EXCEPT !.buf = c]
  <2>1. table' = [table EXCEPT ![id] = u] /\ UNCHANGED <<maps, NEXT>>
    BY Zenon, <1>2, <1>3 DEF receive_udp_packet
  <2>2. id \in DOMAIN table
    BY <1>3 DEF SocketsInv, PortMapsSound
  <2> HIDE DEF id
  <2>3. table[id] \in SocketRecords /\ StateOf(table[id])
    BY <2>2 DEF SocketsInv, PortMapsSound, SocketsTypeOK, StatesSound, StateOf
  <2>4. table[id].buf \in Seq(Nat \X Nat)
    BY <2>3, SocketFields
  <2>5. c \in Seq(Nat \X Nat)
    BY <2>4
  <2> HIDE DEF c
  <2>6. /\ u \in SocketRecords /\ u.kind = table[id].kind /\ u.port = table[id].port
        /\ u.state = table[id].state /\ u.remote = table[id].remote
    BY <2>3, <2>5, SocketFields
  <2> HIDE DEF u
  <2>7. StateOf(u)
    BY <2>3, <2>6 DEF StateOf
  <2> QED
    BY Zenon, <1>1, <2>1, <2>2, <2>6, <2>7, ChangeSocket
<1>4. CASE port \notin DOMAIN udp_port_socket_id_map /\ port \in Used
  <2>1. receive_unbound(Dgram, port)
    BY <1>4 DEF receive_udp_packet
  <2> QED
    BY <1>1, <2>1, ReceiveUnbound
<1>5. CASE port \notin Used
  <2>1. PICK u : u = [Socket(Dgram) EXCEPT !.buf = b]
    OBVIOUS
  <2>2. port \notin DOMAIN udp_port_socket_id_map
    BY Zenon, <1>5 DEF Used
  <2>3. /\ NEXT <= MaxSockets /\ NEXT' = NEXT + 1
        /\ bind_port(Extend(table, NEXT, u), NEXT, port)
    BY <1>2, <1>5, <2>1, <2>2 DEF receive_udp_packet
  <2>4. PICK s \in SocketRecords : /\ s = Socket(Dgram) /\ s.port = 0
                                   /\ s.state = "Closed" /\ s.remote = None
    BY NewSocket
  <2>5. /\ u \in SocketRecords /\ u.port = 0 /\ u.remote = None /\ u.state = "Closed"
    BY <2>1, <2>4, SocketFields
  <2> QED
    BY <1>1, <1>5, <2>3, <2>5, AddBound
<1> QED
  BY <1>3, <1>4, <1>5

(* One step per operation of net/socket.rs and of the receive path.        *)
LEMMA SocketsStep ==
    ASSUME SocketsInv, [SocketsNext]_socketsVars
    PROVE  SocketsInv' /\ NoSecondSocket
<1>1. CASE \E kind \in Kinds : create_new_socket(kind)
  BY <1>1, SocketsCreate
<1>2. ASSUME NEW id \in held, NEW port \in Ports \cup {0}, bind_socket_v4(id, port)
      PROVE  SocketsInv' /\ NoSecondSocket
  BY <1>2, SocketsBind
<1>3. ASSUME NEW id \in held, listen_tcp_v4(id) PROVE SocketsInv' /\ NoSecondSocket
  BY <1>3, SocketsListen
<1>4. ASSUME NEW id \in held, accept_tcp_v4(id) PROVE SocketsInv' /\ NoSecondSocket
  BY <1>4, SocketsAccept
<1>5. ASSUME NEW id \in held, NEW r \in Remotes, connect_tcp_v4(id, r)
      PROVE  SocketsInv' /\ NoSecondSocket
  BY <1>5, SocketsConnect
<1>6. ASSUME NEW id \in held, close_socket(id) PROVE SocketsInv' /\ NoSecondSocket
  BY <1>6, SocketsClose
<1>7. ASSUME NEW id \in held, NEW n \in 1 .. 2, recvfrom_udp_v4(id, n)
      PROVE  SocketsInv' /\ NoSecondSocket
  BY <1>7, SocketsRecvfrom
<1>8. ASSUME NEW port \in Ports \cup Ephemeral, NEW r \in Remotes, NEW flags \in Flags,
             receive_tcp_packet(port, r, flags)
      PROVE  SocketsInv' /\ NoSecondSocket
  BY <1>8, SocketsTcpPacket
<1>9. ASSUME NEW port \in Ports \cup Ephemeral, NEW n \in 1 .. 2, receive_udp_packet(port, n)
      PROVE  SocketsInv' /\ NoSecondSocket
  BY <1>9, SocketsUdpPacket
<1>10. CASE UNCHANGED socketsVars
  BY <1>10, SocketsSame
<1> QED
  BY <1>1, <1>2, <1>3, <1>4, <1>5, <1>6, <1>7, <1>8, <1>9, <1>10 DEF SocketsNext

(* The port maps and the sockets agree in every reachable state.           *)
LEMMA SocketsInvariant == SocketsSpec => []SocketsInv
<1>1. SocketsInit => SocketsInv
  <2> SUFFICES ASSUME SocketsInit PROVE SocketsInv
    OBVIOUS
  <2>1. /\ DOMAIN table = {} /\ DOMAIN tcp_port_socket_id_map = {} /\ DOMAIN udp_port_socket_id_map = {}
        /\ NEXT = 1 /\ held = {} /\ datagrams = 0
    BY DEF SocketsInit
  <2> QED
    BY <2>1, SocketsAssumption DEF SocketsInv, PortMapsSound, SocketsTypeOK, Used, StatesSound
<1>2. SocketsInv /\ [SocketsNext]_socketsVars => SocketsInv'
  BY SocketsStep
<1> QED
  BY <1>1, <1>2, PTL DEF SocketsSpec

(* The port maps stay sound and a bound UDP socket keeps its port, however *)
(* many sockets and ports there are and whatever packets come.             *)
THEOREM PortsLeadToTheirSockets == SocketsSpec => []PortMapsSound
<1>1. SocketsInv => PortMapsSound
  BY DEF SocketsInv
<1> QED
  BY SocketsInvariant, <1>1, PTL

(* No SYN, sent again at any time, makes a second socket for a connection. *)
THEOREM RepeatedSynIsHarmless == SocketsSpec => OneSocketPerSyn
<1>1. SocketsInv /\ [SocketsNext]_socketsVars => [NoSecondSocket]_socketsVars
  BY SocketsStep
<1>2. [NoSecondSocket]_socketsVars <=>
        [\A id \in DOMAIN table' \ DOMAIN table :
            table'[id].remote # None => Connected(table'[id].port, table'[id].remote) = {}]_socketsVars
  BY DEF NoSecondSocket
<1> QED
  BY SocketsInvariant, <1>1, <1>2, PTL DEF SocketsSpec, OneSocketPerSyn

----------------------------------------------------------------------------
(* The ring, for every size of its buffer.                                 *)

(* A pointer plus a small offset, taken around the ring.                   *)
LEMMA Around ==
    ASSUME NEW a \in 0 .. SIZE - 1
    PROVE  /\ (a + 1) % SIZE = IF a + 1 = SIZE THEN 0 ELSE a + 1
           /\ \A b \in 0 .. SIZE - 1 :
                 (a + b) % SIZE = IF a + b < SIZE THEN a + b ELSE a + b - SIZE
           /\ \A b \in 0 .. SIZE - 1 :
                 (a + SIZE - b) % SIZE = IF b <= a THEN a - b ELSE a + SIZE - b
BY FifoAssumption

(* The state of a ring is a ring after every operation.                    *)
LEMMA RingStep == FifoTypeOK /\ [FifoNext]_fifoVars => FifoTypeOK'
<1> SUFFICES ASSUME FifoTypeOK, [FifoNext]_fifoVars PROVE FifoTypeOK'
  OBVIOUS
<1>1. \A a \in 0 .. SIZE - 1 : (a + 1) % SIZE \in 0 .. SIZE - 1
  BY FifoAssumption
<1>2. ASSUME NEW v \in Values, enqueue_step(v) PROVE FifoTypeOK'
  BY <1>1, <1>2, ZenonT(30) DEF enqueue_step, enqueue, FifoTypeOK, Rings
<1>3. CASE dequeue_step
  BY <1>1, <1>3, ZenonT(30) DEF dequeue_step, dequeue, FifoTypeOK, Rings
<1>4. CASE reset_step
  BY <1>4, FifoAssumption DEF reset_step, reset_ptr, FifoTypeOK, Rings
<1>5. CASE UNCHANGED fifoVars
  BY <1>5 DEF fifoVars, FifoTypeOK
<1> QED
  BY <1>2, <1>3, <1>4, <1>5 DEF FifoNext

(* What len says of the two pointers.                                      *)
LEMMA Length ==
    ASSUME NEW f \in Rings
    PROVE  /\ len(f) = IF f.read_ptr <= f.write_ptr THEN f.write_ptr - f.read_ptr
                       ELSE f.write_ptr + SIZE - f.read_ptr
           /\ len(f) \in 0 .. SIZE - 1
           /\ is_full(f) <=> len(f) = SIZE - 1
           /\ is_empty(f) <=> len(f) = 0
           /\ Contents(f) \in Seq(Values)
           /\ Len(Contents(f)) = len(f)
<1>1. f.read_ptr \in 0 .. SIZE - 1 /\ f.write_ptr \in 0 .. SIZE - 1
  BY DEF Rings
<1>2. len(f) = IF f.read_ptr <= f.write_ptr THEN f.write_ptr - f.read_ptr
               ELSE f.write_ptr + SIZE - f.read_ptr
  BY <1>1, Around DEF len
<1>3. len(f) \in 0 .. SIZE - 1
  BY <1>1, <1>2, FifoAssumption
<1>4. is_full(f) <=> len(f) = SIZE - 1
  <2>1. (f.write_ptr + 1) % SIZE = IF f.write_ptr + 1 = SIZE THEN 0 ELSE f.write_ptr + 1
    BY <1>1, Around
  <2> QED
    BY <1>1, <1>2, <2>1, FifoAssumption DEF is_full
<1>5. is_empty(f) <=> len(f) = 0
  BY <1>1, <1>2, FifoAssumption DEF is_empty
<1>6. \A i \in 1 .. len(f) : f.buf[(f.read_ptr + i - 1) % SIZE] \in Values
  <2>1. \A i \in 1 .. len(f) : (f.read_ptr + i - 1) % SIZE \in 0 .. SIZE - 1
    BY <1>1, <1>3, FifoAssumption
  <2> QED
    BY <2>1, ZenonT(30) DEF Rings
<1>7. Contents(f) \in Seq(Values) /\ Len(Contents(f)) = len(f)
  BY <1>3, <1>6 DEF Contents
<1> QED
  BY <1>2, <1>3, <1>4, <1>5, <1>7

(* The buffer of a ring is a function on its slots.                        *)
LEMMA BufferOf ==
    ASSUME NEW f \in Rings
    PROVE  f.buf \in [0 .. SIZE - 1 -> Values]
BY DEF Rings

(* enqueue appends to the values between the pointers.                     *)
LEMMA EnqueueAppends ==
    ASSUME NEW f \in Rings, NEW v \in Values, ~is_full(f)
    PROVE  Contents(enqueue(f, v)) = Append(Contents(f), v)
<1> DEFINE g == enqueue(f, v)
           n == len(f)
           r == f.read_ptr
           w == f.write_ptr
<1>1. r \in 0 .. SIZE - 1 /\ w \in 0 .. SIZE - 1
  BY DEF Rings
<1>2. /\ g.read_ptr = r
      /\ g.write_ptr = IF w + 1 = SIZE THEN 0 ELSE w + 1
      /\ g.buf = [f.buf EXCEPT ![w] = v]
      /\ g \in Rings
  BY <1>1, Around, FifoAssumption DEF enqueue, Rings
<1>3. /\ n = IF r <= w THEN w - r ELSE w + SIZE - r
      /\ n \in 0 .. SIZE - 2
      /\ Contents(f) \in Seq(Values) /\ Len(Contents(f)) = n
  <2>1. n \in 0 .. SIZE - 1 /\ n # SIZE - 1
    BY Length
  <2>2. n \in 0 .. SIZE - 2
    BY <2>1, FifoAssumption
  <2> QED
    BY <2>2, Length
<1> HIDE DEF g, n, r, w
<1>4. /\ len(g) = IF g.read_ptr <= g.write_ptr THEN g.write_ptr - g.read_ptr
                  ELSE g.write_ptr + SIZE - g.read_ptr
      /\ Contents(g) \in Seq(Values) /\ Len(Contents(g)) = len(g)
  BY <1>2, Length
<1>5. len(g) = n + 1
  BY <1>1, <1>2, <1>3, <1>4, FifoAssumption
<1>6. \A i \in 1 .. n : (r + i - 1) % SIZE \in (0 .. SIZE - 1) \ {w}
  <2> TAKE i \in 1 .. n
  <2>1. i - 1 \in 0 .. SIZE - 1 /\ r + i - 1 = r + (i - 1)
    BY <1>1, <1>3, FifoAssumption
  <2>2. (r + (i - 1)) % SIZE =
           IF r + (i - 1) < SIZE THEN r + (i - 1) ELSE r + (i - 1) - SIZE
    BY <1>1, <2>1, Around
  <2> QED
    BY <1>1, <1>3, <2>1, <2>2, FifoAssumption
<1>7. (r + n) % SIZE = w
  <2>1. n \in 0 .. SIZE - 1
    BY <1>3, FifoAssumption
  <2>2. (r + n) % SIZE = IF r + n < SIZE THEN r + n ELSE r + n - SIZE
    BY <1>1, <2>1, Around
  <2> QED
    BY <1>1, <1>3, <2>2, FifoAssumption
<1>8. \A i \in 1 .. n : Contents(g)[i] = Contents(f)[i]
  <2> TAKE i \in 1 .. n
  <2>1. Contents(g)[i] = g.buf[(g.read_ptr + i - 1) % SIZE]
    BY <1>3, <1>5 DEF Contents
  <2>2. Contents(f)[i] = f.buf[(r + i - 1) % SIZE]
    BY DEF Contents, n, r
  <2>3. \A k \in (0 .. SIZE - 1) \ {w} : g.buf[k] = f.buf[k]
    BY <1>1, <1>2, BufferOf
  <2>4. g.buf[(r + i - 1) % SIZE] = f.buf[(r + i - 1) % SIZE]
    BY <1>6, <2>3
  <2> QED
    BY <1>2, <2>1, <2>2, <2>4
<1>9. Contents(g)[n + 1] = v
  <2>1. n + 1 \in 1 .. len(g) /\ r + (n + 1) - 1 = r + n
    BY <1>1, <1>3, <1>5
  <2>2. Contents(g)[n + 1] = g.buf[(g.read_ptr + (n + 1) - 1) % SIZE]
    BY <2>1 DEF Contents
  <2>3. Contents(g)[n + 1] = g.buf[w]
    BY <1>2, <1>7, <2>1, <2>2
  <2> QED
    BY <1>1, <1>2, <2>3, BufferOf, ZenonT(30)
<1>10. Contents(g) = Append(Contents(f), v)
  BY <1>3, <1>4, <1>5, <1>8, <1>9
<1> QED
  BY <1>10 DEF g

(* dequeue removes the first of the values between the pointers, which is  *)
(* the one it returns.                                                     *)
LEMMA DequeueRemoves ==
    ASSUME NEW f \in Rings, ~is_empty(f)
    PROVE  /\ Contents(f) # << >>
           /\ front(f) = Head(Contents(f))
           /\ Contents(dequeue(f)) = Tail(Contents(f))
<1> DEFINE g == dequeue(f)
           n == len(f)
           r == f.read_ptr
           w == f.write_ptr
           q == g.read_ptr
<1>1. r \in 0 .. SIZE - 1 /\ w \in 0 .. SIZE - 1
  BY DEF Rings
<1>2. /\ q = IF r + 1 = SIZE THEN 0 ELSE r + 1
      /\ g.write_ptr = w
      /\ g.buf = f.buf
      /\ g \in Rings
  BY <1>1, Around, FifoAssumption DEF dequeue, Rings
<1>3. /\ n = IF r <= w THEN w - r ELSE w + SIZE - r
      /\ n \in 1 .. SIZE - 1
      /\ Contents(f) \in Seq(Values) /\ Len(Contents(f)) = n
  <2>1. n \in 0 .. SIZE - 1 /\ n # 0
    BY Length
  <2>2. n \in 1 .. SIZE - 1
    BY <2>1, FifoAssumption
  <2> QED
    BY <2>2, Length
<1>4. Contents(f) # << >> /\ front(f) = Head(Contents(f))
  <2>1. r + 1 - 1 = r /\ r % SIZE = r
    BY <1>1, FifoAssumption
  <2>2. Contents(f)[1] = front(f)
    BY <1>3, <2>1 DEF Contents, front
  <2> QED
    BY <1>3, <2>2
<1> HIDE DEF g, n, r, w
<1>5. /\ len(g) = IF q <= g.write_ptr THEN g.write_ptr - q ELSE g.write_ptr + SIZE - q
      /\ Contents(g) \in Seq(Values) /\ Len(Contents(g)) = len(g)
  BY <1>2, Length
<1> HIDE DEF q
<1>6. len(g) = n - 1 /\ q \in 0 .. SIZE - 1
  BY <1>1, <1>2, <1>3, <1>5, FifoAssumption
<1>7. \A i \in 1 .. len(g) : (q + i - 1) % SIZE = (r + (i + 1) - 1) % SIZE
  <2> TAKE i \in 1 .. len(g)
  <2>1. /\ i - 1 \in 0 .. SIZE - 1 /\ i \in 0 .. SIZE - 1
        /\ q + i - 1 = q + (i - 1) /\ r + (i + 1) - 1 = r + i
    BY <1>1, <1>3, <1>6, FifoAssumption
  <2>2. (q + (i - 1)) % SIZE =
           IF q + (i - 1) < SIZE THEN q + (i - 1) ELSE q + (i - 1) - SIZE
    BY <1>6, <2>1, Around
  <2>3. (r + i) % SIZE = IF r + i < SIZE THEN r + i ELSE r + i - SIZE
    BY <1>1, <2>1, Around
  <2>4. (q + (i - 1)) % SIZE = (r + i) % SIZE
    BY <1>1, <1>2, <2>1, <2>2, <2>3, FifoAssumption
  <2> QED
    BY <2>1, <2>4
<1>8. \A i \in 1 .. len(g) : Contents(g)[i] = Contents(f)[i + 1]
  <2> TAKE i \in 1 .. len(g)
  <2>1. Contents(g)[i] = g.buf[(q + i - 1) % SIZE]
    BY DEF Contents, q
  <2>2. i + 1 \in 1 .. n
    BY <1>3, <1>6
  <2>3. Contents(f)[i + 1] = f.buf[(r + (i + 1) - 1) % SIZE]
    BY <2>2 DEF Contents, n, r
  <2>4. (q + i - 1) % SIZE = (r + (i + 1) - 1) % SIZE
    BY <1>7
  <2> QED
    BY <1>2, <2>1, <2>3, <2>4
<1>9. Contents(g) = Tail(Contents(f))
  BY <1>3, <1>5, <1>6, <1>8
<1> QED
  BY <1>4, <1>9 DEF g

(* A ring whose pointers are reset holds nothing.                          *)
LEMMA ResetEmpties ==
    ASSUME NEW f \in Rings
    PROVE  reset_ptr(f) \in Rings /\ Contents(reset_ptr(f)) = << >>
<1>1. reset_ptr(f) \in Rings /\ is_empty(reset_ptr(f))
  BY FifoAssumption DEF reset_ptr, Rings, is_empty
<1> QED
  BY <1>1, Length

(* The ring of util/fifo.rs implements the bounded queue of SIZE - 1       *)
(* values: every call gives the answer the queue gives.                    *)
THEOREM RingIsAQueue == FifoSpec => IsQueue
<1>1. FifoInit => FifoTypeOK /\ Q!Init
  <2> SUFFICES ASSUME FifoInit PROVE FifoTypeOK /\ Q!Init
    OBVIOUS
  <2>1. fifo \in Rings /\ is_empty(fifo)
    BY FifoAssumption DEF FifoInit, new, Rings, is_empty
  <2>2. Contents(fifo) = << >>
    BY <2>1, Length
  <2> QED
    BY <2>1, <2>2 DEF FifoTypeOK, FifoInit, Q!Init
<1>2. FifoTypeOK /\ [FifoNext]_fifoVars => [Q!Next]_<<Contents(fifo), answer>>
  <2> SUFFICES ASSUME FifoTypeOK, [FifoNext]_fifoVars PROVE [Q!Next]_<<Contents(fifo), answer>>
    OBVIOUS
  <2> USE DEF FifoTypeOK
  <2>1. ASSUME NEW v \in Values, enqueue_step(v) PROVE Q!Put(v)
    <3>1. CASE is_full(fifo)
      <4>1. fifo' = fifo /\ answer' = <<"BufferFull">> /\ ~(Len(Contents(fifo)) < SIZE - 1)
        BY <2>1, <3>1, Length DEF enqueue_step, enqueue
      <4> QED
        BY <4>1 DEF Q!Put
    <3>2. CASE ~is_full(fifo)
      <4>1. /\ Contents(fifo)' = Append(Contents(fifo), v)
            /\ answer' = <<"Ok">>
            /\ Len(Contents(fifo)) < SIZE - 1
        BY <2>1, <3>2, Length, EnqueueAppends, FifoAssumption DEF enqueue_step
      <4> QED
        BY <4>1 DEF Q!Put
    <3> QED
      BY <3>1, <3>2
  <2>2. ASSUME dequeue_step PROVE Q!Take
    <3>1. CASE is_empty(fifo)
      <4>1. fifo' = fifo /\ answer' = <<"BufferEmpty">> /\ Contents(fifo) = << >>
        BY <2>2, <3>1, Length DEF dequeue_step, dequeue
      <4> QED
        BY <4>1 DEF Q!Take
    <3>2. CASE ~is_empty(fifo)
      <4>1. /\ Contents(fifo) # << >>
            /\ Contents(fifo)' = Tail(Contents(fifo))
            /\ answer' = <<"value", Head(Contents(fifo))>>
        BY <2>2, <3>2, DequeueRemoves DEF dequeue_step
      <4> QED
        BY <4>1 DEF Q!Take
    <3> QED
      BY <3>1, <3>2
  <2>3. ASSUME reset_step PROVE Q!Clear
    BY <2>3, ResetEmpties DEF reset_step, Q!Clear
  <2>4. ASSUME UNCHANGED fifoVars PROVE UNCHANGED <<Contents(fifo), answer>>
    BY <2>4 DEF fifoVars
  <2> QED
    BY <2>1, <2>2, <2>3, <2>4 DEF FifoNext, Q!Next
<1>3. FifoTypeOK /\ [FifoNext]_fifoVars => FifoTypeOK'
  BY RingStep
<1> QED
  BY <1>1, <1>2, <1>3, PTL DEF FifoSpec, IsQueue, Q!Spec

----------------------------------------------------------------------------
(* Frames, for every memory map, every size of a Bitmap and of a page, and *)
(* every set of lengths.                                                   *)
(*                                                                         *)
(* The inductive invariant says which frames have their bit set, and that  *)
(* the MemoryFrames handed out do not overlap: without the first part a    *)
(* run found free could belong to somebody, without the second clearing    *)
(* the bits of one MemoryFrame could clear those of another.               *)
BitmapInv ==
    /\ frames \subseteq Nat \X (Lens \ {0})
    /\ FramesDisjoint
    /\ NothingLost

(* After bitmap::init nobody holds a frame and the bits that are set are   *)
(* those of the reserved frames.                                           *)
LEMMA BitmapInitInv == BitmapInit => BitmapInv
<1> SUFFICES ASSUME BitmapInit PROVE BitmapInv
  OBVIOUS
<1>1. frames = {} /\ allocated = Reserved(mem_map)
  BY DEF BitmapInit, Reserved
<1> QED
  BY <1>1 DEF BitmapInv, FramesDisjoint, NothingLost

(* A run the search finds is free: in nobody's hands and not reserved.     *)
LEMMA RunIsFree ==
    ASSUME BitmapInv, NEW n \in Lens \ {0}, NEW s \in FreeRuns(n)
    PROVE  /\ s \in Nat
           /\ FramesOf(<<s, n>>) \subseteq AllBits(mem_map) \ (Reserved(mem_map) \cup {0})
           /\ \A f \in frames : FramesOf(<<s, n>>) \cap FramesOf(f) = {}
<1>1. s \in AllBits(mem_map) /\ s # 0 /\ FramesOf(<<s, n>>) \subseteq AllBits(mem_map) \ allocated
  BY DEF FreeRuns, IsFree, FramesOf
<1>2. s \in Nat
  BY <1>1 DEF AllBits
<1>3. 0 \notin FramesOf(<<s, n>>)
  BY <1>1, <1>2 DEF FramesOf
<1>4. Reserved(mem_map) \subseteq allocated /\ \A f \in frames : FramesOf(f) \subseteq allocated
  BY DEF BitmapInv, NothingLost
<1> QED
  BY <1>1, <1>2, <1>3, <1>4

(* Handing out the run the search finds keeps the invariant.               *)
LEMMA AllocKeeps ==
    ASSUME BitmapInv, NEW n \in Lens, alloc_mem_frame(n)
    PROVE  BitmapInv'
<1>1. PICK s \in FreeRuns(n) : /\ n # 0
                                 /\ allocated' = allocated \cup FramesOf(<<s, n>>)
                                 /\ frames' = frames \cup {<<s, n>>}
                                 /\ mem_map' = mem_map
  BY DEF alloc_mem_frame, alloc_frame
<1>2. /\ s \in Nat
      /\ FramesOf(<<s, n>>) \subseteq AllBits(mem_map) \ (Reserved(mem_map) \cup {0})
      /\ \A f \in frames : FramesOf(<<s, n>>) \cap FramesOf(f) = {}
  BY <1>1, RunIsFree
<1>3. (frames \subseteq Nat \X (Lens \ {0}))'
  BY <1>1, <1>2 DEF BitmapInv
<1>4. FramesDisjoint'
  BY <1>1, <1>2 DEF BitmapInv, FramesDisjoint
<1>5. NothingLost'
  <2>1. UNION {FramesOf(f) : f \in frames'}
            = (UNION {FramesOf(f) : f \in frames}) \cup FramesOf(<<s, n>>)
    BY <1>1
  <2> QED
    BY <1>1, <2>1 DEF BitmapInv, NothingLost
<1> QED
  BY <1>3, <1>4, <1>5 DEF BitmapInv

(* Giving back a MemoryFrame clears its bits and no others.                *)
LEMMA DeallocKeeps ==
    ASSUME BitmapInv, NEW f \in frames, dealloc_mem_frame(f)
    PROVE  BitmapInv'
<1>1. /\ allocated' = allocated \ FramesOf(f)
      /\ frames' = frames \ {f}
      /\ mem_map' = mem_map
  BY DEF dealloc_mem_frame, dealloc_frame
<1>2. FramesOf(f) \cap Reserved(mem_map) = {}
  BY DEF BitmapInv, FramesDisjoint
<1>3. \A g \in frames \ {f} : FramesOf(f) \cap FramesOf(g) = {}
  BY DEF BitmapInv, FramesDisjoint
<1>4. (frames \subseteq Nat \X (Lens \ {0}))' /\ FramesDisjoint'
  BY <1>1 DEF BitmapInv, FramesDisjoint
<1>5. NothingLost'
  <2>1. UNION {FramesOf(g) : g \in frames}
            = FramesOf(f) \cup UNION {FramesOf(g) : g \in frames \ {f}}
    OBVIOUS
  <2>2. FramesOf(f) \cap UNION {FramesOf(g) : g \in frames \ {f}} = {}
    BY <1>3
  <2> QED
    BY <1>1, <1>2, <2>1, <2>2 DEF BitmapInv, NothingLost
<1> QED
  BY <1>4, <1>5 DEF BitmapInv

(* The bitmap and the frames handed out agree after every call of          *)
(* mem/bitmap.rs.                                                          *)
LEMMA BitmapInvariant == BitmapSpec => []BitmapInv
<1>1. BitmapInv /\ [BitmapNext]_bitmapVars => BitmapInv'
  <2> SUFFICES ASSUME BitmapInv, [BitmapNext]_bitmapVars PROVE BitmapInv'
    OBVIOUS
  <2>1. CASE \E n \in Lens : alloc_mem_frame(n)
    BY <2>1, AllocKeeps
  <2>2. CASE \E f \in frames : dealloc_mem_frame(f)
    BY <2>2, DeallocKeeps
  <2>3. CASE UNCHANGED bitmapVars
    BY <2>3 DEF BitmapInv, FramesDisjoint, NothingLost, bitmapVars
  <2> QED
    BY <2>1, <2>2, <2>3 DEF BitmapNext
<1> QED
  BY BitmapInitInv, <1>1, PTL DEF BitmapSpec

(* No frame is ever handed out twice, nor one that is reserved or frame 0, *)
(* whatever the memory map and the lengths asked for.                      *)
THEOREM FramesNeverShared == BitmapSpec => []FramesDisjoint
<1>1. BitmapInv => FramesDisjoint
  BY DEF BitmapInv
<1> QED
  BY BitmapInvariant, <1>1, PTL

(* No frame is ever lost.                                                  *)
THEOREM FramesNeverLost == BitmapSpec => []NothingLost
<1>1. BitmapInv => NothingLost
  BY DEF BitmapInv
<1> QED
  BY BitmapInvariant, <1>1, PTL

(* Giving back a MemoryFrame never finds its bits already clear, so that   *)
(* no drop of a MemoryFrame panics in dealloc_mem_frame.                   *)
THEOREM FramesNeverFreedTwice == BitmapSpec => []NoDoubleFree
<1>1. BitmapInv => NoDoubleFree
  BY DEF BitmapInv, NothingLost, NoDoubleFree
<1> QED
  BY BitmapInvariant, <1>1, PTL

----------------------------------------------------------------------------
(* Registers, for every set of tasks.  RegistersKept is inductive as it    *)
(* stands: it says where each task's registers are, on the processor, in   *)
(* what the interrupt pushed or in the context saved for it.               *)

(* What an interrupted task had in its registers is what was pushed and    *)
(* what the handler leaves alone.                                          *)
LEMMA SavedIsFile ==
    ASSUME ContextTypeOK
    PROVE  /\ SavedContext \in Files
           /\ \A r \in Registers : SavedContext[r] = IF r \in Pushed THEN interrupted[r] ELSE cpu[r]
BY DEF ContextTypeOK, SavedContext, Files, Registers, Pushed

(* A task that computes changes the registers on the processor and nothing *)
(* else.                                                                   *)
LEMMA ContextExecute ==
    ASSUME RegistersKept, NEW r \in Registers, execute(r)
    PROVE  RegistersKept'
<1>1. /\ ~in_isr /\ in_isr' = in_isr /\ on_cpu' = on_cpu
      /\ cpu' = [cpu EXCEPT ![r] = 1 - own[on_cpu][r]]
      /\ own' = [own EXCEPT ![on_cpu] = [own[on_cpu] EXCEPT ![r] = 1 - own[on_cpu][r]]]
      /\ context' = context /\ interrupted' = interrupted
  BY DEF execute
<1>2. ContextTypeOK /\ cpu = own[on_cpu]
  BY <1>1 DEF RegistersKept
<1>3. 1 - own[on_cpu][r] \in {0, 1}
  BY <1>2 DEF ContextTypeOK
<1>4. ContextTypeOK'
  BY <1>1, <1>2, <1>3 DEF ContextTypeOK, Files
<1>5. cpu' = own'[on_cpu']
  BY <1>1, <1>2 DEF ContextTypeOK
<1>6. \A t \in CpuTasks \ {on_cpu} : context'[t] = own'[t]
  BY <1>1, <1>2 DEF ContextTypeOK, RegistersKept
<1> QED
  BY Zenon, <1>1, <1>4, <1>5, <1>6 DEF RegistersKept

(* switch_context: the registers of the task that leaves are saved, those  *)
(* of the one that comes are loaded.                                       *)
LEMMA ContextSwitch ==
    ASSUME RegistersKept, NEW t \in CpuTasks, switch_context(t)
    PROVE  RegistersKept'
<1>1. /\ ~in_isr /\ in_isr' = in_isr /\ t # on_cpu /\ on_cpu' = t
      /\ cpu' = context[t] /\ own' = own
      /\ context' = [context EXCEPT ![on_cpu] = cpu]
      /\ interrupted' = interrupted
  BY DEF switch_context
<1>2. ContextTypeOK /\ cpu = own[on_cpu]
  BY <1>1 DEF RegistersKept
<1>3. ContextTypeOK'
  BY <1>1, <1>2 DEF ContextTypeOK
<1>4. cpu' = own'[on_cpu']
  BY <1>1, <1>2 DEF RegistersKept
<1>5. \A u \in CpuTasks \ {t} : context'[u] = own'[u]
  BY <1>1, <1>2 DEF ContextTypeOK, RegistersKept
<1> QED
  BY <1>1, <1>3, <1>4, <1>5 DEF RegistersKept

(* preempt_timer_isr pushes the registers of the interrupted task.         *)
LEMMA ContextIsr ==
    ASSUME RegistersKept, preempt_timer_isr
    PROVE  RegistersKept'
<1>1. /\ ~in_isr /\ in_isr' = TRUE /\ on_cpu' = on_cpu /\ own' = own /\ context' = context
      /\ interrupted' = [r \in Pushed |-> cpu[r]]
      /\ cpu' = [r \in Registers |-> IF r \in Pushed THEN Junk ELSE cpu[r]]
  BY DEF preempt_timer_isr
<1>2. ContextTypeOK /\ cpu = own[on_cpu]
  BY <1>1 DEF RegistersKept
<1>3. ContextTypeOK'
  BY <1>1, <1>2 DEF ContextTypeOK, Files, Registers, Pushed
<1>4. SavedContext' = cpu
  BY <1>1, <1>2 DEF ContextTypeOK, SavedContext, Files, Registers, Pushed
<1> QED
  BY <1>1, <1>2, <1>3, <1>4 DEF RegistersKept

(* The return from the timer interrupt without a switch takes the pushed   *)
(* registers back.                                                         *)
LEMMA ContextPop ==
    ASSUME RegistersKept, pop_and_iretq
    PROVE  RegistersKept'
<1>1. /\ in_isr /\ in_isr' = FALSE /\ on_cpu' = on_cpu /\ own' = own /\ context' = context
      /\ interrupted' = [r \in Pushed |-> Junk]
      /\ cpu' = SavedContext
  BY DEF pop_and_iretq, SavedContext
<1>2. ContextTypeOK /\ SavedContext = own[on_cpu]
  BY <1>1 DEF RegistersKept
<1>3. ContextTypeOK'
  BY Zenon, <1>1, <1>2, SavedIsFile DEF ContextTypeOK
<1> QED
  BY <1>1, <1>2, <1>3 DEF RegistersKept

(* The return with a switch saves what was pushed in the context of the    *)
(* old task.                                                               *)
LEMMA ContextRestore ==
    ASSUME RegistersKept, NEW t \in CpuTasks, restore_context_and_iret(t)
    PROVE  RegistersKept'
<1>1. /\ in_isr /\ in_isr' = FALSE /\ on_cpu' = t /\ own' = own
      /\ context' = [context EXCEPT ![on_cpu] = SavedContext]
      /\ cpu' = context'[t]
      /\ interrupted' = [r \in Pushed |-> Junk]
  BY DEF restore_context_and_iret
<1>2. ContextTypeOK /\ SavedContext = own[on_cpu]
  BY <1>1 DEF RegistersKept
<1>3. context' \in [CpuTasks -> Files]
  BY <1>1, <1>2, SavedIsFile DEF ContextTypeOK
<1>4. ContextTypeOK'
  BY Zenon, <1>1, <1>2, <1>3 DEF ContextTypeOK
<1>5. \A u \in CpuTasks : context'[u] = own[u]
  BY <1>1, <1>2 DEF ContextTypeOK, RegistersKept
<1> QED
  BY <1>1, <1>4, <1>5 DEF RegistersKept

(* A task finds its registers as it left them, however many tasks share    *)
(* the processor and whichever way it was switched out and in.             *)
THEOREM TasksKeepTheirRegisters == ContextSpec => []RegistersKept
<1>1. ContextInit => RegistersKept
  <2> SUFFICES ASSUME ContextInit PROVE RegistersKept
    OBVIOUS
  <2>1. /\ own = [t \in CpuTasks |-> [r \in Registers |-> 0]] /\ context = own
        /\ cpu = [r \in Registers |-> 0]
        /\ interrupted = [r \in Pushed |-> Junk]
        /\ on_cpu \in CpuTasks /\ in_isr = FALSE
    BY DEF ContextInit
  <2>2. own \in [CpuTasks -> [Registers -> {0, 1}]] /\ context \in [CpuTasks -> Files]
    BY <2>1 DEF Files
  <2>3. ContextTypeOK
    BY Zenon, <2>1, <2>2 DEF ContextTypeOK, Files
  <2> QED
    BY <2>1, <2>3 DEF RegistersKept
<1>2. RegistersKept /\ [ContextNext]_contextVars => RegistersKept'
  <2> SUFFICES ASSUME RegistersKept, [ContextNext]_contextVars PROVE RegistersKept'
    OBVIOUS
  <2>1. CASE \E r \in Registers : execute(r)
    BY <2>1, ContextExecute
  <2>2. CASE preempt_timer_isr
    BY <2>2, ContextIsr
  <2>3. CASE pop_and_iretq
    BY <2>3, ContextPop
  <2>4. CASE \E t \in CpuTasks : switch_context(t)
    BY <2>4, ContextSwitch
  <2>5. CASE \E t \in CpuTasks : restore_context_and_iret(t)
    BY <2>5, ContextRestore
  <2>6. CASE UNCHANGED contextVars
    BY <2>6 DEF contextVars, RegistersKept, ContextTypeOK, SavedContext
  <2> QED
    BY <2>1, <2>2, <2>3, <2>4, <2>5, <2>6 DEF ContextNext
<1> QED
  BY <1>1, <1>2, PTL DEF ContextSpec
=============================================================================
