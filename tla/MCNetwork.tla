----------------------------- MODULE MCNetwork -----------------------------
(* The network for TLC.  A run explores one of seven parts at a time,      *)
(* while the other variables rest: TCP sockets and their packets, both     *)
(* protocols on the same ports, a connection over a network that loses,    *)
(* repeats and reorders, and one over a network that keeps order           *)
(* (Sockets, TcpStream); the ARP table (Arp); the card and its driver      *)
(* (Rtl8139); and the bytes of the packets (Packets).                      *)
EXTENDS Sockets, TcpStream

CONSTANTS
    r1, r2,
    Senders, Hosts, Far, Gateway, Me, RETRY,
    RX_BUF_LEN, Lens, TxSlots, MaxQueue

VARIABLES
    arp_table, sender, dst, requests, frames, refused, hasty,
    cbr, capr, rok, memory, arrived, expected, packet_ptr, driver,
    tx_queue, descriptor, tx_buf, slot, failed, astray,
    packet, asked, frame, got, reply,
    part

arpVars == <<arp_table, sender, dst, requests, frames, refused, hasty>>
cardVars ==
    <<cbr, capr, rok, memory, arrived, expected, packet_ptr, driver,
      tx_queue, descriptor, tx_buf, slot, failed, astray>>
packetVars == <<packet, asked, frame, got, reply>>
vars == <<socketsVars, streamVars, arpVars, cardVars, packetVars, part>>

(* TCP alone with two peers, and both protocols with one peer and a socket *)
(* less.                                                                   *)
OnlyTcp == datagrams' = 0 /\ \A id \in DOMAIN table' : table'[id].kind = Stream
OnePeer == NEXT' <= MaxSockets /\ \A id \in DOMAIN table' : table'[id].remote # r2

(* Without order, fewer segments; with order, data is sent once and        *)
(* buffers hold what is there.                                             *)
FewSegments == Len(wire') <= MaxBytes + 1
LongReads == dropped' = 0 /\ \A i \in DOMAIN out' : out'[i].data # <<>> => i = 1

A == INSTANCE Arp WITH pc <- sender
Card == INSTANCE Rtl8139 WITH pc <- driver, buf <- tx_buf

Datas == UNION {[1 .. n -> {0, 255}] : n \in 0 .. 3} \cup {[i \in 1 .. 19 |-> i]}
P == INSTANCE Packets WITH pc <- packet, Options <- {<<2, 4, 5, 180>>, <<1>>}

ASSUME A!ArpAssumption /\ Card!Rtl8139Assumption

MCInit ==
    /\ part \in {"tcp", "both", "lossy", "ordered", "arp", "card", "packets"}
    /\ SocketsInit
    /\ StreamInit /\ (in_order <=> part = "ordered")
    /\ part \notin {"lossy", "ordered"} => state = "Closed" /\ isn = 0
    /\ A!Init /\ Card!Init /\ P!Init

sockets ==
    /\ \/ part = "tcp" /\ SocketsNext /\ OnlyTcp
       \/ part = "both" /\ SocketsNext /\ OnePeer
    /\ UNCHANGED <<streamVars, arpVars, cardVars, packetVars, part>>

stream ==
    /\ \/ part = "lossy" /\ StreamNext /\ FewSegments
       \/ part = "ordered" /\ StreamNext /\ LongReads
    /\ UNCHANGED <<socketsVars, arpVars, cardVars, packetVars, part>>

deliver ==
    /\ part = "ordered"
    /\ \E i \in DOMAIN wire : receive_segment(i)
    /\ UNCHANGED <<socketsVars, arpVars, cardVars, packetVars, part>>

receive ==
    /\ part = "ordered" /\ reader /\ LongReads
    /\ UNCHANGED <<socketsVars, arpVars, cardVars, packetVars, part>>

arpRest == UNCHANGED <<socketsVars, streamVars, cardVars, packetVars, part>>
arp == part = "arp" /\ A!Next /\ arpRest
call(s) == part = "arp" /\ A!call(s) /\ arpRest
tick == part = "arp" /\ A!tick /\ arpRest
hear == part = "arp" /\ (\E h \in Hosts : A!reply(h)) /\ arpRest

card ==
    /\ part = "card" /\ Card!Next
    /\ UNCHANGED <<socketsVars, streamVars, arpVars, packetVars, part>>

packets ==
    /\ part = "packets" /\ P!Next
    /\ UNCHANGED <<socketsVars, streamVars, arpVars, cardVars, part>>

MCNext == sockets \/ stream \/ arp \/ card \/ packets

(* poll_rtl8139 keeps taking packets from the card, and the tasks get the  *)
(* processor again and again.  The network loses requests and replies, but *)
(* not all of them, however often the driver asks.                         *)
MCSpec ==
    /\ MCInit /\ [][MCNext]_vars
    /\ WF_vars(deliver) /\ WF_vars(receive)
    /\ \A s \in Senders : WF_vars(call(s))
    /\ WF_vars(tick) /\ SF_vars(hear)

----------------------------------------------------------------------------
(* Where order is kept, a recv for which data or a FIN is under way        *)
(* returns; and a call that sends comes to its end, however much is lost   *)
(* before an ARP request and its reply get through.                        *)
CallsReturn ==
    /\ (part = "ordered") => RecvReturns
    /\ (part = "arp") => A!SendReturns

=============================================================================
