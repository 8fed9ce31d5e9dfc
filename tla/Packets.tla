------------------------------ MODULE Packets ------------------------------
(* What is on the wire: the headers of net/eth.rs, arp.rs, ip.rs, icmp.rs, *)
(* udp.rs and tcp.rs as the bytes they are, the checksums of               *)
(* net/checksum.rs, and the path of a frame through                        *)
(* NetworkManager::receive_eth_payload to a socket and to a reply.  A      *)
(* packet is a record, to_vec its bytes, and a try_from the set with the   *)
(* packet, or without any where the code returns an error.                 *)
EXTENDS Naturals, Sequences

CONSTANTS
    Datas,         \* what a packet carries: sequences of bytes
    Options        \* TCP options

VARIABLES
    pc,
    asked,         \* what the peer sends, or a task here
    frame,         \* its bytes on the wire
    got,           \* what a socket is handed
    reply          \* the bytes of the frame sent in return

vars == <<pc, asked, frame, got, reply>>

MyAddr == <<10, 0, 2, 15>>
Peer == <<10, 0, 2, 2>>
MyMac == <<82, 84, 0, 18, 52, 86>>
PeerMac == <<82, 85, 10, 0, 2, 2>>

b16(n) == <<n \div 256, n % 256>>
u16(v, i) == v[i] * 256 + v[i + 1]
resize(v, n) == [i \in 1 .. n |-> IF i <= Len(v) THEN v[i] ELSE 0]
From(v, i) == SubSeq(v, i, Len(v))

----------------------------------------------------------------------------
(* checksum_words: big endian words, the last byte of an odd number high.  *)
checksum_words(data) ==
    LET word(i) == data[2 * i - 1] * 256 + (IF 2 * i <= Len(data) THEN data[2 * i] ELSE 0)
        sum[i \in 0 .. (Len(data) + 1) \div 2] == IF i = 0 THEN 0 ELSE sum[i - 1] + word(i)
    IN  sum[(Len(data) + 1) \div 2]

carried(sum) == (sum % 65536) + (sum \div 65536)

(* The loop of fold_checksum ends after two rounds for a sum of 32 bits.   *)
fold_checksum(sum) == 65535 - carried(carried(sum))

pseudo_header_sum(src, dst, protocol, len) ==
    u16(src, 1) + u16(src, 3) + u16(dst, 1) + u16(dst, 3) + protocol + len

----------------------------------------------------------------------------
(* ICMP: [ty, code, checksum, id, seq, data]                               *)
icmp_to_vec(p) ==
    <<p.ty, p.code>> \o b16(p.checksum) \o b16(p.id) \o b16(p.seq) \o p.data

icmp_try_from(v) ==
    IF Len(v) < 8 THEN {}
    ELSE {[ty |-> v[1], code |-> v[2], checksum |-> u16(v, 3), id |-> u16(v, 5),
           seq |-> u16(v, 7), data |-> From(v, 9)]}

icmp_calc_checksum(p) ==
    [p EXCEPT !.checksum =
        fold_checksum(checksum_words(icmp_to_vec([p EXCEPT !.checksum = 0, !.data = << >>]))
                        + checksum_words(p.data))]

(* UDP: [src_port, dst_port, len, checksum, data]                          *)
udp_to_vec(p) ==
    b16(p.src_port) \o b16(p.dst_port) \o b16(p.len) \o b16(p.checksum) \o p.data

udp_try_from(v) ==
    IF Len(v) < 8 THEN {}
    ELSE {[src_port |-> u16(v, 1), dst_port |-> u16(v, 3), len |-> u16(v, 5),
           checksum |-> u16(v, 7), data |-> SubSeq(v, 9, u16(v, 5))]}

udp_new_with(src_port, dst_port, data) ==
    [src_port |-> src_port, dst_port |-> dst_port, len |-> 8 + Len(data),
     checksum |-> 0, data |-> data]

udp_calc_checksum(p, src, dst) ==
    LET v == udp_to_vec([p EXCEPT !.checksum = 0]) IN
    [p EXCEPT !.checksum =
        fold_checksum(pseudo_header_sum(src, dst, 17, Len(v)) + checksum_words(v))]

(* TCP: [src_port, dst_port, nums, flags, window_size, checksum,           *)
(* urgent_ptr, options, data]; nums are the bytes of the two numbers.      *)
tcp_to_vec(p) ==
    b16(p.src_port) \o b16(p.dst_port) \o p.nums \o b16(p.flags) \o b16(p.window_size)
        \o b16(p.checksum) \o b16(p.urgent_ptr) \o p.options \o p.data

tcp_try_from(v) ==
    LET header_len == (v[13] \div 16) * 4 IN
    IF Len(v) < 20 \/ header_len < 20 \/ Len(v) < header_len THEN {}
    ELSE {[src_port |-> u16(v, 1), dst_port |-> u16(v, 3), nums |-> SubSeq(v, 5, 12),
           flags |-> u16(v, 13), window_size |-> u16(v, 15), checksum |-> u16(v, 17),
           urgent_ptr |-> u16(v, 19), options |-> SubSeq(v, 21, header_len),
           data |-> From(v, header_len + 1)]}

tcp_new_with(src_port, dst_port, nums, flags, options, data) ==
    LET words == (20 + Len(options) + 3) \div 4 IN
    [src_port |-> src_port, dst_port |-> dst_port, nums |-> nums,
     flags |-> words * 4096 + flags, window_size |-> 65535, checksum |-> 0,
     urgent_ptr |-> 0, options |-> resize(options, words * 4 - 20), data |-> data]

tcp_sum(p, src, dst) ==
    LET v == tcp_to_vec(p) IN
    fold_checksum(pseudo_header_sum(src, dst, 6, Len(v)) + checksum_words(v))

tcp_calc_checksum(p, src, dst) ==
    [p EXCEPT !.checksum = tcp_sum([p EXCEPT !.checksum = 0], src, dst)]

tcp_verify_checksum(p, src, dst) == tcp_sum(p, src, dst) \in {65535, 0}

----------------------------------------------------------------------------
(* IPv4: [version_ihl, dscp_ecn, len, id, flags, ttl, protocol, checksum,  *)
(* src, dst, data]                                                         *)
ip_to_vec(p) ==
    <<p.version_ihl, p.dscp_ecn>> \o b16(p.len) \o b16(p.id) \o b16(p.flags)
        \o <<p.ttl, p.protocol>> \o b16(p.checksum) \o p.src \o p.dst \o p.data


(* The header's length ends the data, or the bytes there are.              *)
ip_data_end(ihl, len, n) ==
    LET end == ihl + (IF len > ihl THEN len - ihl ELSE 0) IN
    IF end < n THEN end ELSE n

ip_try_from(v) ==
    LET ihl == (v[1] % 16) * 4 IN
    IF Len(v) < 20 \/ Len(v) < ihl THEN {}
    ELSE {[version_ihl |-> v[1], dscp_ecn |-> v[2], len |-> u16(v, 3), id |-> u16(v, 5),
           flags |-> u16(v, 7), ttl |-> v[9], protocol |-> v[10], checksum |-> u16(v, 11),
           src |-> SubSeq(v, 13, 16), dst |-> SubSeq(v, 17, 20),
           data |-> SubSeq(v, ihl + 1, ip_data_end(ihl, u16(v, 3), Len(v)))]}

ip_new_with(version_ihl, dscp_ecn, id, flags, protocol, src, dst, payload) ==
    [version_ihl |-> version_ihl, dscp_ecn |-> dscp_ecn, len |-> 20 + Len(payload), id |-> id,
     flags |-> flags, ttl |-> 64, protocol |-> protocol, checksum |-> 0,
     src |-> src, dst |-> dst, data |-> payload]

ip_calc_checksum(p) ==
    LET v == ip_to_vec([p EXCEPT !.checksum = 0])
        ihl == (p.version_ihl % 16) * 4
    IN  [p EXCEPT !.checksum =
            fold_checksum(checksum_words(SubSeq(v, 1, IF ihl < Len(v) THEN ihl ELSE Len(v))))]

validate(p) == p.version_ihl \div 16 = 4 /\ p.ttl # 0

(* ARP: the fixed fields, then [op, sender_eth, sender, target_eth, target] *)
arp_to_vec(p) ==
    <<0, 1, 8, 0, 6, 4>> \o b16(p.op) \o p.sender_eth \o p.sender \o p.target_eth \o p.target

arp_try_from(v) ==
    IF Len(v) < 28 THEN {}
    ELSE {[op |-> u16(v, 7), sender_eth |-> SubSeq(v, 9, 14), sender |-> SubSeq(v, 15, 18),
           target_eth |-> SubSeq(v, 19, 24), target |-> SubSeq(v, 25, 28)]}

(* Ethernet: [dst_mac, src_mac, eth_type, payload]                         *)
EthernetType == [Ipv4 |-> 2048, Arp |-> 2054]

(* EthernetFrame::to_vec reads the payload and writes it again, and pads.  *)
Payload(eth_type, payload) ==
    IF eth_type = EthernetType.Arp THEN {arp_to_vec(p) : p \in arp_try_from(payload)}
    ELSE {ip_to_vec(p) : p \in ip_try_from(payload)}

eth_to_vec(f) ==
    LET payload == CHOOSE v \in Payload(f.eth_type, f.payload) : TRUE
        padded == IF Len(payload) < 46 THEN 46 ELSE Len(payload)
    IN  resize(f.dst_mac \o f.src_mac \o b16(f.eth_type) \o payload,
               IF 14 + padded < 64 THEN 64 ELSE 14 + padded)

eth_try_from(v) ==
    [dst_mac |-> SubSeq(v, 1, 6), src_mac |-> SubSeq(v, 7, 12), eth_type |-> u16(v, 13),
     payload |-> From(v, 15)]

----------------------------------------------------------------------------
Nothing == [socket |-> {}, reply |-> << >>]

receive_arp_packet(p) ==
    IF p.op = 1 /\ p.target = MyAddr
    THEN [socket |-> {}, reply |-> arp_to_vec([op |-> 2, sender_eth |-> MyMac, sender |-> MyAddr,
                                               target_eth |-> p.sender_eth, target |-> p.sender])]
    ELSE Nothing

(* What the sockets make of a segment is TcpStream's: here it is answered, *)
(* a SYN with the largest segment this side takes.                         *)
MSS == <<2, 4, 5, 180>>

tcp_reply(p) ==
    LET syn == (p.flags \div 2) % 2 = 1 IN
    tcp_new_with(p.dst_port, p.src_port, p.nums, IF syn THEN 18 ELSE 16,
                 IF syn THEN MSS ELSE << >>, << >>)

(* The payload of the reply, and what a socket is handed.                  *)
receive_payload(p) ==
    CASE p.protocol = 1 ->
           {[socket |-> {},
             reply |-> IF i.ty = 8 THEN icmp_to_vec(icmp_calc_checksum([i EXCEPT !.ty = 0]))
                       ELSE << >>] : i \in icmp_try_from(p.data)}
      [] p.protocol = 6 ->
           {IF tcp_verify_checksum(t, p.src, p.dst)
            THEN [socket |-> {t.data},
                  reply |-> tcp_to_vec(tcp_calc_checksum(tcp_reply(t), MyAddr, p.src))]
            ELSE Nothing : t \in tcp_try_from(p.data)}
      [] p.protocol = 17 ->
           {[socket |-> {u.data}, reply |-> << >>] : u \in udp_try_from(p.data)}
      [] OTHER -> {}

receive_ipv4_packet(p) ==
    IF ~validate(p) \/ p.dst # MyAddr THEN {Nothing}
    ELSE {[r EXCEPT !.reply =
              IF @ = << >> THEN @
              ELSE ip_to_vec(ip_calc_checksum(
                       ip_new_with(p.version_ihl, p.dscp_ecn, p.id, p.flags, p.protocol,
                                   MyAddr, p.src, @)))] : r \in receive_payload(p)}

(* receive_eth_payload, and the frame around the reply                     *)
receive_eth_payload(f) ==
    IF f.eth_type = EthernetType.Arp
    THEN {receive_arp_packet(p) : p \in arp_try_from(f.payload)}
    ELSE UNION {receive_ipv4_packet(p) : p \in ip_try_from(f.payload)}

(* poll_normal: the frame is read, handled and answered.                   *)
receive ==
    LET f == eth_try_from(frame)
        results == receive_eth_payload(f)
    IN
    /\ pc = "arriving"
    /\ pc' = "done"
    /\ got' = UNION {r.socket : r \in results}
    /\ reply' = IF \A r \in results : r.reply = << >> THEN << >>
                ELSE eth_to_vec([dst_mac |-> f.src_mac, src_mac |-> MyMac, eth_type |-> f.eth_type,
                                 payload |-> (CHOOSE r \in results : TRUE).reply])
    /\ UNCHANGED <<asked, frame>>

----------------------------------------------------------------------------
(* The other side sends what is asked, in the same formats; ihl 6 is a     *)
(* header with four bytes of options, spoil the byte of a segment that is  *)
(* changed on the way.                                                     *)
PacketKinds == {"udp", "tcp", "syn", "icmp", "arp"}
Asked ==
    {a \in [kind : PacketKinds, data : Datas, options : Options \cup {<< >>}, ihl : {5, 6},
            to : {MyAddr, Peer}, spoil : 0 .. 22] :
        /\ a.options # << >> => a.kind = "syn"
        /\ a.spoil # 0 => a.kind = "tcp" /\ a.ihl = 5 /\ a.to = MyAddr /\ a.spoil <= 20 + Len(a.data)
        /\ a.kind = "arp" => a.ihl = 5 /\ a.data = << >>
        /\ a.kind = "syn" => a.data = << >>}

Nums == <<0, 0, 255, 255, 128, 0, 0, 1>>

segment(a) ==
    CASE a.kind = "udp" -> udp_to_vec(udp_calc_checksum(udp_new_with(53, 4096, a.data), Peer, a.to))
      [] a.kind = "icmp" -> icmp_to_vec(icmp_calc_checksum(
                                [ty |-> 8, code |-> 0, checksum |-> 0, id |-> 1, seq |-> 65535,
                                 data |-> a.data]))
      [] OTHER -> tcp_to_vec(tcp_calc_checksum(
                      tcp_new_with(80, 4096, Nums, IF a.kind = "syn" THEN 2 ELSE 24,
                                   a.options, a.data), Peer, a.to))

Protocol(kind) == CASE kind = "udp" -> 17 [] kind = "icmp" -> 1 [] OTHER -> 6

spoiled(v, i) == IF i = 0 THEN v ELSE [v EXCEPT ![i] = 255 - @]

(* A packet with options has their four bytes behind its header.           *)
packet(a) ==
    LET p == ip_new_with(64 + a.ihl, 0, 7, 16384, Protocol(a.kind), Peer, a.to,
                         (IF a.ihl = 6 THEN <<1, 1, 1, 0>> ELSE << >>) \o spoiled(segment(a), a.spoil))
    IN  ip_to_vec(ip_calc_checksum(p))

wire(a) ==
    LET arp == a.kind = "arp"
        body == PeerMac \o b16(IF arp THEN EthernetType.Arp ELSE EthernetType.Ipv4)
                   \o (IF arp THEN arp_to_vec([op |-> 1, sender_eth |-> PeerMac, sender |-> Peer,
                                               target_eth |-> <<0, 0, 0, 0, 0, 0>>, target |-> a.to])
                       ELSE packet(a))
    IN  resize(MyMac \o body, IF 6 + Len(body) < 60 THEN 60 ELSE 6 + Len(body))

Init ==
    /\ pc = "idle"
    /\ asked = [kind |-> "arp", data |-> << >>, options |-> << >>, ihl |-> 5, to |-> MyAddr, spoil |-> 0]
    /\ frame = << >> /\ got = {} /\ reply = << >>

arrives(a) ==
    /\ pc = "idle"
    /\ asked' = a /\ frame' = wire(a) /\ pc' = "arriving"
    /\ UNCHANGED <<got, reply>>

(* send_udp_packet and send_eth_payload: a datagram of a task here.        *)
send_udp_packet(data) ==
    LET p == ip_calc_checksum(ip_new_with(69, 0, 0, 0, 17, MyAddr, Peer,
                 udp_to_vec(udp_calc_checksum(udp_new_with(4096, 53, data), MyAddr, Peer))))
    IN
    /\ pc = "idle"
    /\ asked' = [asked EXCEPT !.kind = "udp", !.data = data, !.to = Peer]
    /\ reply' = eth_to_vec([dst_mac |-> PeerMac, src_mac |-> MyMac, eth_type |-> EthernetType.Ipv4,
                            payload |-> ip_to_vec(p)])
    /\ pc' = "sent"
    /\ UNCHANGED <<frame, got>>

Next ==
    \/ \E a \in Asked : arrives(a)
    \/ \E data \in Datas : send_udp_packet(data)
    \/ receive

----------------------------------------------------------------------------
(* A socket is handed exactly the bytes that were sent to it, without the  *)
(* padding of a short frame and wherever the headers end, and a segment    *)
(* with a changed byte is dropped.                                         *)
HandedWhatWasSent ==
    pc = "done" =>
        got = IF asked.kind \in {"udp", "tcp", "syn"} /\ asked.to = MyAddr /\ asked.spoil = 0
              THEN {asked.data} ELSE {}

(* The sum of the words, with the checksum among them, is all ones.        *)
Sums(sum) == carried(carried(sum)) = 65535

(* What the other side reads in a frame from here: an answer to all it was *)
(* asked that needs one, addressed to it, with checksums that hold, the    *)
(* data of an echo and the segment size after a SYN.  (A reply to a packet *)
(* with options claims a header longer than the one it has.)               *)
Readable(f) ==
    LET p == CHOOSE p \in ip_try_from(f.payload) : TRUE
        v == p.data
    IN
    /\ f.dst_mac = PeerMac /\ f.src_mac = MyMac
    /\ IF asked.kind = "arp"
       THEN f.eth_type = EthernetType.Arp
            /\ \E a \in arp_try_from(f.payload) :
                  a = [op |-> 2, sender_eth |-> MyMac, sender |-> MyAddr, target_eth |-> PeerMac,
                       target |-> Peer]
       ELSE /\ f.eth_type = EthernetType.Ipv4
            /\ p.src = MyAddr /\ p.dst = Peer
            /\ Sums(checksum_words(SubSeq(f.payload, 1, 20)))
            /\ p.protocol = Protocol(asked.kind)
            /\ IF p.protocol = 1 THEN Sums(checksum_words(v))
               ELSE Sums(pseudo_header_sum(MyAddr, Peer, p.protocol, Len(v)) + checksum_words(v))
            /\ asked.kind = "icmp" =>
                  \E i \in icmp_try_from(v) : i.ty = 0 /\ i.seq = 65535 /\ i.data = asked.data
            /\ asked.kind = "udp" =>
                  \E u \in udp_try_from(v) : u.dst_port = 53 /\ u.data = asked.data
            /\ asked.kind \in {"tcp", "syn"} =>
                  \E t \in tcp_try_from(v) :
                     t.dst_port = 80 /\ t.data = << >> /\ t.options = (IF asked.kind = "syn" THEN MSS ELSE << >>)

AnswersReadable ==
    /\ pc = "sent" => Readable(eth_try_from(reply))
    /\ pc = "done" /\ asked.ihl = 5 =>
          IF asked.kind = "udp" \/ asked.to # MyAddr \/ asked.spoil # 0 THEN reply = << >>
          ELSE Readable(eth_try_from(reply))
=============================================================================
